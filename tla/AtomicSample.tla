---------------------------- MODULE AtomicSample ----------------------------
(***************************************************************************)
(* What one sample promises: it shows the VM as it was at one instant.     *)
(* The VM goes on after that instant; the sample is given out later, or    *)
(* given up.                                                               *)
(***************************************************************************)
CONSTANT Nothing

VARIABLES
  vm,     \* the state of the VM
  taken,  \* the state a sample was taken of, while it is worked on
  given   \* the sample given out, until the caller has used it

sampleVars == <<vm, taken, given>>

SampleInit == taken = Nothing /\ given = Nothing

Run == vm' # vm /\ UNCHANGED <<taken, given>>

Take == taken = Nothing /\ taken' = vm /\ UNCHANGED <<vm, given>>

Give == taken # Nothing /\ given' = taken /\ taken' = Nothing /\ UNCHANGED vm

GiveUp == taken # Nothing /\ taken' = Nothing /\ UNCHANGED <<vm, given>>

Use == given # Nothing /\ given' = Nothing /\ UNCHANGED <<vm, taken>>

SampleSpec == SampleInit /\ [][Run \/ Take \/ Give \/ GiveUp \/ Use]_sampleVars
=============================================================================

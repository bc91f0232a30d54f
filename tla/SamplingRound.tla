---------------------------- MODULE SamplingRound ----------------------------
(***************************************************************************)
(* What the sampling thread promises about one spy after another, without  *)
(* mutex, channels, threads or processes: sampling goes in rounds.  In a   *)
(* round requests are sent first and gathered then; each is answered at    *)
(* most once; and a round does not end while a request or an answer is     *)
(* under way, so a sample never holds an answer to an earlier round.       *)
(***************************************************************************)
CONSTANT Procs

VARIABLES
  phase,   \* what the sampling thread is at
  flight   \* the request to each process

roundVars == <<phase, flight>>

RoundInit == /\ phase = "idle"
             /\ flight = [p \in Procs |-> "none"]

Begin == /\ phase = "idle"
         /\ phase' = "asking"
         /\ UNCHANGED flight

Ask(p) == /\ phase = "asking"
          /\ flight[p] = "none"
          /\ flight' = [flight EXCEPT ![p] = "asked"]
          /\ UNCHANGED phase

Gather == /\ phase = "asking"
          /\ phase' = "gathering"
          /\ UNCHANGED flight

Answer(p) == /\ flight[p] = "asked"
             /\ flight' = [flight EXCEPT ![p] = "answered"]
             /\ UNCHANGED phase

\* The spy ended without an answer.
Lose(p) == /\ flight[p] = "asked"
           /\ flight' = [flight EXCEPT ![p] = "none"]
           /\ UNCHANGED phase

Take(p) == /\ phase = "gathering"
           /\ flight[p] = "answered"
           /\ flight' = [flight EXCEPT ![p] = "none"]
           /\ UNCHANGED phase

End == /\ phase = "gathering"
       /\ \A p \in Procs : flight[p] = "none"
       /\ phase' = "idle"
       /\ UNCHANGED flight

RoundNext == \/ Begin \/ Gather \/ End
             \/ \E p \in Procs : Ask(p) \/ Answer(p) \/ Lose(p) \/ Take(p)

RoundSpec == RoundInit /\ [][RoundNext]_roundVars
=============================================================================

---------------------------- MODULE StackSpyProofs ----------------------------
(***************************************************************************)
(* Proofs about StackSpy, for any threads and any contents of the VM.      *)
(***************************************************************************)
EXTENDS StackSpy, TLAPS

USE SpyAssumption, NothingAssumption

-----------------------------------------------------------------------------
(***************************************************************************)
(* Types.                                                                  *)
(***************************************************************************)

\* What is left when a call returns is well typed.
LEMMA LeaveType ==
  ASSUME Leave
  PROVE  /\ suspended' \in BOOLEAN /\ todo' \subseteq Threads
         /\ activity' \in [Threads -> BOOLEAN \cup {Nothing}]
         /\ captures' \in [Threads -> Copies \cup {Nothing}]
         /\ traces' \in [Threads -> Copies \cup {Nothing}]
         /\ snapshot' \in Values \cup {Nothing}
<1> QED
  BY DEF Leave, NoThreads

\* An error that ends a call keeps the types.
LEMMA FailType ==
  ASSUME TypeOK, Fail, attached \/ retries < MaxRetries, UNCHANGED vmVars
  PROVE  TypeOK'
<1>1. /\ suspended' \in BOOLEAN /\ todo' \subseteq Threads
      /\ activity' \in [Threads -> BOOLEAN \cup {Nothing}]
      /\ captures' \in [Threads -> Copies \cup {Nothing}]
      /\ traces' \in [Threads -> Copies \cup {Nothing}]
      /\ snapshot' \in Values \cup {Nothing}
  BY LeaveType DEF Fail
<1>2. /\ at' \in {"idle", "new", "failed"} /\ retries' \in 0 .. MaxRetries
      /\ attached' \in BOOLEAN /\ UNCHANGED <<live, stack, busy, chain, sample>>
  BY DEF Fail, TypeOK, vmVars
<1> QED
  BY <1>1, <1>2 DEF TypeOK

\* One capture or trace more is well typed.
LEMMA CopyType ==
  ASSUME TypeOK, NEW f \in [Threads -> Copies \cup {Nothing}], NEW t \in Threads, NEW c \in Copies
  PROVE  [f EXCEPT ![t] = c] \in [Threads -> Copies \cup {Nothing}]
<1> QED
  OBVIOUS

\* What is given out is a sample.
LEMMA DoneType ==
  ASSUME TypeOK, SpyInv, Done
  PROVE  sample' \in Results(Copies)
<1>1. \A t \in Captured : t \in Threads /\ traces[t] \in Copies
  BY DEF Done, Captured, TypeOK
<1>2. snapshot \in Values
  BY DEF Done, SpyInv, TracesOfCopies, TypeOK
<1> QED
  BY <1>1, <1>2 DEF Done, Restrict, Results, Captured

\* Every step keeps the types.
LEMMA TypeNext ==
  ASSUME TypeOK, SpyInv, [Next]_vars
  PROVE  TypeOK'
<1>0. at \notin {"idle", "failed"} => attached \/ retries < MaxRetries
  BY DEF SpyInv, AttemptsLeft
<1>1. CASE Vm
  <2>1. /\ live' \subseteq Threads /\ stack' \in [Threads -> Values]
        /\ busy' \in [Threads -> BOOLEAN] /\ chain' \in Values
    <3>1. CASE RunImage
      BY <3>1 DEF RunImage, TypeOK
    <3>2. ASSUME NEW t \in Threads, RunThread(t)
          PROVE  /\ stack' \in [Threads -> Values] /\ busy' \in [Threads -> BOOLEAN]
                 /\ UNCHANGED <<live, chain>>
      <4>1. busy[t] \in BOOLEAN
        BY DEF TypeOK
      <4>2. CASE /\ \E v \in Values : stack' = [stack EXCEPT ![t] = v]
                  /\ busy' = busy
        BY <3>2, <4>2 DEF RunThread, TypeOK
      <4>3. CASE busy' = [busy EXCEPT ![t] = ~ @] /\ stack' = stack
        BY <3>2, <4>3 DEF RunThread, TypeOK
      <4> QED
        BY <3>2, <4>2, <4>3 DEF RunThread, TypeOK
    <3>3. ASSUME NEW t \in Threads, StartThread(t) \/ EndThread(t)
          PROVE  live' \subseteq Threads /\ UNCHANGED <<stack, busy, chain>>
      BY <3>3 DEF StartThread, EndThread, TypeOK
    <3> QED
      BY <1>1, <3>1, <3>2, <3>3 DEF Vm, TypeOK
  <2> QED
    BY <1>1, <2>1 DEF Vm, spyVars, TypeOK
<1>2. CASE Ask
  BY <1>2 DEF Ask, TypeOK, vmVars
<1>3. CASE New
  <2>1. CASE Fail
    BY <1>0, <1>3, <2>1, FailType DEF New
  <2> QED
    BY <1>3, <2>1 DEF New, TypeOK, vmVars
<1>4. CASE ListThreads("start", "activity") \/ ListThreads("list", "capture")
  <2>1. CASE Fail
    BY <1>0, <1>4, <2>1, FailType DEF ListThreads
  <2> QED
    BY <1>4, <2>1 DEF ListThreads, TypeOK, vmVars
<1>5. CASE ReadActivity
  <2>1. CASE Fail
    BY <1>0, <1>5, <2>1, FailType DEF ReadActivity
  <2>2. ASSUME NEW t \in todo,
               todo' = todo \ {t},
               activity' = IF t \in live THEN [activity EXCEPT ![t] = busy[t]] ELSE activity,
               UNCHANGED <<suspended, at, attached, retries, captures, snapshot, traces, sample>>
        PROVE  TypeOK'
    <3>1. todo' \subseteq Threads /\ activity' \in [Threads -> BOOLEAN \cup {Nothing}]
      BY <2>2 DEF TypeOK
    <3> QED
      BY <1>5, <2>2, <3>1 DEF ReadActivity, TypeOK, vmVars
  <2> QED
    BY <1>5, <2>1, <2>2 DEF ReadActivity
<1>6. CASE Suspend
  <2>1. CASE Fail
    BY <1>0, <1>6, <2>1, FailType DEF Suspend
  <2> QED
    BY <1>6, <2>1 DEF Suspend, TypeOK, vmVars
<1>7. CASE Capture
  <2>1. CASE Fail
    BY <1>0, <1>7, <2>1, FailType DEF Capture
  <2>2. ASSUME NEW t \in todo,
               captures' = [captures EXCEPT ![t] =
                 [stack |-> stack[t], active |-> IF activity[t] = Nothing THEN TRUE ELSE activity[t]]],
               todo' = todo \ {t},
               UNCHANGED <<suspended, at, attached, retries, activity, snapshot, traces, sample>>
        PROVE  TypeOK'
    <3>1. t \in Threads /\ activity[t] \in BOOLEAN \cup {Nothing}
      BY DEF TypeOK
    <3>2. [stack |-> stack[t], active |-> IF activity[t] = Nothing THEN TRUE ELSE activity[t]] \in Copies
      BY <3>1 DEF TypeOK, Copies
    <3>3. captures' \in [Threads -> Copies \cup {Nothing}] /\ todo' \subseteq Threads
      BY <2>2, <3>1, <3>2 DEF TypeOK
    <3> QED
      BY <1>7, <2>2, <3>3 DEF Capture, TypeOK, vmVars
  <2>3. ASSUME NEW t \in todo, t \notin live, todo' = todo \ {t},
               UNCHANGED <<suspended, at, attached, retries, activity, captures, snapshot, traces,
                           sample>>
        PROVE  TypeOK'
    BY <1>7, <2>3 DEF Capture, TypeOK, vmVars
  <2> QED
    BY <1>7, <2>1, <2>2, <2>3 DEF Capture
<1>8. CASE CapturesDone \/ WalkCogFrames \/ Resume
  BY <1>8 DEF CapturesDone, WalkCogFrames, Resume, TypeOK, vmVars
<1>9. CASE ResolveThread
  <2>1. PICK t \in Captured :
          traces' = [traces EXCEPT ![t] = [stack  |-> captures[t].stack, active |-> captures[t].active]]
    BY <1>9 DEF ResolveThread
  <2>2. t \in Threads /\ captures[t] \in Copies
    BY DEF Captured, TypeOK
  <2>3. [stack |-> captures[t].stack, active |-> captures[t].active] \in Copies
    BY <2>2 DEF TypeOK, Copies
  <2>4. traces' \in [Threads -> Copies \cup {Nothing}]
    BY <2>1, <2>2, <2>3 DEF TypeOK
  <2> QED
    BY <1>9, <2>4 DEF ResolveThread, TypeOK, vmVars
<1>10. CASE Done
  <2>3. sample' \in Results(Copies)
    BY <1>10, DoneType
  <2>6. /\ suspended' \in BOOLEAN /\ todo' \subseteq Threads
        /\ activity' \in [Threads -> BOOLEAN \cup {Nothing}]
        /\ captures' \in [Threads -> Copies \cup {Nothing}]
        /\ traces' \in [Threads -> Copies \cup {Nothing}]
        /\ snapshot' \in Values \cup {Nothing}
    BY <1>10, LeaveType DEF Done
  <2> QED
    BY <1>10, <2>3, <2>6 DEF Done, TypeOK, vmVars
<1>11. CASE UNCHANGED vars
  BY <1>11 DEF TypeOK, vars, vmVars, spyVars
<1> QED
  BY <1>1, <1>2, <1>3, <1>4, <1>5, <1>6, <1>7, <1>8, <1>9, <1>10, <1>11 DEF Next, Work

-----------------------------------------------------------------------------
(***************************************************************************)
(* The invariant.                                                          *)
(***************************************************************************)

\* It holds at the start.
LEMMA InvInit ==
  ASSUME Init
  PROVE  TypeOK /\ SpyInv
<1>1. TypeOK
  <2>1. NoThreads \in [Threads -> BOOLEAN \cup {Nothing}]
        /\ NoThreads \in [Threads -> Copies \cup {Nothing}]
    BY DEF NoThreads
  <2>2. retries \in 0 .. MaxRetries /\ live \subseteq Threads /\ todo \subseteq Threads
    BY DEF Init
  <2> QED
    BY <2>1, <2>2 DEF Init, TypeOK
<1>2. SpyInv
  BY DEF Init, SpyInv, SuspendedOnlyWithin, CopiesTrue, TracesOfCopies, AttemptsLeft, NoThreads,
         Captured
<1> QED
  BY <1>1, <1>2

\* An error leaves nothing behind.
LEMMA InvFail ==
  ASSUME TypeOK, SpyInv, Fail, at \notin {"idle", "failed"}
  PROVE  SpyInv'
<1>1. /\ suspended' = FALSE /\ captures' = NoThreads /\ traces' = NoThreads
      /\ at' \in {"idle", "new", "failed"}
  BY DEF Fail, Leave
<1>2. AttemptsLeft'
  BY DEF Fail, AttemptsLeft, SpyInv, TypeOK
<1> QED
  BY <1>1, <1>2 DEF SpyInv, SuspendedOnlyWithin, CopiesTrue, TracesOfCopies, NoThreads, Captured

\* Every step keeps it.
LEMMA InvNext ==
  ASSUME TypeOK, SpyInv, [Next]_vars
  PROVE  SpyInv'
<1> USE DEF SpyInv, SuspendedOnlyWithin, CopiesTrue, TracesOfCopies, AttemptsLeft, Captured
<1>1. CASE Vm
  BY <1>1 DEF Vm, spyVars
<1>2. CASE Ask
  BY <1>2 DEF Ask, vmVars
<1>3. CASE New
  BY <1>3, InvFail DEF New
<1>4. CASE ListThreads("start", "activity")
  BY <1>4, InvFail DEF ListThreads
<1>5. CASE ListThreads("list", "capture")
  BY <1>5, InvFail DEF ListThreads, vmVars
<1>6. CASE ReadActivity
  <2>1. CASE Fail
    BY <1>6, <2>1, InvFail DEF ReadActivity
  <2> QED
    BY <1>6, <2>1 DEF ReadActivity
<1>7. CASE Suspend
  BY <1>7, InvFail DEF Suspend, vmVars
<1>8. CASE Capture
  <2>1. CASE Fail
    BY <1>8, <2>1, InvFail DEF Capture
  <2>2. ASSUME NEW t \in todo,
               captures' = [captures EXCEPT ![t] =
                 [stack |-> stack[t], active |-> IF activity[t] = Nothing THEN TRUE ELSE activity[t]]],
               todo' = todo \ {t},
               UNCHANGED <<suspended, at, attached, retries, activity, snapshot, traces, sample>>
        PROVE  SpyInv'
    <3> DEFINE c == [stack |-> stack[t], active |-> IF activity[t] = Nothing THEN TRUE ELSE activity[t]]
    <3>1. t \in Threads /\ activity[t] \in BOOLEAN \cup {Nothing}
      BY DEF TypeOK
    <3>2. c \in Copies
      BY <3>1 DEF TypeOK, Copies
    <3>3. c # Nothing /\ c.stack = stack[t]
      BY <3>2
    <3>4. captures' = [captures EXCEPT ![t] = c]
      BY <2>2
    <3> HIDE DEF c
    <3>5. captures'[t] = c /\ \A u \in Threads : u # t => captures'[u] = captures[u]
      BY <3>1, <3>4 DEF TypeOK
    <3>6. UNCHANGED <<live, stack, chain>>
      BY <1>8 DEF Capture, vmVars
    <3>7. Captured' = Captured \cup {t}
      BY <3>1, <3>3, <3>5
    <3>8. SuspendedOnlyWithin' /\ TracesOfCopies' /\ AttemptsLeft'
      BY <1>8, <2>2 DEF Capture
    <3>9. CopiesTrue'
      BY <1>8, <2>2, <3>3, <3>5, <3>6, <3>7 DEF Capture
    <3> QED
      BY <3>8, <3>9
  <2>3. ASSUME NEW t \in todo, t \notin live, todo' = todo \ {t},
               UNCHANGED <<suspended, at, attached, retries, activity, captures, snapshot, traces,
                           sample>>
        PROVE  SpyInv'
    <3>1. ~ suspended /\ at = "capture"
      BY <1>8, <2>3 DEF Capture
    <3> QED
      BY <2>3, <3>1
  <2> QED
    BY <1>8, <2>1, <2>2, <2>3 DEF Capture
<1>9. CASE CapturesDone
  BY <1>9 DEF CapturesDone, vmVars
<1>10. CASE WalkCogFrames
  BY <1>10 DEF WalkCogFrames, vmVars, TypeOK
<1>11. CASE Resume
  BY <1>11 DEF Resume, vmVars, TypeOK
<1>12. CASE ResolveThread
  <2>1. PICK t \in Captured :
          traces' = [traces EXCEPT ![t] = [stack  |-> captures[t].stack, active |-> captures[t].active]]
    BY <1>12 DEF ResolveThread
  <2>2. UNCHANGED <<at, suspended, attached, retries, captures, snapshot>> /\ at = "resolve"
    BY <1>12 DEF ResolveThread
  <2>3. traces'[t].stack = captures[t].stack /\ captures[t] # Nothing
        /\ \A u \in Threads : u # t => traces'[u] = traces[u]
    BY <2>1 DEF TypeOK
  <2> QED
    BY <2>2, <2>3
<1>13. CASE Done
  BY <1>13 DEF Done, Leave, NoThreads
<1>14. CASE UNCHANGED vars
  BY <1>14 DEF vars, vmVars, spyVars
<1> QED
  BY <1>1, <1>2, <1>3, <1>4, <1>5, <1>6, <1>7, <1>8, <1>9, <1>10, <1>11, <1>12, <1>13, <1>14
     DEF Next, Work

-----------------------------------------------------------------------------
(***************************************************************************)
(* A sample is of one instant.                                             *)
(***************************************************************************)

\* What is shown of the VM, copied from it and given out is not Nothing.
LEMMA Shown ==
  ASSUME TypeOK, SpyInv
  PROVE  /\ VmNow # Nothing
         /\ at = "resolve" => Taken # Nothing
         /\ sample # Nothing => Given # Nothing
<1>1. VmNow \in Results(Values)
  BY DEF TypeOK, VmNow, Results
<1>2. ASSUME at = "resolve"
      PROVE  [threads |-> Stacks(captures, Captured), chain |-> snapshot] \in Results(Values)
  <2>1. \A t \in Captured : t \in Threads /\ captures[t].stack \in Values
    BY DEF Captured, TypeOK, Copies
  <2>2. snapshot \in Values
    BY <1>2 DEF SpyInv, TracesOfCopies, TypeOK
  <2>3. Stacks(captures, Captured) \in [Captured -> Values] /\ Captured \in SUBSET Threads
    BY <2>1 DEF Stacks, Captured
  <2> QED
    BY <2>2, <2>3 DEF Results
<1>3. ASSUME sample # Nothing
      PROVE  Given \in Results(Values)
  <2>1. PICK S \in SUBSET Threads : sample.threads \in [S -> Copies] /\ sample.chain \in Values
    BY <1>3 DEF TypeOK, Results
  <2>2. Stacks(sample.threads, DOMAIN sample.threads) \in [S -> Values]
    BY <2>1 DEF Stacks, Copies
  <2> QED
    BY <1>3, <2>1, <2>2 DEF Given, Results
<1> QED
  BY <1>1, <1>2, <1>3 DEF Taken

\* The initial state is one of the abstract specification.
LEMMA RefineInit ==
  ASSUME Init
  PROVE  Instant!SampleInit
<1> QED
  BY DEF Init, Instant!SampleInit, Taken, Given

\* Every step of a spy that suspends the VM is one of the abstract
\* specification, or none.
LEMMA RefineNext ==
  ASSUME Blocking, TypeOK, SpyInv, SpyInv', [Next]_vars
  PROVE  [Instant!Run \/ Instant!Take \/ Instant!Give \/ Instant!GiveUp
            \/ Instant!Use]_(Instant!sampleVars)
<1> USE DEF Instant!Run, Instant!Take, Instant!Give, Instant!GiveUp, Instant!Use,
            Instant!sampleVars
<1>0. VmNow # Nothing /\ (at = "resolve" => Taken # Nothing) /\ (sample # Nothing => Given # Nothing)
  BY Shown
<1>1. suspended <=> at \in {"list", "capture", "cog", "resume"}
  BY DEF SpyInv, SuspendedOnlyWithin
<1>2. (UNCHANGED vmVars => VmNow' = VmNow) /\ (UNCHANGED sample => Given' = Given)
  BY DEF vmVars, VmNow, Given
<1>3. CASE Vm
  BY <1>3, <1>2 DEF Vm, spyVars, Taken, Captured
<1>4. CASE Ask
  BY <1>0, <1>1, <1>2, <1>4 DEF Ask, Taken, Given
<1>5. CASE Fail /\ UNCHANGED vmVars /\ at \notin {"idle", "failed", "resolve"}
  <2>1. Taken' = Nothing /\ UNCHANGED sample
    BY <1>5 DEF Fail, Leave, Taken
  <2>2. Taken = VmNow \/ Taken = Nothing
    BY <1>5 DEF Taken
  <2> QED
    BY <1>0, <1>2, <1>5, <2>1, <2>2
<1>6. CASE New
  BY <1>1, <1>2, <1>5, <1>6 DEF New, Taken
<1>7. CASE ListThreads("start", "activity")
  BY <1>1, <1>2, <1>5, <1>7 DEF ListThreads, Taken
<1>8. CASE ListThreads("list", "capture")
  BY <1>1, <1>2, <1>5, <1>8 DEF ListThreads, Taken
<1>9. CASE ReadActivity
  <2>1. CASE Fail
    BY <1>1, <1>2, <1>5, <1>9, <2>1 DEF ReadActivity, Taken
  <2> QED
    BY <1>1, <1>2, <1>9, <2>1 DEF ReadActivity, Taken
<1>10. CASE Suspend
  BY <1>1, <1>2, <1>5, <1>10 DEF Suspend, Taken
<1>11. CASE Capture
  BY <1>1, <1>2, <1>5, <1>11 DEF Capture, Taken
<1>12. CASE CapturesDone \/ WalkCogFrames
  BY <1>1, <1>2, <1>12 DEF CapturesDone, WalkCogFrames, Taken
<1>13. CASE Resume
  <2>1. /\ Taken = VmNow /\ VmNow' = VmNow /\ Given' = Given
        /\ Taken' = [threads |-> Stacks(captures, Captured), chain |-> snapshot]
    BY <1>1, <1>2, <1>13 DEF Resume, Taken, Captured
  <2>2. Captured = live /\ snapshot = chain /\ \A t \in Captured : captures[t].stack = stack[t]
    BY <1>1, <1>13 DEF Resume, SpyInv, CopiesTrue
  <2>3. Stacks(captures, Captured) = [t \in live |-> stack[t]]
    BY <2>2 DEF Stacks
  <2> QED
    BY <2>1, <2>2, <2>3 DEF VmNow
<1>14. CASE ResolveThread
  BY <1>2, <1>14 DEF ResolveThread, Taken, Captured
<1>15. CASE Done
  <2>1. /\ VmNow' = VmNow /\ Taken' = Nothing /\ Taken # Nothing
        /\ Taken = [threads |-> Stacks(captures, Captured), chain |-> snapshot]
        /\ sample' = [threads |-> Restrict(traces, Captured), chain |-> snapshot]
    BY <1>0, <1>1, <1>2, <1>15 DEF Done, Leave, Taken
  <2>2. sample' # Nothing
    BY <1>15, DoneType
  <2>3. Given' = [threads |-> Stacks(sample'.threads, DOMAIN sample'.threads),
                  chain |-> sample'.chain]
    BY <2>2 DEF Given
  <2>4. sample'.threads = [t \in Captured |-> traces[t]] /\ sample'.chain = snapshot
    BY <2>1 DEF Restrict
  <2>5. \A t \in Captured : traces[t].stack = captures[t].stack
    BY <1>15 DEF Done, SpyInv, TracesOfCopies, Captured
  <2>6. Stacks(sample'.threads, DOMAIN sample'.threads) = Stacks(captures, Captured)
    BY <2>4, <2>5 DEF Stacks
  <2> QED
    BY <2>1, <2>3, <2>4, <2>6
<1>16. CASE UNCHANGED vars
  BY <1>2, <1>16 DEF vars, spyVars, vmVars, Taken, Captured
<1> QED
  BY <1>3, <1>4, <1>6, <1>7, <1>8, <1>9, <1>10, <1>11, <1>12, <1>13, <1>14, <1>15, <1>16
     DEF Next, Work

-----------------------------------------------------------------------------
(***************************************************************************)
(* The theorems.                                                           *)
(***************************************************************************)

\* Types and invariant hold always.
LEMMA SpyAlways == Spec => [](TypeOK /\ SpyInv)
<1>1. Init => TypeOK /\ SpyInv
  BY InvInit
<1>2. (TypeOK /\ SpyInv) /\ [Next]_vars => (TypeOK /\ SpyInv)'
  BY TypeNext, InvNext
<1> QED
  BY <1>1, <1>2, PTL DEF Spec

\* Every reachable state of the spy is well typed, the VM is suspended only within a sample, whichever call fails, and what
\* is copied meanwhile is true and complete.
THEOREM SpyInvariant == Spec => []SpyOK
<1> QED
  BY SpyAlways, PTL DEF SpyOK

\* A sample of a VM that is suspended for it shows one instant.
THEOREM SamplesAreAtomic ==
  ASSUME Blocking
  PROVE  Spec => SampleAtOneInstant
<1>1. Init => Instant!SampleInit
  BY RefineInit
<1>2. (TypeOK /\ SpyInv) /\ (TypeOK /\ SpyInv)' /\ [Next]_vars =>
        [Instant!Run \/ Instant!Take \/ Instant!Give \/ Instant!GiveUp
           \/ Instant!Use]_(Instant!sampleVars)
  BY RefineNext
<1> QED
  BY <1>1, <1>2, SpyAlways, PTL DEF Spec, SampleAtOneInstant, Instant!SampleSpec

=============================================================================

----------------------- MODULE SubprocessSamplerProofs -----------------------
(***************************************************************************)
(* Proofs about SubprocessSampler, for every set of processes, any number  *)
(* of attempts and either behaviour of the operating system.               *)
(***************************************************************************)
EXTENDS SubprocessSampler, SequenceTheorems, TLAPS

USE DEF Procs, osVars, entryVars, chanVars, mainVars, monVars, sampVars

\* What Insert leaves in the table is well typed: a fresh entry, fresh
\* channels and a thread that starts.
LEMMA InsertTyped ==
  ASSUME TypeOK, NEW p \in Procs, NEW par \in Procs \cup {NoPid}, Insert(p, par)
  PROVE  /\ spies' \subseteq Procs
         /\ parent' \in [Procs -> Procs \cup {NoPid}]
         /\ initialized' \in [Procs -> {"none", "ok", "err"}]
         /\ running' \in [Procs -> BOOLEAN]
         /\ notified' \in [Procs -> BOOLEAN]
         /\ thread' \in [Procs -> {"none", "starting", "idle", "sampling", "failed", "gone"}]
         /\ initQ' \in [Procs -> {"empty", "ok", "err"}]
         /\ notifyQ' \in [Procs -> Nat]
         /\ sampleQ' \in [Procs -> Seq({"ok", "err"})]
BY DEF TypeOK, Insert

\* A listing holds processes only, and names processes as their parents.
LEMMA ListingTyped ==
  ASSUME TypeOK, NEW L \in Listings
  PROVE  L \subseteq Procs /\ ParentsIn(L) \in [Procs -> Procs \cup {NoPid}]
BY DEF TypeOK, Listings, Descendants, ParentsIn

LEMMA ForgetTyped ==
  ASSUME TypeOK, NEW p \in Procs
  PROVE  Forget(p) \in [Procs -> Procs \cup {NoPid}]
BY DEF TypeOK, Forget

\* A chain of process info holds processes only.
LEMMA LineageTyped ==
  ASSUME TypeOK, NEW p \in Procs
  PROVE  Lineage(p) \in SUBSET Procs
BY DEF TypeOK, Lineage

LEMMA InitTyped == Init => TypeOK
BY PidAssumption, RetriesAssumption DEF Init, TypeOK

LEMMA EnvTyped ==
  ASSUME TypeOK, NEW p \in Procs, Spawn(p) \/ Exit(p)
  PROVE  TypeOK'
BY DEF TypeOK, Spawn, Exit

LEMMA SpyTyped ==
  ASSUME TypeOK, NEW p \in Procs, Spy(p)
  PROVE  TypeOK'
<1>1. CASE SpyReady(p)
  <2>1. /\ thread' \in [Procs -> {"none", "starting", "idle", "sampling", "failed", "gone"}]
        /\ initQ' \in [Procs -> {"empty", "ok", "err"}]
    <3>1. CASE TableDropped  BY <1>1, <3>1 DEF TypeOK, SpyReady
    <3>2. CASE ~ TableDropped  BY <1>1, <3>2 DEF TypeOK, SpyReady
    <3>3. QED  BY <3>1, <3>2
  <2>2. UNCHANGED <<osVars, listed, entryVars, notifyQ, sampleQ, lock, mainVars, monVars, sampVars>>
    BY <1>1 DEF SpyReady
  <2>3. QED  BY <2>1, <2>2 DEF TypeOK
<1>2. CASE SpyFails(p)  BY <1>2 DEF TypeOK, SpyFails
<1>3. CASE SpyTake(p)
  <2>1. notifyQ[p] - 1 \in Nat  BY <1>3 DEF TypeOK, SpyTake
  <2>2. QED  BY <1>3, <2>1 DEF TypeOK, SpyTake
<1>4. CASE SpyClosed(p)  BY <1>4 DEF TypeOK, SpyClosed
<1>5. CASE SpyAnswer(p)
  <2>1. Append(sampleQ[p], "ok") \in Seq({"ok", "err"})  BY DEF TypeOK
  <2>2. /\ thread' \in [Procs -> {"none", "starting", "idle", "sampling", "failed", "gone"}]
        /\ sampleQ' \in [Procs -> Seq({"ok", "err"})]
    <3>1. SendAnswer(p, "ok")  BY <1>5 DEF SpyAnswer
    <3>2. CASE TableDropped  BY <3>1, <3>2 DEF TypeOK, SendAnswer
    <3>3. CASE ~ TableDropped  BY <2>1, <3>1, <3>3 DEF TypeOK, SendAnswer
    <3>4. QED  BY <3>2, <3>3
  <2>3. UNCHANGED <<osVars, listed, entryVars, initQ, notifyQ, lock, mainVars, monVars, sampVars>>
    BY <1>5 DEF SpyAnswer
  <2>4. QED  BY <2>1, <2>2, <2>3 DEF TypeOK
<1>6. CASE SpyError(p)  BY <1>6 DEF TypeOK, SpyError
<1>7. CASE SpySendError(p)
  <2>1. Append(sampleQ[p], "err") \in Seq({"ok", "err"})  BY DEF TypeOK
  <2>2. /\ thread' \in [Procs -> {"none", "starting", "idle", "sampling", "failed", "gone"}]
        /\ sampleQ' \in [Procs -> Seq({"ok", "err"})]
    <3>1. SendAnswer(p, "err")  BY <1>7 DEF SpySendError
    <3>2. CASE TableDropped  BY <3>1, <3>2 DEF TypeOK, SendAnswer
    <3>3. CASE ~ TableDropped  BY <2>1, <3>1, <3>3 DEF TypeOK, SendAnswer
    <3>4. QED  BY <3>2, <3>3
  <2>3. UNCHANGED <<osVars, listed, entryVars, initQ, notifyQ, lock, mainVars, monVars, sampVars>>
    BY <1>7 DEF SpySendError
  <2>4. QED  BY <2>1, <2>2, <2>3 DEF TypeOK
<1>8. CASE SpyRetire(p)  BY <1>8 DEF TypeOK, SpyRetire
<1>9. QED
  BY <1>1, <1>2, <1>3, <1>4, <1>5, <1>6, <1>7, <1>8 DEF Spy, SpyAttach, SpyServe

LEMMA StartTyped ==
  ASSUME TypeOK, Start
  PROVE  TypeOK'
<1>1. CASE OpenRoot
  <2>1. CASE Opens(Root)
    <3>1. Insert(Root, NoPid)  BY <1>1, <2>1 DEF OpenRoot
    <3>2. QED  BY <1>1, <2>1, <3>1, InsertTyped DEF TypeOK, OpenRoot
  <2>2. CASE ~ Opens(Root)  BY <1>1, <2>2 DEF TypeOK, OpenRoot
  <2>3. QED  BY <2>1, <2>2
<1>2. CASE ListAtStart  BY <1>2, ListingTyped DEF TypeOK, ListAtStart
<1>3. ASSUME NEW p \in Procs, CreateAtStart(p)  PROVE TypeOK'
  <2>1. listed[p] \in Procs \cup {NoPid}  BY DEF TypeOK
  <2>2. CASE Opens(p)
    <3>1. Insert(p, listed[p])  BY <1>3, <2>2 DEF CreateAtStart
    <3>2. QED  BY <1>3, <2>1, <3>1, InsertTyped, ForgetTyped DEF TypeOK, CreateAtStart
  <2>3. CASE ~ Opens(p)  BY <1>3, <2>3, ForgetTyped DEF TypeOK, CreateAtStart
  <2>4. QED  BY <2>2, <2>3
<1>4. CASE StartWaiting  BY <1>4 DEF TypeOK, StartWaiting
<1>5. ASSUME NEW p \in Procs, WaitResult(p)  PROVE TypeOK'
  <2>1. initQ[p] \in {"ok", "err"}  BY <1>5 DEF TypeOK, WaitResult
  <2>2. CASE initQ[p] = "ok"  BY <1>5, <2>2 DEF TypeOK, WaitResult, TakeInit
  <2>3. CASE initQ[p] = "err"  BY <1>5, <2>3 DEF TypeOK, WaitResult, TakeInit
  <2>4. QED  BY <2>1, <2>2, <2>3
<1>6. ASSUME NEW p \in Procs, WaitClosed(p)  PROVE TypeOK'
  BY <1>6 DEF TypeOK, WaitClosed
<1>7. CASE Retry  BY <1>7, RetriesAssumption DEF TypeOK, Retry
<1>8. QED  BY <1>1, <1>2, <1>3, <1>4, <1>5, <1>6, <1>7 DEF Start

LEMMA ConsumeTyped ==
  ASSUME TypeOK, Consume
  PROVE  TypeOK'
BY DEF TypeOK, Consume, DropReceiver, Join

LEMMA MonitorTyped ==
  ASSUME TypeOK, Monitor
  PROVE  TypeOK'
<1>1. CASE MonitorCheck  BY <1>1 DEF TypeOK, MonitorCheck
<1>2. CASE MonitorLock  BY <1>2 DEF TypeOK, MonitorLock
<1>3. CASE MonitorList  BY <1>3, ListingTyped DEF TypeOK, MonitorList
<1>4. CASE MonitorUnlock  BY <1>4 DEF TypeOK, MonitorUnlock
<1>5. ASSUME NEW p \in Procs, MonitorCreate(p)  PROVE TypeOK'
  <2>1. listed[p] \in Procs \cup {NoPid}  BY DEF TypeOK
  <2>2. CASE p \notin spies /\ Opens(p)
    <3>1. Insert(p, listed[p])  BY <1>5, <2>2 DEF MonitorCreate
    <3>2. QED  BY <1>5, <2>1, <3>1, InsertTyped, ForgetTyped DEF TypeOK, MonitorCreate
  <2>3. CASE ~ (p \notin spies /\ Opens(p))
    BY <1>5, <2>3, ForgetTyped DEF TypeOK, MonitorCreate
  <2>4. QED  BY <2>2, <2>3
<1>6. QED  BY <1>1, <1>2, <1>3, <1>4, <1>5 DEF Monitor

LEMMA SamplerTyped ==
  ASSUME TypeOK, Sampler
  PROVE  TypeOK'
<1>1. CASE SamplerLock  BY <1>1 DEF TypeOK, SamplerLock
<1>2. CASE SamplerWake  BY <1>2 DEF TypeOK, SamplerWake
<1>3. CASE SamplerPoisoned  BY <1>3 DEF TypeOK, SamplerPoisoned
<1>4. ASSUME NEW p \in Procs, SamplerNotify(p)  PROVE TypeOK'
  <2>1. initQ[p] # "empty" => initQ[p] \in {"ok", "err"}  BY DEF TypeOK
  <2>2. notifyQ[p] + 1 \in Nat  BY DEF TypeOK
  <2>3. QED  BY <1>4, <2>1, <2>2 DEF TypeOK, SamplerNotify
<1>5. CASE StartCollecting  BY <1>5 DEF TypeOK, StartCollecting
<1>6. ASSUME NEW p \in Procs, CollectSkip(p)  PROVE TypeOK'
  BY <1>6 DEF TypeOK, CollectSkip
<1>7. ASSUME NEW p \in Procs, CollectAnswer(p)  PROVE TypeOK'
  <2>1. Tail(sampleQ[p]) \in Seq({"ok", "err"})  BY <1>7 DEF TypeOK, CollectAnswer
  <2>2. QED  BY <1>7, <2>1 DEF TypeOK, CollectAnswer
<1>8. ASSUME NEW p \in Procs, CollectClosed(p)  PROVE TypeOK'
  BY <1>8 DEF TypeOK, CollectClosed
<1>9. CASE Annotate  BY <1>9, LineageTyped DEF TypeOK, Annotate
<1>10. CASE SamplerSend  BY <1>10 DEF TypeOK, SamplerSend
<1>11. CASE SamplerDecide  BY <1>11 DEF TypeOK, SamplerDecide
<1>12. QED
  BY <1>1, <1>2, <1>3, <1>4, <1>5, <1>6, <1>7, <1>8, <1>9, <1>10, <1>11
  DEF Sampler, Round, Collect

LEMMA NextTyped == TypeOK /\ [Next]_vars => TypeOK'
<1> SUFFICES ASSUME TypeOK, [Next]_vars  PROVE TypeOK'
  OBVIOUS
<1>1. CASE Next
  <2>1. CASE Env  BY <2>1, EnvTyped DEF Env
  <2>2. CASE \E p \in Procs : Spy(p)  BY <2>2, SpyTyped
  <2>3. CASE Finished  BY <2>3 DEF TypeOK, Finished, vars
  <2>4. QED
    BY <1>1, <2>1, <2>2, <2>3, StartTyped, ConsumeTyped, MonitorTyped, SamplerTyped DEF Next
<1>2. CASE UNCHANGED vars  BY <1>2 DEF TypeOK, vars
<1>3. QED  BY <1>1, <1>2

\* Every reachable state is well typed.
THEOREM SamplerTypeCorrect == Spec => []TypeOK
<1>1. QED  BY InitTyped, NextTyped, PTL DEF Spec

-----------------------------------------------------------------------------
(***************************************************************************)
(* The inductive invariant.  NoStaleAnswer alone is not preserved: a       *)
(* request could be sent while one is under way, unless every request is   *)
(* collected in the round that sent it (RequestsOfRound), which needs that *)
(* nobody but the sampling thread touches the entries meanwhile            *)
(* (MutexHeld, ThreadsStarted).                                            *)
(***************************************************************************)

\* The processes leave the profiler alone.
LEMMA EnvFrame ==
  ASSUME Env
  PROVE  UNCHANGED <<listed, entryVars, chanVars, lock, mainVars, monVars, sampVars>>
BY DEF Env, Spawn, Exit

\* A spy changes its channels and its own state only.
LEMMA SpyFrame ==
  ASSUME NEW p \in Procs, Spy(p)
  PROVE  UNCHANGED <<osVars, listed, entryVars, lock, mainVars, monVars, sampVars>>
BY DEF Spy, SpyAttach, SpyServe, SpyReady, SpyFails, SpyTake, SpyClosed, SpyAnswer, SpyError,
       SpySendError, SpyRetire

\* Neither the start loop nor the consumer touches the mutex.
LEMMA MainFrame ==
  ASSUME Start \/ Consume
  PROVE  UNCHANGED <<osVars, lock, sampTodo, traces, errors, info>>
BY DEF Start, OpenRoot, ListAtStart, CreateAtStart, StartWaiting, WaitResult, WaitClosed, Retry,
       Consume, DropReceiver, Join

LEMMA MonitorFrame ==
  ASSUME Monitor
  PROVE  UNCHANGED <<osVars, mainVars, sampVars>>
BY DEF Monitor, MonitorCheck, MonitorLock, MonitorList, MonitorCreate, MonitorUnlock

LEMMA SamplerFrame ==
  ASSUME Sampler
  PROVE  UNCHANGED <<osVars, listed, spies, parent, thread, mainVars, monVars>>
BY DEF Sampler, Round, Collect, SamplerLock, SamplerWake, SamplerPoisoned, SamplerNotify,
       StartCollecting, CollectSkip, CollectAnswer, CollectClosed, Annotate, SamplerSend,
       SamplerDecide

LEMMA MutexPreserved ==
  ASSUME TypeOK, MutexHeld, ThreadsStarted, [Next]_vars
  PROVE  MutexHeld' /\ ThreadsStarted'
<1> USE DEF MutexHeld, ThreadsStarted
<1>1. CASE Env  BY <1>1, EnvFrame
<1>2. ASSUME NEW p \in Procs, Spy(p)  PROVE MutexHeld' /\ ThreadsStarted'
  BY <1>2, SpyFrame
<1>3. CASE Start
  BY <1>3, MainFrame DEF Start, OpenRoot, ListAtStart, CreateAtStart, StartWaiting, WaitResult,
     WaitClosed, Retry
<1>4. CASE Consume  BY <1>4 DEF Consume, DropReceiver, Join
<1>5. CASE Monitor
  BY <1>5, MonitorFrame DEF Monitor, MonitorCheck, MonitorLock, MonitorList, MonitorCreate,
     MonitorUnlock
<1>6. CASE Sampler
  BY <1>6, SamplerFrame DEF Sampler, Round, Collect, SamplerLock, SamplerWake, SamplerPoisoned,
     SamplerNotify, StartCollecting, CollectSkip, CollectAnswer, CollectClosed, Annotate,
     SamplerSend, SamplerDecide
<1>7. CASE UNCHANGED vars  BY <1>7 DEF vars
<1>8. QED  BY <1>1, <1>2, <1>3, <1>4, <1>5, <1>6, <1>7 DEF Next, Finished

\* The start loop and the monitor insert entries that nothing was asked of.
LEMMA RequestsPreserved ==
  ASSUME TypeOK, MutexHeld, ThreadsStarted, RequestsOfRound, [Next]_vars
  PROVE  RequestsOfRound'
<1> USE DEF RequestsOfRound
<1>1. CASE Env  BY <1>1, EnvFrame
<1>2. ASSUME NEW p \in Procs, Spy(p)  PROVE RequestsOfRound'
  BY <1>2, SpyFrame
<1>3. CASE Start
  <2>1. samp = "none" /\ \A p \in Procs : ~ notified[p]
    BY <1>3 DEF ThreadsStarted, Start, OpenRoot, ListAtStart, CreateAtStart, StartWaiting,
       WaitResult, WaitClosed, Retry
  <2>2. samp' \in {"none", "sleep"} /\ \A p \in Procs : ~ notified'[p]
    BY <1>3, <2>1 DEF TypeOK, Start, OpenRoot, ListAtStart, CreateAtStart, StartWaiting,
       WaitResult, WaitClosed, Retry, Insert
  <2>3. QED  BY <2>2
<1>4. CASE Consume  BY <1>4 DEF Consume, DropReceiver, Join
<1>5. CASE Monitor
  <2>1. ASSUME NEW p \in Procs, MonitorCreate(p)  PROVE RequestsOfRound'
    BY <2>1 DEF TypeOK, MonitorCreate, Insert
  <2>2. QED
    BY <1>5, <2>1 DEF Monitor, MonitorCheck, MonitorLock, MonitorList, MonitorUnlock
<1>6. CASE Sampler
  <2>1. ASSUME NEW p \in Procs, SamplerNotify(p)  PROVE RequestsOfRound'
    BY <2>1 DEF TypeOK, SamplerNotify
  <2>2. ASSUME NEW p \in Procs, Collect(p)  PROVE RequestsOfRound'
    BY <2>2 DEF TypeOK, Collect, CollectSkip, CollectAnswer, CollectClosed
  <2>3. CASE SamplerLock \/ SamplerWake \/ SamplerPoisoned \/ StartCollecting
    BY <2>3 DEF SamplerLock, SamplerWake, SamplerPoisoned, StartCollecting
  <2>4. CASE Annotate \/ SamplerSend \/ SamplerDecide
    BY <2>4 DEF Annotate, SamplerSend, SamplerDecide
  <2>5. QED  BY <1>6, <2>1, <2>2, <2>3, <2>4 DEF Sampler, Round
<1>7. CASE UNCHANGED vars  BY <1>7 DEF vars
<1>8. QED  BY <1>1, <1>2, <1>3, <1>4, <1>5, <1>6, <1>7 DEF Next, Finished

LEMMA AttachedPreserved ==
  ASSUME TypeOK, AttachedFirst, NoStaleAnswer, [Next]_vars
  PROVE  AttachedFirst'
<1> USE DEF AttachedFirst
<1>1. CASE Env  BY <1>1, EnvFrame
<1>2. ASSUME NEW p \in Procs, Spy(p)  PROVE AttachedFirst'
  <2>1. UNCHANGED initialized  BY <1>2, SpyFrame
  <2>2. CASE SpyReady(p)
    <3>1. CASE TableDropped  BY <2>1, <2>2, <3>1 DEF TypeOK, SpyReady
    <3>2. CASE ~ TableDropped  BY <2>1, <2>2, <3>2 DEF TypeOK, SpyReady
    <3>3. QED  BY <3>1, <3>2
  <2>3. CASE SpyFails(p)  BY <2>1, <2>3 DEF TypeOK, SpyFails
  <2>4. CASE SpyTake(p) \/ SpyClosed(p)
    BY <2>1, <2>4 DEF TypeOK, SpyTake, SpyClosed
  <2>5. CASE SpyError(p) \/ SpyRetire(p)
    BY <2>1, <2>5 DEF TypeOK, NoStaleAnswer, SpyError, SpyRetire
  <2>6. CASE SpyAnswer(p) \/ SpySendError(p)
    <3>1. /\ thread[p] \in {"sampling", "failed"}
          /\ \/ thread' = [thread EXCEPT ![p] = "gone"]
             \/ thread' = [thread EXCEPT ![p] = "idle"]
          /\ UNCHANGED <<initQ, notifyQ>>
      BY <2>6 DEF SpyAnswer, SpySendError, SendAnswer
    <3>2. notifyQ[p] = 0  BY <3>1 DEF NoStaleAnswer
    <3>3. CASE thread' = [thread EXCEPT ![p] = "gone"]
      BY <2>1, <3>1, <3>2, <3>3 DEF TypeOK
    <3>4. CASE thread' = [thread EXCEPT ![p] = "idle"]
      BY <2>1, <3>1, <3>4 DEF TypeOK
    <3>5. QED  BY <3>1, <3>3, <3>4
  <2>7. QED
    BY <1>2, <2>2, <2>3, <2>4, <2>5, <2>6 DEF Spy, SpyAttach, SpyServe
<1>3. CASE Start
  <2>1. ASSUME NEW p \in Procs, WaitResult(p)  PROVE AttachedFirst'
    BY <2>1 DEF TypeOK, WaitResult, TakeInit
  <2>2. ASSUME NEW p \in Procs, CreateAtStart(p) \/ OpenRoot  PROVE AttachedFirst'
    BY <2>2 DEF TypeOK, OpenRoot, CreateAtStart, Insert
  <2>3. QED
    BY <1>3, <2>1, <2>2 DEF Start, ListAtStart, StartWaiting, WaitClosed, Retry
<1>4. CASE Consume  BY <1>4 DEF Consume, DropReceiver, Join
<1>5. CASE Monitor
  <2>1. ASSUME NEW p \in Procs, MonitorCreate(p)  PROVE AttachedFirst'
    BY <2>1 DEF TypeOK, MonitorCreate, Insert
  <2>2. QED
    BY <1>5, <2>1 DEF Monitor, MonitorCheck, MonitorLock, MonitorList, MonitorUnlock
<1>6. CASE Sampler
  <2>1. ASSUME NEW p \in Procs, SamplerNotify(p)  PROVE AttachedFirst'
    BY <2>1 DEF TypeOK, SamplerNotify, IsInitialized
  <2>2. QED
    BY <1>6, <2>1 DEF Sampler, Round, Collect, SamplerLock, SamplerWake, SamplerPoisoned,
       StartCollecting, CollectSkip, CollectAnswer, CollectClosed, Annotate, SamplerSend,
       SamplerDecide
<1>7. CASE UNCHANGED vars  BY <1>7 DEF vars
<1>8. QED  BY <1>1, <1>2, <1>3, <1>4, <1>5, <1>6, <1>7 DEF Next, Finished

\* Arithmetic on the number of requests and answers.
LEMMA AtMostOne ==
  /\ \A m, n \in Nat : m + n <= 1 /\ n # 0 => m = 0 /\ n = 1
  /\ \A m, n \in Nat : m = 0 /\ n = 1 => m + n <= 1
OBVIOUS

\* When an answer is there, it is the only one and no request is left.
LEMMA OneAnswer ==
  ASSUME TypeOK, NoStaleAnswer, NEW p \in Procs, sampleQ[p] # <<>>
  PROVE  notifyQ[p] = 0 /\ Tail(sampleQ[p]) = <<>>
<1>1. sampleQ[p] \in Seq({"ok", "err"}) /\ notifyQ[p] \in Nat  BY DEF TypeOK
<1>2. \A s \in Seq({"ok", "err"}) : s # <<>> => Len(s) \in Nat \ {0}
  BY EmptySeq, Zenon
<1>3. Len(sampleQ[p]) \in Nat \ {0}  BY <1>1, <1>2, Zenon
<1>4. Len(sampleQ[p]) \in Nat /\ Len(sampleQ[p]) # 0  BY <1>3
<1>5. notifyQ[p] + Len(sampleQ[p]) <= 1  BY DEF NoStaleAnswer
<1>6. notifyQ[p] = 0 /\ Len(sampleQ[p]) = 1  BY <1>1, <1>4, <1>5, AtMostOne, Zenon
<1>7. /\ Tail(sampleQ[p]) \in Seq({"ok", "err"})
      /\ Len(Tail(sampleQ[p])) = Len(sampleQ[p]) - 1
  BY <1>1, HeadTailProperties
<1>8. Len(Tail(sampleQ[p])) = 0  BY <1>6, <1>7
<1>9. 0 \notin Nat \ {0}  OBVIOUS
<1>10. Tail(sampleQ[p]) = <<>>  BY <1>2, <1>7, <1>8, <1>9, Zenon
<1>11. QED  BY <1>6, <1>10

\* Between notify() and collect() a spy gets one request and gives at most one
\* answer.
LEMMA AnswersPreserved ==
  ASSUME TypeOK, ThreadsStarted, RequestsOfRound, AttachedFirst, NoStaleAnswer, [Next]_vars
  PROVE  NoStaleAnswer'
<1> USE DEF NoStaleAnswer, Outstanding
<1>1. CASE Env  BY <1>1, EnvFrame
<1>2. ASSUME NEW p \in Procs, Spy(p)  PROVE NoStaleAnswer'
  <2>1. UNCHANGED notified  BY <1>2, SpyFrame
  <2>2. CASE SpyReady(p)
    <3>1. CASE TableDropped  BY <2>1, <2>2, <3>1 DEF TypeOK, SpyReady
    <3>2. CASE ~ TableDropped  BY <2>1, <2>2, <3>2 DEF TypeOK, SpyReady
    <3>3. QED  BY <3>1, <3>2
  <2>3. CASE SpyFails(p)  BY <2>1, <2>3 DEF TypeOK, SpyFails
  <2>4. CASE SpyTake(p)
    <3>1. notifyQ[p] = 1 /\ Len(sampleQ[p]) = 0 /\ notified[p]
      BY <2>4 DEF TypeOK, SpyTake
    <3>2. sampleQ[p] = <<>>  BY <3>1 DEF TypeOK
    <3>3. QED  BY <2>1, <2>4, <3>1, <3>2 DEF TypeOK, SpyTake
  <2>5. CASE SpyClosed(p)  BY <2>1, <2>5 DEF TypeOK, SpyClosed
  <2>6. CASE SpyError(p)  BY <2>1, <2>6 DEF TypeOK, SpyError
  <2>7. CASE SpyRetire(p)  BY <2>1, <2>7 DEF TypeOK, SpyRetire
  <2>8. ASSUME NEW r \in {"ok", "err"}, SendAnswer(p, r),
               thread[p] \in {"sampling", "failed"}, UNCHANGED notifyQ
        PROVE  NoStaleAnswer'
    <3>1. notified[p] /\ notifyQ[p] = 0 /\ sampleQ[p] = <<>>  BY <2>8
    <3>2. Len(Append(sampleQ[p], r)) = 1 /\ Len(sampleQ[p]) = 0  BY <3>1
    <3>3. CASE TableDropped
      BY <2>1, <2>8, <3>1, <3>3 DEF TypeOK, SendAnswer
    <3>4. CASE ~ TableDropped
      <4>1. /\ thread' = [thread EXCEPT ![p] = "idle"]
            /\ sampleQ' = [sampleQ EXCEPT ![p] = Append(@, r)]
        BY <2>8, <3>4 DEF SendAnswer
      <4>2. thread'[p] = "idle" /\ Len(sampleQ'[p]) = 1
        BY <3>2, <4>1 DEF TypeOK
      <4>3. \A q \in Procs \ {p} : thread'[q] = thread[q] /\ sampleQ'[q] = sampleQ[q]
        BY <4>1 DEF TypeOK
      <4>4. notified'[p] /\ notifyQ'[p] = 0  BY <2>1, <2>8, <3>1
      <4>5. SUFFICES ASSUME NEW q \in Procs
            PROVE  /\ Outstanding(q)' => notified'[q]
                   /\ notifyQ'[q] + Len(sampleQ'[q]) <= 1
                   /\ thread'[q] \in {"sampling", "failed"}
                        => notifyQ'[q] = 0 /\ sampleQ'[q] = <<>>
        OBVIOUS
      <4>6. CASE q = p
        <5>1. notifyQ'[q] + Len(sampleQ'[q]) <= 1
          <6>1. notifyQ'[q] = 0 /\ Len(sampleQ'[q]) = 1  BY <4>2, <4>4, <4>6, Zenon
          <6>2. 0 \in Nat /\ 1 \in Nat  OBVIOUS
          <6>3. QED  BY <6>1, <6>2, AtMostOne, Zenon
        <5>2. notified'[q] /\ thread'[q] = "idle"  BY <4>2, <4>4, <4>6, Zenon
        <5>3. QED  BY <5>1, <5>2
      <4>7. CASE q # p
        <5>1. /\ thread'[q] = thread[q] /\ sampleQ'[q] = sampleQ[q]
              /\ notifyQ'[q] = notifyQ[q] /\ notified'[q] = notified[q]
          BY <2>1, <2>8, <4>3, <4>7
        <5>2. QED  BY <5>1
      <4>8. QED  BY <4>6, <4>7
    <3>5. QED  BY <3>3, <3>4
  <2>9. CASE SpyAnswer(p) \/ SpySendError(p)
    BY <2>8, <2>9 DEF SpyAnswer, SpySendError
  <2>10. QED
    BY <1>2, <2>2, <2>3, <2>4, <2>5, <2>6, <2>7, <2>9 DEF Spy, SpyAttach, SpyServe
<1>3. ASSUME NEW p \in Procs, NEW par \in Procs \cup {NoPid}, Insert(p, par)
      PROVE  NoStaleAnswer'
  BY <1>3 DEF TypeOK, Insert
<1>4. CASE Start
  <2>1. ASSUME NEW p \in Procs, CreateAtStart(p)  PROVE NoStaleAnswer'
    <3>1. listed[p] \in Procs \cup {NoPid}  BY DEF TypeOK
    <3>2. CASE Opens(p)  BY <2>1, <3>1, <3>2, <1>3 DEF CreateAtStart
    <3>3. CASE ~ Opens(p)  BY <2>1, <3>3 DEF CreateAtStart
    <3>4. QED  BY <3>2, <3>3
  <2>2. CASE OpenRoot
    <3>1. CASE Opens(Root)  BY <2>2, <3>1, <1>3 DEF OpenRoot
    <3>2. CASE ~ Opens(Root)  BY <2>2, <3>2 DEF OpenRoot
    <3>3. QED  BY <3>1, <3>2
  <2>3. QED
    BY <1>4, <2>1, <2>2 DEF Start, ListAtStart, StartWaiting, WaitResult, WaitClosed, Retry
<1>5. CASE Consume  BY <1>5 DEF Consume, DropReceiver, Join
<1>6. CASE Monitor
  <2>1. ASSUME NEW p \in Procs, MonitorCreate(p)  PROVE NoStaleAnswer'
    <3>1. listed[p] \in Procs \cup {NoPid}  BY DEF TypeOK
    <3>2. CASE p \notin spies /\ Opens(p)  BY <2>1, <3>1, <3>2, <1>3 DEF MonitorCreate
    <3>3. CASE ~ (p \notin spies /\ Opens(p))  BY <2>1, <3>3 DEF MonitorCreate
    <3>4. QED  BY <3>2, <3>3
  <2>2. QED
    BY <1>6, <2>1 DEF Monitor, MonitorCheck, MonitorLock, MonitorList, MonitorUnlock
<1>7. CASE Sampler
  <2>1. ASSUME NEW p \in Procs, SamplerNotify(p)  PROVE NoStaleAnswer'
    <3>1. ~ notified[p]  BY <2>1 DEF RequestsOfRound, SamplerNotify
    <3>2. notifyQ[p] = 0 /\ sampleQ[p] = <<>> /\ thread[p] \notin {"sampling", "failed"}
      BY <3>1
    <3>3. Len(sampleQ[p]) = 0  BY <3>2
    <3>4. UNCHANGED <<thread, sampleQ>>  BY <2>1 DEF SamplerNotify
    <3>5. CASE IsInitialized(p) /\ thread[p] # "gone"
      <4>1. /\ notified' = [notified EXCEPT ![p] = TRUE]
            /\ notifyQ' = [notifyQ EXCEPT ![p] = @ + 1]
        BY <2>1, <3>5 DEF SamplerNotify
      <4>2. notified'[p] /\ notifyQ'[p] = 1
        BY <3>2, <4>1 DEF TypeOK
      <4>3. \A q \in Procs \ {p} : notified'[q] = notified[q] /\ notifyQ'[q] = notifyQ[q]
        BY <4>1 DEF TypeOK
      <4>4. QED  BY <3>2, <3>3, <3>4, <4>2, <4>3
    <3>6. CASE ~ (IsInitialized(p) /\ thread[p] # "gone")
      <4>1. UNCHANGED <<notified, notifyQ>>  BY <2>1, <3>6 DEF SamplerNotify
      <4>2. QED  BY <3>4, <4>1
    <3>7. QED  BY <3>5, <3>6
  <2>2. ASSUME NEW p \in Procs, CollectAnswer(p)  PROVE NoStaleAnswer'
    <3>1. notifyQ[p] = 0 /\ Tail(sampleQ[p]) = <<>> /\ sampleQ[p] # <<>>
      BY <2>2, OneAnswer DEF CollectAnswer
    <3>2. Len(Tail(sampleQ[p])) = 0  BY <3>1
    <3>3. thread[p] \notin {"sampling", "failed"}  BY <3>1
    <3>4. QED  BY <2>2, <3>1, <3>2, <3>3 DEF TypeOK, CollectAnswer
  <2>3. ASSUME NEW p \in Procs, CollectClosed(p)  PROVE NoStaleAnswer'
    BY <2>3 DEF TypeOK, AttachedFirst, CollectClosed
  <2>4. QED
    BY <1>7, <2>1, <2>2, <2>3 DEF Sampler, Round, Collect, SamplerLock, SamplerWake,
       SamplerPoisoned, StartCollecting, CollectSkip, Annotate, SamplerSend, SamplerDecide
<1>8. CASE UNCHANGED vars  BY <1>8 DEF vars
<1>9. QED  BY <1>1, <1>2, <1>4, <1>5, <1>6, <1>7, <1>8 DEF Next, Finished

-----------------------------------------------------------------------------
(***************************************************************************)
(* What a sample and its process info rest on.                             *)
(***************************************************************************)

\* While a sample is in the making only the sampling thread marks an entry as
\* running, and it does so when it sends the request.
LEMMA GatheredPreserved ==
  ASSUME TypeOK, MutexHeld, ThreadsStarted, RequestsOfRound, Gathered, [Next]_vars
  PROVE  Gathered'
<1> USE DEF Gathered
<1>1. CASE Env  BY <1>1, EnvFrame
<1>2. ASSUME NEW p \in Procs, Spy(p)  PROVE Gathered'
  BY <1>2, SpyFrame
<1>3. CASE Start
  <2>1. samp' \in {"none", "sleep"}
    BY <1>3 DEF ThreadsStarted, Start, OpenRoot, ListAtStart, CreateAtStart, StartWaiting,
       WaitResult, WaitClosed, Retry
  <2>2. \A p \in Procs : running'[p] => initialized'[p] = "ok"
    <3>1. ASSUME NEW p \in Procs, CreateAtStart(p) \/ OpenRoot
          PROVE  \A q \in Procs : running'[q] => initialized'[q] = "ok"
      BY <3>1 DEF TypeOK, CreateAtStart, OpenRoot, Insert
    <3>2. ASSUME NEW p \in Procs, WaitResult(p)
          PROVE  \A q \in Procs : running'[q] => initialized'[q] = "ok"
      BY <3>2 DEF TypeOK, WaitResult, TakeInit
    <3>3. QED
      BY <1>3, <3>1, <3>2 DEF Start, ListAtStart, StartWaiting, WaitClosed, Retry
  <2>3. QED  BY <2>1, <2>2
<1>4. CASE Consume  BY <1>4 DEF Consume, DropReceiver, Join
<1>5. CASE Monitor
  <2>1. ASSUME NEW p \in Procs, MonitorCreate(p)  PROVE Gathered'
    <3>1. samp' = samp /\ samp \notin {"notify", "collect", "send"}
      BY <2>1 DEF MutexHeld, MonitorCreate
    <3>2. \A q \in Procs : running'[q] => initialized'[q] = "ok"
      <4>1. CASE Insert(p, listed[p])  BY <4>1 DEF TypeOK, Insert
      <4>2. CASE UNCHANGED <<entryVars, chanVars>>  BY <4>2
      <4>3. QED  BY <2>1, <4>1, <4>2 DEF MonitorCreate
    <3>3. QED  BY <3>1, <3>2
  <2>2. QED
    BY <1>5, <2>1 DEF Monitor, MonitorCheck, MonitorLock, MonitorList, MonitorUnlock
<1>6. CASE Sampler
  <2>1. ASSUME NEW p \in Procs, SamplerNotify(p)  PROVE Gathered'
    <3>1. /\ samp = "notify" /\ samp' = samp /\ p \in sampTodo
          /\ sampTodo' = sampTodo \ {p}
          /\ UNCHANGED <<spies, traces, errors>>
      BY <2>1 DEF SamplerNotify
    <3>2. running'[p] => initialized'[p] = "ok" /\ notified'[p]
      BY <2>1 DEF TypeOK, SamplerNotify, IsInitialized
    <3>3. \A q \in Procs \ {p} : /\ running'[q] = running[q]
                                 /\ initialized'[q] = initialized[q]
                                 /\ notified'[q] = notified[q]
      BY <2>1 DEF TypeOK, SamplerNotify
    <3>4. QED  BY <3>1, <3>2, <3>3 DEF TypeOK
  <2>2. ASSUME NEW p \in Procs, CollectSkip(p)  PROVE Gathered'
    BY <2>2 DEF TypeOK, RequestsOfRound, CollectSkip
  <2>3. ASSUME NEW p \in Procs, CollectAnswer(p)  PROVE Gathered'
    <3>1. /\ samp = "collect" /\ samp' = samp /\ p \in sampTodo /\ p \in spies
          /\ sampTodo' = sampTodo \ {p}
          /\ notified' = [notified EXCEPT ![p] = FALSE]
          /\ UNCHANGED <<spies, running, initialized>>
      BY <2>3 DEF RequestsOfRound, CollectAnswer
    <3>2. Head(sampleQ[p]) \in {"ok", "err"}
      BY <2>3, HeadTailProperties DEF TypeOK, CollectAnswer
    <3>3. /\ Head(sampleQ[p]) = "ok" => traces' = traces \cup {p} /\ errors' = errors
          /\ Head(sampleQ[p]) = "err" => errors' = errors \cup {p} /\ traces' = traces
      BY <2>3 DEF CollectAnswer
    <3>4. p \notin traces \cup errors  BY <3>1
    <3>5. CASE Head(sampleQ[p]) = "ok"
      BY <3>1, <3>3, <3>4, <3>5 DEF TypeOK, RequestsOfRound
    <3>6. CASE Head(sampleQ[p]) = "err"
      BY <3>1, <3>3, <3>4, <3>6 DEF TypeOK, RequestsOfRound
    <3>7. QED  BY <3>2, <3>5, <3>6
  <2>4. ASSUME NEW p \in Procs, CollectClosed(p)  PROVE Gathered'
    BY <2>4 DEF TypeOK, RequestsOfRound, CollectClosed
  <2>5. CASE SamplerLock \/ SamplerWake \/ SamplerPoisoned
    BY <2>5 DEF SamplerLock, SamplerWake, SamplerPoisoned
  <2>6. CASE StartCollecting  BY <2>6 DEF StartCollecting
  <2>7. CASE Annotate  BY <2>7 DEF TypeOK, RequestsOfRound, Annotate
  <2>8. CASE SamplerSend \/ SamplerDecide
    BY <2>8 DEF SamplerSend, SamplerDecide
  <2>9. QED
    BY <1>6, <2>1, <2>2, <2>3, <2>4, <2>5, <2>6, <2>7, <2>8 DEF Sampler, Round, Collect
<1>7. CASE UNCHANGED vars  BY <1>7 DEF vars
<1>8. QED  BY <1>1, <1>2, <1>3, <1>4, <1>5, <1>6, <1>7 DEF Next, Finished

\* The thread of a spy that has given up takes no step.
LEMMA GoneForGood ==
  ASSUME TypeOK, NEW p \in Procs, Spy(p)
  PROVE  /\ thread[p] # "gone"
         /\ \A q \in Procs \ {p} : thread'[q] = thread[q] /\ initQ'[q] = initQ[q]
         /\ initQ'[p] = "err" => initQ[p] = "err" \/ thread'[p] = "gone"
<1>1. CASE SpyReady(p)
  <2>1. CASE TableDropped  BY <1>1, <2>1 DEF TypeOK, SpyReady
  <2>2. CASE ~ TableDropped  BY <1>1, <2>2 DEF TypeOK, SpyReady
  <2>3. QED  BY <2>1, <2>2
<1>2. CASE SpyFails(p)  BY <1>2 DEF TypeOK, SpyFails
<1>3. CASE SpyTake(p) \/ SpyClosed(p) \/ SpyError(p) \/ SpyRetire(p)
  BY <1>3 DEF TypeOK, SpyTake, SpyClosed, SpyError, SpyRetire
<1>4. CASE SpyAnswer(p) \/ SpySendError(p)
  <2>1. /\ thread[p] \in {"sampling", "failed"} /\ UNCHANGED initQ
        /\ \/ thread' = [thread EXCEPT ![p] = "gone"]
           \/ thread' = [thread EXCEPT ![p] = "idle"]
    BY <1>4 DEF SpyAnswer, SpySendError, SendAnswer
  <2>2. CASE thread' = [thread EXCEPT ![p] = "gone"]  BY <2>1, <2>2 DEF TypeOK
  <2>3. CASE thread' = [thread EXCEPT ![p] = "idle"]  BY <2>1, <2>3 DEF TypeOK
  <2>4. QED  BY <2>1, <2>2, <2>3
<1>5. QED  BY <1>1, <1>2, <1>3, <1>4 DEF Spy, SpyAttach, SpyServe

\* The start loop retries only when every spy it waited for has given up.
LEMMA OldEntriesPreserved ==
  ASSUME TypeOK, ThreadsStarted, OldEntries, [Next]_vars
  PROVE  OldEntries'
<1> USE DEF OldEntries, GivenUp
<1>1. CASE Env  BY <1>1, EnvFrame
<1>2. ASSUME NEW p \in Procs, Spy(p)  PROVE OldEntries'
  <2>1. UNCHANGED <<spies, main, mainTodo>>  BY <1>2, SpyFrame
  <2>2. \A q \in Procs : thread[q] = "gone" => thread'[q] = "gone"
    BY <1>2, GoneForGood
  <2>3. \A q \in Procs : initQ'[q] = "err" => thread'[q] = "gone"
    BY <1>2, GoneForGood
  <2>4. QED  BY <2>1, <2>2, <2>3 DEF TypeOK
<1>3. CASE Start
  <2>1. CASE OpenRoot  BY <2>1 DEF TypeOK, OpenRoot, Insert
  <2>2. CASE ListAtStart
    <3>1. \A L \in Listings : L \subseteq Procs /\ Root \notin L
      BY ListingTyped DEF Listings, Descendants
    <3>2. QED  BY <2>2, <3>1 DEF TypeOK, ListAtStart
  <2>3. ASSUME NEW p \in Procs, CreateAtStart(p)  PROVE OldEntries'
    BY <2>3 DEF TypeOK, CreateAtStart, Insert
  <2>4. CASE StartWaiting  BY <2>4 DEF StartWaiting
  <2>5. ASSUME NEW p \in Procs, WaitResult(p)  PROVE OldEntries'
    BY <2>5 DEF TypeOK, WaitResult, TakeInit
  <2>6. ASSUME NEW p \in Procs, WaitClosed(p)  PROVE OldEntries'
    BY <2>6 DEF TypeOK, WaitClosed
  <2>7. CASE Retry  BY <2>7 DEF TypeOK, Retry
  <2>8. QED  BY <1>3, <2>1, <2>2, <2>3, <2>4, <2>5, <2>6, <2>7 DEF Start
<1>4. CASE Consume  BY <1>4 DEF Consume, DropReceiver, Join
<1>5. CASE Monitor
  <2>1. ASSUME NEW p \in Procs, MonitorCreate(p)  PROVE OldEntries'
    <3>1. main \notin {"open", "list", "create", "wait"} /\ main' = main
      BY <2>1 DEF ThreadsStarted, MonitorCreate
    <3>2. \A q \in Procs : initQ'[q] = "err" => thread'[q] = "gone"
      BY <2>1 DEF TypeOK, MonitorCreate, Insert
    <3>3. QED  BY <3>1, <3>2
  <2>2. QED
    BY <1>5, <2>1 DEF Monitor, MonitorCheck, MonitorLock, MonitorList, MonitorUnlock
<1>6. CASE Sampler
  <2>1. ASSUME NEW p \in Procs, SamplerNotify(p)
        PROVE  \A q \in Procs : initQ'[q] = "err" => initQ[q] = "err"
    BY <2>1 DEF TypeOK, SamplerNotify
  <2>2. UNCHANGED initQ \/ \E p \in Procs : SamplerNotify(p)
    BY <1>6 DEF Sampler, Round, Collect, SamplerLock, SamplerWake, SamplerPoisoned,
       StartCollecting, CollectSkip, CollectAnswer, CollectClosed, Annotate, SamplerSend,
       SamplerDecide
  <2>3. \A q \in Procs : initQ'[q] = "err" => initQ[q] = "err"
    BY <2>1, <2>2
  <2>4. QED  BY <1>6, <2>3, SamplerFrame
<1>7. CASE UNCHANGED vars  BY <1>7 DEF vars
<1>8. QED  BY <1>1, <1>2, <1>3, <1>4, <1>5, <1>6, <1>7 DEF Next, Finished

\* A step of a spy touches no other spy; it reports before it is idle, and what
\* was due stays due or is delivered.
LEMMA SpyOthers ==
  ASSUME TypeOK, NEW p \in Procs, Spy(p), NEW q \in Procs \ {p}
  PROVE  /\ thread'[q] = thread[q] /\ initQ'[q] = initQ[q]
         /\ notifyQ'[q] = notifyQ[q] /\ sampleQ'[q] = sampleQ[q]
<1>1. thread'[q] = thread[q] /\ initQ'[q] = initQ[q]  BY GoneForGood
<1>2. UNCHANGED notifyQ \/ notifyQ' = [notifyQ EXCEPT ![p] = notifyQ[p] - 1]
  BY DEF Spy, SpyAttach, SpyServe, SpyReady, SpyFails, SpyTake, SpyClosed, SpyAnswer, SpyError,
     SpySendError, SpyRetire
<1>3. UNCHANGED sampleQ \/ \E r : sampleQ' = [sampleQ EXCEPT ![p] = Append(sampleQ[p], r)]
  BY DEF Spy, SpyAttach, SpyServe, SpyReady, SpyFails, SpyTake, SpyClosed, SpyAnswer, SpyError,
     SpySendError, SpyRetire, SendAnswer
<1>4. QED  BY <1>1, <1>2, <1>3 DEF TypeOK

LEMMA SpyKeepsWord ==
  ASSUME TypeOK, NEW p \in Procs, Spy(p)
  PROVE  (Reports(p) => Reports(p)') /\ (Due(p) => Due(p)')
<1> USE DEF Reports, Due
<1>1. CASE SpyReady(p)
  <2>1. thread[p] = "starting" /\ UNCHANGED <<notifyQ, sampleQ>>  BY <1>1 DEF SpyReady
  <2>2. CASE TableDropped  BY <1>1, <2>1, <2>2 DEF TypeOK, SpyReady
  <2>3. CASE ~ TableDropped  BY <1>1, <2>1, <2>3 DEF TypeOK, SpyReady
  <2>4. QED  BY <2>2, <2>3
<1>2. CASE SpyFails(p) \/ SpyClosed(p) \/ SpyRetire(p)
  <2>1. thread'[p] = "gone"  BY <1>2 DEF TypeOK, SpyFails, SpyClosed, SpyRetire
  <2>2. QED  BY <2>1
<1>3. CASE SpyTake(p) \/ SpyError(p)
  <2>1. /\ thread'[p] \in {"sampling", "failed"} /\ thread[p] \in {"idle", "sampling"}
        /\ UNCHANGED initQ
    BY <1>3 DEF TypeOK, SpyTake, SpyError
  <2>2. QED  BY <2>1
<1>4. CASE SpyAnswer(p) \/ SpySendError(p)
  <2>1. thread[p] \in {"sampling", "failed"} /\ UNCHANGED initQ
    BY <1>4 DEF SpyAnswer, SpySendError
  <2>2. PICK r \in {"ok", "err"} : SendAnswer(p, r)
    BY <1>4 DEF SpyAnswer, SpySendError
  <2>3. CASE TableDropped  BY <2>1, <2>2, <2>3 DEF TypeOK, SendAnswer
  <2>4. CASE ~ TableDropped
    <3>1. sampleQ'[p] = Append(sampleQ[p], r)  BY <2>2, <2>4 DEF TypeOK, SendAnswer
    <3>2. sampleQ'[p] # <<>>
      <4>1. sampleQ[p] \in Seq({"ok", "err"})  BY DEF TypeOK
      <4>2. QED  BY <3>1, <4>1
    <3>3. QED  BY <2>1, <3>2
  <2>5. QED  BY <2>3, <2>4
<1>5. QED  BY <1>1, <1>2, <1>3, <1>4 DEF Spy, SpyAttach, SpyServe

\* What was asked of a spy is answered, worked on, or lost with its thread.
LEMMA WaitsPreserved ==
  ASSUME TypeOK, MutexHeld, MutexHeld', ThreadsStarted, AttachedFirst, OldEntries, WaitsEnd,
         [Next]_vars
  PROVE  WaitsEnd'
<1> USE DEF WaitsEnd
<1>0. mon' = "lock" /\ samp' = "lock" => lock' \in {"free", "poisoned"}
  <2>1. lock' \in {"free", "monitor", "sampler", "poisoned"}  BY NextTyped DEF TypeOK
  <2>2. QED  BY <2>1 DEF MutexHeld
<1>1. CASE Env  BY <1>1, EnvFrame DEF Reports, Due
<1>2. ASSUME NEW p \in Procs, Spy(p)  PROVE WaitsEnd'
  <2>1. UNCHANGED <<spies, notified, main, mon, samp, lock>>  BY <1>2, SpyFrame
  <2>2. ASSUME NEW q \in Procs
        PROVE  (Reports(q) => Reports(q)') /\ (Due(q) => Due(q)')
    <3>1. CASE q = p  BY <1>2, <3>1, SpyKeepsWord
    <3>2. CASE q # p
      BY <1>2, <3>2, SpyOthers DEF Reports, Due
    <3>3. QED  BY <3>1, <3>2
  <2>3. spies \subseteq Procs  BY DEF TypeOK
  <2>4. QED  BY <2>1, <2>2, <2>3
<1>3. ASSUME NEW p \in Procs, NEW par, Insert(p, par)
      PROVE  /\ spies' \subseteq spies \cup {p}
             /\ Reports(p)' /\ ~ notified'[p]
             /\ \A q \in Procs \ {p} : /\ (Reports(q) => Reports(q)') /\ (Due(q) => Due(q)')
                                      /\ notified'[q] = notified[q]
  <2>1. /\ spies' = spies \cup {p} /\ thread'[p] = "starting" /\ ~ notified'[p]
        /\ \A q \in Procs \ {p} : /\ notified'[q] = notified[q] /\ thread'[q] = thread[q]
                                 /\ initQ'[q] = initQ[q] /\ notifyQ'[q] = notifyQ[q]
                                 /\ sampleQ'[q] = sampleQ[q]
    BY <1>3 DEF TypeOK, Insert
  <2>2. QED  BY <2>1 DEF Reports, Due
<1>4. spies \subseteq Procs  BY DEF TypeOK
<1>5. CASE Start
  <2>1. CASE OpenRoot
    <3>1. spies = {} /\ UNCHANGED samp /\ main' \in {"list", "failed"}
      BY <2>1 DEF OldEntries, OpenRoot
    <3>2. CASE Opens(Root)
      <4>1. Insert(Root, NoPid)  BY <2>1, <3>2 DEF OpenRoot
      <4>2. Root \in Procs  BY DEF Procs
      <4>3. QED  BY <1>0, <1>3, <3>1, <4>1, <4>2
    <3>3. CASE ~ Opens(Root)
      <4>1. UNCHANGED <<entryVars, chanVars>>  BY <2>1, <3>3 DEF OpenRoot
      <4>2. QED  BY <1>0, <3>1, <4>1 DEF entryVars, chanVars, Reports, Due
    <3>4. QED  BY <3>2, <3>3
  <2>2. ASSUME NEW p \in Procs, CreateAtStart(p)  PROVE WaitsEnd'
    <3>1. main = "create" /\ UNCHANGED <<main, samp>>  BY <2>2 DEF CreateAtStart
    <3>2. CASE Opens(p)
      <4>1. Insert(p, listed[p])  BY <2>2, <3>2 DEF CreateAtStart
      <4>2. QED  BY <1>0, <1>3, <1>4, <3>1, <4>1
    <3>3. CASE ~ Opens(p)
      <4>1. UNCHANGED <<entryVars, chanVars>>  BY <2>2, <3>3 DEF CreateAtStart
      <4>2. QED  BY <1>0, <3>1, <4>1 DEF entryVars, chanVars, Reports, Due
    <3>4. QED  BY <3>2, <3>3
  <2>3. ASSUME NEW p \in Procs, WaitResult(p)  PROVE WaitsEnd'
    <3>1. /\ UNCHANGED <<spies, notified, thread, notifyQ, sampleQ>>
          /\ \A q \in Procs \ {p} : initQ'[q] = initQ[q]
          /\ \/ initQ[p] = "ok" /\ main' = "receive" /\ samp' = "sleep"
             \/ initQ[p] = "err" /\ main' = "wait" /\ main = "wait" /\ samp' = samp
      BY <2>3 DEF TypeOK, WaitResult, TakeInit
    <3>2. initQ[p] = "err" => thread[p] = "gone"  BY DEF OldEntries, GivenUp
    <3>3. QED  BY <1>0, <1>4, <3>1, <3>2 DEF Reports, Due
  <2>4. CASE ListAtStart \/ StartWaiting \/ Retry \/ \E p \in Procs : WaitClosed(p)
    <3>1. /\ UNCHANGED <<entryVars, chanVars, samp>>
          /\ main \in {"list", "create", "wait"}
          /\ main' \in {"list", "create", "wait", "failed"}
      BY <2>4 DEF ListAtStart, StartWaiting, Retry, WaitClosed, sampVars
    <3>2. QED  BY <1>0, <3>1 DEF entryVars, chanVars, Reports, Due
  <2>5. QED  BY <1>5, <2>1, <2>2, <2>3, <2>4 DEF Start
<1>6. CASE Consume  BY <1>6 DEF Consume, DropReceiver, Join, Reports, Due
<1>7. CASE Monitor
  <2>1. UNCHANGED <<main, samp>> /\ main \notin {"list", "create", "wait"}
    BY <1>7, MonitorFrame DEF ThreadsStarted, Monitor, MonitorCheck, MonitorLock, MonitorList,
       MonitorCreate, MonitorUnlock
  <2>2. ASSUME NEW p \in Procs, MonitorCreate(p)  PROVE WaitsEnd'
    <3>1. CASE p \notin spies /\ Opens(p)
      <4>1. Insert(p, listed[p])  BY <2>2, <3>1 DEF MonitorCreate
      <4>2. QED  BY <1>0, <1>3, <2>1, <4>1
    <3>2. CASE ~ (p \notin spies /\ Opens(p))
      <4>1. UNCHANGED <<entryVars, chanVars>>  BY <2>2, <3>2 DEF MonitorCreate
      <4>2. QED  BY <1>0, <2>1, <4>1 DEF entryVars, chanVars, Due
    <3>3. QED  BY <3>1, <3>2
  <2>3. CASE MonitorCheck \/ MonitorLock \/ MonitorList \/ MonitorUnlock
    <3>1. UNCHANGED <<entryVars, chanVars>>
      BY <2>3 DEF MonitorCheck, MonitorLock, MonitorList, MonitorUnlock
    <3>2. QED  BY <1>0, <2>1, <3>1 DEF entryVars, chanVars, Due
  <2>4. QED  BY <1>7, <2>2, <2>3 DEF Monitor
<1>8. CASE Sampler
  <2>1. /\ main \notin {"list", "create", "wait"} /\ samp' # "none"
        /\ UNCHANGED <<main, thread>>
    BY <1>8, SamplerFrame DEF ThreadsStarted, Sampler, Round, Collect, SamplerLock,
       SamplerWake, SamplerPoisoned, SamplerNotify, StartCollecting, CollectSkip,
       CollectAnswer, CollectClosed, Annotate, SamplerSend, SamplerDecide
  <2>2. ASSUME NEW p \in Procs, SamplerNotify(p)  PROVE WaitsEnd'
    <3>1. /\ sampleQ' = sampleQ
          /\ \A q \in Procs \ {p} : notified'[q] = notified[q] /\ notifyQ'[q] = notifyQ[q]
      BY <2>2 DEF TypeOK, SamplerNotify
    <3>2. CASE IsInitialized(p) /\ thread[p] # "gone"
      <4>1. notifyQ'[p] = notifyQ[p] + 1 /\ notifyQ[p] \in Nat
        BY <2>2, <3>2 DEF TypeOK, SamplerNotify
      <4>2. notifyQ'[p] # 0  BY <4>1
      <4>3. thread[p] \in {"idle", "sampling", "failed"}
        BY <3>2 DEF TypeOK, AttachedFirst, IsInitialized
      <4>4. QED  BY <1>0, <2>1, <3>1, <4>2, <4>3 DEF Due
    <3>3. CASE ~ (IsInitialized(p) /\ thread[p] # "gone")
      <4>1. UNCHANGED <<notified, notifyQ>>  BY <2>2, <3>3 DEF SamplerNotify
      <4>2. QED  BY <1>0, <2>1, <3>1, <4>1 DEF Due
    <3>4. QED  BY <3>2, <3>3
  <2>3. ASSUME NEW p \in Procs, Collect(p)  PROVE WaitsEnd'
    <3>1. /\ UNCHANGED notifyQ /\ ~ notified'[p]
          /\ \A q \in Procs \ {p} : notified'[q] = notified[q] /\ sampleQ'[q] = sampleQ[q]
      BY <2>3 DEF TypeOK, Collect, CollectSkip, CollectAnswer, CollectClosed
    <3>2. QED  BY <1>0, <2>1, <3>1 DEF Due
  <2>4. CASE \/ SamplerLock \/ SamplerWake \/ SamplerPoisoned \/ StartCollecting
             \/ Annotate \/ SamplerSend \/ SamplerDecide
    <3>1. UNCHANGED <<notified, notifyQ, sampleQ>>
      BY <2>4 DEF SamplerLock, SamplerWake, SamplerPoisoned, StartCollecting, Annotate,
         SamplerSend, SamplerDecide
    <3>2. QED  BY <1>0, <2>1, <3>1 DEF Due
  <2>5. QED  BY <1>8, <2>2, <2>3, <2>4 DEF Sampler, Round
<1>9. CASE UNCHANGED vars  BY <1>9 DEF vars, Reports, Due
<1>10. QED  BY <1>1, <1>2, <1>5, <1>6, <1>7, <1>8, <1>9 DEF Next, Finished

\* The parent of a listed process is listed too, or it is the root, or init.
LEMMA ListingParents ==
  ASSUME TypeOK, TreeKnown, NEW L \in Listings, NEW p \in L
  PROVE  p \in born \ {Root} /\ osParent[p] \in L \cup {Root, NoPid}
<1>1. p \in Descendants /\ p \in born \ {Root}  BY DEF Listings, Descendants
<1>2. SUFFICES ASSUME osParent[p] \notin {Root, NoPid}
               PROVE  osParent[p] \in Descendants \cap alive
  BY <1>1 DEF Listings
<1>3. osParent[p] \in alive /\ osParent[p] \in born \ {Root}
  BY <1>1, <1>2 DEF TypeOK, TreeKnown
<1>4. ASSUME NEW S \in SUBSET born, osParent[p] \in S,
             \A q \in S : osParent[q] \in born => osParent[q] \in S
      PROVE  Root \in S
  <2>1. S \cup {p} \in SUBSET born /\ p \in S \cup {p}  BY <1>1
  <2>2. \A q \in S \cup {p} : osParent[q] \in born => osParent[q] \in S \cup {p}
    BY <1>4
  <2>3. Root \in S \cup {p}  BY <1>1, <2>1, <2>2 DEF Descendants
  <2>4. QED  BY <1>1, <2>3
<1>5. osParent[p] \in Descendants  BY <1>3, <1>4 DEF Descendants
<1>6. QED  BY <1>3, <1>5

\* What is settled stays so: entries are not removed, no process starts twice.
LEMMA SettledGrows ==
  ASSUME TypeOK, TreeKnown, [Next]_vars
  PROVE  spies \subseteq spies' /\ NeverOpens \subseteq NeverOpens' /\ Settled \subseteq Settled'
<1>1. spies \subseteq spies' /\ NeverOpens \subseteq NeverOpens'
  <2>1. CASE Env
    <3>1. ASSUME NEW p \in Procs, Spawn(p)  PROVE NeverOpens \subseteq NeverOpens'
      BY <3>1 DEF TreeKnown, Spawn, NeverOpens
    <3>2. ASSUME NEW p \in Procs, Exit(p)  PROVE NeverOpens \subseteq NeverOpens'
      BY <3>2 DEF Exit, NeverOpens
    <3>3. QED  BY <2>1, <3>1, <3>2, EnvFrame DEF Env
  <2>2. ASSUME NEW p \in Procs, Spy(p)
        PROVE  spies \subseteq spies' /\ NeverOpens \subseteq NeverOpens'
    BY <2>2, SpyFrame DEF NeverOpens
  <2>3. CASE Start
    <3>1. spies \subseteq spies'
      BY <2>3 DEF Start, OpenRoot, ListAtStart, CreateAtStart, StartWaiting, WaitResult,
         WaitClosed, Retry, Insert
    <3>2. QED  BY <2>3, <3>1, MainFrame DEF NeverOpens
  <2>4. CASE Consume  BY <2>4 DEF Consume, DropReceiver, Join, NeverOpens
  <2>5. CASE Monitor
    <3>1. spies \subseteq spies'
      BY <2>5 DEF Monitor, MonitorCheck, MonitorLock, MonitorList, MonitorCreate,
         MonitorUnlock, Insert
    <3>2. QED  BY <2>5, <3>1, MonitorFrame DEF NeverOpens
  <2>6. CASE Sampler  BY <2>6, SamplerFrame DEF NeverOpens
  <2>7. CASE UNCHANGED vars  BY <2>7 DEF vars, NeverOpens
  <2>8. QED  BY <2>1, <2>2, <2>3, <2>4, <2>5, <2>6, <2>7 DEF Next, Finished
<1>2. QED  BY <1>1 DEF Settled

\* Creating the entry of a listed process: its parent is known, and so is what
\* becomes of the process itself.
LEMMA CreateKnown ==
  ASSUME TypeOK, TreeKnown, NEW p \in Listed, UNCHANGED osVars, listed' = Forget(p),
         Listed' = Listed \ {p}, Settled \subseteq Settled',
         \/ Insert(p, listed[p])
         \/ p \in spies \cup NeverOpens /\ UNCHANGED <<spies, parent>>
  PROVE  /\ Settled \cup Listed \subseteq Settled' \cup Listed'
         /\ \A q \in spies' : parent'[q] \in Settled' \cup Listed'
         /\ \A q \in Listed' : listed'[q] = listed[q]
<1>1. p \in Procs  BY DEF TypeOK, TreeKnown
<1>2. \A q \in Listed' : listed'[q] = listed[q]
  BY DEF TypeOK, TreeKnown, Forget
<1>3. CASE Insert(p, listed[p])
  <2>1. /\ spies' = spies \cup {p} /\ parent'[p] = listed[p]
        /\ \A q \in Procs \ {p} : parent'[q] = parent[q]
    BY <1>1, <1>3 DEF TypeOK, Insert
  <2>2. Settled \cup Listed \subseteq Settled' \cup Listed'
    BY <2>1 DEF Settled
  <2>3. QED  BY <1>2, <2>1, <2>2 DEF TypeOK, TreeKnown
<1>4. CASE p \in spies \cup NeverOpens /\ UNCHANGED <<spies, parent>>
  <2>1. Settled \cup Listed \subseteq Settled' \cup Listed'
    BY <1>4 DEF Settled
  <2>2. QED  BY <1>2, <1>4, <2>1 DEF TreeKnown
<1>5. QED  BY <1>3, <1>4

\* A process that was started and cannot be opened now never will be.
LEMMA OpensOrNever ==
  ASSUME NEW p \in born
  PROVE  Opens(p) \/ p \in NeverOpens
BY DEF Opens, NeverOpens

\* Between a listing and the end of the loop over it, the listing accounts for
\* the parents that have no entry yet.
LEMMA TreePreserved ==
  ASSUME TypeOK, ThreadsStarted, TreeKnown, [Next]_vars
  PROVE  TreeKnown'
<1>1. Settled \subseteq Settled'  BY SettledGrows
<1>2. ASSUME UNCHANGED <<osVars, listed, spies, parent, main, Listed>>
      PROVE  TreeKnown'
  BY <1>1, <1>2 DEF TreeKnown
<1>3. CASE Env
  <2>1. UNCHANGED <<listed, entryVars, mainVars, monVars>> /\ Listed' = Listed
    BY <1>3, EnvFrame DEF Listed
  <2>2. ASSUME NEW p \in Procs, Spawn(p)  PROVE TreeKnown'
    BY <1>1, <2>1, <2>2 DEF TypeOK, TreeKnown, Spawn
  <2>3. ASSUME NEW p \in Procs, Exit(p)  PROVE TreeKnown'
    <3>1. /\ alive' = alive \ {p} /\ born' = born
          /\ \A q \in Procs : osParent'[q] = IF osParent[q] = p THEN NoPid ELSE osParent[q]
      BY <2>3 DEF Exit
    <3>2. NoPid \in Settled'  BY DEF Settled
    <3>3. QED  BY <1>1, <2>1, <3>1, <3>2 DEF TypeOK, TreeKnown
  <2>4. QED  BY <1>3, <2>2, <2>3 DEF Env
<1>4. ASSUME NEW p \in Procs, Spy(p)  PROVE TreeKnown'
  BY <1>2, <1>4, SpyFrame DEF Listed
<1>5. CASE Start
  <2>1. mon = "none" /\ mon' \in {"none", "check"} /\ UNCHANGED osVars
    BY <1>5, MainFrame DEF ThreadsStarted, Start, OpenRoot, ListAtStart, CreateAtStart,
       StartWaiting, WaitResult, WaitClosed, Retry
  <2>2. CASE OpenRoot
    <3>1. Listed = {} /\ Listed' = {}  BY <2>1, <2>2 DEF OpenRoot, Listed
    <3>2. CASE Opens(Root)
      <4>1. /\ spies' = spies \cup {Root} /\ parent'[Root] = NoPid
            /\ \A q \in Procs \ {Root} : parent'[q] = parent[q]
        BY <2>2, <3>2 DEF TypeOK, OpenRoot, Insert
      <4>2. NoPid \in Settled'  BY DEF Settled
      <4>3. QED  BY <1>1, <2>1, <3>1, <4>1, <4>2 DEF TypeOK, TreeKnown
    <3>3. CASE ~ Opens(Root)
      BY <1>1, <2>1, <2>2, <3>1, <3>3 DEF OpenRoot, TreeKnown
    <3>4. QED  BY <3>2, <3>3
  <2>3. CASE ListAtStart
    <3>1. Root \in spies /\ Listed = {} /\ UNCHANGED <<spies, parent>>
      BY <2>1, <2>3 DEF TreeKnown, ListAtStart, Listed
    <3>2. CASE main' = "failed"
      <4>1. Listed' = {}  BY <2>1, <3>2 DEF Listed
      <4>2. QED  BY <1>1, <2>1, <3>1, <3>2, <4>1 DEF TreeKnown
    <3>3. CASE main' = "create" /\ mainTodo' \in Listings /\ listed' = ParentsIn(mainTodo')
      <4>1. Listed' = mainTodo'  BY <3>3 DEF Listed
      <4>2. \A p \in mainTodo' : p \in born /\ listed'[p] \in mainTodo' \cup {Root, NoPid}
        BY <3>3, ListingParents, ListingTyped DEF ParentsIn
      <4>3. {Root, NoPid} \subseteq Settled'  BY <1>1, <3>1 DEF Settled
      <4>4. QED  BY <1>1, <2>1, <3>1, <3>3, <4>1, <4>2, <4>3 DEF TreeKnown
    <3>4. QED  BY <2>3, <3>2, <3>3 DEF ListAtStart
  <2>4. ASSUME NEW p \in Procs, CreateAtStart(p)  PROVE TreeKnown'
    <3>1. p \in Listed /\ Listed' = Listed \ {p} /\ main = "create" /\ main' = main
      BY <2>4 DEF CreateAtStart, Listed
    <3>2. p \in born  BY <3>1 DEF TreeKnown
    <3>3. /\ \/ Insert(p, listed[p])
             \/ p \in spies \cup NeverOpens /\ UNCHANGED <<spies, parent>>
          /\ listed' = Forget(p)
      BY <2>4, <3>2, OpensOrNever DEF CreateAtStart
    <3>4. /\ Settled \cup Listed \subseteq Settled' \cup Listed'
          /\ \A q \in spies' : parent'[q] \in Settled' \cup Listed'
          /\ \A q \in Listed' : listed'[q] = listed[q]
      BY <1>1, <2>1, <3>1, <3>3, CreateKnown
    <3>5. spies \subseteq spies'  BY SettledGrows
    <3>6. QED  BY <2>1, <3>1, <3>4, <3>5 DEF TreeKnown
  <2>5. CASE StartWaiting \/ Retry \/ \E p \in Procs : WaitResult(p) \/ WaitClosed(p)
    <3>1. /\ Listed = {} /\ Listed' = {} /\ UNCHANGED <<listed, spies, parent>>
          /\ main \notin {"open", "failed"}
      BY <2>1, <2>5 DEF StartWaiting, Retry, WaitResult, WaitClosed, Listed
    <3>2. QED  BY <1>1, <2>1, <3>1 DEF TreeKnown
  <2>6. QED  BY <1>5, <2>2, <2>3, <2>4, <2>5 DEF Start
<1>6. CASE Consume
  <2>1. /\ Listed' = Listed /\ UNCHANGED <<osVars, listed, spies, parent>>
        /\ main \notin {"open", "failed"}
    BY <1>6 DEF Consume, DropReceiver, Join, Listed
  <2>2. QED  BY <1>1, <2>1 DEF TreeKnown
<1>7. CASE Monitor
  <2>1. main \notin {"open", "list", "create", "wait", "failed"} /\ UNCHANGED <<osVars, main>>
    BY <1>7, MonitorFrame DEF ThreadsStarted, Monitor, MonitorCheck, MonitorLock, MonitorList,
       MonitorCreate, MonitorUnlock
  <2>2. CASE MonitorCheck \/ MonitorLock \/ MonitorUnlock
    BY <1>2, <2>1, <2>2 DEF MonitorCheck, MonitorLock, MonitorUnlock, Listed
  <2>3. CASE MonitorList
    <3>1. Root \in spies /\ Listed = {} /\ UNCHANGED <<spies, parent>>
      BY <2>1, <2>3 DEF TreeKnown, MonitorList, Listed
    <3>2. CASE mon' = "panicked"
      <4>1. Listed' = {}  BY <2>1, <3>2 DEF Listed
      <4>2. QED  BY <1>1, <2>1, <3>1, <4>1 DEF TreeKnown
    <3>3. CASE mon' = "create" /\ monTodo' \in Listings /\ listed' = ParentsIn(monTodo')
      <4>1. Listed' = monTodo'  BY <2>1, <3>3 DEF Listed
      <4>2. \A p \in monTodo' : p \in born /\ listed'[p] \in monTodo' \cup {Root, NoPid}
        BY <3>3, ListingParents, ListingTyped DEF ParentsIn
      <4>3. {Root, NoPid} \subseteq Settled'  BY <1>1, <3>1 DEF Settled
      <4>4. QED  BY <1>1, <2>1, <3>1, <4>1, <4>2, <4>3 DEF TreeKnown
    <3>4. QED  BY <2>3, <3>2, <3>3 DEF MonitorList
  <2>4. ASSUME NEW p \in Procs, MonitorCreate(p)  PROVE TreeKnown'
    <3>1. p \in Listed /\ Listed' = Listed \ {p}
      BY <2>1, <2>4 DEF MonitorCreate, Listed
    <3>2. p \in born  BY <3>1 DEF TreeKnown
    <3>3. /\ \/ Insert(p, listed[p])
             \/ p \in spies \cup NeverOpens /\ UNCHANGED <<spies, parent>>
          /\ listed' = Forget(p)
      BY <2>4, <3>2, OpensOrNever DEF MonitorCreate
    <3>4. /\ Settled \cup Listed \subseteq Settled' \cup Listed'
          /\ \A q \in spies' : parent'[q] \in Settled' \cup Listed'
          /\ \A q \in Listed' : listed'[q] = listed[q]
      BY <1>1, <2>1, <3>1, <3>3, CreateKnown
    <3>5. spies \subseteq spies'  BY SettledGrows
    <3>6. QED  BY <2>1, <3>1, <3>4, <3>5 DEF TreeKnown
  <2>5. QED  BY <1>7, <2>2, <2>3, <2>4 DEF Monitor
<1>8. CASE Sampler  BY <1>2, <1>8, SamplerFrame DEF Listed
<1>9. CASE UNCHANGED vars  BY <1>2, <1>9 DEF vars, Listed
<1>10. QED
  BY <1>3, <1>4, <1>5, <1>6, <1>7, <1>8, <1>9 DEF Next, Finished

\* A process with an entry is in its own process info, which follows the
\* recorded parents as far as they have entries.
LEMMA LineageClosed ==
  ASSUME NEW p \in spies
  PROVE  /\ p \in Lineage(p) /\ Lineage(p) \subseteq spies
         /\ \A q \in Lineage(p) : parent[q] \in spies => parent[q] \in Lineage(p)
BY DEF Lineage

\* An entry that no recorded parent of p's process info waits for does not
\* change it.
LEMMA LineageKept ==
  ASSUME TypeOK, NEW p \in spies, NEW n \in Procs \ spies, NEW par, Insert(n, par),
         \A q \in Lineage(p) : parent[q] # n
  PROVE  Lineage(p)' = Lineage(p)
<1>1. /\ spies' = spies \cup {n}
      /\ \A q \in spies : parent'[q] = parent[q]
  BY DEF TypeOK, Insert
<1>2. Lineage(p)' \subseteq Lineage(p)
  <2>1. Lineage(p) \in SUBSET spies' /\ p \in Lineage(p)  BY <1>1, LineageClosed
  <2>2. \A q \in Lineage(p) : parent'[q] \in spies' => parent'[q] \in Lineage(p)
    BY <1>1, LineageClosed
  <2>3. QED  BY <2>1, <2>2 DEF Lineage
<1>3. ASSUME NEW q \in Lineage(p)  PROVE q \in Lineage(p)'
  <2>1. q \in spies'  BY <1>1, LineageClosed
  <2>2. ASSUME NEW S \in SUBSET spies', p \in S,
               \A r \in S : parent'[r] \in spies' => parent'[r] \in S
        PROVE  q \in S
    <3>1. S \cap spies \in SUBSET spies /\ p \in S \cap spies  BY <2>2
    <3>2. \A r \in S \cap spies : parent[r] \in spies => parent[r] \in S \cap spies
      BY <1>1, <2>2
    <3>3. QED  BY <3>1, <3>2 DEF Lineage
  <2>3. QED  BY <2>1, <2>2 DEF Lineage
<1>4. QED  BY <1>2, <1>3

\* Process info is cached when the parents of all entries are settled.
LEMMA InfoPreserved ==
  ASSUME TypeOK, MutexHeld, ThreadsStarted, Gathered, TreeKnown, InfoSettled, [Next]_vars
  PROVE  InfoSettled'
<1>1. Settled \subseteq Settled'  BY SettledGrows
<1>2. ASSUME UNCHANGED <<spies, parent, info>>, samp' = "none" => samp = "none"
      PROVE  InfoSettled'
  <2>1. \A p \in Procs : Lineage(p)' = Lineage(p)  BY <1>2 DEF Lineage
  <2>2. QED  BY <1>1, <1>2, <2>1 DEF InfoSettled
<1>3. CASE Env  BY <1>2, <1>3, EnvFrame
<1>4. ASSUME NEW p \in Procs, Spy(p)  PROVE InfoSettled'
  BY <1>2, <1>4, SpyFrame
<1>5. CASE Start
  <2>1. samp = "none"
    BY <1>5 DEF ThreadsStarted, Start, OpenRoot, ListAtStart, CreateAtStart, StartWaiting,
       WaitResult, WaitClosed, Retry
  <2>2. \A p \in Procs : info'[p] = {}  BY <1>5, <2>1, MainFrame DEF InfoSettled
  <2>3. QED  BY <2>2 DEF InfoSettled
<1>6. CASE Consume  BY <1>2, <1>6 DEF Consume, DropReceiver, Join
<1>7. CASE Monitor
  <2>1. CASE MonitorCheck \/ MonitorLock \/ MonitorList \/ MonitorUnlock
    BY <1>2, <2>1 DEF MonitorCheck, MonitorLock, MonitorList, MonitorUnlock
  <2>2. ASSUME NEW n \in Procs, MonitorCreate(n)  PROVE InfoSettled'
    <3>1. UNCHANGED <<samp, info>>  BY <2>2 DEF MonitorCreate
    <3>2. CASE n \notin spies /\ Opens(n)
      <4>1. Insert(n, listed[n])  BY <2>2, <3>2 DEF MonitorCreate
      <4>2. n \notin Settled
        BY <3>2, PidAssumption DEF Settled, NeverOpens, Opens
      <4>3. /\ spies \subseteq spies' /\ \A q \in spies : parent'[q] = parent[q]
        BY <3>2, <4>1 DEF TypeOK, Insert
      <4>4. ASSUME NEW p \in Procs, info'[p] # {}
            PROVE  /\ p \in spies' /\ info'[p] = Lineage(p)'
                   /\ \A q \in info'[p] : parent'[q] \in Settled'
        <5>1. /\ p \in spies /\ info[p] = Lineage(p)
              /\ \A q \in info[p] : parent[q] \in Settled
          BY <3>1, <4>4 DEF InfoSettled
        <5>2. Lineage(p) \subseteq spies /\ \A q \in Lineage(p) : parent[q] # n
          BY <4>2, <5>1, LineageClosed
        <5>3. Lineage(p)' = Lineage(p)  BY <3>2, <4>1, <5>1, <5>2, LineageKept
        <5>4. QED  BY <1>1, <3>1, <4>3, <5>1, <5>2, <5>3
      <4>5. QED  BY <3>1, <4>4 DEF InfoSettled
    <3>3. CASE ~ (n \notin spies /\ Opens(n))
      BY <1>2, <2>2, <3>3 DEF MonitorCreate
    <3>4. QED  BY <3>2, <3>3
  <2>3. QED  BY <1>7, <2>1, <2>2 DEF Monitor
<1>8. CASE Sampler
  <2>1. CASE Annotate
    <3>1. /\ samp = "collect" /\ samp' = "send" /\ UNCHANGED <<spies, parent>>
          /\ \A p \in Procs : info'[p] = IF p \in traces /\ info[p] = {} THEN Lineage(p)
                                         ELSE info[p]
      BY <2>1 DEF Annotate
    <3>2. Listed = {}  BY <3>1 DEF MutexHeld, ThreadsStarted, Listed
    <3>3. \A q \in spies : parent[q] \in Settled  BY <3>2 DEF TreeKnown
    <3>4. traces \subseteq spies  BY <3>1 DEF Gathered
    <3>5. \A p \in Procs : Lineage(p)' = Lineage(p)  BY <3>1 DEF Lineage
    <3>6. ASSUME NEW p \in Procs, info'[p] # {}
          PROVE  /\ p \in spies' /\ info'[p] = Lineage(p)'
                 /\ \A q \in info'[p] : parent'[q] \in Settled'
      <4>1. CASE info[p] # {}
        BY <1>1, <3>1, <3>5, <3>6, <4>1 DEF InfoSettled
      <4>2. CASE info[p] = {}
        <5>1. p \in spies /\ info'[p] = Lineage(p)  BY <3>1, <3>4, <3>6, <4>2
        <5>2. Lineage(p) \subseteq spies  BY <5>1, LineageClosed
        <5>3. QED  BY <1>1, <3>1, <3>3, <3>5, <5>1, <5>2
      <4>3. QED  BY <4>1, <4>2
    <3>7. QED  BY <3>1, <3>6 DEF InfoSettled
  <2>2. CASE ~ Annotate
    <3>1. UNCHANGED info /\ samp' # "none"
      BY <1>8, <2>2 DEF Sampler, Round, Collect, SamplerLock, SamplerWake, SamplerPoisoned,
         SamplerNotify, StartCollecting, CollectSkip, CollectAnswer, CollectClosed, SamplerSend,
         SamplerDecide
    <3>2. QED  BY <1>2, <1>8, <3>1, SamplerFrame
  <2>3. QED  BY <2>1, <2>2
<1>9. CASE UNCHANGED vars  BY <1>2, <1>9 DEF vars
<1>10. QED
  BY <1>3, <1>4, <1>5, <1>6, <1>7, <1>8, <1>9 DEF Next, Finished

LEMMA InitInv == Init => SamplerInv
<1> SUFFICES ASSUME Init  PROVE SamplerInv
  OBVIOUS
<1>1. TypeOK  BY InitTyped
<1>2. NoStaleAnswer
  <2>1. \A p \in Procs : Len(sampleQ[p]) = 0 /\ sampleQ[p] = <<>>  BY DEF Init
  <2>2. QED  BY <2>1 DEF Init, NoStaleAnswer, Outstanding
<1>3. Gathered /\ OldEntries /\ WaitsEnd /\ InfoSettled
  BY DEF Init, Gathered, OldEntries, WaitsEnd, InfoSettled
<1>4. TreeKnown  BY DEF Init, TreeKnown, Listed
<1>5. QED
  BY <1>1, <1>2, <1>3, <1>4
  DEF Init, SamplerInv, MutexHeld, ThreadsStarted, RequestsOfRound, AttachedFirst

LEMMA NextInv == SamplerInv /\ [Next]_vars => SamplerInv'
BY NextTyped, MutexPreserved, RequestsPreserved, AttachedPreserved, AnswersPreserved,
   GatheredPreserved, OldEntriesPreserved, WaitsPreserved, TreePreserved, InfoPreserved
DEF SamplerInv

\* The inductive invariant holds in every reachable state.
THEOREM SamplerInvariant == Spec => []SamplerInv
BY InitInv, NextInv, PTL DEF Spec

\* An answer the sampler collects was asked for in the same round, whatever
\* the processes, the spies and the monitor do.
THEOREM AnswersAreFresh == Spec => []NoStaleAnswer
<1>1. SamplerInv => NoStaleAnswer  BY DEF SamplerInv
<1>2. QED  BY <1>1, SamplerInvariant, PTL

\* Whatever a thread blocks on, a result, an answer, the mutex or the end of
\* the sampling thread, is there or is owed by a thread that has work to do:
\* the profiler never stands still with everyone waiting for someone else.
THEOREM NobodyWaitsInVain == Spec => []WaitsEnd
<1>1. SamplerInv => WaitsEnd  BY DEF SamplerInv
<1>2. QED  BY <1>1, SamplerInvariant, PTL

\* A sample that is sent has one result of every spy that runs: traces or an
\* error, never both.
THEOREM SamplesAreComplete == Spec => []SampleComplete
<1>1. SamplerInv => SampleComplete  BY DEF SamplerInv, Gathered, SampleComplete
<1>2. QED  BY <1>1, SamplerInvariant, PTL

\* The process info attached to a process's traces is the one its table gives
\* now, although it was computed once and the table grows.
THEOREM InfoStaysCurrent == Spec => []InfoCurrent
<1>1. SamplerInv => InfoCurrent  BY DEF SamplerInv, InfoSettled, InfoCurrent
<1>2. QED  BY <1>1, SamplerInvariant, PTL

LEMMA ReplacedOnlyGone ==
  SamplerInv /\ [Next]_vars =>
    [\A p \in spies : thread[p] # thread'[p] /\ thread'[p] = "starting"
                        => thread[p] = "gone"]_vars
<1> SUFFICES ASSUME SamplerInv, [Next]_vars, NEW p \in spies,
                    thread[p] # thread'[p], thread'[p] = "starting"
             PROVE  thread[p] = "gone"
  OBVIOUS
<1> USE DEF SamplerInv, TypeOK
<1>1. CASE Env  BY <1>1, EnvFrame
<1>2. ASSUME NEW q \in Procs, Spy(q)  PROVE FALSE
  <2>1. CASE SpyReady(q)
    <3>1. CASE TableDropped  BY <2>1, <3>1 DEF SpyReady
    <3>2. CASE ~ TableDropped  BY <2>1, <3>2 DEF SpyReady
    <3>3. QED  BY <3>1, <3>2
  <2>2. CASE SpyAnswer(q) \/ SpySendError(q)
    <3>1. \/ thread' = [thread EXCEPT ![q] = "gone"]
          \/ thread' = [thread EXCEPT ![q] = "idle"]
      BY <2>2 DEF SpyAnswer, SpySendError, SendAnswer
    <3>2. QED  BY <3>1
  <2>3. QED
    BY <1>2, <2>1, <2>2 DEF Spy, SpyAttach, SpyServe, SpyFails, SpyTake, SpyClosed, SpyError,
       SpyRetire
<1>3. CASE Start
  <2>1. CASE OpenRoot  BY <2>1 DEF OldEntries, OpenRoot
  <2>2. ASSUME NEW q \in Procs, CreateAtStart(q)  PROVE thread[p] = "gone"
    BY <2>2 DEF OldEntries, GivenUp, CreateAtStart, Insert
  <2>3. QED
    BY <1>3, <2>1, <2>2 DEF Start, ListAtStart, StartWaiting, WaitResult, WaitClosed, Retry
<1>4. CASE Consume  BY <1>4 DEF Consume, DropReceiver, Join
<1>5. CASE Monitor
  BY <1>5 DEF Monitor, MonitorCheck, MonitorLock, MonitorList, MonitorCreate, MonitorUnlock,
     Insert
<1>6. CASE Sampler  BY <1>6, SamplerFrame
<1>7. CASE UNCHANGED vars  BY <1>7 DEF vars
<1>8. QED  BY <1>1, <1>2, <1>3, <1>4, <1>5, <1>6, <1>7 DEF Next, Finished

\* A retry of the start loop replaces no spy whose thread still runs, and
\* nothing else replaces an entry.
THEOREM NoSpyIsCutOff == Spec => NoSpyReplaced
BY SamplerInvariant, ReplacedOnlyGone, PTL DEF Spec, NoSpyReplaced

-----------------------------------------------------------------------------
(***************************************************************************)
(* Refinement: every step of the sampler is a step of the abstract rounds  *)
(* or leaves phase and flight as they are.                                 *)
(***************************************************************************)

\* The request of a process is a function of its channels and its thread.
LEMMA FlightFrame ==
  ASSUME UNCHANGED <<thread, notifyQ, sampleQ>>
  PROVE  RoundFlight' = RoundFlight
BY DEF RoundFlight, Outstanding

LEMMA PhaseFrame ==
  ASSUME UNCHANGED samp
  PROVE  RoundPhase' = RoundPhase
BY DEF RoundPhase

\* A step that changes the channels and the thread of p only changes the
\* request of p only.
LEMMA FlightAt ==
  ASSUME NEW p \in Procs, NEW v,
         \A q \in Procs \ {p} : /\ thread'[q] = thread[q] /\ notifyQ'[q] = notifyQ[q]
                                /\ sampleQ'[q] = sampleQ[q],
         v = IF sampleQ'[p] # <<>> THEN "answered"
             ELSE IF Outstanding(p)' THEN "asked" ELSE "none"
  PROVE  RoundFlight' = [RoundFlight EXCEPT ![p] = v]
BY DEF RoundFlight, Outstanding

\* An entry that is inserted has no request under way, before or after.
LEMMA InsertStutters ==
  ASSUME SamplerInv, NEW p \in Procs, NEW par, Insert(p, par), ~ notified[p]
  PROVE  RoundFlight' = RoundFlight
<1>1. ~ Outstanding(p)  BY DEF SamplerInv, NoStaleAnswer
<1>2. RoundFlight[p] = "none"  BY <1>1 DEF RoundFlight, Outstanding
<1>3. RoundFlight' = [RoundFlight EXCEPT ![p] = "none"]
  <2>1. \A q \in Procs \ {p} : /\ thread'[q] = thread[q] /\ notifyQ'[q] = notifyQ[q]
                               /\ sampleQ'[q] = sampleQ[q]
    BY DEF SamplerInv, TypeOK, Insert
  <2>2. thread'[p] = "starting" /\ notifyQ'[p] = 0 /\ sampleQ'[p] = <<>>
    BY DEF SamplerInv, TypeOK, Insert
  <2>3. QED  BY <2>1, <2>2, FlightAt DEF Outstanding
<1>4. QED  BY <1>2, <1>3 DEF RoundFlight

LEMMA SpyRefines ==
  ASSUME SamplerInv, NEW p \in Procs, Spy(p)
  PROVE  \/ UNCHANGED <<RoundPhase, RoundFlight>>
         \/ Rounds!Answer(p)
         \/ Rounds!Lose(p)
<1>1. RoundPhase' = RoundPhase  BY SpyFrame, PhaseFrame
<1>2. ASSUME thread[p] \notin {"sampling", "failed"}, thread'[p] \notin {"sampling", "failed"},
             \A q \in Procs \ {p} : thread'[q] = thread[q], UNCHANGED <<notifyQ, sampleQ>>
      PROVE  RoundFlight' = RoundFlight
  BY <1>2 DEF RoundFlight, Outstanding
<1>3. CASE SpyReady(p) \/ SpyFails(p) \/ SpyClosed(p)
  <2>1. RoundFlight' = RoundFlight
    <3>1. /\ UNCHANGED <<notifyQ, sampleQ>>
          /\ thread[p] \in {"starting", "idle"}
          /\ \/ thread' = [thread EXCEPT ![p] = "idle"]
             \/ thread' = [thread EXCEPT ![p] = "gone"]
      BY <1>3 DEF SpyReady, SpyFails, SpyClosed
    <3>2. thread'[p] \in {"idle", "gone"} /\ \A q \in Procs \ {p} : thread'[q] = thread[q]
      <4>1. CASE thread' = [thread EXCEPT ![p] = "idle"]
        BY <4>1 DEF SamplerInv, TypeOK
      <4>2. CASE thread' = [thread EXCEPT ![p] = "gone"]
        BY <4>2 DEF SamplerInv, TypeOK
      <4>3. QED  BY <3>1, <4>1, <4>2
    <3>3. QED  BY <1>2, <3>1, <3>2
  <2>2. QED  BY <1>1, <2>1
<1>4. CASE SpyTake(p) \/ SpyError(p)
  <2>1. RoundFlight' = RoundFlight
    BY <1>4 DEF SamplerInv, TypeOK, SpyTake, SpyError, RoundFlight, Outstanding
  <2>2. QED  BY <1>1, <2>1
<1>5. ASSUME thread[p] \in {"sampling", "failed"}
      PROVE  notifyQ[p] = 0 /\ sampleQ[p] = <<>> /\ RoundFlight[p] = "asked"
  BY <1>5 DEF SamplerInv, NoStaleAnswer, RoundFlight, Outstanding
<1>6. ASSUME thread[p] \in {"sampling", "failed"}, UNCHANGED <<notifyQ, sampleQ>>,
             thread' = [thread EXCEPT ![p] = "gone"]
      PROVE  Rounds!Lose(p)
  <2>1. RoundFlight' = [RoundFlight EXCEPT ![p] = "none"]
    BY <1>5, <1>6, FlightAt DEF SamplerInv, TypeOK, Outstanding
  <2>2. QED  BY <1>1, <1>5, <1>6, <2>1 DEF Rounds!Lose
<1>7. ASSUME NEW r \in {"ok", "err"}, thread[p] \in {"sampling", "failed"}, UNCHANGED notifyQ,
             SendAnswer(p, r)
      PROVE  Rounds!Answer(p) \/ Rounds!Lose(p)
  <2>1. CASE TableDropped  BY <1>6, <1>7, <2>1 DEF SendAnswer
  <2>2. CASE ~ TableDropped
    <3>1. /\ thread' = [thread EXCEPT ![p] = "idle"]
          /\ sampleQ' = [sampleQ EXCEPT ![p] = Append(@, r)]
      BY <1>7, <2>2 DEF SendAnswer
    <3>2. Append(sampleQ[p], r) # <<>>
      <4>1. sampleQ[p] \in Seq({"ok", "err"})  BY DEF SamplerInv, TypeOK
      <4>2. QED  BY <1>7, <4>1, AppendProperties
    <3>3. /\ sampleQ'[p] # <<>>
          /\ \A q \in Procs \ {p} : /\ thread'[q] = thread[q] /\ notifyQ'[q] = notifyQ[q]
                                    /\ sampleQ'[q] = sampleQ[q]
      BY <1>7, <3>1, <3>2 DEF SamplerInv, TypeOK
    <3>4. RoundFlight' = [RoundFlight EXCEPT ![p] = "answered"]  BY <3>3, FlightAt
    <3>5. QED  BY <1>1, <1>5, <1>7, <3>4 DEF Rounds!Answer
  <2>3. QED  BY <2>1, <2>2
<1>8. CASE SpyRetire(p)  BY <1>6, <1>8 DEF SpyRetire
<1>9. CASE SpyAnswer(p) \/ SpySendError(p)  BY <1>7, <1>9 DEF SpyAnswer, SpySendError
<1>10. QED
  BY <1>3, <1>4, <1>8, <1>9 DEF Spy, SpyAttach, SpyServe

LEMMA StartRefines ==
  ASSUME SamplerInv, Start \/ Consume
  PROVE  UNCHANGED <<RoundPhase, RoundFlight>>
<1>1. CASE Consume
  BY <1>1, FlightFrame, PhaseFrame DEF Consume, DropReceiver, Join
<1>2. CASE Start
  <2>1. samp = "none" /\ \A p \in Procs : ~ notified[p]
    BY <1>2 DEF SamplerInv, ThreadsStarted, RequestsOfRound, Start, OpenRoot, ListAtStart,
       CreateAtStart, StartWaiting, WaitResult, WaitClosed, Retry
  <2>2. RoundPhase' = RoundPhase
    <3>1. samp' \in {"none", "sleep"}
      BY <1>2, <2>1 DEF Start, OpenRoot, ListAtStart, CreateAtStart, StartWaiting, WaitResult,
         WaitClosed, Retry
    <3>2. QED  BY <2>1, <3>1 DEF RoundPhase
  <2>3. CASE OpenRoot
    <3>1. CASE Opens(Root)
      <4>1. Insert(Root, NoPid) /\ Root \in Procs  BY <2>3, <3>1 DEF OpenRoot
      <4>2. QED  BY <2>1, <2>2, <4>1, InsertStutters
    <3>2. CASE ~ Opens(Root)
      <4>1. UNCHANGED <<thread, notifyQ, sampleQ>>  BY <2>3, <3>2 DEF OpenRoot
      <4>2. QED  BY <2>2, <4>1, FlightFrame
    <3>3. QED  BY <3>1, <3>2
  <2>4. ASSUME NEW p \in Procs, CreateAtStart(p)  PROVE RoundFlight' = RoundFlight
    <3>1. CASE Opens(p)  BY <2>1, <2>4, <3>1, InsertStutters DEF CreateAtStart
    <3>2. CASE ~ Opens(p)  BY <2>4, <3>2, FlightFrame DEF CreateAtStart
    <3>3. QED  BY <3>1, <3>2
  <2>5. CASE \/ ListAtStart \/ StartWaiting \/ Retry
             \/ \E p \in Procs : WaitResult(p) \/ WaitClosed(p)
    <3>1. UNCHANGED <<thread, notifyQ, sampleQ>>
      BY <2>5 DEF ListAtStart, StartWaiting, Retry, WaitResult, WaitClosed
    <3>2. QED  BY <2>2, <3>1, FlightFrame
  <2>6. QED  BY <1>2, <2>2, <2>3, <2>4, <2>5 DEF Start
<1>3. QED  BY <1>1, <1>2

LEMMA MonitorRefines ==
  ASSUME SamplerInv, Monitor
  PROVE  UNCHANGED <<RoundPhase, RoundFlight>>
<1>1. RoundPhase' = RoundPhase  BY MonitorFrame, PhaseFrame
<1>2. ASSUME NEW p \in Procs, MonitorCreate(p)  PROVE RoundFlight' = RoundFlight
  <2>1. CASE p \notin spies /\ Opens(p)
    <3>1. ~ notified[p]  BY <2>1 DEF SamplerInv, RequestsOfRound
    <3>2. Insert(p, listed[p])  BY <1>2, <2>1 DEF MonitorCreate
    <3>3. QED  BY <3>1, <3>2, InsertStutters
  <2>2. CASE ~ (p \notin spies /\ Opens(p))
    BY <1>2, <2>2, FlightFrame DEF MonitorCreate
  <2>3. QED  BY <2>1, <2>2
<1>3. CASE MonitorCheck \/ MonitorLock \/ MonitorList \/ MonitorUnlock
  <2>1. UNCHANGED <<thread, notifyQ, sampleQ>>
    BY <1>3 DEF MonitorCheck, MonitorLock, MonitorList, MonitorUnlock
  <2>2. QED  BY <1>1, <2>1, FlightFrame
<1>4. QED  BY <1>1, <1>2, <1>3 DEF Monitor

LEMMA SamplerRefines ==
  ASSUME SamplerInv, Sampler
  PROVE  \/ UNCHANGED <<RoundPhase, RoundFlight>>
         \/ Rounds!RoundNext
<1>1. CASE SamplerLock
  <2>1. RoundFlight' = RoundFlight  BY <1>1, FlightFrame DEF SamplerLock
  <2>2. Rounds!Begin  BY <1>1, <2>1 DEF SamplerLock, RoundPhase, Rounds!Begin
  <2>3. QED  BY <2>2 DEF Rounds!RoundNext
<1>2. CASE SamplerWake \/ SamplerPoisoned \/ SamplerSend \/ SamplerDecide
  <2>1. RoundFlight' = RoundFlight
    BY <1>2, FlightFrame DEF SamplerWake, SamplerPoisoned, SamplerSend, SamplerDecide
  <2>2. samp \notin {"notify", "collect"} /\ samp' \notin {"notify", "collect"}
    BY <1>2 DEF SamplerWake, SamplerPoisoned, SamplerSend, SamplerDecide
  <2>3. QED  BY <2>1, <2>2 DEF RoundPhase
<1>3. ASSUME NEW p \in Procs, SamplerNotify(p)
      PROVE  UNCHANGED <<RoundPhase, RoundFlight>> \/ Rounds!Ask(p)
  <2>1. RoundPhase = "asking" /\ RoundPhase' = RoundPhase
    BY <1>3 DEF SamplerNotify, RoundPhase
  <2>2. CASE IsInitialized(p) /\ thread[p] # "gone"
    <3>1. ~ notified[p]  BY <1>3 DEF SamplerInv, RequestsOfRound, SamplerNotify
    <3>2. ~ Outstanding(p) /\ RoundFlight[p] = "none"
      BY <3>1 DEF SamplerInv, NoStaleAnswer, RoundFlight, Outstanding
    <3>3. /\ notifyQ' = [notifyQ EXCEPT ![p] = @ + 1]
          /\ UNCHANGED <<thread, sampleQ>>
      BY <1>3, <2>2 DEF SamplerNotify
    <3>4. notifyQ'[p] = 1 /\ sampleQ'[p] = <<>>
      BY <3>2, <3>3 DEF SamplerInv, TypeOK, Outstanding
    <3>5. \A q \in Procs \ {p} : notifyQ'[q] = notifyQ[q]
      BY <3>3 DEF SamplerInv, TypeOK
    <3>6. RoundFlight' = [RoundFlight EXCEPT ![p] = "asked"]
      BY <3>3, <3>4, <3>5, FlightAt DEF Outstanding
    <3>7. QED  BY <2>1, <3>2, <3>6 DEF Rounds!Ask
  <2>3. CASE ~ (IsInitialized(p) /\ thread[p] # "gone")
    <3>1. UNCHANGED <<thread, notifyQ, sampleQ>>  BY <1>3, <2>3 DEF SamplerNotify
    <3>2. QED  BY <2>1, <3>1, FlightFrame
  <2>4. QED  BY <2>2, <2>3
<1>4. CASE StartCollecting
  <2>1. RoundFlight' = RoundFlight  BY <1>4, FlightFrame DEF StartCollecting
  <2>2. Rounds!Gather  BY <1>4, <2>1 DEF StartCollecting, RoundPhase, Rounds!Gather
  <2>3. QED  BY <2>2 DEF Rounds!RoundNext
<1>5. ASSUME NEW p \in Procs, CollectSkip(p) \/ CollectClosed(p)
      PROVE  UNCHANGED <<RoundPhase, RoundFlight>>
  BY <1>5, FlightFrame, PhaseFrame DEF CollectSkip, CollectClosed
<1>6. ASSUME NEW p \in Procs, CollectAnswer(p)
      PROVE  Rounds!Take(p)
  <2>1. sampleQ[p] # <<>> /\ RoundFlight[p] = "answered" /\ RoundPhase = "gathering"
    BY <1>6 DEF CollectAnswer, RoundFlight, RoundPhase
  <2>2. RoundPhase' = RoundPhase  BY <1>6 DEF CollectAnswer, RoundPhase
  <2>3. notifyQ[p] = 0 /\ Tail(sampleQ[p]) = <<>>  BY <2>1, OneAnswer DEF SamplerInv
  <2>4. thread[p] \notin {"sampling", "failed"}
    BY <2>1 DEF SamplerInv, NoStaleAnswer
  <2>5. /\ sampleQ' = [sampleQ EXCEPT ![p] = Tail(@)]
        /\ UNCHANGED <<thread, notifyQ>>
    BY <1>6 DEF CollectAnswer
  <2>6. /\ sampleQ'[p] = <<>>
        /\ \A q \in Procs \ {p} : sampleQ'[q] = sampleQ[q]
    BY <2>3, <2>5 DEF SamplerInv, TypeOK
  <2>7. RoundFlight' = [RoundFlight EXCEPT ![p] = "none"]
    BY <2>3, <2>4, <2>5, <2>6, FlightAt DEF Outstanding
  <2>8. QED  BY <2>1, <2>2, <2>7 DEF Rounds!Take
<1>7. CASE Annotate
  <2>1. \A p \in Procs : ~ Outstanding(p)
    BY <1>7 DEF SamplerInv, RequestsOfRound, NoStaleAnswer, Annotate
  <2>2. \A p \in Procs : RoundFlight[p] = "none"
    BY <2>1 DEF RoundFlight, Outstanding
  <2>3. RoundFlight' = RoundFlight  BY <1>7, FlightFrame DEF Annotate
  <2>4. Rounds!End  BY <1>7, <2>2, <2>3 DEF Annotate, RoundPhase, Rounds!End
  <2>5. QED  BY <2>4 DEF Rounds!RoundNext
<1>8. QED
  BY <1>1, <1>2, <1>3, <1>4, <1>5, <1>6, <1>7 DEF Sampler, Round, Collect, Rounds!RoundNext

LEMMA InitRefines == Init => Rounds!RoundInit
BY DEF Init, Rounds!RoundInit, RoundPhase, RoundFlight, Outstanding

LEMMA NextRefines ==
  SamplerInv /\ [Next]_vars => [Rounds!RoundNext]_Rounds!roundVars
<1> SUFFICES ASSUME SamplerInv, [Next]_vars
             PROVE  UNCHANGED <<RoundPhase, RoundFlight>> \/ Rounds!RoundNext
  BY DEF Rounds!roundVars
<1>1. CASE Env  BY <1>1, EnvFrame, FlightFrame, PhaseFrame
<1>2. ASSUME NEW p \in Procs, Spy(p)
      PROVE  UNCHANGED <<RoundPhase, RoundFlight>> \/ Rounds!RoundNext
  BY <1>2, SpyRefines DEF Rounds!RoundNext
<1>3. CASE UNCHANGED vars  BY <1>3, FlightFrame, PhaseFrame DEF vars
<1>4. QED
  BY <1>1, <1>2, <1>3, StartRefines, MonitorRefines, SamplerRefines DEF Next, Finished

\* The sampler implements the rounds: requests are sent, answered at most
\* once and gathered, and no round ends with one under way.
THEOREM SamplerImplementsRounds == Spec => RefinesRounds
<1>1. QED
  BY InitRefines, NextRefines, SamplerInvariant, PTL DEF Spec, RefinesRounds, Rounds!RoundSpec
=============================================================================

--------------------------- MODULE CommandProofs ---------------------------
(***************************************************************************)
(* Proofs about Recording and Command, for any limit, any length of the    *)
(* channel and any processes.                                              *)
(***************************************************************************)
EXTENDS Command, FiniteSetTheorems, SequenceTheorems, TLAPS

USE RecordingAssumption, NothingAssumption DEF Reasons

-----------------------------------------------------------------------------
(***************************************************************************)
(* The channel.                                                            *)
(***************************************************************************)

\* A sample that is sent is found in the channel, like those before it.
LEMMA MarkSent ==
  ASSUME NEW q \in Seq(Samples), NEW s \in Samples
  PROVE  /\ Append(q, s) \in Seq(Samples) /\ Len(Append(q, s)) = Len(q) + 1
         /\ s.marked \/ MarkedIn(q) => MarkedIn(Append(q, s))
<1>1. /\ Append(q, s) \in Seq(Samples) /\ Len(Append(q, s)) = Len(q) + 1
      /\ Append(q, s)[Len(q) + 1] = s
      /\ \A i \in 1 .. Len(q) : Append(q, s)[i] = q[i]
  OBVIOUS
<1>2. 1 .. Len(q) \subseteq 1 .. Len(q) + 1 /\ Len(q) + 1 \in 1 .. Len(q) + 1
  OBVIOUS
<1> QED
  BY <1>1, <1>2 DEF MarkedIn

\* A sample in the channel is the one received, or stays there.
LEMMA MarkReceived ==
  ASSUME NEW q \in Seq(Samples), q # <<>>
  PROVE  /\ Head(q) \in Samples /\ Tail(q) \in Seq(Samples) /\ Len(Tail(q)) = Len(q) - 1
         /\ MarkedIn(q) => Head(q).marked \/ MarkedIn(Tail(q))
<1>1. Head(q) \in Samples /\ Tail(q) \in Seq(Samples) /\ Len(Tail(q)) = Len(q) - 1
      /\ Head(q) = q[1] /\ Len(q) \in Nat
  OBVIOUS
<1>2. ASSUME NEW i \in 1 .. Len(q), q[i].marked, i # 1
      PROVE  MarkedIn(Tail(q))
  <2>1. i - 1 \in 1 .. Len(Tail(q)) /\ Tail(q)[i - 1] = q[i]
    BY <1>1, <1>2
  <2> QED
    BY <1>2, <2>1 DEF MarkedIn
<1> QED
  BY <1>1, <1>2 DEF MarkedIn

-----------------------------------------------------------------------------
(***************************************************************************)
(* Types and the invariant.                                                *)
(***************************************************************************)

\* They hold at the start.
LEMMA RecordingInit ==
  ASSUME Init
  PROVE  TypeOK /\ RecordingInv
<1>1. <<>> \in Seq(Samples) /\ Len(<<>>) = 0
  OBVIOUS
<1>2. config.max \in Nat
  BY DEF Init
<1> QED
  BY <1>1, <1>2 DEF Init, TypeOK, RecordingInv, HandsOK, MarkFound, ExitedOK, LateOK, CountsOK, InLoop,
              Limited

\* The sampling thread keeps them.
LEMMA SamplingKeeps ==
  ASSUME TypeOK, RecordingInv, Sampling
  PROVE  TypeOK' /\ RecordingInv'
<1> USE DEF TypeOK, RecordingInv, HandsOK, MarkFound, ExitedOK, LateOK, CountsOK, InLoop, Limited,
            mainVars
<1>1. CASE Attach
  BY <1>1 DEF Attach
<1>2. CASE Wake
  BY <1>2 DEF Wake
<1>3. CASE TakeSample
  BY <1>3 DEF TakeSample, Samples
<1>4. CASE FindExited
  BY <1>4 DEF FindExited
<1>5. CASE Send
  <2>1. sampled \in Samples
    BY <1>5 DEF Send
  <2>2. CASE rx /\ Len(queue) < MaxQueue /\ queue' = Append(queue, sampled) /\ sampler' = "wait"
    <3>1. queue' \in Seq(Samples) /\ Len(queue') <= MaxQueue
          /\ (sampled.marked \/ MarkedIn(queue) => MarkedIn(queue'))
      BY <2>1, <2>2, MarkSent
    <3> QED
      BY <1>5, <2>2, <3>1 DEF Send
  <2>3. CASE ~ rx /\ sampler' = "ended" /\ UNCHANGED queue
    BY <1>5, <2>3 DEF Send
  <2> QED
    BY <1>5, <2>2, <2>3 DEF Send
<1> QED
  BY <1>1, <1>2, <1>3, <1>4, <1>5 DEF Sampling

\* The main thread keeps them.
LEMMA MainKeeps ==
  ASSUME TypeOK, RecordingInv, Main
  PROVE  TypeOK' /\ RecordingInv'
<1> USE DEF TypeOK, RecordingInv, HandsOK, MarkFound, ExitedOK, LateOK, CountsOK, InLoop, Limited,
            samplerVars
<1>1. CASE GetVersion
  BY <1>1 DEF GetVersion
<1>2. CASE Receive
  <2>1. CASE queue # <<>> /\ sample' = Head(queue) /\ queue' = Tail(queue) /\ main' = "check"
    <3>1. sample' \in Samples /\ queue' \in Seq(Samples) /\ Len(queue') <= MaxQueue
          /\ (MarkedIn(queue) => sample'.marked \/ MarkedIn(queue'))
      BY <2>1, MarkReceived
    <3> QED
      BY <1>2, <2>1, <3>1 DEF Receive, Leave
  <2>2. CASE queue = <<>> /\ sampler = "ended" /\ Leave("exited") /\ UNCHANGED queue
    <3>1. ~ MarkedIn(queue)
      BY <2>2 DEF MarkedIn
    <3> QED
      BY <1>2, <2>2, <3>1 DEF Receive, Leave
  <2> QED
    BY <1>2, <2>1, <2>2 DEF Receive
<1>3. CASE CheckRunning
  BY <1>3 DEF CheckRunning, Leave
<1>4. CASE Count
  <2>1. config' = config /\ config.max \in Nat /\ config.idle \in BOOLEAN
    BY <1>4 DEF Count
  <2>2. intervals \in 0 .. config.max /\ recorded \in 0 .. config.max
    OBVIOUS
  <2>3. CASE Limited /\ intervals' >= config.max
    BY <1>4, <2>1, <2>2, <2>3 DEF Count, Leave
  <2>4. CASE ~ (Limited /\ intervals' >= config.max)
    BY <1>4, <2>1, <2>2, <2>4 DEF Count
  <2> QED
    BY <2>3, <2>4
<1>5. CASE Record
  <2>1. config' = config /\ config.max \in Nat /\ config.idle \in BOOLEAN
    BY <1>5 DEF Record
  <2>2. intervals \in 0 .. config.max /\ recorded \in 0 .. config.max
    OBVIOUS
  <2>3. CASE main' = "receive"
    BY <1>5, <2>1, <2>2, <2>3 DEF Record, Leave, Samples
  <2>4. CASE main' # "receive"
    BY <1>5, <2>1, <2>2, <2>4 DEF Record, Leave, Samples
  <2> QED
    BY <2>3, <2>4
<1>6. CASE DropReceiver
  <2>1. rx' \in BOOLEAN /\ ~ rx' /\ queue' = <<>>
    BY <1>6 DEF DropReceiver
  <2>2. <<>> \in Seq(Samples) /\ Len(<<>>) = 0
    OBVIOUS
  <2>3. main = "drop" /\ main' = "join" /\ UNCHANGED <<config, alive, sampler, initialized, sampled,
           sample, intervals, reason, recorded, late, running, mark>>
    BY <1>6 DEF DropReceiver
  <2> QED
    BY <2>1, <2>2, <2>3
<1>7. CASE Join
  BY <1>7 DEF Join
<1>8. CASE Write
  BY <1>8 DEF Write
<1> QED
  BY <1>1, <1>2, <1>3, <1>4, <1>5, <1>6, <1>7, <1>8 DEF Main

\* Every step keeps them.
LEMMA RecordingNext ==
  ASSUME TypeOK, RecordingInv, [Next]_vars
  PROVE  TypeOK' /\ RecordingInv'
<1> USE DEF TypeOK, RecordingInv, HandsOK, MarkFound, ExitedOK, LateOK, CountsOK, InLoop, Limited,
            samplerVars, mainVars
<1>1. CASE Exit
  <2>1. alive' \in BOOLEAN
    BY <1>1 DEF Exit
  <2>2. UNCHANGED <<config, sampler, initialized, sampled, queue, rx, main, sample, intervals,
                    reason, recorded, late, running, mark>>
    BY <1>1 DEF Exit
  <2> QED
    BY <2>1, <2>2
<1>2. CASE ControlC
  <2>1. running' \in BOOLEAN /\ ~ running'
    BY <1>2 DEF ControlC
  <2>2. UNCHANGED <<config, alive, sampler, initialized, sampled, queue, rx, main, sample,
                    intervals, reason, recorded, late, mark>>
    BY <1>2 DEF ControlC
  <2> QED
    BY <2>1, <2>2
<1>3. CASE UNCHANGED vars
  BY <1>3 DEF vars
<1> QED
  BY <1>1, <1>2, <1>3, SamplingKeeps, MainKeeps DEF Next

-----------------------------------------------------------------------------
(***************************************************************************)
(* The theorems.                                                           *)
(***************************************************************************)

\* Types and invariant hold always.
LEMMA RecordingAlways == Spec => [](TypeOK /\ RecordingInv)
<1>1. Init => TypeOK /\ RecordingInv
  BY RecordingInit
<1>2. (TypeOK /\ RecordingInv) /\ [Next]_vars => (TypeOK /\ RecordingInv)'
  BY RecordingNext
<1> QED
  BY <1>1, <1>2, PTL DEF Spec

\* Every reachable state of a recording is well typed, and one that ends because
\* its time is over has recorded all intervals but the last.
THEOREM RecordingCorrect == Spec => []RecordingOK
<1> QED
  BY RecordingAlways, PTL DEF RecordingOK

\* A recording that ends because the process has exited has recorded, or
\* passed over as idle, every sample that was taken.
THEOREM ExitLosesNothing == Spec => []NothingLost
<1>1. TypeOK /\ RecordingInv => NothingLost
  BY DEF RecordingInv, ExitedOK, NothingLost
<1> QED
  BY <1>1, RecordingAlways, PTL

\* After Control-C no sample but the one at hand is recorded.
THEOREM ControlCStops == Spec => []AtMostOneAfterControlC
<1>1. TypeOK /\ RecordingInv => AtMostOneAfterControlC
  BY DEF RecordingInv, LateOK, AtMostOneAfterControlC
<1> QED
  BY <1>1, RecordingAlways, PTL

-----------------------------------------------------------------------------
(***************************************************************************)
(* The command: a step of its search, its dump or its program is no step   *)
(* of a recording, but for the exit of the VM.                             *)
(***************************************************************************)

LEMMA CommandSafety ==
  CommandSpec => CommandInit /\ [][CommandNext]_allVars
BY PTL DEF CommandSpec
-----------------------------------------------------------------------------
(***************************************************************************)
(* The calls of write_traces.                                              *)
(***************************************************************************)
USE CommandAssumption DEF worldVars, searchVars, dumpVars, mainVars2

LEMMA AppendIs ==
  ASSUME NEW T, NEW s \in Seq(T), NEW x \in T
  PROVE  /\ Append(s, x) \in Seq(T) /\ Len(Append(s, x)) = Len(s) + 1
         /\ \A i \in 1 .. Len(s) : Append(s, x)[i] = s[i]
         /\ Append(s, x)[Len(s) + 1] = x
         /\ ToSet(Append(s, x)) = ToSet(s) \cup {x}
<1>1. /\ Append(s, x) \in Seq(T) /\ Len(Append(s, x)) = Len(s) + 1
      /\ Append(s, x)[Len(s) + 1] = x
      /\ \A i \in 1 .. Len(s) : Append(s, x)[i] = s[i]
  OBVIOUS
<1>2. DOMAIN s = 1 .. Len(s) /\ DOMAIN Append(s, x) = 1 .. Len(s) + 1 /\ Len(s) \in Nat
  BY <1>1
<1>3. 1 .. Len(s) + 1 = (1 .. Len(s)) \cup {Len(s) + 1}
  BY <1>2
<1>4. QED  BY <1>1, <1>2, <1>3 DEF ToSet

LEMMA FrontIs ==
  ASSUME NEW T, NEW s \in Seq(T), s # <<>>
  PROVE  /\ Front(s) \in Seq(T) /\ Len(Front(s)) = Len(s) - 1
         /\ \A i \in 1 .. Len(s) - 1 : Front(s)[i] = s[i]
<1>1. Len(s) \in Nat /\ Len(s) >= 1 /\ DOMAIN s = 1 .. Len(s)
  OBVIOUS
<1>2. \A i \in 1 .. Len(s) - 1 : s[i] \in T
  BY <1>1
<1>3. Front(s) = [i \in 1 .. Len(s) - 1 |-> s[i]]
  BY <1>1 DEF Front
<1>4. QED  BY <1>1, <1>2, <1>3

\* The innermost call goes on: the others stay as they are.
LEMMA GoOnCalls ==
  ASSUME calls \in Seq(CallRecords), calls # <<>>,
         NEW step \in {"new", "header", "traces", "list", "children"},
         NEW children \in SUBSET Procs, GoOn(step, children)
  PROVE  /\ calls' \in Seq(CallRecords) /\ Len(calls') = Len(calls)
         /\ \A i \in 1 .. Len(calls) - 1 : calls'[i] = calls[i]
         /\ calls'[Len(calls)].pid = Inner.pid
         /\ calls'[Len(calls)].at = step /\ calls'[Len(calls)].todo = children
<1> DEFINE n == Len(calls)
           r == [[calls[n] EXCEPT !.at = step] EXCEPT !.todo = children]
<1>1. n \in Nat /\ n \in 1 .. n /\ DOMAIN calls = 1 .. n /\ calls[n] \in CallRecords
  OBVIOUS
<1>2. /\ r \in CallRecords /\ r.pid = calls[n].pid /\ r.at = step /\ r.todo = children
  BY <1>1 DEF CallRecords
<1>3. calls' = [calls EXCEPT ![n] = r]
  BY <1>1 DEF GoOn
<1>4. calls' \in Seq(CallRecords) /\ Len(calls') = n
  BY <1>1, <1>2, <1>3
<1>5. QED  BY <1>1, <1>2, <1>3, <1>4 DEF Inner

\* The innermost call returns to the one before.
LEMMA PopCalls ==
  ASSUME calls \in Seq(CallRecords), calls # <<>>, Return
  PROVE  /\ calls' \in Seq(CallRecords) /\ Len(calls') = Len(calls) - 1
         /\ \A i \in 1 .. Len(calls) - 1 : calls'[i] = calls[i]
BY FrontIs DEF Return

\* A child is called: it waits no longer.
LEMMA PushCalls ==
  ASSUME calls \in Seq(CallRecords), calls # <<>>, NEW c \in Procs,
         calls' = Append([calls EXCEPT ![Len(calls)].todo = @ \ {c}], Call(c, Inner.pid))
  PROVE  /\ calls' \in Seq(CallRecords) /\ Len(calls') = Len(calls) + 1
         /\ \A i \in 1 .. Len(calls) - 1 : calls'[i] = calls[i]
         /\ calls'[Len(calls)].pid = Inner.pid /\ calls'[Len(calls)].at = Inner.at
         /\ calls'[Len(calls)].todo = Inner.todo \ {c}
         /\ calls'[Len(calls) + 1] = Call(c, Inner.pid)
<1>1. PICK n \in Nat : n = Len(calls)
  OBVIOUS
<1>2. n \in 1 .. n /\ DOMAIN calls = 1 .. n /\ calls[n] \in CallRecords /\ Inner = calls[n]
  BY <1>1 DEF Inner
<1>3. PICK r : r = [calls[n] EXCEPT !.todo = @ \ {c}]
  OBVIOUS
<1>4. /\ r \in CallRecords /\ r.pid = calls[n].pid /\ r.at = calls[n].at
      /\ r.todo = calls[n].todo \ {c}
  BY <1>2, <1>3 DEF CallRecords
<1>5. PICK s : s = [calls EXCEPT ![n] = r]
  OBVIOUS
<1>6. s \in Seq(CallRecords) /\ Len(s) = n /\ s[n] = r /\ \A i \in 1 .. n - 1 : s[i] = calls[i]
  BY <1>1, <1>2, <1>4, <1>5
<1>7. PICK d \in CallRecords : d = Call(c, Inner.pid)
  BY <1>2 DEF Call, CallRecords
<1>8. calls' = Append(s, d)
  BY <1>1, <1>2, <1>3, <1>5, <1>7
<1>9. /\ Append(s, d) \in Seq(CallRecords) /\ Len(Append(s, d)) = Len(s) + 1
      /\ \A i \in 1 .. Len(s) : Append(s, d)[i] = s[i]
      /\ Append(s, d)[Len(s) + 1] = d
  BY <1>6, AppendIs
<1>10. /\ calls' \in Seq(CallRecords) /\ Len(calls') = n + 1
       /\ calls'[n + 1] = d /\ \A i \in 1 .. n : calls'[i] = s[i]
  BY <1>6, <1>8, <1>9
<1>11. calls'[n] = r /\ \A i \in 1 .. n - 1 : calls'[i] = calls[i]
  BY <1>2, <1>6, <1>10
<1>12. QED  BY <1>1, <1>2, <1>4, <1>7, <1>10, <1>11

-----------------------------------------------------------------------------
(***************************************************************************)
(* Types.                                                                  *)
(***************************************************************************)

LEMMA CommandInitTyped == CommandInit => CommandTypeOK
<1> SUFFICES ASSUME CommandInit  PROVE CommandTypeOK
  OBVIOUS
<1>1. PICK w \in Worlds : ask = w.ask /\ kind = w.kind /\ parent = w.parent /\ live = w.live
  BY DEF CommandInit
<1>2. calls \in Seq(CallRecords) /\ printed \in Seq(Procs)  BY DEF CommandInit
<1>3. QED  BY <1>1, <1>2, WorldAssumption DEF CommandInit, Init, CommandTypeOK

\* What a step of the dump may leave.
LEMMA DumpTyped ==
  ASSUME CommandTypeOK, DumpAttach \/ DumpHeader \/ DumpTraces \/ DumpList \/ DumpChild
  PROVE  CommandTypeOK'
<1>1. /\ UNCHANGED <<vars, ask, worldVars, searchVars>> /\ calls # <<>>
      /\ phase = "run" /\ Inner \in CallRecords
  <2>1. calls # <<>> /\ UNCHANGED <<vars, ask, worldVars, searchVars>> /\ phase = "run"
    BY DEF DumpAttach, DumpHeader, DumpTraces, DumpList, DumpChild, Dumping, DumpUnchanged
  <2>2. QED  BY <2>1 DEF CommandTypeOK, Inner
<1>2. /\ calls' \in Seq(CallRecords)
      /\ phase' \in {"run", "ended", "panicked"} /\ result' \in {Nothing, "done", "failed"}
  <2>1. ASSUME Return  PROVE <1>2!:
    <3>1. calls' \in Seq(CallRecords)  BY <1>1, <2>1, PopCalls DEF CommandTypeOK
    <3>2. QED  BY <1>1, <2>1, <3>1 DEF CommandTypeOK, Return, End
  <2>2. ASSUME Fail  PROVE <1>2!:
    BY <2>2 DEF Fail, End
  <2>3. ASSUME NEW step \in {"new", "header", "traces", "list", "children"},
               NEW children \in SUBSET Procs, GoOn(step, children)
        PROVE  <1>2!:
    <3>1. calls' \in Seq(CallRecords)  BY <1>1, <2>3, GoOnCalls DEF CommandTypeOK
    <3>2. QED  BY <1>1, <2>3, <3>1 DEF CommandTypeOK, GoOn
  <2>4. CASE DumpAttach  BY <2>2, <2>3, <2>4 DEF DumpAttach
  <2>5. CASE DumpHeader  BY <2>2, <2>3, <2>5 DEF DumpHeader
  <2>6. CASE DumpTraces  BY <2>1, <2>2, <2>3, <2>6 DEF DumpTraces
  <2>7. CASE DumpList
    <3>1. CASE GoOn("children", Children(Inner.pid))
      <4>1. Children(Inner.pid) \in SUBSET Procs  BY DEF Children, CommandTypeOK
      <4>2. QED  BY <2>3, <3>1, <4>1
    <3>2. CASE phase' = "panicked" /\ calls' = <<>> /\ UNCHANGED result
      BY <3>2 DEF CommandTypeOK
    <3>3. QED  BY <2>7, <3>1, <3>2 DEF DumpList
  <2>8. CASE DumpChild
    <3>1. ASSUME NEW c \in Inner.todo,
                 calls' = Append([calls EXCEPT ![Len(calls)].todo = @ \ {c}], Call(c, Inner.pid)),
                 UNCHANGED mainVars2
          PROVE  <1>2!:
      <4>1. c \in Procs  BY <1>1 DEF CallRecords
      <4>2. calls' \in Seq(CallRecords)  BY <1>1, <3>1, <4>1, PushCalls DEF CommandTypeOK
      <4>3. QED  BY <1>1, <3>1, <4>2 DEF CommandTypeOK
    <3>2. QED  BY <2>1, <2>8, <3>1 DEF DumpChild
  <2>9. QED  BY <2>4, <2>5, <2>6, <2>7, <2>8
<1>3. printed' \in Seq(Procs)
  <2>1. printed' = printed \/ printed' = Append(printed, Inner.pid)
    BY DEF DumpAttach, DumpHeader, DumpTraces, DumpList, DumpChild
  <2>2. Inner.pid \in Procs  BY <1>1 DEF CallRecords
  <2>3. QED  BY <2>1, <2>2 DEF CommandTypeOK
<1>4. UNCHANGED alive  BY <1>1 DEF vars
<1>5. QED  BY <1>1, <1>2, <1>3, <1>4 DEF CommandTypeOK, Over

\* No process becomes another's parent.
LEMMA StaysAcyclic ==
  ASSUME NEW par, Acyclic(par), NEW p,
         NEW new, new = [q \in Procs |-> IF par[q] = p THEN Nothing ELSE par[q]]
  PROVE  Acyclic(new)
BY DEF Acyclic

\* The recording leaves the process as it is.
LEMMA RecordTyped ==
  ASSUME InRecord(ControlC) \/ InRecord(Sampling) \/ InRecord(Main)
  PROVE  /\ UNCHANGED <<ask, worldVars, searchVars, dumpVars, mainVars2, alive>>
         /\ phase = "run" /\ ask.command = "record"
<1>1. ASSUME Sampling  PROVE UNCHANGED alive
  BY <1>1 DEF Sampling, Attach, Wake, TakeSample, FindExited, Send
<1>2. ASSUME Main  PROVE UNCHANGED alive
  BY <1>2 DEF Main, GetVersion, Receive, CheckRunning, Count, Record, DropReceiver, Join, Write
<1>3. CASE InRecord(ControlC)  BY <1>3 DEF InRecord, ControlC
<1>4. CASE InRecord(Sampling)  BY <1>1, <1>4 DEF InRecord
<1>5. CASE InRecord(Main)  BY <1>2, <1>5 DEF InRecord
<1>6. QED  BY <1>3, <1>4, <1>5

\* A command starts.
LEMMA RunTyped ==
  ASSUME NEW p \in Procs, NEW there \in BOOLEAN, RunOn(p, there)
  PROVE  /\ target' \in Procs /\ phase' = "run" /\ alive' \in BOOLEAN
         /\ calls' \in Seq(CallRecords)
<1>1. Call(p, Nothing) \in CallRecords  BY DEF Call, CallRecords
<1>2. <<Call(p, Nothing)>> \in Seq(CallRecords) /\ <<>> \in Seq(CallRecords)
  BY <1>1
<1>3. QED  BY <1>2 DEF RunOn

\* Every step keeps the types.
LEMMA CommandTyped ==
  ASSUME CommandTypeOK, CommandNext
  PROVE  CommandTypeOK'
<1> USE DEF CommandTypeOK, Over
<1>1. ASSUME NEW p \in Procs, ExitOf(p)  PROVE CommandTypeOK'
  <2>1. parent' \in [Procs -> Procs \cup {Nothing}] /\ Acyclic(parent')
    BY <1>1, StaysAcyclic DEF ExitOf
  <2>2. /\ alive' \in BOOLEAN /\ live' \subseteq Procs /\ stayed' \subseteq Procs
        /\ fresh' \subseteq Procs
    BY <1>1 DEF ExitOf
  <2>3. QED  BY <1>1, <2>1, <2>2 DEF ExitOf
<1>2. ASSUME NEW p \in Procs, Starts(p)  PROVE CommandTypeOK'
  BY <1>2 DEF Starts, vars
<1>3. CASE KilledByControlC  BY <1>3 DEF KilledByControlC, vars
<1>4. ASSUME NEW p \in Procs, UsePid(p)  PROVE CommandTypeOK'
  <2>1. (p \in live) \in BOOLEAN  OBVIOUS
  <2>2. QED  BY <1>4, <2>1, RunTyped DEF UsePid
<1>5. ASSUME NEW p \in Procs, LookAt(p)  PROVE CommandTypeOK'
  BY <1>5 DEF LookAt, vars
<1>6. CASE Search  BY <1>6 DEF Search, vars
<1>7. CASE UseFound
  <2>1. ASSUME NEW p \in found, RunOn(p, p \in live), UNCHANGED result
        PROVE  CommandTypeOK'
    <3>1. (p \in live) \in BOOLEAN  OBVIOUS
    <3>2. p \in Procs  OBVIOUS
    <3>3. QED  BY <1>7, <2>1, <3>1, <3>2, RunTyped DEF UseFound
  <2>2. ASSUME End("failed"), NotRun  PROVE CommandTypeOK'
    BY <1>7, <2>2 DEF UseFound, End, NotRun
  <2>3. QED  BY <1>7, <2>1, <2>2 DEF UseFound
<1>8. CASE Spawn
  <2>1. CASE /\ live' = live \cup {Program} /\ fresh' = fresh \ {Program}
             /\ RunOn(Program, TRUE) /\ UNCHANGED result
    BY <1>8, <2>1, RunTyped DEF Spawn
  <2>2. CASE End("failed") /\ NotRun /\ UNCHANGED <<live, fresh>>
    BY <1>8, <2>2 DEF Spawn, End, NotRun
  <2>3. QED  BY <1>8, <2>1, <2>2 DEF Spawn
<1>9. CASE Recorded  BY <1>9 DEF Recorded, End, vars
<1>10. CASE Reap  BY <1>10 DEF Reap, End, vars
<1>11. CASE Kill  BY <1>11 DEF Kill
<1>12. CASE InRecord(ControlC) \/ InRecord(Sampling) \/ InRecord(Main)
  BY <1>12, RecordTyped
<1>13. QED
  BY <1>1, <1>2, <1>3, <1>4, <1>5, <1>6, <1>7, <1>8, <1>9, <1>10, <1>11, <1>12, DumpTyped
  DEF CommandNext, World, StspyMain

-----------------------------------------------------------------------------
(***************************************************************************)
(* The choice of the VM, and what becomes of a program.                    *)
(***************************************************************************)

\* What a step of the dump may change.
LEMMA DumpOnly ==
  ASSUME CommandTypeOK, DumpAttach \/ DumpHeader \/ DumpTraces \/ DumpList \/ DumpChild
  PROVE  /\ UNCHANGED <<vars, ask, worldVars, searchVars>> /\ calls # <<>> /\ phase = "run"
         /\ UNCHANGED phase \/ (phase' \in {"ended", "panicked"} /\ calls' = <<>>)
<1>1. UNCHANGED <<vars, ask, worldVars, searchVars>> /\ calls # <<>> /\ phase = "run"
  BY DEF DumpAttach, DumpHeader, DumpTraces, DumpList, DumpChild, Dumping, DumpUnchanged
<1>2. ASSUME Return  PROVE UNCHANGED phase \/ (phase' \in {"ended", "panicked"} /\ calls' = <<>>)
  <2>1. calls' \in Seq(CallRecords) /\ Len(calls') = Len(calls) - 1
    BY <1>1, <1>2, PopCalls DEF CommandTypeOK
  <2>2. Len(calls) = 1 => calls' = <<>>  BY <2>1
  <2>3. QED  BY <1>2, <2>2 DEF Return, End
<1>3. ASSUME Fail  PROVE UNCHANGED phase \/ (phase' \in {"ended", "panicked"} /\ calls' = <<>>)
  BY <1>3 DEF Fail, End
<1>4. QED
  BY <1>1, <1>2, <1>3 DEF DumpAttach, DumpHeader, DumpTraces, DumpList, DumpChild, GoOn

LEMMA PhasePreserved ==
  ASSUME CommandTypeOK, PhaseOK, SearchOK, OnlyVm, CommandNext
  PROVE  PhaseOK' /\ SearchOK' /\ OnlyVm'
<1> USE DEF CommandTypeOK, PhaseOK, SearchOK, OnlyVm, Over
<1> DEFINE Goal == PhaseOK' /\ SearchOK' /\ OnlyVm'
<1>1. ASSUME NEW p \in Procs, ExitOf(p)  PROVE Goal
  BY <1>1 DEF ExitOf
<1>2. ASSUME NEW p \in Procs, Starts(p)  PROVE Goal
  BY <1>2 DEF Starts, vars
<1>3. CASE KilledByControlC  BY <1>3 DEF KilledByControlC, vars
<1>4. ASSUME NEW p \in Procs, UsePid(p)  PROVE Goal
  BY <1>4 DEF UsePid, RunOn, Commands
<1>5. ASSUME NEW p \in Procs, LookAt(p)  PROVE Goal
  BY <1>5 DEF LookAt, vars, IsVm, NameLooksLikeVm, Kinds, Named, Accepted
<1>6. CASE Search  BY <1>6 DEF Search, vars, IsVm, NameLooksLikeVm, Kinds, Named, Accepted
<1>7. CASE UseFound
  <2>1. ASSUME NEW p \in found, found = {p}, RunOn(p, p \in live), UNCHANGED result
        PROVE  Goal
    BY <1>7, <2>1 DEF UseFound, RunOn, Commands
  <2>2. ASSUME End("failed"), NotRun  PROVE Goal
    BY <1>7, <2>2 DEF UseFound, End, NotRun
  <2>3. QED  BY <1>7, <2>1, <2>2 DEF UseFound
<1>8. CASE Spawn
  <2>1. CASE /\ live' = live \cup {Program} /\ fresh' = fresh \ {Program}
             /\ RunOn(Program, TRUE) /\ UNCHANGED result
    BY <1>8, <2>1 DEF Spawn, RunOn
  <2>2. CASE End("failed") /\ NotRun /\ UNCHANGED <<live, fresh>>
    BY <1>8, <2>2 DEF Spawn, End, NotRun
  <2>3. QED  BY <1>8, <2>1, <2>2 DEF Spawn
<1>9. CASE Recorded  BY <1>9 DEF Recorded, End, vars
<1>10. CASE Reap  BY <1>10 DEF Reap, End, vars
<1>11. CASE Kill  BY <1>11 DEF Kill
<1>12. CASE InRecord(ControlC) \/ InRecord(Sampling) \/ InRecord(Main)
  BY <1>12, RecordTyped
<1>13. CASE DumpAttach \/ DumpHeader \/ DumpTraces \/ DumpList \/ DumpChild
  BY <1>13, DumpOnly DEF vars
<1>14. QED
  BY <1>1, <1>2, <1>3, <1>4, <1>5, <1>6, <1>7, <1>8, <1>9, <1>10, <1>11, <1>12, <1>13
  DEF CommandNext, World, StspyMain

\* What is there when a dump begins descends from what was there: whoever
\* starts later is the child of nobody's parent.
LEMMA ParentsStay ==
  ASSUME CommandTypeOK, PhaseOK, ParentsFirst, CommandNext
  PROVE  ParentsFirst'
<1> USE DEF ParentsFirst
<1>1. ASSUME NEW p \in Procs, ExitOf(p)  PROVE ParentsFirst'
  <2>1. /\ live' = live \ {p} /\ fresh' = fresh \ {p} /\ UNCHANGED <<ask, phase>>
        /\ \A q \in Procs : parent'[q] \in {parent[q], Nothing}
    BY <1>1 DEF ExitOf
  <2>2. live' \cap fresh' \subseteq live \cap fresh /\ live' \ fresh' \subseteq live \ fresh
    BY <2>1
  <2>3. live \subseteq Procs /\ Nothing \notin fresh  BY DEF CommandTypeOK
  <2>4. QED  BY <2>1, <2>2, <2>3
<1>2. ASSUME NEW p \in Procs, Starts(p)  PROVE ParentsFirst'
  <2>1. CASE phase = "search" /\ fresh' = fresh \ {p}
    <3>1. live' = live \cup {p} /\ UNCHANGED <<ask, phase, parent>>  BY <1>2 DEF Starts
    <3>2. parent[p] \notin fresh  BY <1>2, <2>1 DEF Starts, CommandTypeOK
    <3>3. QED  BY <2>1, <3>1, <3>2
  <2>2. CASE calls # <<>> /\ p \in fresh /\ UNCHANGED fresh
    <3>1. live' \ fresh' = live \ fresh /\ UNCHANGED <<ask, phase, parent>>
      BY <1>2, <2>2 DEF Starts
    <3>2. phase \notin {"start", "search"}  BY <2>2 DEF PhaseOK
    <3>3. QED  BY <2>2, <3>1, <3>2
  <2>3. QED  BY <1>2, <2>1, <2>2 DEF Starts
<1>3. ASSUME UNCHANGED <<ask, live, fresh, parent>>,
             phase' \notin {"start", "search"} \/ phase \in {"start", "search"}
      PROVE  ParentsFirst'
  BY <1>3
<1>4. CASE KilledByControlC  BY <1>3, <1>4 DEF KilledByControlC
<1>5. ASSUME NEW p \in Procs, UsePid(p) \/ LookAt(p)  PROVE ParentsFirst'
  BY <1>3, <1>5 DEF UsePid, RunOn, LookAt
<1>6. CASE Search \/ UseFound  BY <1>3, <1>6 DEF Search, UseFound, RunOn, End
<1>7. CASE Spawn
  <2>1. ask.command = "record" /\ UNCHANGED ask  BY <1>7 DEF Spawn, CommandTypeOK
  <2>2. phase' \notin {"start", "search"}  BY <1>7 DEF Spawn, RunOn, End
  <2>3. QED  BY <2>1, <2>2
<1>8. CASE Recorded \/ Reap  BY <1>3, <1>8 DEF Recorded, Reap, End
<1>9. CASE Kill
  <2>1. ask.command = "record" /\ UNCHANGED ask  BY <1>9 DEF Kill, PhaseOK, CommandTypeOK
  <2>2. phase' = "ended"  BY <1>9 DEF Kill
  <2>3. QED  BY <2>1, <2>2
<1>10. CASE InRecord(ControlC) \/ InRecord(Sampling) \/ InRecord(Main)
  BY <1>3, <1>10, RecordTyped
<1>11. CASE DumpAttach \/ DumpHeader \/ DumpTraces \/ DumpList \/ DumpChild
  BY <1>3, <1>11, DumpOnly
<1>12. QED
  BY <1>1, <1>2, <1>4, <1>5, <1>6, <1>7, <1>8, <1>9, <1>10, <1>11
  DEF CommandNext, World, StspyMain

-----------------------------------------------------------------------------
(***************************************************************************)
(* The dump.                                                               *)
(***************************************************************************)

\* The calls but the innermost.
Outer     == 1 .. Len(calls) - 1
OuterPids == {calls[i].pid : i \in Outer}
OuterTodo == UNION {calls[i].todo : i \in Outer}

\* What is to be known of the innermost call and of the others.
LEMMA StackParts ==
  ASSUME calls \in Seq(CallRecords), calls # <<>>
  PROVE  /\ Len(calls) \in Nat /\ Len(calls) >= 1 /\ DOMAIN calls = 1 .. Len(calls)
         /\ DOMAIN calls = Outer \cup {Len(calls)} /\ Len(calls) \notin Outer
         /\ Inner = calls[Len(calls)] /\ Inner \in CallRecords
         /\ Pending = OuterTodo \cup Inner.todo
         /\ Known = OuterPids \cup {Inner.pid} \cup ToSet(printed) \cup Pending
<1>1. /\ Len(calls) \in Nat /\ Len(calls) >= 1 /\ DOMAIN calls = 1 .. Len(calls)
      /\ \A i \in DOMAIN calls : calls[i] \in CallRecords
  OBVIOUS
<1>2. DOMAIN calls = Outer \cup {Len(calls)} /\ Len(calls) \notin Outer
  BY <1>1 DEF Outer
<1>3. Inner = calls[Len(calls)] /\ Inner \in CallRecords  BY <1>1 DEF Inner
<1>4. Pending = OuterTodo \cup Inner.todo  BY <1>2, <1>3 DEF Pending, OuterTodo
<1>5. {calls[i].pid : i \in DOMAIN calls} = OuterPids \cup {Inner.pid}
  BY <1>2, <1>3 DEF OuterPids
<1>6. QED  BY <1>1, <1>2, <1>3, <1>4, <1>5 DEF Known

\* The same of the next state.
LEMMA StackPartsNext ==
  ASSUME calls' \in Seq(CallRecords), calls' # <<>>
  PROVE  /\ Len(calls') \in Nat /\ Len(calls') >= 1 /\ DOMAIN calls' = 1 .. Len(calls')
         /\ DOMAIN calls' = Outer' \cup {Len(calls')} /\ Len(calls') \notin Outer'
         /\ Inner' = calls'[Len(calls')]
         /\ Pending' = OuterTodo' \cup Inner'.todo
         /\ Known' = OuterPids' \cup {Inner'.pid} \cup ToSet(printed)' \cup Pending'
<1>1. /\ Len(calls') \in Nat /\ Len(calls') >= 1 /\ DOMAIN calls' = 1 .. Len(calls')
  OBVIOUS
<1>2. DOMAIN calls' = Outer' \cup {Len(calls')} /\ Len(calls') \notin Outer'
  BY <1>1 DEF Outer
<1>3. Inner' = calls'[Len(calls')]  BY DEF Inner
<1>4. Pending' = OuterTodo' \cup Inner'.todo  BY <1>2, <1>3 DEF Pending, OuterTodo
<1>5. {calls'[i].pid : i \in DOMAIN calls'} = OuterPids' \cup {Inner'.pid}
  BY <1>2, <1>3 DEF OuterPids
<1>6. QED  BY <1>1, <1>2, <1>3, <1>4, <1>5 DEF Known

\* The innermost call goes on; the others are not touched.
LEMMA GoOnParts ==
  ASSUME calls \in Seq(CallRecords), calls # <<>>,
         NEW step \in {"new", "header", "traces", "list", "children"},
         NEW children \in SUBSET Procs, GoOn(step, children)
  PROVE  /\ calls' \in Seq(CallRecords) /\ calls' # <<>> /\ Len(calls') = Len(calls)
         /\ \A i \in Outer : calls'[i] = calls[i]
         /\ Outer' = Outer /\ OuterPids' = OuterPids /\ OuterTodo' = OuterTodo
         /\ DOMAIN calls' = DOMAIN calls
         /\ calls'[1].pid = calls[1].pid
         /\ Inner' = calls'[Len(calls)]
         /\ Inner'.pid = Inner.pid /\ Inner'.at = step /\ Inner'.todo = children
         /\ Pending' = OuterTodo \cup children
<1>1. /\ calls' \in Seq(CallRecords) /\ Len(calls') = Len(calls)
      /\ \A i \in Outer : calls'[i] = calls[i]
      /\ calls'[Len(calls)].pid = Inner.pid
      /\ calls'[Len(calls)].at = step /\ calls'[Len(calls)].todo = children
  BY GoOnCalls DEF Outer
<1>2. calls' # <<>>  BY <1>1
<1>3. Outer' = Outer /\ Inner' = calls'[Len(calls)]  BY <1>1 DEF Outer, Inner
<1>4. OuterPids' = OuterPids  BY <1>1, <1>3 DEF OuterPids
<1>5. OuterTodo' = OuterTodo  BY <1>1, <1>3 DEF OuterTodo
<1>6. Pending' = OuterTodo \cup children  BY <1>1, <1>2, <1>3, <1>5, StackPartsNext
<1>7. DOMAIN calls' = DOMAIN calls  BY <1>1
<1>8. calls'[1].pid = calls[1].pid
  BY <1>1, StackParts DEF Outer
<1>9. QED  BY <1>1, <1>2, <1>3, <1>4, <1>5, <1>6, <1>7, <1>8

\* A process waits in one call, or has one, or had one.
LEMMA StackApart ==
  ASSUME StackOK, NEW i \in DOMAIN calls
  PROVE  /\ calls[i].pid \notin Pending /\ calls[i].todo \cap ToSet(printed) = {}
         /\ calls[i].todo \subseteq Pending
         /\ \A j \in DOMAIN calls \ {i} : /\ calls[i].pid # calls[j].pid
                                          /\ calls[i].todo \cap calls[j].todo = {}
<1>1. calls[i].todo \subseteq Pending  BY DEF Pending
<1>2. QED  BY <1>1 DEF StackOK

\* The tree looks the same as long as what is known and expanded does.
LEMMA TreeKept ==
  ASSUME TreeOK, Known' = Known, Expanded' = Expanded, UNCHANGED <<target, parent, live, fresh>>
  PROVE  TreeOK'
BY DEF TreeOK

\* A call that has not printed its process yet goes on.
LEMMA GoesOn ==
  ASSUME CommandTypeOK, calls # <<>>, StackOK, TreeOK,
         UNCHANGED <<ask, target, parent, live, fresh, printed>>,
         Inner.at \in {"new", "header"}, NEW step \in {"header", "traces"}, GoOn(step, {})
  PROVE  StackOK' /\ TreeOK'
<1>a. calls \in Seq(CallRecords) /\ printed \in Seq(Procs)  BY DEF CommandTypeOK
<1>0. step \in {"new", "header", "traces", "list", "children"} /\ {} \in SUBSET Procs
  OBVIOUS
<1>1. /\ calls' \in Seq(CallRecords) /\ calls' # <<>> /\ Len(calls') = Len(calls)
      /\ \A i \in Outer : calls'[i] = calls[i]
      /\ OuterPids' = OuterPids /\ DOMAIN calls' = DOMAIN calls
      /\ calls'[1].pid = calls[1].pid
      /\ Inner' = calls'[Len(calls)]
      /\ Inner'.pid = Inner.pid /\ Inner'.at = step /\ Inner'.todo = {}
      /\ Pending' = OuterTodo \cup {}
  BY <1>0, <1>a, GoOnParts
<1>2. DOMAIN calls = Outer \cup {Len(calls)} /\ Len(calls) \notin Outer /\ Inner = calls[Len(calls)]
      /\ Pending = OuterTodo \cup Inner.todo
      /\ Known = OuterPids \cup {Inner.pid} \cup ToSet(printed) \cup Pending
  BY <1>a, StackParts
<1>3. Inner.todo = {} /\ Inner.pid \notin ToSet(printed)
  BY <1>2 DEF StackOK
<1>4. Pending' = Pending  BY <1>1, <1>2, <1>3
<1>5. Known' = Known  BY <1>1, <1>2, <1>4, StackPartsNext
<1>6. Expanded' = Expanded  BY <1>1 DEF Expanded
<1>7. \A i \in DOMAIN calls :
         /\ calls'[i].pid = calls[i].pid /\ calls'[i].todo = calls[i].todo
         /\ i # Len(calls) => calls'[i].at = calls[i].at
  BY <1>1, <1>2, <1>3
<1>8. DumpsTree' = DumpsTree  BY DEF DumpsTree
<1>9. StackOK'
  <2>1. ASSUME NEW i \in DOMAIN calls'
        PROVE  /\ calls'[i].at # "children" => i = Len(calls') /\ calls'[i].todo = {}
               /\ calls'[i].pid \in ToSet(printed') <=> calls'[i].at \in {"list", "children"}
    BY <1>1, <1>2, <1>3, <1>7 DEF StackOK
  <2>2. ASSUME NEW i \in DOMAIN calls'
        PROVE  /\ calls'[i].pid \notin Pending' /\ calls'[i].todo \cap ToSet(printed') = {}
               /\ \A j \in DOMAIN calls' \ {i} : /\ calls'[i].pid # calls'[j].pid
                                                 /\ calls'[i].todo \cap calls'[j].todo = {}
    <3>1. i \in DOMAIN calls /\ DOMAIN calls' = DOMAIN calls  BY <1>1
    <3>2. /\ calls[i].pid \notin Pending /\ calls[i].todo \cap ToSet(printed) = {}
          /\ calls[i].todo \subseteq Pending
          /\ \A j \in DOMAIN calls \ {i} : /\ calls[i].pid # calls[j].pid
                                           /\ calls[i].todo \cap calls[j].todo = {}
      BY <3>1, StackApart
    <3>3. ASSUME NEW j \in DOMAIN calls \ {i}
          PROVE  calls'[i].pid # calls'[j].pid /\ calls'[i].todo \cap calls'[j].todo = {}
      BY <1>7, <3>1, <3>2
    <3>4. calls'[i].pid \notin Pending' /\ calls'[i].todo \cap ToSet(printed') = {}
      BY <1>4, <1>7, <3>1, <3>2
    <3>5. QED  BY <3>1, <3>3, <3>4
  <2>3. ~ DumpsTree' => Len(calls') = 1 /\ calls'[1].at \notin {"list", "children"}
    BY <1>1, <1>2, <1>8 DEF StackOK
  <2>4. QED  BY <1>1, <2>1, <2>2, <2>3 DEF StackOK
<1>10. QED  BY <1>5, <1>6, <1>9, TreeKept

\* A process is printed once; with subprocesses, its own are listed next.
LEMMA Prints ==
  ASSUME CommandTypeOK, calls # <<>>, StackOK, TreeOK,
         UNCHANGED <<ask, target, parent, live, fresh>>,
         Inner.at = "traces", printed' = Append(printed, Inner.pid),
         GoOn("list", {}), DumpsTree
  PROVE  StackOK' /\ TreeOK'
<1>a. calls \in Seq(CallRecords) /\ printed \in Seq(Procs)  BY DEF CommandTypeOK
<1>0. "list" \in {"new", "header", "traces", "list", "children"} /\ {} \in SUBSET Procs
  OBVIOUS
<1>1. /\ calls' \in Seq(CallRecords) /\ calls' # <<>> /\ Len(calls') = Len(calls)
      /\ \A i \in Outer : calls'[i] = calls[i]
      /\ OuterPids' = OuterPids /\ DOMAIN calls' = DOMAIN calls
      /\ calls'[1].pid = calls[1].pid
      /\ Inner' = calls'[Len(calls)]
      /\ Inner'.pid = Inner.pid /\ Inner'.at = "list" /\ Inner'.todo = {}
      /\ Pending' = OuterTodo \cup {}
  BY <1>a, <1>0, GoOnParts
<1>2. DOMAIN calls = Outer \cup {Len(calls)} /\ Len(calls) \notin Outer /\ Inner = calls[Len(calls)]
      /\ Pending = OuterTodo \cup Inner.todo /\ Inner \in CallRecords
      /\ Known = OuterPids \cup {Inner.pid} \cup ToSet(printed) \cup Pending
  BY <1>a, StackParts
<1>3. Inner.todo = {} /\ Inner.pid \notin ToSet(printed) /\ Inner.pid \notin Pending
  BY <1>2 DEF StackOK
<1>4. Pending' = Pending  BY <1>1, <1>2, <1>3
<1>5. ToSet(printed') = ToSet(printed) \cup {Inner.pid}
  BY <1>2, <1>a, AppendIs DEF CallRecords
<1>6. Known' = Known  BY <1>1, <1>2, <1>4, <1>5, StackPartsNext
<1>7. Expanded' = Expanded  BY <1>1, <1>3, <1>5 DEF Expanded
<1>8. \A i \in DOMAIN calls :
         /\ calls'[i].pid = calls[i].pid /\ calls'[i].todo = calls[i].todo
         /\ i # Len(calls) => calls'[i].at = calls[i].at
  BY <1>1, <1>2, <1>3
<1>9. StackOK'
  <2>1. ASSUME NEW i \in DOMAIN calls'
        PROVE  /\ calls'[i].at # "children" => i = Len(calls') /\ calls'[i].todo = {}
               /\ calls'[i].pid \in ToSet(printed') <=> calls'[i].at \in {"list", "children"}
    BY <1>1, <1>2, <1>3, <1>5, <1>8 DEF StackOK
  <2>2. ASSUME NEW i \in DOMAIN calls'
        PROVE  /\ calls'[i].pid \notin Pending' /\ calls'[i].todo \cap ToSet(printed') = {}
               /\ \A j \in DOMAIN calls' \ {i} : /\ calls'[i].pid # calls'[j].pid
                                                 /\ calls'[i].todo \cap calls'[j].todo = {}
    <3>1. i \in DOMAIN calls /\ DOMAIN calls' = DOMAIN calls  BY <1>1
    <3>2. /\ calls[i].pid \notin Pending /\ calls[i].todo \cap ToSet(printed) = {}
          /\ calls[i].todo \subseteq Pending
          /\ \A j \in DOMAIN calls \ {i} : /\ calls[i].pid # calls[j].pid
                                           /\ calls[i].todo \cap calls[j].todo = {}
      BY <3>1, StackApart
    <3>3. ASSUME NEW j \in DOMAIN calls \ {i}
          PROVE  calls'[i].pid # calls'[j].pid /\ calls'[i].todo \cap calls'[j].todo = {}
      BY <1>8, <3>1, <3>2
    <3>4. calls'[i].pid \notin Pending' /\ calls'[i].todo \cap ToSet(printed') = {}
      BY <1>3, <1>4, <1>5, <1>8, <3>1, <3>2
    <3>5. QED  BY <3>1, <3>3, <3>4
  <2>3. DumpsTree'  BY DEF DumpsTree
  <2>4. QED  BY <1>1, <2>1, <2>2, <2>3 DEF StackOK
<1>10. QED  BY <1>6, <1>7, <1>9, TreeKept

\* The children of a process are listed: none of them was known.
LEMMA Lists ==
  ASSUME CommandTypeOK, calls # <<>>, StackOK, TreeOK,
         UNCHANGED <<ask, target, parent, live, fresh, printed>>,
         Inner.at = "list", GoOn("children", Children(Inner.pid))
  PROVE  StackOK' /\ TreeOK'
<1> USE DEF CommandTypeOK
<1> DEFINE new == Children(Inner.pid)
<1>0. new \in SUBSET Procs  BY DEF Children
<1>1. /\ calls' \in Seq(CallRecords) /\ calls' # <<>> /\ Len(calls') = Len(calls)
      /\ \A i \in Outer : calls'[i] = calls[i]
      /\ OuterPids' = OuterPids /\ DOMAIN calls' = DOMAIN calls
      /\ calls'[1].pid = calls[1].pid
      /\ Inner' = calls'[Len(calls)]
      /\ Inner'.pid = Inner.pid /\ Inner'.at = "children" /\ Inner'.todo = new
      /\ Pending' = OuterTodo \cup new
  BY <1>0, GoOnParts
<1>2. DOMAIN calls = Outer \cup {Len(calls)} /\ Len(calls) \notin Outer /\ Inner = calls[Len(calls)]
      /\ Pending = OuterTodo \cup Inner.todo /\ Inner \in CallRecords
      /\ Known = OuterPids \cup {Inner.pid} \cup ToSet(printed) \cup Pending
  BY StackParts
<1>3. Inner.todo = {} /\ Inner.pid \in ToSet(printed) /\ Inner.pid \in Procs /\ DumpsTree
  <2>1. Inner.todo = {} /\ Inner.pid \in ToSet(printed)  BY <1>2 DEF StackOK
  <2>2. DumpsTree  BY <1>2 DEF StackOK
  <2>3. QED  BY <1>2, <2>1, <2>2 DEF CallRecords
<1>4. Pending' = Pending \cup new  BY <1>1, <1>2, <1>3
<1>5. Known' = Known \cup new  BY <1>1, <1>2, <1>4, StackPartsNext
<1>6. Expanded' = Expanded \cup {Inner.pid} /\ Inner.pid \notin Expanded
  BY <1>1, <1>3 DEF Expanded
<1>7. \A c \in new : c \in live /\ parent[c] = Inner.pid  BY DEF Children
<1>8. PICK S \in SUBSET Procs : /\ Known \subseteq S /\ parent[target] \notin S
                               /\ \A p \in Procs : parent[p] \in S => p \in S
  BY DEF TreeOK
<1>9. new \cap Known = {}
  <2>1. ASSUME NEW c \in new, c \in Known  PROVE FALSE
    <3>1. c # target  BY <1>2, <1>7, <1>8
    <3>2. QED  BY <1>3, <1>6, <1>7, <2>1, <3>1 DEF TreeOK
  <2>2. QED  BY <2>1
<1>10. TreeOK'
  <2>1. \A p \in Known' \ {target} : parent[p] \in Expanded' \cup {Nothing}
    BY <1>5, <1>6, <1>7 DEF TreeOK
  <2>2. ASSUME NEW p \in live \ fresh, parent[p] \in Expanded'  PROVE p \in Known'
    <3>1. CASE parent[p] \in Expanded  BY <1>5, <3>1 DEF TreeOK
    <3>2. CASE parent[p] = Inner.pid  BY <1>5, <3>2 DEF Children
    <3>3. QED  BY <1>6, <2>2, <3>1, <3>2
  <2>3. Known' \subseteq S
    <3>1. new \subseteq S  BY <1>0, <1>2, <1>7, <1>8
    <3>2. QED  BY <1>5, <1>8, <3>1
  <2>4. QED  BY <1>8, <2>1, <2>2, <2>3 DEF TreeOK
<1>11. \A i \in DOMAIN calls : calls[i].pid \in Known /\ calls[i].todo \subseteq Known
  BY DEF Known, Pending
<1>12. \A i \in DOMAIN calls :
         /\ calls'[i].pid = calls[i].pid
         /\ i # Len(calls) => calls'[i].at = calls[i].at /\ calls'[i].todo = calls[i].todo
  BY <1>1, <1>2
<1>13. StackOK'
  <2>1. ASSUME NEW i \in DOMAIN calls'
        PROVE  /\ calls'[i].at # "children" => i = Len(calls') /\ calls'[i].todo = {}
               /\ calls'[i].pid \in ToSet(printed') <=> calls'[i].at \in {"list", "children"}
    BY <1>1, <1>2, <1>3, <1>12 DEF StackOK
  <2>2. ASSUME NEW i \in DOMAIN calls'
        PROVE  /\ calls'[i].pid \notin Pending' /\ calls'[i].todo \cap ToSet(printed') = {}
    <3>1. calls'[i].pid \notin Pending'  BY <1>1, <1>4, <1>9, <1>11, <1>12 DEF StackOK
    <3>2. CASE i = Len(calls)
      <4>1. ToSet(printed') \subseteq Known  BY <1>2
      <4>2. QED  BY <1>1, <1>9, <3>1, <3>2, <4>1
    <3>3. CASE i # Len(calls)  BY <1>1, <1>12, <3>1, <3>3 DEF StackOK
    <3>4. QED  BY <3>2, <3>3
  <2>3. ASSUME NEW i \in DOMAIN calls', NEW j \in DOMAIN calls' \ {i}
        PROVE  calls'[i].pid # calls'[j].pid /\ calls'[i].todo \cap calls'[j].todo = {}
    <3>1. calls'[i].pid # calls'[j].pid  BY <1>1, <1>12 DEF StackOK
    <3>2. CASE i # Len(calls) /\ j # Len(calls)  BY <1>1, <1>12, <3>1, <3>2 DEF StackOK
    <3>3. CASE i = Len(calls)  BY <1>1, <1>9, <1>11, <1>12, <3>1, <3>3
    <3>4. CASE j = Len(calls)  BY <1>1, <1>9, <1>11, <1>12, <3>1, <3>4
    <3>5. QED  BY <3>2, <3>3, <3>4
  <2>4. DumpsTree'  BY <1>3 DEF DumpsTree
  <2>5. QED  BY <1>1, <2>1, <2>2, <2>3, <2>4 DEF StackOK
<1>14. QED  BY <1>10, <1>13

\* A child that waited is called.
LEMMA CallsChild ==
  ASSUME CommandTypeOK, calls # <<>>, StackOK, TreeOK,
         UNCHANGED <<ask, target, parent, live, fresh, printed>>,
         Inner.at = "children", NEW c \in Inner.todo,
         calls' = Append([calls EXCEPT ![Len(calls)].todo = @ \ {c}], Call(c, Inner.pid))
  PROVE  StackOK' /\ TreeOK'
<1>a. calls \in Seq(CallRecords) /\ printed \in Seq(Procs)  BY DEF CommandTypeOK
<1>0. /\ Len(calls) \in Nat /\ Len(calls) >= 1 /\ DOMAIN calls = 1 .. Len(calls)
      /\ DOMAIN calls = Outer \cup {Len(calls)} /\ Len(calls) \notin Outer /\ Inner = calls[Len(calls)]
      /\ Pending = OuterTodo \cup Inner.todo /\ Inner \in CallRecords
      /\ Known = OuterPids \cup {Inner.pid} \cup ToSet(printed) \cup Pending
  BY <1>a, StackParts
<1>1. c \in Procs  BY <1>0 DEF CallRecords
<1>2. /\ calls' \in Seq(CallRecords) /\ Len(calls') = Len(calls) + 1
      /\ \A i \in Outer : calls'[i] = calls[i]
      /\ calls'[Len(calls)].pid = Inner.pid /\ calls'[Len(calls)].at = Inner.at
      /\ calls'[Len(calls)].todo = Inner.todo \ {c}
      /\ calls'[Len(calls) + 1] = Call(c, Inner.pid)
  BY <1>a, <1>1, PushCalls DEF Outer
<1>3. calls' # <<>> /\ Outer' = DOMAIN calls /\ Inner' = Call(c, Inner.pid)
      /\ DOMAIN calls' = DOMAIN calls \cup {Len(calls) + 1} /\ Len(calls) + 1 \notin DOMAIN calls
      /\ calls'[1].pid = calls[1].pid
  <2>1. calls' # <<>> /\ Outer' = DOMAIN calls
    <3>0. Len(calls) \in Nat /\ Len(calls') = Len(calls) + 1  BY <1>0, <1>2
    <3>1. Len(calls') - 1 = Len(calls) /\ Len(calls') # 0  BY <3>0
    <3>2. Outer' = 1 .. Len(calls)  BY <3>1 DEF Outer
    <3>3. calls' # <<>>  BY <3>1
    <3>4. QED  BY <1>0, <3>2, <3>3
  <2>2. Inner' = Call(c, Inner.pid)
    <3>1. Inner' = calls'[Len(calls')]  BY DEF Inner
    <3>2. QED  BY <1>2, <3>1
  <2>3. DOMAIN calls' = DOMAIN calls \cup {Len(calls) + 1} /\ Len(calls) + 1 \notin DOMAIN calls
    <3>1. DOMAIN calls' = Outer' \cup {Len(calls')}  BY <1>2, <2>1, StackPartsNext
    <3>2. Len(calls) + 1 \notin DOMAIN calls  BY <1>0
    <3>3. QED  BY <1>2, <2>1, <3>1, <3>2
  <2>4. 1 \in Outer \cup {Len(calls)}  BY <1>0
  <2>5. calls'[1].pid = calls[1].pid  BY <1>0, <1>2, <2>4
  <2>6. QED  BY <2>1, <2>2, <2>3, <2>5
<1>4. Inner'.pid = c /\ Inner'.at = "new" /\ Inner'.todo = {}
  BY <1>3 DEF Call
<1>5. \A i \in DOMAIN calls :
        /\ calls'[i].pid = calls[i].pid /\ calls'[i].at = calls[i].at
        /\ calls'[i].todo = calls[i].todo \ {c}
  <2>1. ASSUME NEW i \in Outer  PROVE calls[i].todo = calls[i].todo \ {c}
    <3>1. i \in DOMAIN calls /\ Len(calls) \in DOMAIN calls \ {i}  BY <1>0
    <3>2. calls[i].todo \cap calls[Len(calls)].todo = {}  BY <3>1, StackApart
    <3>3. QED  BY <1>0, <3>2
  <2>2. QED  BY <1>0, <1>2, <2>1
<1>6. c \in Pending /\ c \notin ToSet(printed)
  <2>1. Len(calls) \in DOMAIN calls  BY <1>0
  <2>2. QED  BY <1>0, <2>1, StackApart
<1>7. Pending' = Pending \ {c}
  <2>1. OuterTodo' = UNION {calls[i].todo \ {c} : i \in DOMAIN calls}
    BY <1>3, <1>5 DEF OuterTodo
  <2>2. OuterTodo' = Pending \ {c}  BY <2>1 DEF Pending
  <2>3. QED  BY <1>2, <1>3, <1>4, <2>2, StackPartsNext
<1>8. OuterPids' = OuterPids \cup {Inner.pid}
  <2>1. OuterPids' = {calls[i].pid : i \in DOMAIN calls}
    BY <1>3, <1>5 DEF OuterPids
  <2>2. QED  BY <1>0, <2>1 DEF OuterPids
<1>9. Known' = Known
  <2>1. Known' = OuterPids' \cup {Inner'.pid} \cup ToSet(printed)' \cup Pending'
    BY <1>2, <1>3, StackPartsNext
  <2>2. QED  BY <1>0, <1>4, <1>6, <1>7, <1>8, <2>1
<1>10. Expanded' = Expanded  BY <1>4, <1>6 DEF Expanded
<1>11. \A i \in DOMAIN calls : calls[i].at = "children"
  BY <1>0 DEF StackOK
<1>12. DumpsTree'
  <2>1. DumpsTree
    <3>1. ~ DumpsTree => calls[Len(calls)].at \notin {"list", "children"}  BY DEF StackOK
    <3>2. QED  BY <1>0, <3>1
  <2>2. QED  BY <2>1 DEF DumpsTree
<1>13. ASSUME NEW i \in DOMAIN calls'
       PROVE  /\ calls'[i].at # "children" => i = Len(calls') /\ calls'[i].todo = {}
              /\ calls'[i].pid \in ToSet(printed') <=> calls'[i].at \in {"list", "children"}
              /\ calls'[i].pid \notin Pending' /\ calls'[i].todo \cap ToSet(printed') = {}
  <2>1. CASE i \in DOMAIN calls
    <3>1. calls[i].pid \in ToSet(printed)  BY <1>11, <2>1 DEF StackOK
    <3>2. calls[i].pid \notin Pending /\ calls[i].todo \cap ToSet(printed) = {}
      BY <2>1, StackApart
    <3>3. QED  BY <1>5, <1>7, <1>11, <2>1, <3>1, <3>2
  <2>2. CASE i = Len(calls) + 1
    BY <1>2, <1>3, <1>4, <1>6, <1>7, <2>2
  <2>3. QED  BY <1>3, <2>1, <2>2
<1>14. ASSUME NEW i \in DOMAIN calls', NEW j \in DOMAIN calls' \ {i}
       PROVE  calls'[i].pid # calls'[j].pid /\ calls'[i].todo \cap calls'[j].todo = {}
  <2>1. ASSUME NEW k \in DOMAIN calls
        PROVE  calls[k].pid # c /\ calls'[k].pid = calls[k].pid
    BY <1>5, <1>6, StackApart
  <2>2. calls'[Len(calls) + 1].pid = c /\ calls'[Len(calls) + 1].todo = {}
    BY <1>2 DEF Call
  <2>3. CASE i \in DOMAIN calls /\ j \in DOMAIN calls
    <3>1. calls[i].pid # calls[j].pid /\ calls[i].todo \cap calls[j].todo = {}
      BY <2>3, StackApart
    <3>2. QED  BY <1>5, <2>3, <3>1
  <2>4. CASE i = Len(calls) + 1  BY <1>3, <2>1, <2>2, <2>4
  <2>5. CASE j = Len(calls) + 1  BY <1>3, <2>1, <2>2, <2>5
  <2>6. QED  BY <1>3, <2>3, <2>4, <2>5
<1>15. StackOK'
  <2>1. calls'[1].pid = target'  BY <1>3 DEF StackOK
  <2>2. QED  BY <1>12, <1>13, <1>14, <2>1 DEF StackOK
<1>16. QED  BY <1>9, <1>10, <1>15, TreeKept

\* A call whose children are all done returns to the one it was made by; the
\* outermost has printed the tree.
LEMMA Returns ==
  ASSUME CommandTypeOK, calls # <<>>, StackOK, TreeOK,
         UNCHANGED <<ask, target, parent, live, fresh, printed>>,
         Inner.at = "children", Inner.todo = {}, Return
  PROVE  /\ Len(calls) # 1 => StackOK' /\ TreeOK'
         /\ Len(calls) = 1 => calls' = <<>> /\ PrintedAll'
<1>a. calls \in Seq(CallRecords) /\ printed \in Seq(Procs)  BY DEF CommandTypeOK
<1>0. /\ Len(calls) \in Nat /\ Len(calls) >= 1 /\ DOMAIN calls = 1 .. Len(calls)
      /\ DOMAIN calls = Outer \cup {Len(calls)} /\ Len(calls) \notin Outer /\ Inner = calls[Len(calls)]
      /\ Pending = OuterTodo \cup Inner.todo /\ Inner \in CallRecords
      /\ Known = OuterPids \cup {Inner.pid} \cup ToSet(printed) \cup Pending
  BY <1>a, StackParts
<1>1. /\ calls' \in Seq(CallRecords) /\ Len(calls') = Len(calls) - 1
      /\ \A i \in Outer : calls'[i] = calls[i]
  BY <1>a, PopCalls DEF Outer
<1>2. DOMAIN calls' = Outer  BY <1>1 DEF Outer
<1>3. Inner.pid \in ToSet(printed) /\ Expanded = ToSet(printed)
  BY <1>0 DEF StackOK, Expanded
<1>4. \A i \in Outer : calls[i].at = "children"  BY <1>0 DEF StackOK
<1>5. ASSUME Len(calls) = 1  PROVE calls' = <<>> /\ PrintedAll'
  <2>1. Outer = {}  BY <1>0, <1>5 DEF Outer
  <2>2. Known = ToSet(printed)
    <3>1. OuterPids = {} /\ OuterTodo = {}  BY <2>1 DEF OuterPids, OuterTodo
    <3>2. QED  BY <1>0, <1>3, <3>1
  <2>3. target \in ToSet(printed)  BY <1>0, <1>3, <1>5 DEF StackOK
  <2>4. \A p \in live \ fresh : parent[p] \in ToSet(printed) => p \in ToSet(printed)
    BY <1>3, <2>2 DEF TreeOK
  <2>5. calls' = <<>>  BY <1>1, <1>5
  <2>6. QED  BY <2>3, <2>4, <2>5 DEF PrintedAll
<1>6. ASSUME Len(calls) # 1  PROVE StackOK' /\ TreeOK'
  <2>1. calls' # <<>>  BY <1>0, <1>1, <1>6
  <2>2. Inner'.at = "children" /\ Len(calls') \in DOMAIN calls'
    BY <1>0, <1>1, <1>4, <1>6 DEF Inner, Outer
  <2>3. Pending' = Pending
    <3>1. Pending' = OuterTodo  BY <1>1, <1>2 DEF Pending, OuterTodo
    <3>2. QED  BY <1>0, <3>1
  <2>4. {calls'[i].pid : i \in DOMAIN calls'} = OuterPids
    BY <1>1, <1>2 DEF OuterPids
  <2>5. Known' = Known  BY <1>0, <1>3, <2>3, <2>4 DEF Known
  <2>6. Expanded' = Expanded  BY <1>3, <2>2 DEF Expanded
  <2>7. DumpsTree'
    <3>1. DumpsTree  BY <1>6 DEF StackOK
    <3>2. QED  BY <3>1 DEF DumpsTree
  <2>8. ASSUME NEW i \in DOMAIN calls'
        PROVE  /\ calls'[i].at = "children"
               /\ calls'[i].pid \in ToSet(printed')
               /\ calls'[i].pid \notin Pending' /\ calls'[i].todo \cap ToSet(printed') = {}
               /\ \A j \in DOMAIN calls' \ {i} : /\ calls'[i].pid # calls'[j].pid
                                                 /\ calls'[i].todo \cap calls'[j].todo = {}
    <3>1. i \in DOMAIN calls /\ calls'[i] = calls[i]  BY <1>0, <1>1, <1>2
    <3>2. \A j \in DOMAIN calls' \ {i} : j \in DOMAIN calls \ {i} /\ calls'[j] = calls[j]
      BY <1>0, <1>1, <1>2
    <3>3. calls[i].at = "children"  BY <1>2, <1>4
    <3>4. calls[i].pid \in ToSet(printed)  BY <3>1, <3>3 DEF StackOK
    <3>5. /\ calls[i].pid \notin Pending /\ calls[i].todo \cap ToSet(printed) = {}
          /\ \A j \in DOMAIN calls \ {i} : /\ calls[i].pid # calls[j].pid
                                           /\ calls[i].todo \cap calls[j].todo = {}
      BY <3>1, StackApart
    <3>6. QED  BY <2>3, <3>1, <3>2, <3>3, <3>4, <3>5
  <2>9. calls'[1].pid = target'
    <3>1. 1 \in Outer  BY <1>0, <1>6 DEF Outer
    <3>2. QED  BY <1>1, <3>1 DEF StackOK
  <2>10. StackOK'  BY <2>7, <2>8, <2>9 DEF StackOK
  <2>11. QED  BY <2>5, <2>6, <2>10, TreeKept
<1>7. QED  BY <1>5, <1>6

\* A dump begins with the target, a leaf of what is known of the tree.
LEMMA Begins ==
  ASSUME CommandTypeOK, CommandTypeOK', NEW p \in Procs, target' = p,
         calls' = <<Call(p, Nothing)>>, printed' = <<>>
  PROVE  StackOK' /\ TreeOK'
<1>a. calls' \in Seq(CallRecords) /\ Acyclic(parent')
      /\ parent' \in [Procs -> Procs \cup {Nothing}] /\ live' \subseteq Procs
  BY DEF CommandTypeOK
<1>1. Len(calls') = 1 /\ DOMAIN calls' = {1} /\ calls'[1] = Call(p, Nothing)
  OBVIOUS
<1>2. calls'[1].pid = p /\ calls'[1].at = "new" /\ calls'[1].todo = {}
  BY <1>1 DEF Call
<1>3. Pending' = {} /\ ToSet(printed') = {}
  BY <1>1, <1>2 DEF Pending, ToSet
<1>4. Known' = {p}  BY <1>1, <1>2, <1>3 DEF Known
<1>5. Expanded' = {}  BY <1>3 DEF Expanded
<1>6. StackOK'  BY <1>1, <1>2, <1>3 DEF StackOK
<1>7. \E S \in SUBSET Procs : /\ p \in S /\ parent'[p] \notin S
                              /\ \A q \in Procs : parent'[q] \in S => q \in S
  \* The least set that holds the target and, with a process, its children.
  <2> DEFINE Closed(T) == p \in T /\ \A q \in Procs : parent'[q] \in T => q \in T
             S == {q \in Procs : \A T \in SUBSET Procs : Closed(T) => q \in T}
  <2>1. S \in SUBSET Procs /\ Closed(S)
    <3>1. p \in S  OBVIOUS
    <3>2. ASSUME NEW q \in Procs, parent'[q] \in S  PROVE q \in S
      <4>1. ASSUME NEW T \in SUBSET Procs, Closed(T)  PROVE q \in T
        BY <3>2, <4>1
      <4>2. QED  BY <4>1
    <3>3. QED  BY <3>1, <3>2
  <2> HIDE DEF S
  <2>2. ASSUME parent'[p] \in S  PROVE FALSE
    <3>1. p \in S /\ S # {}  BY <2>1
    <3>2. PICK q \in S : parent'[q] \notin S  BY <2>1, <3>1, <1>a DEF Acyclic
    <3>3. q # p  BY <2>2, <3>2
    <3>4. S \ {q} \in SUBSET Procs /\ q \in Procs  BY <2>1
    <3>5. Closed(S \ {q})  BY <2>1, <3>2, <3>3
    <3>6. q \in S \ {q}  BY <3>4, <3>5 DEF S
    <3>7. QED  BY <3>6
  <2>3. QED  BY <2>1, <2>2
<1>8. TreeOK'  BY <1>4, <1>5, <1>7 DEF TreeOK
<1>9. QED  BY <1>6, <1>8

\* The exit of a process takes it out of the tree.
LEMMA ExitKeeps ==
  ASSUME CommandTypeOK, DumpOK, NEW p \in Procs, ExitOf(p)
  PROVE  DumpOK'
<1>1. /\ UNCHANGED <<ask, target, calls, printed, phase, result>>
      /\ live' \ fresh' \subseteq live \ fresh
      /\ \A q \in Procs : parent'[q] = parent[q] \/ parent'[q] = Nothing
  BY DEF ExitOf, CommandTypeOK
<1>a. /\ calls \in Seq(CallRecords) /\ printed \in Seq(Procs) /\ live \subseteq Procs
      /\ target \in Procs \cup {Nothing}
  BY DEF CommandTypeOK
<1>2. ToSet(printed) \subseteq Procs  BY <1>a DEF ToSet
<1>3. Pending' = Pending /\ Known' = Known /\ Expanded' = Expanded /\ DumpsTree' = DumpsTree
  BY <1>1 DEF Pending, Known, Expanded, Inner, DumpsTree
<1>4. ASSUME calls # <<>>, StackOK, TreeOK  PROVE StackOK' /\ TreeOK'
  <2>1. StackOK'
    <3>1. UNCHANGED <<calls, printed, target>>  BY <1>1
    <3>2. QED  BY <1>3, <1>4, <3>1 DEF StackOK
  <2>2. PICK S \in SUBSET Procs : /\ Known \subseteq S /\ parent[target] \notin S
                                 /\ \A q \in Procs : parent[q] \in S => q \in S
    BY <1>4 DEF TreeOK
  <2>3. target \in Procs
    <3>1. calls[1] \in CallRecords  BY <1>a, <1>4
    <3>2. calls[1].pid \in Procs  BY <3>1 DEF CallRecords
    <3>3. QED  BY <1>4, <3>2 DEF StackOK
  <2>4. Expanded \subseteq Procs  BY <1>2 DEF Expanded
  <2>5. parent'[target'] \notin S /\ \A q \in Procs : parent'[q] \in S => q \in S
    BY <1>1, <2>2, <2>3
  <2>6. \A q \in Known' \ {target'} : parent'[q] \in Expanded' \cup {Nothing}
    BY <1>1, <1>3, <1>4, <2>2 DEF TreeOK
  <2>7. \A q \in live' \ fresh' : parent'[q] \in Expanded' => q \in Known'
    BY <1>a, <1>1, <1>3, <1>4, <2>4 DEF TreeOK
  <2>8. TreeOK'  BY <1>3, <2>2, <2>5, <2>6, <2>7 DEF TreeOK
  <2>9. QED  BY <2>1, <2>8
<1>5. PrintedAll => PrintedAll'
  BY <1>a, <1>1, <1>2 DEF PrintedAll
<1>6. QED  BY <1>1, <1>3, <1>4, <1>5 DEF DumpOK

\* One that starts meanwhile is none that was there.
LEMMA StartKeeps ==
  ASSUME CommandTypeOK, PhaseOK, DumpOK, NEW p \in Procs, Starts(p)
  PROVE  DumpOK'
<1>1. UNCHANGED <<ask, target, parent, calls, printed, phase, result>>
  BY DEF Starts
<1>2. Pending' = Pending /\ Known' = Known /\ Expanded' = Expanded /\ DumpsTree' = DumpsTree
  BY <1>1 DEF Pending, Known, Expanded, Inner, DumpsTree
<1>3. ASSUME calls # <<>>, StackOK, TreeOK  PROVE StackOK' /\ TreeOK'
  <2>1. live' \ fresh' = live \ fresh  BY <1>3 DEF Starts, PhaseOK
  <2>2. StackOK'  BY <1>1, <1>2, <1>3 DEF StackOK
  <2>3. QED  BY <1>1, <1>2, <1>3, <2>1, <2>2 DEF TreeOK
<1>4. phase # "ended"  BY DEF Starts, PhaseOK
<1>5. QED  BY <1>1, <1>2, <1>3, <1>4 DEF DumpOK

PrintedOnce == IsFiniteSet(ToSet(printed)) /\ Cardinality(ToSet(printed)) = Len(printed)

\* The steps of a dump.
LEMMA DumpKeeps ==
  ASSUME CommandTypeOK, PhaseOK, DumpOK,
         DumpAttach \/ DumpHeader \/ DumpTraces \/ DumpList \/ DumpChild
  PROVE  DumpOK'
<1>a. calls \in Seq(CallRecords) /\ printed \in Seq(Procs)  BY DEF CommandTypeOK
<1>b. /\ UNCHANGED <<ask, target, parent, live, fresh>> /\ calls # <<>> /\ phase = "run"
      /\ StackOK /\ TreeOK /\ PrintedOnce
  BY DumpOnly DEF DumpOK, PrintedOnce
<1>c. Inner \in CallRecords /\ DOMAIN calls = Outer \cup {Len(calls)} /\ Inner = calls[Len(calls)]
  BY <1>a, <1>b, StackParts
<1>1. ASSUME StackOK' /\ TreeOK', UNCHANGED mainVars2, PrintedOnce'  PROVE DumpOK'
  BY <1>b, <1>1 DEF DumpOK, PrintedOnce
<1>2. ASSUME calls' = <<>>, phase' = "ended" /\ result' = "done" /\ DumpsTree' => PrintedAll',
             PrintedOnce'
      PROVE  DumpOK'
  BY <1>2 DEF DumpOK, PrintedOnce
<1>3. UNCHANGED printed => PrintedOnce'  BY <1>b DEF PrintedOnce
<1>4. ASSUME Fail, UNCHANGED printed  PROVE DumpOK'
  BY <1>2, <1>3, <1>4 DEF Fail, End
<1>5. CASE DumpAttach
  <2>1. ASSUME IsVm(Inner.pid) /\ GoOn(IF ask.json THEN "traces" ELSE "header", {})
        PROVE  DumpOK'
    <3>1. UNCHANGED mainVars2 /\ UNCHANGED printed /\ Inner.at = "new"
      BY <1>5, <2>1 DEF GoOn, DumpAttach, Dumping
    <3>2. PICK step \in {"header", "traces"} : GoOn(step, {})  BY <2>1
    <3>3. StackOK' /\ TreeOK'  BY <1>b, <3>1, <3>2, GoesOn
    <3>4. QED  BY <1>1, <1>3, <3>1, <3>3
  <2>2. QED  BY <1>4, <1>5, <2>1 DEF DumpAttach
<1>6. CASE DumpHeader
  <2>1. ASSUME GoOn("traces", {})  PROVE DumpOK'
    <3>1. UNCHANGED mainVars2 /\ UNCHANGED printed /\ Inner.at = "header"
      BY <1>6, <2>1 DEF GoOn, DumpHeader, Dumping
    <3>2. StackOK' /\ TreeOK'  BY <1>b, <2>1, <3>1, GoesOn
    <3>3. QED  BY <1>1, <1>3, <3>1, <3>2
  <2>2. QED  BY <1>4, <1>6, <2>1 DEF DumpHeader
<1>7. CASE DumpTraces
  <2>1. ASSUME printed' = Append(printed, Inner.pid)  PROVE PrintedOnce'
    <3>1. Inner.at = "traces"  BY <1>7 DEF DumpTraces, Dumping
    <3>2. Inner.pid \notin ToSet(printed)  BY <1>b, <1>c, <3>1 DEF StackOK
    <3>3. Inner.pid \in Procs  BY <1>c DEF CallRecords
    <3>4. Len(printed') = Len(printed) + 1 /\ ToSet(printed') = ToSet(printed) \cup {Inner.pid}
      BY <1>a, <2>1, <3>3, AppendIs
    <3>5. QED  BY <1>b, <3>2, <3>4, FS_AddElement DEF PrintedOnce
  <2>2. ASSUME printed' = Append(printed, Inner.pid), ask.subprocesses /\ ~ ask.json,
               GoOn("list", {})
        PROVE  DumpOK'
    <3>1. Inner.at = "traces" /\ UNCHANGED mainVars2 /\ DumpsTree
      BY <1>7, <1>b, <2>2 DEF GoOn, DumpTraces, Dumping, DumpsTree, PhaseOK
    <3>2. StackOK' /\ TreeOK'  BY <1>b, <2>2, <3>1, Prints
    <3>3. QED  BY <1>1, <2>1, <2>2, <3>1, <3>2
  <2>3. ASSUME printed' = Append(printed, Inner.pid), ~ (ask.subprocesses /\ ~ ask.json), Return
        PROVE  DumpOK'
    <3>1. ~ DumpsTree /\ ~ DumpsTree'  BY <1>b, <2>3 DEF DumpsTree
    <3>2. Len(calls) = 1  BY <1>b, <3>1 DEF StackOK
    <3>3. Len(calls') = 0 /\ calls' \in Seq(CallRecords)  BY <1>a, <1>b, <2>3, <3>2, PopCalls
    <3>4. calls' = <<>>  BY <3>3
    <3>5. QED  BY <1>2, <2>1, <2>3, <3>1, <3>4
  <2>4. QED  BY <1>4, <1>7, <2>2, <2>3 DEF DumpTraces
<1>8. CASE DumpList
  <2>1. UNCHANGED printed  BY <1>8 DEF DumpList
  <2>2. ASSUME GoOn("children", Children(Inner.pid))  PROVE DumpOK'
    <3>1. Inner.at = "list" /\ UNCHANGED mainVars2  BY <1>8, <2>2 DEF GoOn, DumpList, Dumping
    <3>2. StackOK' /\ TreeOK'  BY <1>b, <2>1, <2>2, <3>1, Lists
    <3>3. QED  BY <1>1, <1>3, <2>1, <3>1, <3>2
  <2>3. ASSUME phase' = "panicked", calls' = <<>>  PROVE DumpOK'
    BY <1>2, <1>3, <2>1, <2>3
  <2>4. QED  BY <1>8, <2>2, <2>3 DEF DumpList
<1>9. CASE DumpChild
  <2>1. UNCHANGED printed /\ Inner.at = "children"  BY <1>9 DEF DumpChild, Dumping
  <2>2. ASSUME NEW c \in Inner.todo, UNCHANGED mainVars2,
               calls' = Append([calls EXCEPT ![Len(calls)].todo = @ \ {c}], Call(c, Inner.pid))
        PROVE  DumpOK'
    <3>1. StackOK' /\ TreeOK'  BY <1>b, <2>1, <2>2, CallsChild
    <3>2. QED  BY <1>1, <1>3, <2>1, <2>2, <3>1
  <2>3. ASSUME Inner.todo = {}, Return  PROVE DumpOK'
    <3>1. /\ Len(calls) # 1 => StackOK' /\ TreeOK'
          /\ Len(calls) = 1 => calls' = <<>> /\ PrintedAll'
      BY <1>b, <2>1, <2>3, Returns
    <3>2. Len(calls) # 1 => UNCHANGED mainVars2  BY <2>3 DEF Return
    <3>3. QED  BY <1>1, <1>2, <1>3, <2>1, <3>1, <3>2
  <2>4. QED  BY <1>9, <2>2, <2>3 DEF DumpChild
<1>10. QED  BY <1>5, <1>6, <1>7, <1>8, <1>9

\* A dump of one process is on its way, or none is.
LEMMA RunKeeps ==
  ASSUME CommandTypeOK, CommandTypeOK', DumpOK, NEW p \in Procs, NEW there, RunOn(p, there),
         printed = <<>>, UNCHANGED printed
  PROVE  DumpOK'
<1>1. ToSet(printed') = {} /\ Len(printed') = 0
  BY DEF ToSet
<1>2. IsFiniteSet(ToSet(printed')) /\ Cardinality(ToSet(printed')) = Len(printed')
  BY <1>1, FS_EmptySet
<1>3. calls' # <<>> => StackOK' /\ TreeOK'
  <2>1. calls' # <<>> => calls' = <<Call(p, Nothing)>>  BY DEF RunOn
  <2>2. QED  BY <2>1, Begins DEF RunOn
<1>4. phase' = "run"  BY DEF RunOn
<1>5. QED  BY <1>2, <1>3, <1>4 DEF DumpOK

\* Nothing is dumped, or the dump is not touched.
LEMMA DumpUntouched ==
  ASSUME CommandTypeOK, DumpOK, UNCHANGED <<ask, calls, printed>>,
         calls = <<>> \/ UNCHANGED <<target, parent, live, fresh>>,
         ~ DumpsTree \/ phase' # "ended" \/ result' # "done"
  PROVE  DumpOK'
<1>1. DumpsTree' = DumpsTree  BY DEF DumpsTree
<1>2. ASSUME UNCHANGED <<target, parent, live, fresh>>, calls # <<>>  PROVE StackOK' /\ TreeOK'
  <2>1. Pending' = Pending /\ Known' = Known /\ Expanded' = Expanded
    BY DEF Pending, Known, Expanded, Inner
  <2>2. StackOK'  BY <1>1, <1>2, <2>1 DEF DumpOK, StackOK
  <2>3. QED  BY <1>2, <2>1, <2>2, TreeKept DEF DumpOK
<1>3. QED  BY <1>1, <1>2 DEF DumpOK

LEMMA DumpPreserved ==
  ASSUME CommandTypeOK, PhaseOK, DumpOK, CommandNext
  PROVE  DumpOK'
<1>1. CommandTypeOK'  BY CommandTyped
<1>2. ASSUME NEW p \in Procs, ExitOf(p)  PROVE DumpOK'
  BY <1>2, ExitKeeps
<1>3. ASSUME NEW p \in Procs, Starts(p)  PROVE DumpOK'
  BY <1>3, StartKeeps
<1>4. CASE KilledByControlC  BY <1>4, DumpUntouched DEF KilledByControlC
<1>5. ASSUME NEW p \in Procs, UsePid(p)  PROVE DumpOK'
  BY <1>1, <1>5, RunKeeps DEF UsePid, PhaseOK
<1>6. ASSUME NEW p \in Procs, LookAt(p)  PROVE DumpOK'
  BY <1>6, DumpUntouched DEF LookAt
<1>7. CASE Search  BY <1>7, DumpUntouched DEF Search
<1>8. CASE UseFound
  <2>1. ASSUME NEW p \in found, RunOn(p, p \in live)  PROVE DumpOK'
    <3>1. p \in Procs  BY DEF CommandTypeOK
    <3>2. QED  BY <1>1, <1>8, <2>1, <3>1, RunKeeps DEF UseFound, PhaseOK
  <2>2. ASSUME End("failed"), NotRun  PROVE DumpOK'
    BY <1>8, <2>2, DumpUntouched DEF UseFound, End, NotRun
  <2>3. QED  BY <1>8, <2>1, <2>2 DEF UseFound
<1>9. CASE Spawn
  <2>1. ASSUME RunOn(Program, TRUE)  PROVE DumpOK'
    BY <1>1, <1>9, <2>1, RunKeeps DEF Spawn, PhaseOK
  <2>2. ASSUME End("failed"), NotRun, UNCHANGED <<live, fresh>>  PROVE DumpOK'
    BY <1>9, <2>2, DumpUntouched DEF Spawn, End, NotRun
  <2>3. QED  BY <1>9, <2>1, <2>2 DEF Spawn
<1>10. CASE Recorded
  <2>1. ~ DumpsTree  BY <1>10 DEF Recorded, DumpsTree
  <2>2. QED  BY <1>10, <2>1, DumpUntouched DEF Recorded
<1>11. CASE Reap  BY <1>11, DumpUntouched DEF Reap, End
<1>12. CASE Kill
  <2>1. ~ DumpsTree /\ calls = <<>>  BY <1>12 DEF Kill, DumpsTree, PhaseOK, CommandTypeOK
  <2>2. QED  BY <1>12, <2>1, DumpUntouched DEF Kill
<1>13. CASE InRecord(ControlC) \/ InRecord(Sampling) \/ InRecord(Main)
  <2>1. UNCHANGED <<ask, calls, printed, target, parent, live, fresh, phase>> /\ phase = "run"
    BY <1>13, RecordTyped
  <2>2. QED  BY <2>1, DumpUntouched
<1>14. CASE DumpAttach \/ DumpHeader \/ DumpTraces \/ DumpList \/ DumpChild
  BY <1>14, DumpKeeps
<1>15. QED
  BY <1>2, <1>3, <1>4, <1>5, <1>6, <1>7, <1>8, <1>9, <1>10, <1>11, <1>12, <1>13, <1>14
  DEF CommandNext, World, StspyMain

-----------------------------------------------------------------------------
(***************************************************************************)
(* The theorems about a command.                                           *)
(***************************************************************************)

LEMMA CommandInvInit == CommandInit => CommandInv
<1> SUFFICES ASSUME CommandInit  PROVE CommandInv
  OBVIOUS
<1>1. CommandTypeOK  BY CommandInitTyped
<1>2. PICK w \in Worlds : ask = w.ask /\ kind = w.kind /\ parent = w.parent /\ live = w.live
  BY DEF CommandInit
<1>3. Program \notin live  BY <1>2, WorldAssumption
<1>4. PhaseOK /\ SearchOK /\ OnlyVm
  BY <1>3 DEF CommandInit, Init, PhaseOK, SearchOK, OnlyVm
<1>8. ParentsFirst
  <2>1. \A p \in live : parent[p] \in live \cup {Nothing}  BY <1>2, WorldAssumption
  <2>2. fresh = Procs \ live  BY DEF CommandInit
  <2>3. QED  BY <2>1, <2>2 DEF ParentsFirst
<1>5. ToSet(printed) = {} /\ Len(printed) = 0  BY DEF CommandInit, ToSet
<1>6. DumpOK  BY <1>5, FS_EmptySet DEF CommandInit, DumpOK
<1>7. QED  BY <1>1, <1>4, <1>6, <1>8 DEF CommandInv

\* Without a step, nothing of it changes.
LEMMA CommandStutters ==
  ASSUME CommandInv, UNCHANGED allVars
  PROVE  CommandInv'
<1>0. UNCHANGED <<alive, ask, kind, parent, live, fresh, refused, phase, target, todo, found, stayed,
                  calls, printed, result>>
  BY DEF allVars, vars
<1>1. CommandTypeOK'  BY <1>0 DEF CommandInv, CommandTypeOK
<1>2. PhaseOK' /\ SearchOK' /\ OnlyVm'  BY <1>0 DEF CommandInv, PhaseOK, SearchOK, OnlyVm
<1>3. DumpsTree' = DumpsTree /\ PrintedAll' = PrintedAll  BY <1>0 DEF DumpsTree, PrintedAll
<1>4. Pending' = Pending /\ Known' = Known /\ Expanded' = Expanded
  BY <1>0 DEF Pending, Known, Expanded, Inner
<1>5. StackOK => StackOK'
  <2>1. UNCHANGED <<calls, printed, target>>  BY <1>0
  <2>2. QED  BY <1>3, <1>4, <2>1 DEF StackOK
<1>6. TreeOK => TreeOK'  BY <1>0, <1>4, TreeKept
<1>7. DumpOK'  BY <1>0, <1>3, <1>5, <1>6 DEF CommandInv, DumpOK
<1>8. ParentsFirst'  BY <1>0 DEF CommandInv, ParentsFirst
<1>9. QED  BY <1>1, <1>2, <1>7, <1>8 DEF CommandInv

LEMMA CommandInvNext ==
  ASSUME CommandInv, [CommandNext]_allVars
  PROVE  CommandInv'
<1>1. CASE CommandNext
  BY <1>1, CommandTyped, PhasePreserved, ParentsStay, DumpPreserved DEF CommandInv
<1>2. CASE UNCHANGED allVars
  BY <1>2, CommandStutters
<1>3. QED  BY <1>1, <1>2

LEMMA CommandAlways == CommandSpec => []CommandInv
<1>1. CommandInv /\ [CommandNext]_allVars => CommandInv'
  BY CommandInvNext
<1>2. QED  BY <1>1, CommandInvInit, CommandSafety, PTL

\* The tree a dump with subprocesses has printed is whole.
LEMMA TreeIsWhole ==
  ASSUME CommandInv
  PROVE  DumpWhole
<1>1. ToSet(printed) \in SUBSET Procs  BY DEF CommandInv, CommandTypeOK, ToSet
<1>2. ASSUME phase = "ended", result = "done", DumpsTree, NEW p \in live \ fresh, Below(p)
      PROVE  p \in ToSet(printed)
  \* What was printed and what has started since: no child of these was there.
  <2> DEFINE S == ToSet(printed) \cup fresh
  <2>1. PrintedAll  BY <1>2 DEF CommandInv, DumpOK
  <2>2. ask.command = "dump" /\ fresh \subseteq Procs
    BY <1>2 DEF DumpsTree, CommandInv, CommandTypeOK
  <2>3. \A q \in live : parent[q] \in S => q \in S
    BY <2>1, <2>2 DEF PrintedAll, CommandInv, ParentsFirst
  <2>4. S \in SUBSET Procs /\ target \in S  BY <1>1, <2>1, <2>2 DEF PrintedAll
  <2>5. p \in S  BY <1>2, <2>3, <2>4 DEF Below
  <2>6. QED  BY <1>2, <2>5
<1>3. QED  BY <1>2 DEF DumpWhole, CommandInv, DumpOK

\* For any processes that descend from each other in any way, and come and go
\* as they like during a search or a dump: a dump prints no process twice, and
\* one with subprocesses that ends well all that were there when it began and
\* still are below the target; and the invariant that says why.
THEOREM CommandCorrect == CommandSpec => []CommandOK
<1>1. CommandInv => CommandOK
  BY TreeIsWhole DEF CommandOK
<1>2. QED  BY <1>1, CommandAlways, PTL

\* What st-spy finds by itself passes both checks, and is the only process that
\* does and was there for all of the search.
THEOREM FindsTheOnlyVm == CommandSpec => []OnlyVm
<1>1. CommandInv => OnlyVm
  BY DEF CommandInv
<1>2. QED  BY <1>1, CommandAlways, PTL

\* A program that st-spy has started does not outlive it, if st-spy comes to an
\* end of its own and the OS lets it kill the program.
THEOREM NoDanglingProgram == CommandSpec => []ProgramEnded
<1>1. CommandInv => ProgramEnded
  BY DEF CommandInv, PhaseOK, ProgramEnded
<1>2. QED  BY <1>1, CommandAlways, PTL

-----------------------------------------------------------------------------
(***************************************************************************)
(* The command records as Recording says: every step of it is a step of a  *)
(* recording or none, the exit of the target or its kill being that of the *)
(* VM.                                                                     *)
(***************************************************************************)

\* What starts a recording finds the process alive, or sees it gone.
LEMMA CommandStep ==
  ASSUME CommandInv, CommandNext
  PROVE  [Next]_vars
<1> USE DEF vars
<1>1. alive \in BOOLEAN /\ (phase \in {"start", "search"} => alive /\ target = Nothing)
  BY DEF CommandInv, CommandTypeOK, PhaseOK
<1>2. ASSUME alive' \in BOOLEAN, alive \/ ~ alive',
             UNCHANGED <<config, samplerVars, queue, rx, mainVars, running, mark>>
      PROVE  [Next]_vars
  <2>1. CASE alive' = alive  BY <1>2, <2>1
  <2>2. CASE alive' # alive
    <3>1. alive /\ alive' = FALSE  BY <1>1, <1>2, <2>2
    <3>2. QED  BY <1>2, <3>1 DEF Next, Exit
  <2>3. QED  BY <2>1, <2>2
<1>3. ASSUME NEW p \in Procs, ExitOf(p)  PROVE [Next]_vars
  <2>1. alive' \in BOOLEAN /\ (alive \/ ~ alive')  BY <1>1, <1>3 DEF ExitOf
  <2>2. QED  BY <1>2, <1>3, <2>1 DEF ExitOf
<1>4. ASSUME NEW p \in Procs, UsePid(p)  PROVE [Next]_vars
  <2>1. alive' \in BOOLEAN /\ alive
    <3>1. (p \in live) \in BOOLEAN  OBVIOUS
    <3>2. QED  BY <1>1, <1>4, <3>1 DEF UsePid, RunOn
  <2>2. QED  BY <1>2, <1>4, <2>1 DEF UsePid
<1>5. CASE UseFound
  <2>1. alive' \in BOOLEAN /\ alive
    <3>1. ASSUME NEW p \in found, RunOn(p, p \in live)  PROVE alive' \in BOOLEAN
      <4>1. (p \in live) \in BOOLEAN  OBVIOUS
      <4>2. QED  BY <3>1, <4>1 DEF RunOn
    <3>2. QED  BY <1>1, <1>5, <3>1 DEF UseFound, NotRun
  <2>2. QED  BY <1>2, <1>5, <2>1 DEF UseFound
<1>6. CASE Spawn
  <2>1. alive' \in BOOLEAN /\ alive  BY <1>1, <1>6 DEF Spawn, RunOn, NotRun
  <2>2. QED  BY <1>2, <1>6, <2>1 DEF Spawn
<1>7. CASE Kill  BY <1>1, <1>2, <1>7 DEF Kill
<1>8. CASE InRecord(ControlC) \/ InRecord(Sampling) \/ InRecord(Main)
  BY <1>8 DEF InRecord, Next
<1>9. CASE DumpAttach \/ DumpHeader \/ DumpTraces \/ DumpList \/ DumpChild
  BY <1>9 DEF DumpAttach, DumpHeader, DumpTraces, DumpList, DumpChild, DumpUnchanged
<1>10. ASSUME NEW p \in Procs, Starts(p) \/ LookAt(p)  PROVE [Next]_vars
  BY <1>10 DEF Starts, LookAt
<1>11. CASE KilledByControlC \/ Search \/ Recorded \/ Reap
  BY <1>11 DEF KilledByControlC, Search, Recorded, Reap
<1>12. QED
  BY <1>3, <1>4, <1>5, <1>6, <1>7, <1>8, <1>9, <1>10, <1>11 DEF CommandNext, World, StspyMain

\* Whatever becomes of its process, a command records, if it records, as
\* Recording says.
THEOREM CommandRecords == CommandSpec => Spec
<1>1. CommandInit => Init
  BY DEF CommandInit
<1>2. CommandInv /\ [CommandNext]_allVars => [Next]_vars
  <2>1. UNCHANGED allVars => UNCHANGED vars  BY DEF allVars
  <2>2. QED  BY <2>1, CommandStep
<1>3. QED  BY <1>1, <1>2, CommandSafety, CommandAlways, PTL DEF Spec

\* So a recording of a VM that was given, found or started loses nothing, and
\* none records more than the sample at hand after Control-C.
THEOREM CommandRecordsAll == CommandSpec => [](RecordingOK /\ NothingLost /\ AtMostOneAfterControlC)
BY CommandRecords, RecordingCorrect, ExitLosesNothing, ControlCStops, PTL
=============================================================================

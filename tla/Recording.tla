----------------------------- MODULE Recording -----------------------------
(***************************************************************************)
(* record_samples (src/src/main.rs) and the sampler of a single process it *)
(* consumes (Sampler::new_sampler, src/src/sampler.rs): two threads with a *)
(* channel between them, and Control-C.                                    *)
(*                                                                         *)
(* A sample shows the VM's thread as active or idle, or carries an error;  *)
(* at most one sample of a recording is marked, to follow it through.      *)
(* Being late, progress and messages are left out.                         *)
(*                                                                         *)
(* An operator whose comment says "Fault" is a changed form of the         *)
(* definition after it; no specification uses it.                          *)
(***************************************************************************)
EXTENDS Naturals, Sequences

CONSTANTS
  Limits,       \* durations times sampling rate; 0 for RecordDuration::Unlimited
  MaxQueue,     \* bound: samples in the channel
  Nothing       \* an absent entry

ASSUME RecordingAssumption ==
  Limits \subseteq Nat /\ MaxQueue \in Nat \ {0}

Samples == [kind : {"active", "idle", "error"}, marked : BOOLEAN]

Reasons == {"exited", "interrupted", "duration", "failed"}

ASSUME NothingAssumption == Nothing \notin Samples \cup Reasons \cup {"ok", "failed"}

VARIABLES
  config,      \* the command line: max_intervals and include_idle
  alive,       \* the VM process
  sampler,     \* what the sampling thread is doing
  initialized, \* what it sent through initialized_tx
  sampled,     \* the sample it has taken
  queue,       \* samples sent and not received
  rx,          \* Sampler::rx is there
  main,        \* what the main thread is doing
  sample,      \* the sample it has received
  running,     \* cleared by Control-C
  intervals,   \* intervals
  reason,      \* why the loop ended: exit_message, or an error
  recorded,    \* samples that went all through the loop body, if limited
  mark,        \* what became of the marked sample
  late         \* samples recorded after Control-C, up to 2

samplerVars == <<sampler, initialized, sampled>>
mainVars    == <<main, sample, intervals, reason, recorded, late>>
vars        == <<config, alive, samplerVars, queue, rx, mainVars, running, mark>>

Limited == config.max > 0

-----------------------------------------------------------------------------
(***************************************************************************)
(* The world.                                                              *)
(***************************************************************************)
Exit ==
  /\ alive
  /\ alive' = FALSE
  /\ UNCHANGED <<config, samplerVars, queue, rx, mainVars, running, mark>>

\* The handler is set once the sampler is there.
ControlC ==
  /\ running /\ main \notin {"init", "done", "failed"}
  /\ running' = FALSE
  /\ UNCHANGED <<config, alive, samplerVars, queue, rx, mainVars, mark>>

-----------------------------------------------------------------------------
(***************************************************************************)
(* The sampling thread.                                                    *)
(***************************************************************************)

\* SmalltalkSpy::retry_new
Attach ==
  /\ sampler = "attach"
  /\ \/ alive /\ initialized' = "ok" /\ sampler' = "wait"
     \/ initialized' = "failed" /\ sampler' = "ended"
  /\ UNCHANGED <<config, alive, sampled, queue, rx, mainVars, running, mark>>

\* The timer.
Wake ==
  /\ sampler = "wait"
  /\ sampler' = "sample"
  /\ UNCHANGED <<config, alive, initialized, sampled, queue, rx, mainVars, running, mark>>

TakeSample ==
  /\ sampler = "sample" /\ alive
  /\ \E s \in Samples :
       /\ s.marked => mark = "none"
       /\ sampled' = s
       /\ mark' = IF s.marked THEN "taken" ELSE mark
  /\ sampler' = "send"
  /\ UNCHANGED <<config, alive, initialized, queue, rx, mainVars, running>>

\* get_stack_traces failed, and so does process.exe().
FindExited ==
  /\ sampler = "sample" /\ ~ alive
  /\ sampler' = "ended"
  /\ UNCHANGED <<config, alive, initialized, sampled, queue, rx, mainVars, running, mark>>

\* tx.send fails once the receiver is gone.
Send ==
  /\ sampler = "send"
  /\ \/ rx /\ Len(queue) < MaxQueue /\ queue' = Append(queue, sampled) /\ sampler' = "wait"
     \/ ~ rx /\ sampler' = "ended" /\ UNCHANGED queue
  /\ sampled' = Nothing
  /\ UNCHANGED <<config, alive, initialized, rx, mainVars, running, mark>>

-----------------------------------------------------------------------------
(***************************************************************************)
(* The main thread.                                                        *)
(***************************************************************************)

\* initialized_rx.recv()??
GetVersion ==
  /\ main = "init" /\ initialized # Nothing
  /\ main' = IF initialized = "ok" THEN "receive" ELSE "failed"
  /\ UNCHANGED <<config, alive, samplerVars, queue, rx, sample, intervals, reason, recorded, late,
                 running, mark>>

\* Leaving the loop.
Leave(why) == main' = "drop" /\ reason' = why /\ sample' = Nothing

\* Fault: the loop ends with the sampling thread, whatever is in the channel.
ReceiveWhileSampled ==
  /\ main = "receive"
  /\ \/ /\ queue # <<>> /\ sampler # "ended"
        /\ sample' = Head(queue) /\ queue' = Tail(queue)
        /\ main' = "check"
        /\ UNCHANGED reason
     \/ sampler = "ended" /\ Leave("exited") /\ UNCHANGED queue
  /\ UNCHANGED <<config, alive, samplerVars, rx, intervals, recorded, late, running, mark>>

\* rx.recv(): the end comes when the channel is empty and its sender gone.
Receive ==
  /\ main = "receive"
  /\ \/ /\ queue # <<>>
        /\ sample' = Head(queue) /\ queue' = Tail(queue)
        /\ main' = "check"
        /\ UNCHANGED reason
     \/ queue = <<>> /\ sampler = "ended" /\ Leave("exited") /\ UNCHANGED queue
  /\ UNCHANGED <<config, alive, samplerVars, rx, intervals, recorded, late, running, mark>>

\* Fault: Control-C is looked for when no more samples wait.
CheckRunningLast ==
  /\ main = "check"
  /\ IF running \/ queue # <<>> THEN main' = "count" /\ UNCHANGED <<sample, reason>>
                                ELSE Leave("interrupted")
  /\ UNCHANGED <<config, alive, samplerVars, queue, rx, intervals, recorded, late, running, mark>>

CheckRunning ==
  /\ main = "check"
  /\ IF running THEN main' = "count" /\ UNCHANGED <<sample, reason>> ELSE Leave("interrupted")
  /\ UNCHANGED <<config, alive, samplerVars, queue, rx, intervals, recorded, late, running, mark>>

\* Fault: the limit is passed before it is noticed.
CountLate ==
  /\ main = "count"
  /\ intervals' = IF Limited THEN intervals + 1 ELSE intervals
  /\ IF Limited /\ intervals' > config.max THEN Leave("duration")
                                             ELSE main' = "record" /\ UNCHANGED <<sample, reason>>
  /\ UNCHANGED <<config, alive, samplerVars, queue, rx, recorded, late, running, mark>>

\* Intervals matter only against a limit; without one they are not counted.
Count ==
  /\ main = "count"
  /\ intervals' = IF Limited THEN intervals + 1 ELSE intervals
  /\ IF Limited /\ intervals' >= config.max THEN Leave("duration")
                                              ELSE main' = "record" /\ UNCHANGED <<sample, reason>>
  /\ UNCHANGED <<config, alive, samplerVars, queue, rx, recorded, late, running, mark>>

\* Active threads, and idle ones if asked for, go to the recorder, which may
\* fail; errors are counted.
Record ==
  /\ main = "record"
  /\ \/ /\ main' = "receive" /\ sample' = Nothing
        /\ recorded' = IF Limited THEN recorded + 1 ELSE recorded
        /\ mark' = IF ~ sample.marked THEN mark
                   ELSE IF sample.kind = "idle" /\ ~ config.idle THEN "skipped" ELSE "recorded"
        /\ late' = IF running \/ late = 2 THEN late ELSE late + 1
        /\ UNCHANGED reason
     \/ /\ sample.kind \in (IF config.idle THEN {"active", "idle"} ELSE {"active"})
        /\ Leave("failed")
        /\ UNCHANGED <<recorded, mark, late>>
  /\ UNCHANGED <<config, alive, samplerVars, queue, rx, intervals, running>>

\* Fault: the receiver is dropped after the join.
DropReceiverLast ==
  /\ main = "drop"
  /\ main' = "join"
  /\ UNCHANGED <<config, alive, samplerVars, queue, rx, sample, intervals, reason, recorded, late,
                 running, mark>>

\* Drop of the sampler: the receiver, and what is in the channel, first.
DropReceiver ==
  /\ main = "drop"
  /\ rx' = FALSE /\ queue' = <<>>
  /\ main' = "join"
  /\ UNCHANGED <<config, alive, samplerVars, sample, intervals, reason, recorded, late, running,
                 mark>>

Join ==
  /\ main = "join" /\ sampler = "ended"
  /\ main' = IF reason = "failed" THEN "failed" ELSE "write"
  /\ UNCHANGED <<config, alive, samplerVars, queue, rx, sample, intervals, reason, recorded, late,
                 running, mark>>

\* The file is created and written, or cannot be.
Write ==
  /\ main = "write"
  /\ main' \in {"done", "failed"}
  /\ UNCHANGED <<config, alive, samplerVars, queue, rx, sample, intervals, reason, recorded, late,
                 running, mark>>

-----------------------------------------------------------------------------
Init ==
  /\ config \in [max : Limits, idle : BOOLEAN]
  /\ alive = TRUE
  /\ sampler = "attach" /\ initialized = Nothing /\ sampled = Nothing
  /\ queue = <<>> /\ rx = TRUE
  /\ main = "init" /\ sample = Nothing /\ running = TRUE
  /\ intervals = 0 /\ reason = Nothing /\ recorded = 0
  /\ mark = "none" /\ late = 0

Sampling == Attach \/ Wake \/ TakeSample \/ FindExited \/ Send

Main == GetVersion \/ Receive \/ CheckRunning \/ Count \/ Record \/ DropReceiver \/ Join \/ Write

Next == Exit \/ ControlC \/ Sampling \/ Main

Spec == Init /\ [][Next]_vars

-----------------------------------------------------------------------------
(***************************************************************************)
(* Properties.                                                             *)
(***************************************************************************)
TypeOK ==
  /\ config \in [max : Limits, idle : BOOLEAN]
  /\ alive \in BOOLEAN /\ running \in BOOLEAN /\ rx \in BOOLEAN
  /\ sampler \in {"attach", "wait", "sample", "send", "ended"}
  /\ initialized \in {Nothing, "ok", "failed"}
  /\ sampled \in Samples \cup {Nothing} /\ sample \in Samples \cup {Nothing}
  /\ queue \in Seq(Samples) /\ Len(queue) <= MaxQueue
  /\ main \in {"init", "receive", "check", "count", "record", "drop", "join", "write", "done",
               "failed"}
  /\ intervals \in 0 .. config.max /\ recorded \in 0 .. config.max
  /\ reason \in Reasons \cup {Nothing}
  /\ mark \in {"none", "taken", "recorded", "skipped"} /\ late \in 0 .. 2

\* The loop has not been left.
InLoop == {"receive", "check", "count", "record"}

\* A sample is at hand in these states only, and the loop has no reason to
\* end until it is left.
HandsOK ==
  /\ sampled # Nothing <=> sampler = "send"
  /\ sample # Nothing <=> main \in {"check", "count", "record"}
  /\ reason = Nothing <=> main \in InLoop \cup {"init"} \/ (main = "failed" /\ initialized = "failed")
  /\ initialized = Nothing <=> sampler = "attach"
  /\ initialized = Nothing => mark = "none" /\ main = "init"
  /\ initialized = "failed" => sampler = "ended" /\ mark = "none" /\ main \in {"init", "failed"}
  /\ ~ rx => reason # Nothing
  /\ Limited /\ main \in InLoop \cup {"init"} => intervals < config.max

\* Until it is recorded or passed over, the marked sample is in one of three
\* places, unless the rest was dropped for another reason.
MarkedIn(q) == \E i \in 1 .. Len(q) : q[i].marked
MarkFound ==
  mark = "taken" /\ reason = Nothing =>
    \/ sampled # Nothing /\ sampled.marked
    \/ sample # Nothing /\ sample.marked
    \/ MarkedIn(queue)

\* The process has exited: the channel was empty and its sender gone.
ExitedOK == reason = "exited" => sampler = "ended" /\ queue = <<>> /\ mark # "taken"

\* After Control-C only the sample at hand is recorded.
LateOK ==
  /\ running => late = 0
  /\ late <= 1
  /\ late = 1 => main \notin {"count", "record"}

\* Each interval is recorded once, but the one that comes to the limit never.
CountsOK ==
  Limited => /\ main \in {"init", "receive", "check", "count"} => recorded = intervals
             /\ main = "record" => recorded = intervals - 1
             /\ recorded <= intervals
             /\ reason = "duration" => intervals = config.max /\ recorded = config.max - 1

RecordingInv == HandsOK /\ MarkFound /\ ExitedOK /\ LateOK /\ CountsOK
RecordingOK == TypeOK /\ RecordingInv

\* A recording that ends because the process has exited holds every sample
\* that was taken.
NothingLost == main \in {"write", "done"} /\ reason = "exited" => mark # "taken"

\* Once Control-C is pressed, the sample at hand may still be recorded, but
\* none of those in the channel.
AtMostOneAfterControlC == late <= 1
=============================================================================

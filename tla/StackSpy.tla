------------------------------ MODULE StackSpy ------------------------------
(***************************************************************************)
(* SmalltalkSpy (src/src/smalltalk_spy.rs): taking one sample of a running *)
(* VM, and attaching to it first.                                          *)
(*                                                                         *)
(* get_stack_traces reads which OS threads are busy, suspends the VM,      *)
(* copies the stack of each thread and, once, the VM's own chain of Cog    *)
(* frames, resumes the VM, and only then turns the copies into frames.     *)
(* retry_new repeats the attempt until one sample succeeds.                *)
(*                                                                         *)
(* A stack is a value of a small set that stands for everything on it, and *)
(* so is the frame chain.  The VM changes them one at a time, starts and   *)
(* ends threads, and dies; it does none of it while it is suspended.       *)
(* Which error a failing call reports is not modelled, nor the names the   *)
(* addresses of a copy are given after the VM goes on (see JitResolver).   *)
(*                                                                         *)
(* An operator whose comment says "Fault" is a changed form of the         *)
(* definition after it; no specification uses it.                          *)
(***************************************************************************)
EXTENDS Naturals, Functions

CONSTANTS
  Threads,    \* OS threads the VM may have
  Values,     \* contents of a stack and of the frame chain
  Blocking,   \* TRUE: LockingStrategy::Lock
  MaxRetries, \* attempts of retry_new (20, or 5 for a subprocess)
  Nothing     \* Option::None, an absent entry

Copies    == [stack : Values, active : BOOLEAN]
Results(C) == [threads : UNION {[S -> C] : S \in SUBSET Threads}, chain : Values]

ASSUME SpyAssumption == Blocking \in BOOLEAN /\ MaxRetries \in Nat \ {0}
ASSUME NothingAssumption == /\ Nothing \notin Values \cup BOOLEAN \cup Copies
                             /\ Nothing \notin Results(Values) \cup Results(Copies)

VARIABLES
  live,      \* threads of the VM; none are left when it has died
  stack,     \* what is on the stack of each thread
  busy,      \* the OS thread is running, or would be
  chain,     \* the chain of Cog frames from the VM's framePointer
  suspended, \* the VM is suspended: the guard `_lock` is held
  at,        \* what the spy is doing
  attached,  \* retry_new has returned the spy
  retries,   \* failed attempts of retry_new
  todo,      \* threads of a listing still to be visited
  activity,  \* thread_activity
  captures,  \* captures: the copy, and the activity noted
  snapshot,  \* cog_frames_snapshot
  traces,    \* traces built so far
  sample     \* the last result Ok(traces), and the chain spliced into it

vmVars  == <<live, stack, busy, chain>>
spyVars == <<suspended, at, attached, retries, todo, activity, captures, snapshot, traces, sample>>
vars == <<vmVars, spyVars>>

NoThreads == [t \in Threads |-> Nothing]
Captured == {t \in Threads : captures[t] # Nothing}

-----------------------------------------------------------------------------
(***************************************************************************)
(* The VM.                                                                 *)
(***************************************************************************)
RunThread(t) ==
  /\ t \in live
  /\ \/ \E v \in Values : v # stack[t] /\ stack' = [stack EXCEPT ![t] = v]
        /\ UNCHANGED busy
     \/ busy' = [busy EXCEPT ![t] = ~ @] /\ UNCHANGED stack
  /\ UNCHANGED <<live, chain>>

StartThread(t) ==
  /\ live # {} /\ t \notin live
  /\ live' = live \cup {t}
  /\ UNCHANGED <<stack, busy, chain>>

EndThread(t) ==
  /\ t \in live
  /\ live' = live \ {t}
  /\ UNCHANGED <<stack, busy, chain>>

RunImage ==
  /\ live # {}
  /\ \E v \in Values : v # chain /\ chain' = v
  /\ UNCHANGED <<live, stack, busy>>

Vm ==
  /\ ~ suspended
  /\ RunImage \/ \E t \in Threads : RunThread(t) \/ StartThread(t) \/ EndThread(t)
  /\ UNCHANGED spyVars

-----------------------------------------------------------------------------
(***************************************************************************)
(* The spy.                                                                *)
(***************************************************************************)

\* What a sample works with is gone: the guard and the locals of
\* get_stack_traces are dropped.
Leave ==
  /\ suspended' = FALSE
  /\ todo' = {} /\ activity' = NoThreads /\ captures' = NoThreads
  /\ snapshot' = Nothing /\ traces' = NoThreads

\* Fault: an error leaves the VM suspended.
FailSuspended ==
  /\ todo' = {} /\ activity' = NoThreads /\ captures' = NoThreads
  /\ snapshot' = Nothing /\ traces' = NoThreads
  /\ at' = "idle"
  /\ UNCHANGED <<suspended, retries, attached, sample>>

\* An Err returned by `?`: retry_new tries again after a while, or gives up.
Fail ==
  /\ Leave
  /\ IF attached
       THEN at' = "idle" /\ UNCHANGED retries
       ELSE /\ retries' = retries + 1
            /\ at' = IF retries + 1 >= MaxRetries THEN "failed" ELSE "new"
  /\ UNCHANGED <<attached, sample>>

\* SmalltalkSpy::new, then the first sample.
New ==
  /\ at = "new"
  /\ \/ live # {} /\ at' = "start" /\ UNCHANGED <<suspended, attached, retries, todo, activity,
                                                  captures, snapshot, traces, sample>>
     \/ Fail
  /\ UNCHANGED vmVars

\* A sample is asked for; the caller is done with the one before.
Ask ==
  /\ at = "idle"
  /\ at' = "start"
  /\ sample' = Nothing
  /\ UNCHANGED <<vmVars, suspended, attached, retries, todo, activity, captures, snapshot, traces>>

\* process.threads(), before and after the VM is suspended.
ListThreads(from, to) ==
  /\ at = from
  /\ \/ live # {} /\ todo' = live /\ at' = to
        /\ UNCHANGED <<suspended, attached, retries, activity, captures, snapshot, traces, sample>>
     \/ live = {} /\ Fail
  /\ UNCHANGED vmVars

\* Fault: a thread that has ended is asked for again.
ReadActivityAgain ==
  /\ at = "activity"
  /\ \E t \in todo :
       /\ todo' = IF t \in live THEN todo \ {t} ELSE todo
       /\ activity' = IF t \in live THEN [activity EXCEPT ![t] = busy[t]] ELSE activity
  /\ UNCHANGED <<vmVars, suspended, at, attached, retries, captures, snapshot, traces, sample>>

\* thread.active(): a thread that has ended is passed over, unless thread.id()
\* fails for it before, which ends the sample.
ReadActivity ==
  /\ at = "activity"
  /\ \E t \in todo :
       \/ /\ todo' = todo \ {t}
          /\ activity' = IF t \in live THEN [activity EXCEPT ![t] = busy[t]] ELSE activity
          /\ UNCHANGED <<suspended, at, attached, retries, captures, snapshot, traces, sample>>
       \/ t \notin live /\ Fail
  /\ UNCHANGED vmVars

\* process.lock() suspends every thread, or fails.
Suspend ==
  /\ at = "activity" /\ todo = {}
  /\ \/ /\ Blocking => live # {}
        /\ suspended' = Blocking
        /\ at' = "list"
        /\ UNCHANGED <<attached, retries, todo, activity, captures, snapshot, traces, sample>>
     \/ Blocking /\ Fail
  /\ UNCHANGED vmVars

\* Fault: a thread whose stack cannot be copied is left out.
CaptureSkip ==
  /\ at = "capture"
  /\ \E t \in todo :
       /\ todo' = todo \ {t}
       /\ \/ /\ t \in live
             /\ captures' = [captures EXCEPT ![t] =
                  [stack |-> stack[t], active |-> IF activity[t] = Nothing THEN TRUE ELSE activity[t]]]
          \/ UNCHANGED captures
  /\ UNCHANGED <<vmVars, suspended, at, attached, retries, activity, snapshot, traces, sample>>

\* NativeStack::capture of one thread, or the error that ends the sample.  A
\* thread whose activity was not read counts as active.  One that has ended, of
\* a VM that is not suspended, may have no thread.id() and is passed over.
Capture ==
  /\ at = "capture"
  /\ \E t \in todo :
       \/ /\ t \in live
          /\ captures' = [captures EXCEPT ![t] =
               [stack |-> stack[t], active |-> IF activity[t] = Nothing THEN TRUE ELSE activity[t]]]
          /\ todo' = todo \ {t}
          /\ UNCHANGED <<suspended, at, attached, retries, activity, snapshot, traces, sample>>
       \/ /\ t \notin live /\ todo' = todo \ {t}
          /\ UNCHANGED <<suspended, at, attached, retries, activity, captures, snapshot, traces,
                         sample>>
       \/ Fail
  /\ UNCHANGED vmVars

\* Fault: the VM is resumed before its frame chain is read.
ResumeEarly ==
  /\ at = "capture" /\ todo = {}
  /\ suspended' = FALSE
  /\ at' = "cog"
  /\ UNCHANGED <<vmVars, attached, retries, todo, activity, captures, snapshot, traces, sample>>

\* All threads are copied.
CapturesDone ==
  /\ at = "capture" /\ todo = {}
  /\ at' = "cog"
  /\ UNCHANGED <<vmVars, suspended, attached, retries, todo, activity, captures, snapshot,
                 traces, sample>>

\* walk_cog_frames reads the chain, once for all threads.
WalkCogFrames ==
  /\ at = "cog"
  /\ snapshot' = chain
  /\ at' = "resume"
  /\ UNCHANGED <<vmVars, suspended, attached, retries, todo, activity, captures, traces, sample>>

\* drop(_lock)
Resume ==
  /\ at = "resume"
  /\ suspended' = FALSE
  /\ at' = "resolve"
  /\ UNCHANGED <<vmVars, attached, retries, todo, activity, captures, snapshot, traces, sample>>

\* The trace of one thread.
ResolveThread ==
  /\ at = "resolve"
  /\ \E t \in Captured :
       /\ traces[t] = Nothing
       /\ traces' = [traces EXCEPT ![t] =
                      [stack |-> captures[t].stack, active |-> captures[t].active]]
  /\ UNCHANGED <<vmVars, suspended, at, attached, retries, todo, activity, captures, snapshot,
                 sample>>

\* Ok(traces)
Done ==
  /\ at = "resolve"
  /\ \A t \in Captured : traces[t] # Nothing
  /\ sample' = [threads |-> Restrict(traces, Captured), chain |-> snapshot]
  /\ at' = "idle"
  /\ attached' = TRUE
  /\ Leave
  /\ UNCHANGED <<vmVars, retries>>

-----------------------------------------------------------------------------
Init ==
  /\ live \in SUBSET Threads
  /\ stack \in [Threads -> Values] /\ busy \in [Threads -> BOOLEAN]
  /\ chain \in Values
  /\ suspended = FALSE
  /\ at = "new" /\ attached = FALSE /\ retries = 0
  /\ todo = {} /\ activity = NoThreads /\ captures = NoThreads
  /\ snapshot = Nothing /\ traces = NoThreads /\ sample = Nothing

\* The steps of one call; only Ask waits for something outside the spy.
Work == \/ New
        \/ ListThreads("start", "activity") \/ ReadActivity \/ Suspend
        \/ ListThreads("list", "capture") \/ Capture \/ CapturesDone
        \/ WalkCogFrames \/ Resume
        \/ ResolveThread \/ Done

Next == Vm \/ Ask \/ Work

Spec == Init /\ [][Next]_vars

FairSpec == Spec /\ WF_vars(Work)

-----------------------------------------------------------------------------
(***************************************************************************)
(* Properties.                                                             *)
(***************************************************************************)
TypeOK ==
  /\ live \subseteq Threads
  /\ stack \in [Threads -> Values] /\ busy \in [Threads -> BOOLEAN]
  /\ chain \in Values
  /\ suspended \in BOOLEAN /\ attached \in BOOLEAN
  /\ at \in {"new", "start", "activity", "list", "capture", "cog", "resume", "resolve", "idle",
             "failed"}
  /\ retries \in 0 .. MaxRetries
  /\ todo \subseteq Threads
  /\ activity \in [Threads -> BOOLEAN \cup {Nothing}]
  /\ captures \in [Threads -> Copies \cup {Nothing}]
  /\ traces \in [Threads -> Copies \cup {Nothing}]
  /\ snapshot \in Values \cup {Nothing}
  /\ sample \in Results(Copies) \cup {Nothing}

\* The VM is suspended between the listing under the lock and the resume, and
\* at no other time: whichever call failed, the VM runs on.
SuspendedOnlyWithin == suspended <=> Blocking /\ at \in {"list", "capture", "cog", "resume"}

\* While the VM is suspended the copies are of its stacks, and none is
\* missing when they are done; then the chain joins them.
CopiesTrue ==
  suspended =>
    /\ at = "list" => Captured = {}
    /\ at = "capture" => Captured \cup todo = live
    /\ at \in {"cog", "resume"} => Captured = live
    /\ \A t \in Captured : captures[t].stack = stack[t]
    /\ at = "resume" => snapshot = chain

\* What is resolved is what was copied.
TracesOfCopies ==
  /\ at \notin {"capture", "cog", "resume", "resolve"} => Captured = {}
  /\ at # "resolve" => \A t \in Threads : traces[t] = Nothing
  /\ at \in {"resume", "resolve"} => snapshot # Nothing
  /\ \A t \in Threads : traces[t] # Nothing =>
       captures[t] # Nothing /\ traces[t].stack = captures[t].stack

\* A call is made by a spy that is attached, or in an attempt that was left.
AttemptsLeft ==
  /\ at = "idle" => attached
  /\ at = "failed" => ~ attached
  /\ at \notin {"idle", "failed"} => attached \/ retries < MaxRetries

SpyInv == SuspendedOnlyWithin /\ CopiesTrue /\ TracesOfCopies /\ AttemptsLeft
SpyOK == TypeOK /\ SpyInv

\* A sample shows every thread, and the frame chain, as they were at one
\* instant, although the traces are made after the VM goes on.
Stacks(f, S) == [t \in S |-> f[t].stack]
VmNow == [threads |-> [t \in live |-> stack[t]], chain |-> chain]
Taken == IF suspended THEN VmNow
         ELSE IF at = "resolve"
           THEN [threads |-> Stacks(captures, Captured), chain |-> snapshot]
           ELSE Nothing
Given == IF sample = Nothing THEN Nothing
         ELSE [threads |-> Stacks(sample.threads, DOMAIN sample.threads), chain |-> sample.chain]
Instant == INSTANCE AtomicSample WITH vm <- VmNow, taken <- Taken, given <- Given
SampleAtOneInstant == Instant!SampleSpec

\* Every call returns, and attaching ends in success or failure.
Returns == at \notin {"idle", "failed"} ~> at \in {"idle", "failed"}
=============================================================================

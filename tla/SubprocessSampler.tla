-------------------------- MODULE SubprocessSampler --------------------------
(***************************************************************************)
(* The sampler of `record --subprocesses` (src/src/sampler.rs).            *)
(*                                                                         *)
(* One root process and its descendants are sampled together.  Four kinds  *)
(* of threads share a table of spies, one entry per process:               *)
(*   main      builds the table, waits until one VM answers, then receives *)
(*             samples until it drops the sampler and joins the sampling   *)
(*             thread;                                                     *)
(*   monitor   adds an entry for every new descendant, under the mutex;    *)
(*   sampler   each tick, under the mutex, asks every initialised spy for  *)
(*             a trace, gathers the answers and sends one sample;          *)
(*   spy p     owns the SmalltalkSpy of process p: it reports whether it   *)
(*             could attach, then answers one request after another.       *)
(*                                                                         *)
(* The channels of a spy are the three mpsc channels of its entry.  Traces *)
(* are abstracted to the pid they come from; the queue of finished samples *)
(* is unbounded in the code and left out, only its being open matters.     *)
(* The iteration order of the HashMap is any order.  Pids are not reused;  *)
(* one listing of the processes is one reading of the OS's process table.  *)
(*                                                                         *)
(* An operator whose comment says "Fault" is a changed form of the         *)
(* definition after it; no specification uses it.  Each property is tried  *)
(* against one of them, to see that it would notice.                       *)
(***************************************************************************)
EXTENDS Naturals, Sequences

CONSTANTS
  Root,         \* the process named on the command line
  Children,     \* the processes that may descend from it
  Retries,      \* attempts of the start loop (10 in the code)
  Protected,    \* processes the OS never lets the profiler open
  DeadOpens,    \* TRUE: opening a dead process succeeds (Linux); FALSE: it fails
  ListingFails, \* TRUE: child_processes() may return an error
  LeavesEarly,  \* TRUE: the consumer may stop while sampling goes on
  NoPid         \* no parent: `None`, or the OS's init process

Procs == Children \cup {Root}

ASSUME PidAssumption == Root \notin Children /\ NoPid \notin Procs
ASSUME RetriesAssumption == Retries \in Nat \ {0}
ASSUME OsAssumption == /\ Protected \subseteq Procs
                       /\ DeadOpens \in BOOLEAN
                       /\ ListingFails \in BOOLEAN
ASSUME ConsumerAssumption == LeavesEarly \in BOOLEAN

VARIABLES
  alive,     \* processes that are running
  born,      \* processes that were ever started
  osParent,  \* the OS's parent of each process
  listed,    \* the parent a listing named, for each child of it not yet looked at
  spies,     \* keys of the table
  parent,    \* entry: the parent pid recorded when it was created
  initialized, \* entry: "none", "ok" or "err"
  running,   \* entry: the spy is believed to answer
  notified,  \* entry: a request was sent and its answer not yet taken
  thread,    \* state of each spy's thread
  initQ,     \* the one message of the initialisation channel, or "empty"
  notifyQ,   \* requests in the notify channel
  sampleQ,   \* answers in the sample channel
  lock,      \* the mutex around the table
  main,      \* control state of the main thread
  mainTodo,  \* entries it still has to create or wait for
  retries,   \* attempts left
  mon,       \* control state of the monitor thread
  monTodo,   \* listed children it still has to look at
  samp,      \* control state of the sampling thread
  sampTodo,  \* entries left in the loop it is in
  traces,    \* processes with traces in the sample being built
  errors,    \* processes with an error in it
  info       \* cached process_info: the processes of the chain, {} if absent

osVars    == <<alive, born, osParent>>
entryVars == <<spies, parent, initialized, running, notified>>
chanVars  == <<thread, initQ, notifyQ, sampleQ>>
mainVars  == <<main, mainTodo, retries>>
monVars   == <<mon, monTodo>>
sampVars  == <<samp, sampTodo, traces, errors, info>>
vars == <<osVars, listed, entryVars, chanVars, lock, mainVars, monVars, sampVars>>

-----------------------------------------------------------------------------
(***************************************************************************)
(* The processes and the operating system.                                 *)
(***************************************************************************)

\* A process of the tree starts a child.
Spawn(p) ==
  /\ p \notin born
  /\ \E q \in alive : osParent' = [osParent EXCEPT ![p] = q]
  /\ alive' = alive \cup {p}
  /\ born' = born \cup {p}
  /\ UNCHANGED <<listed, entryVars, chanVars, lock, mainVars, monVars, sampVars>>

\* A process exits and the OS gives its children to init.
Exit(p) ==
  /\ p \in alive
  /\ alive' = alive \ {p}
  /\ osParent' = [q \in Procs |-> IF osParent[q] = p THEN NoPid ELSE osParent[q]]
  /\ UNCHANGED <<born, listed, entryVars, chanVars, lock, mainVars, monVars, sampVars>>

\* The processes that reach the root through parents: no set that holds
\* their children's parents leaves the root out.
Descendants ==
  {p \in born \ {Root} : \A S \in SUBSET born :
     (p \in S /\ \A q \in S : osParent[q] \in born => osParent[q] \in S)
       => Root \in S}

\* child_processes(): every running descendant, and any of the dead ones
\* that their parents have not reaped yet.
Listings == {L \in SUBSET Descendants : Descendants \cap alive \subseteq L}

\* The call names the parent of each child as well.  The caller keeps what it
\* was told while it goes through the children, whoever exits meanwhile.
ParentsIn(L) == [p \in Procs |-> IF p \in L THEN osParent[p] ELSE NoPid]
Forget(p) == [listed EXCEPT ![p] = NoPid]

\* remoteprocess::Process::new(p) succeeds.
Opens(p) == p \notin Protected /\ (DeadOpens \/ p \in alive)

-----------------------------------------------------------------------------
(***************************************************************************)
(* The table of spies.                                                     *)
(***************************************************************************)

\* The table is freed once no thread holds it: every channel end its
\* entries own is dropped with it.
TableDropped ==
  \/ main = "failed"
  \/ samp = "done" /\ mon \in {"ended", "panicked"}

\* SmalltalkSpyThread::new and the insertion that follows it: new channels,
\* a new thread, a new entry over any old one.
Insert(p, par) ==
  /\ spies' = spies \cup {p}
  /\ parent' = [parent EXCEPT ![p] = par]
  /\ initialized' = [initialized EXCEPT ![p] = "none"]
  /\ running' = [running EXCEPT ![p] = FALSE]
  /\ notified' = [notified EXCEPT ![p] = FALSE]
  /\ thread' = [thread EXCEPT ![p] = "starting"]
  /\ initQ' = [initQ EXCEPT ![p] = "empty"]
  /\ notifyQ' = [notifyQ EXCEPT ![p] = 0]
  /\ sampleQ' = [sampleQ EXCEPT ![p] = <<>>]

\* get_process_info(p): p and its recorded ancestors, as far as they have
\* an entry (the least set that follows the recorded parents).
Lineage(p) ==
  {q \in spies : \A S \in SUBSET spies :
     (p \in S /\ \A r \in S : parent[r] \in spies => parent[r] \in S)
       => q \in S}

-----------------------------------------------------------------------------
(***************************************************************************)
(* The spy of process p (the thread SmalltalkSpyThread::new spawns).       *)
(***************************************************************************)

\* retry_new attached to a VM and the result is reported; without a
\* receiver the thread returns.
SpyReady(p) ==
  /\ thread[p] = "starting"
  /\ p \in alive
  /\ IF TableDropped
       THEN /\ thread' = [thread EXCEPT ![p] = "gone"]
            /\ UNCHANGED initQ
       ELSE /\ thread' = [thread EXCEPT ![p] = "idle"]
            /\ initQ' = [initQ EXCEPT ![p] = "ok"]
  /\ UNCHANGED <<osVars, listed, entryVars, notifyQ, sampleQ, lock, mainVars, monVars, sampVars>>

\* retry_new gave up (not a VM, or no longer running).  Without a receiver
\* the unwrap of the send panics, which ends this thread all the same.
SpyFails(p) ==
  /\ thread[p] = "starting"
  /\ thread' = [thread EXCEPT ![p] = "gone"]
  /\ initQ' = IF TableDropped THEN initQ ELSE [initQ EXCEPT ![p] = "err"]
  /\ UNCHANGED <<osVars, listed, entryVars, notifyQ, sampleQ, lock, mainVars, monVars, sampVars>>

\* notify_rx.iter() yields the next request.
SpyTake(p) ==
  /\ thread[p] = "idle"
  /\ notifyQ[p] > 0
  /\ notifyQ' = [notifyQ EXCEPT ![p] = @ - 1]
  /\ thread' = [thread EXCEPT ![p] = "sampling"]
  /\ UNCHANGED <<osVars, listed, entryVars, initQ, sampleQ, lock, mainVars, monVars, sampVars>>

\* notify_rx.iter() ends: the table was dropped and no request is left.
SpyClosed(p) ==
  /\ thread[p] = "idle"
  /\ notifyQ[p] = 0
  /\ TableDropped
  /\ thread' = [thread EXCEPT ![p] = "gone"]
  /\ UNCHANGED <<osVars, listed, entryVars, initQ, notifyQ, sampleQ, lock, mainVars, monVars,
                 sampVars>>

\* sample_tx.send(r); without a receiver the thread ends.
SendAnswer(p, r) ==
  IF TableDropped
    THEN /\ thread' = [thread EXCEPT ![p] = "gone"]
         /\ UNCHANGED sampleQ
    ELSE /\ thread' = [thread EXCEPT ![p] = "idle"]
         /\ sampleQ' = [sampleQ EXCEPT ![p] = Append(@, r)]

\* get_stack_traces returned traces.
SpyAnswer(p) ==
  /\ thread[p] = "sampling"
  /\ p \in alive
  /\ SendAnswer(p, "ok")
  /\ UNCHANGED <<osVars, listed, entryVars, initQ, notifyQ, lock, mainVars, monVars, sampVars>>

\* get_stack_traces failed; process.exe() is looked at next.
SpyError(p) ==
  /\ thread[p] = "sampling"
  /\ thread' = [thread EXCEPT ![p] = "failed"]
  /\ UNCHANGED <<osVars, listed, entryVars, initQ, notifyQ, sampleQ, lock, mainVars, monVars,
                 sampVars>>

\* ... the process still exists: the error is the answer.
SpySendError(p) ==
  /\ thread[p] = "failed"
  /\ p \in alive
  /\ SendAnswer(p, "err")
  /\ UNCHANGED <<osVars, listed, entryVars, initQ, notifyQ, lock, mainVars, monVars, sampVars>>

\* ... the process exited: the thread ends without an answer.
SpyRetire(p) ==
  /\ thread[p] = "failed"
  /\ p \notin alive
  /\ thread' = [thread EXCEPT ![p] = "gone"]
  /\ UNCHANGED <<osVars, listed, entryVars, initQ, notifyQ, sampleQ, lock, mainVars, monVars,
                 sampVars>>

-----------------------------------------------------------------------------
(***************************************************************************)
(* The main thread: new_subprocess_sampler, then the consumer of samples.  *)
(***************************************************************************)

\* The spy of the root is created once, and only here.
OpenRoot ==
  /\ main = "open"
  /\ IF Opens(Root)
       THEN Insert(Root, NoPid) /\ main' = "list"
       ELSE UNCHANGED <<entryVars, chanVars>> /\ main' = "failed"
  /\ UNCHANGED <<osVars, listed, lock, mainTodo, retries, monVars, sampVars>>

\* for (childpid, parentpid) in process.child_processes()?
ListAtStart ==
  /\ main = "list"
  /\ \/ /\ ListingFails
        /\ main' = "failed"
        /\ UNCHANGED <<mainTodo, listed>>
     \/ /\ mainTodo' \in Listings
        /\ listed' = ParentsIn(mainTodo')
        /\ main' = "create"
  /\ UNCHANGED <<osVars, entryVars, chanVars, lock, retries, monVars, sampVars>>

\* A listed child gets an entry with the parent the listing named, whether or
\* not it already had one; a child that cannot be opened is skipped.
CreateAtStart(p) ==
  /\ main = "create"
  /\ p \in mainTodo
  /\ IF Opens(p)
       THEN Insert(p, listed[p])
       ELSE UNCHANGED <<entryVars, chanVars>>
  /\ mainTodo' = mainTodo \ {p}
  /\ listed' = Forget(p)
  /\ UNCHANGED <<osVars, lock, main, retries, monVars, sampVars>>

\* spies.values_mut().any(...) starts.
StartWaiting ==
  /\ main = "create"
  /\ mainTodo = {}
  /\ main' = "wait"
  /\ mainTodo' = spies
  /\ UNCHANGED <<osVars, listed, entryVars, chanVars, lock, retries, monVars, sampVars>>

\* The entry takes the result of its spy's initialisation.
TakeInit(p) ==
  /\ initialized' = [initialized EXCEPT ![p] = initQ[p]]
  /\ running' = [running EXCEPT ![p] = initQ[p] = "ok"]
  /\ initQ' = [initQ EXCEPT ![p] = "empty"]

\* wait_initialized receives a result.  The first success ends the wait, the
\* remaining entries unasked, and starts the monitor and the sampling thread.
WaitResult(p) ==
  /\ main = "wait"
  /\ p \in mainTodo
  /\ initQ[p] # "empty"
  /\ TakeInit(p)
  /\ IF initQ[p] = "ok"
       THEN /\ main' = "receive"
            /\ mainTodo' = {}
            /\ mon' = "check"
            /\ samp' = "sleep"
       ELSE /\ mainTodo' = mainTodo \ {p}
            /\ UNCHANGED <<main, mon, samp>>
  /\ UNCHANGED <<osVars, listed, spies, parent, notified, thread, notifyQ, sampleQ, lock,
                 retries, monTodo, sampTodo, traces, errors, info>>

\* wait_initialized on a spy that reported its failure in an earlier
\* attempt: its channel is closed.
WaitClosed(p) ==
  /\ main = "wait"
  /\ p \in mainTodo
  /\ initQ[p] = "empty"
  /\ thread[p] = "gone"
  /\ mainTodo' = mainTodo \ {p}
  /\ UNCHANGED <<osVars, listed, entryVars, chanVars, lock, main, retries, monVars, sampVars>>

\* No VM among them: try again, a bounded number of times.
Retry ==
  /\ main = "wait"
  /\ mainTodo = {}
  /\ retries' = retries - 1
  /\ main' = IF retries = 1 THEN "failed" ELSE "list"
  /\ UNCHANGED <<osVars, listed, entryVars, chanVars, lock, mainTodo, monVars, sampVars>>

\* The consumer stops (its duration is over, Ctrl-C, an error, or the sample
\* channel is closed) and drops the Sampler: rx = None.
DropReceiver ==
  /\ main = "receive"
  /\ LeavesEarly \/ samp = "done"
  /\ main' = "join"
  /\ UNCHANGED <<osVars, listed, entryVars, chanVars, lock, mainTodo, retries, monVars,
                 sampVars>>

\* t.join() returns.
Join ==
  /\ main = "join"
  /\ samp = "done"
  /\ main' = "joined"
  /\ UNCHANGED <<osVars, listed, entryVars, chanVars, lock, mainTodo, retries, monVars,
                 sampVars>>

-----------------------------------------------------------------------------
(***************************************************************************)
(* The monitor thread.                                                     *)
(***************************************************************************)

\* Fault: the monitor does not notice that the root has exited.
MonitorCheckAlways ==
  /\ mon = "check"
  /\ mon' = "lock"
  /\ UNCHANGED <<osVars, listed, entryVars, chanVars, lock, mainVars, monTodo, sampVars>>

\* while process.exe().is_ok()
MonitorCheck ==
  /\ mon = "check"
  /\ mon' = IF Root \in alive THEN "lock" ELSE "ended"
  /\ UNCHANGED <<osVars, listed, entryVars, chanVars, lock, mainVars, monTodo, sampVars>>

\* Fault: the monitor changes the table without the mutex.
MonitorNoLock ==
  /\ mon = "lock"
  /\ mon' = "list"
  /\ UNCHANGED <<osVars, listed, entryVars, chanVars, lock, mainVars, monTodo, sampVars>>

\* monitor_spies.lock().  Only this thread can poison the mutex, and it ends
\* when it does, so the error branch is never taken.
MonitorLock ==
  /\ mon = "lock"
  /\ lock = "free"
  /\ lock' = "monitor"
  /\ mon' = "list"
  /\ UNCHANGED <<osVars, listed, entryVars, chanVars, mainVars, monTodo, sampVars>>

\* child_processes().expect(...): an error panics with the mutex held.
MonitorList ==
  /\ mon = "list"
  /\ \/ /\ ListingFails
        /\ mon' = "panicked"
        /\ lock' = "poisoned"
        /\ UNCHANGED <<monTodo, listed>>
     \/ /\ monTodo' \in Listings
        /\ listed' = ParentsIn(monTodo')
        /\ mon' = "create"
        /\ UNCHANGED lock
  /\ UNCHANGED <<osVars, entryVars, chanVars, mainVars, sampVars>>

\* Fault: an entry that exists is not skipped.
MonitorCreateAgain(p) ==
  /\ mon = "create"
  /\ p \in monTodo
  /\ IF Opens(p)
       THEN Insert(p, listed[p])
       ELSE UNCHANGED <<entryVars, chanVars>>
  /\ monTodo' = monTodo \ {p}
  /\ listed' = Forget(p)
  /\ UNCHANGED <<osVars, lock, mainVars, mon, sampVars>>

\* A listed child without an entry gets one with the parent the listing named,
\* if it can be opened.
MonitorCreate(p) ==
  /\ mon = "create"
  /\ p \in monTodo
  /\ IF p \notin spies /\ Opens(p)
       THEN Insert(p, listed[p])
       ELSE UNCHANGED <<entryVars, chanVars>>
  /\ monTodo' = monTodo \ {p}
  /\ listed' = Forget(p)
  /\ UNCHANGED <<osVars, lock, mainVars, mon, sampVars>>

\* The guard goes out of scope; the thread sleeps 100 ms.
MonitorUnlock ==
  /\ mon = "create"
  /\ monTodo = {}
  /\ lock' = "free"
  /\ mon' = "check"
  /\ UNCHANGED <<osVars, listed, entryVars, chanVars, mainVars, monTodo, sampVars>>

-----------------------------------------------------------------------------
(***************************************************************************)
(* The sampling thread.                                                    *)
(***************************************************************************)

\* The timer yields.
SamplerWake ==
  /\ samp = "sleep"
  /\ samp' = "lock"
  /\ UNCHANGED <<osVars, listed, entryVars, chanVars, lock, mainVars, monVars, sampTodo, traces,
                 errors, info>>

SamplerLock ==
  /\ samp = "lock"
  /\ lock = "free"
  /\ lock' = "sampler"
  /\ samp' = "notify"
  /\ sampTodo' = spies
  /\ traces' = {}
  /\ errors' = {}
  /\ UNCHANGED <<osVars, listed, entryVars, chanVars, mainVars, monVars, info>>

\* The mutex is poisoned: the error is logged and the loop continues.
SamplerPoisoned ==
  /\ samp = "lock"
  /\ lock = "poisoned"
  /\ samp' = "sleep"
  /\ UNCHANGED <<osVars, listed, entryVars, chanVars, lock, mainVars, monVars, sampTodo, traces,
                 errors, info>>

\* What initialized() returns for an entry.
IsInitialized(p) ==
  IF initialized[p] = "none" THEN initQ[p] = "ok" ELSE initialized[p] = "ok"

\* if spy.initialized() { spy.notify() }: a pending result is taken first; a
\* request to a thread that ended marks the entry as stopped.
SamplerNotify(p) ==
  /\ samp = "notify"
  /\ p \in sampTodo
  /\ LET arrived == initialized[p] = "none" /\ initQ[p] # "empty"
         sent    == IsInitialized(p) /\ thread[p] # "gone"
         refused == IsInitialized(p) /\ thread[p] = "gone"
     IN /\ initialized' = IF arrived THEN [initialized EXCEPT ![p] = initQ[p]]
                                     ELSE initialized
        /\ initQ' = IF arrived THEN [initQ EXCEPT ![p] = "empty"] ELSE initQ
        /\ running' = [running EXCEPT ![p] = IF refused THEN FALSE
                                             ELSE IF arrived THEN initQ[p] = "ok" ELSE @]
        /\ notified' = IF sent THEN [notified EXCEPT ![p] = TRUE] ELSE notified
        /\ notifyQ' = IF sent THEN [notifyQ EXCEPT ![p] = @ + 1] ELSE notifyQ
  /\ sampTodo' = sampTodo \ {p}
  /\ UNCHANGED <<osVars, listed, spies, parent, thread, sampleQ, lock, mainVars, monVars, samp,
                 traces, errors, info>>

\* The loop of notifications is over, the loop that collects starts.
StartCollecting ==
  /\ samp = "notify"
  /\ sampTodo = {}
  /\ samp' = "collect"
  /\ sampTodo' = spies
  /\ UNCHANGED <<osVars, listed, entryVars, chanVars, lock, mainVars, monVars, traces, errors,
                 info>>

\* Fault: collect() does not wait for an answer (try_recv).
CollectTry(p) ==
  /\ samp = "collect"
  /\ p \in sampTodo
  /\ sampleQ[p] = <<>>
  /\ notified' = [notified EXCEPT ![p] = FALSE]
  /\ sampTodo' = sampTodo \ {p}
  /\ UNCHANGED <<osVars, listed, spies, parent, initialized, running, chanVars, lock, mainVars,
                 monVars, samp, traces, errors, info>>

\* collect() of an entry that was not notified in this round.
CollectSkip(p) ==
  /\ samp = "collect"
  /\ p \in sampTodo
  /\ ~ notified[p]
  /\ sampTodo' = sampTodo \ {p}
  /\ UNCHANGED <<osVars, listed, entryVars, chanVars, lock, mainVars, monVars, samp, traces,
                 errors, info>>

\* collect(): sample_rx.recv() blocks until there is an answer.
CollectAnswer(p) ==
  /\ samp = "collect"
  /\ p \in sampTodo
  /\ notified[p]
  /\ sampleQ[p] # <<>>
  /\ notified' = [notified EXCEPT ![p] = FALSE]
  /\ sampleQ' = [sampleQ EXCEPT ![p] = Tail(@)]
  /\ traces' = IF Head(sampleQ[p]) = "ok" THEN traces \cup {p} ELSE traces
  /\ errors' = IF Head(sampleQ[p]) = "err" THEN errors \cup {p} ELSE errors
  /\ sampTodo' = sampTodo \ {p}
  /\ UNCHANGED <<osVars, listed, spies, parent, initialized, running, thread, initQ, notifyQ,
                 lock, mainVars, monVars, samp, info>>

\* Fault: a spy that ended still counts as running.
CollectClosedSilently(p) ==
  /\ samp = "collect"
  /\ p \in sampTodo
  /\ notified[p]
  /\ sampleQ[p] = <<>>
  /\ thread[p] = "gone"
  /\ notified' = [notified EXCEPT ![p] = FALSE]
  /\ sampTodo' = sampTodo \ {p}
  /\ UNCHANGED <<osVars, listed, spies, parent, initialized, running, chanVars, lock, mainVars,
                 monVars, samp, traces, errors, info>>

\* ... or the spy's thread has ended and left none.
CollectClosed(p) ==
  /\ samp = "collect"
  /\ p \in sampTodo
  /\ notified[p]
  /\ sampleQ[p] = <<>>
  /\ thread[p] = "gone"
  /\ notified' = [notified EXCEPT ![p] = FALSE]
  /\ running' = [running EXCEPT ![p] = FALSE]
  /\ sampTodo' = sampTodo \ {p}
  /\ UNCHANGED <<osVars, listed, spies, parent, initialized, chanVars, lock, mainVars, monVars,
                 samp, traces, errors, info>>

\* Fault: the sample is finished before every entry was looked at.
AnnotateEarly ==
  /\ samp = "collect"
  /\ info' = [p \in Procs |-> IF p \in traces /\ info[p] = {} THEN Lineage(p) ELSE info[p]]
  /\ samp' = "send"
  /\ UNCHANGED <<osVars, listed, entryVars, chanVars, lock, mainVars, monVars, sampTodo, traces,
                 errors>>

\* Each trace gets the process info of its pid, computed the first time.
Annotate ==
  /\ samp = "collect"
  /\ sampTodo = {}
  /\ info' = [p \in Procs |-> IF p \in traces /\ info[p] = {} THEN Lineage(p) ELSE info[p]]
  /\ samp' = "send"
  /\ UNCHANGED <<osVars, listed, entryVars, chanVars, lock, mainVars, monVars, sampTodo, traces,
                 errors>>

\* Fault: a failed send does not end the loop.
SamplerSendUnchecked ==
  /\ samp = "send"
  /\ samp' = "decide"
  /\ UNCHANGED <<osVars, listed, entryVars, chanVars, lock, mainVars, monVars, sampTodo, traces,
                 errors, info>>

\* tx.send(Sample): fails once the consumer has dropped its end.
SamplerSend ==
  /\ samp = "send"
  /\ IF main = "receive"
       THEN samp' = "decide" /\ UNCHANGED lock
       ELSE samp' = "done" /\ lock' = "free"
  /\ UNCHANGED <<osVars, listed, entryVars, chanVars, mainVars, monVars, sampTodo, traces,
                 errors, info>>

\* Fault: the loop does not look at the entries any more.
SamplerDecideNever ==
  /\ samp = "decide"
  /\ samp' = "sleep"
  /\ lock' = "free"
  /\ UNCHANGED <<osVars, listed, entryVars, chanVars, mainVars, monVars, sampTodo, traces,
                 errors, info>>

\* The loop ends when no entry is running; either way the guard is released.
SamplerDecide ==
  /\ samp = "decide"
  /\ samp' = IF \A p \in spies : ~ running[p] THEN "done" ELSE "sleep"
  /\ lock' = "free"
  /\ UNCHANGED <<osVars, listed, entryVars, chanVars, mainVars, monVars, sampTodo, traces,
                 errors, info>>

-----------------------------------------------------------------------------
Init ==
  /\ alive = {Root} /\ born = {Root}
  /\ osParent = [p \in Procs |-> NoPid]
  /\ listed = [p \in Procs |-> NoPid]
  /\ spies = {}
  /\ parent = [p \in Procs |-> NoPid]
  /\ initialized = [p \in Procs |-> "none"]
  /\ running = [p \in Procs |-> FALSE]
  /\ notified = [p \in Procs |-> FALSE]
  /\ thread = [p \in Procs |-> "none"]
  /\ initQ = [p \in Procs |-> "empty"]
  /\ notifyQ = [p \in Procs |-> 0]
  /\ sampleQ = [p \in Procs |-> <<>>]
  /\ lock = "free"
  /\ main = "open" /\ mainTodo = {} /\ retries = Retries
  /\ mon = "none" /\ monTodo = {}
  /\ samp = "none" /\ sampTodo = {} /\ traces = {} /\ errors = {}
  /\ info = [p \in Procs |-> {}]

\* The program is over.
Finished == main \in {"failed", "joined"} /\ UNCHANGED vars

Env == \E p \in Procs : Spawn(p) \/ Exit(p)

SpyAttach(p) == SpyReady(p) \/ SpyFails(p)
SpyServe(p) == \/ SpyTake(p) \/ SpyClosed(p) \/ SpyAnswer(p) \/ SpyError(p)
               \/ SpySendError(p) \/ SpyRetire(p)
Spy(p) == SpyAttach(p) \/ SpyServe(p)

Start == \/ OpenRoot \/ ListAtStart \/ StartWaiting \/ Retry
         \/ \E p \in Procs : CreateAtStart(p) \/ WaitResult(p) \/ WaitClosed(p)
Consume == DropReceiver \/ Join

Monitor == \/ MonitorCheck \/ MonitorLock \/ MonitorList \/ MonitorUnlock
           \/ \E p \in Procs : MonitorCreate(p)

Collect(p) == CollectSkip(p) \/ CollectAnswer(p) \/ CollectClosed(p)
Round == \/ SamplerWake \/ SamplerPoisoned \/ StartCollecting \/ Annotate \/ SamplerSend
         \/ SamplerDecide \/ \E p \in Procs : SamplerNotify(p) \/ Collect(p)
Sampler == SamplerLock \/ Round

Next == Env \/ (\E p \in Procs : Spy(p)) \/ Start \/ Consume \/ Monitor \/ Sampler \/ Finished

Spec == Init /\ [][Next]_vars

(***************************************************************************)
(* Fairness.  Every thread that can run does (retry_new and a sample take  *)
(* a bounded number of attempts).  The sampling thread gets the mutex if   *)
(* it is free again and again: the monitor sleeps 100 ms after each        *)
(* release.  The monitor gets no such promise, the sampling thread may     *)
(* hold the mutex for all but an instant of every tick.  A consumer whose  *)
(* channel is closed stops; nothing obliges a process to exit or to spawn. *)
(***************************************************************************)
Fairness ==
  /\ \A p \in Procs : WF_vars(Spy(p))
  /\ WF_vars(Start)
  /\ WF_vars(Join) /\ WF_vars(DropReceiver /\ samp = "done")
  /\ WF_vars(Monitor)
  /\ WF_vars(Round) /\ SF_vars(SamplerLock)

FairSpec == Spec /\ Fairness

-----------------------------------------------------------------------------
(***************************************************************************)
(* Properties.                                                             *)
(***************************************************************************)

\* The variables hold what their comments say.
TypeOK ==
  /\ alive \subseteq Procs /\ born \subseteq Procs
  /\ osParent \in [Procs -> Procs \cup {NoPid}]
  /\ listed \in [Procs -> Procs \cup {NoPid}]
  /\ spies \subseteq Procs
  /\ parent \in [Procs -> Procs \cup {NoPid}]
  /\ initialized \in [Procs -> {"none", "ok", "err"}]
  /\ running \in [Procs -> BOOLEAN]
  /\ notified \in [Procs -> BOOLEAN]
  /\ thread \in [Procs -> {"none", "starting", "idle", "sampling", "failed", "gone"}]
  /\ initQ \in [Procs -> {"empty", "ok", "err"}]
  /\ notifyQ \in [Procs -> Nat]
  /\ sampleQ \in [Procs -> Seq({"ok", "err"})]
  /\ lock \in {"free", "monitor", "sampler", "poisoned"}
  /\ main \in {"open", "list", "create", "wait", "failed", "receive", "join", "joined"}
  /\ mainTodo \subseteq Procs
  /\ retries \in 0 .. Retries /\ (retries = 0 => main = "failed")
  /\ mon \in {"none", "check", "lock", "list", "create", "ended", "panicked"}
  /\ monTodo \subseteq Procs
  /\ samp \in {"none", "sleep", "lock", "notify", "collect", "send", "decide", "done"}
  /\ sampTodo \subseteq Procs
  /\ traces \subseteq Procs /\ errors \subseteq Procs
  /\ info \in [Procs -> SUBSET Procs]

\* The spy of p holds a request, or its answer is on the way.
Outstanding(p) ==
  notifyQ[p] # 0 \/ thread[p] \in {"sampling", "failed"} \/ sampleQ[p] # <<>>

\* An answer that is collected was asked for in the same round: outside the
\* interval from notify() to collect() no request and no answer is in the
\* channels of a spy, and between the two there is at most one of them.
\* (Were an answer left behind, every later sample would be one tick old.)
NoStaleAnswer ==
  \A p \in Procs :
    /\ Outstanding(p) => notified[p]
    /\ notifyQ[p] + Len(sampleQ[p]) <= 1
    /\ thread[p] \in {"sampling", "failed"} => notifyQ[p] = 0 /\ sampleQ[p] = <<>>

\* The mutex is held exactly while its owner is in its critical section, and
\* poisoned exactly when the monitor panicked in there.
MutexHeld ==
  /\ lock = "monitor" <=> mon \in {"list", "create"}
  /\ lock = "sampler" <=> samp \in {"notify", "collect", "send", "decide"}
  /\ lock = "poisoned" <=> mon = "panicked"

\* The two threads are started after the start loop.
ThreadsStarted ==
  main \in {"open", "list", "create", "wait", "failed"} => samp = "none" /\ mon = "none"

\* A request is under way only between the loop that sent it and the one
\* that collects it; both go through the entries of the table.
RequestsOfRound ==
  /\ samp \in {"notify", "collect"} => sampTodo \subseteq spies
  /\ \A p \in Procs : notified[p] =>
       /\ p \in spies
       /\ \/ samp = "notify" /\ p \notin sampTodo
          \/ samp = "collect" /\ p \in sampTodo

\* A spy's thread reports that it attached before it is asked for anything,
\* and it never ends with a request unread.
AttachedFirst ==
  \A p \in Procs :
    /\ thread[p] \in {"none", "starting"} => initQ[p] = "empty" /\ initialized[p] = "none"
    /\ thread[p] \in {"none", "starting", "gone"} => notifyQ[p] = 0

\* A sample in the making: what runs was asked for its traces, and gives one
\* result before the sample is sent.
Gathered ==
  /\ \A p \in Procs : running[p] => initialized[p] = "ok"
  /\ samp = "notify" => /\ traces = {} /\ errors = {}
                        /\ \A p \in spies \ sampTodo : running[p] => notified[p]
  /\ samp = "collect" =>
       /\ traces \cup errors \subseteq spies \ sampTodo
       /\ \A p \in spies : running[p] => p \in traces \cup errors \/ notified[p]
  /\ samp \in {"collect", "send"} => traces \cap errors = {}
  /\ samp = "send" => \A p \in spies : running[p] => p \in traces \cup errors

\* The start loop comes back to an entry only when its spy has given up.
GivenUp(p) == thread[p] = "gone"
OldEntries ==
  /\ \A p \in Procs : initQ[p] = "err" => GivenUp(p)
  /\ main = "open" => spies = {}
  /\ main = "list" => \A p \in spies \ {Root} : GivenUp(p)
  /\ main = "create" => Root \notin mainTodo /\ \A p \in spies \cap mainTodo : GivenUp(p)
  /\ main = "wait" => mainTodo \subseteq spies /\ \A p \in spies \ mainTodo : GivenUp(p)

\* The spy of p said whether it could attach, or it will, or it never can.
Reports(p) == initQ[p] # "empty" \/ thread[p] \in {"starting", "gone"}

\* The spy of p gave its answer, or works on the request, or never can.
Due(p) == \/ sampleQ[p] # <<>>
          \/ thread[p] \in {"sampling", "failed", "gone"}
          \/ thread[p] = "idle" /\ notifyQ[p] # 0

\* No thread waits in vain: neither the start loop for the result of a spy, nor
\* the sampling thread for an answer, nor drop() for a thread that was never
\* started; and of monitor and sampling thread one can have the mutex.
WaitsEnd ==
  /\ main \in {"list", "create", "wait"} => \A p \in spies : Reports(p)
  /\ \A p \in Procs : notified[p] => Due(p)
  /\ main \in {"receive", "join", "joined"} => samp # "none"
  /\ mon = "lock" /\ samp = "lock" => lock \in {"free", "poisoned"}

\* Processes that are not going to get an entry, whatever happens; and parents
\* that have one, or will not get one.
NeverOpens == Protected \cup (IF DeadOpens THEN {} ELSE born \ alive)
Settled    == spies \cup NeverOpens \cup {NoPid}

\* The children listed and still to be looked at.
Listed == IF main = "create" THEN mainTodo ELSE IF mon = "create" THEN monTodo ELSE {}

\* A listing holds the parents it names, those that exit afterwards included,
\* so that outside of the loops over a listing the parents of all entries are
\* settled.
TreeKnown ==
  /\ alive \subseteq born /\ \A p \in Procs : osParent[p] \in alive \cup {NoPid}
  /\ main \notin {"open", "failed"} => Root \in spies
  /\ Listed \subseteq born
  /\ \A p \in Listed : listed[p] \in Settled \cup Listed
  /\ \A p \in spies : parent[p] \in Settled \cup Listed

\* The process info that is cached, and settled for good.
InfoSettled ==
  /\ samp = "none" => \A p \in Procs : info[p] = {}
  /\ \A p \in Procs : info[p] # {} =>
       /\ p \in spies /\ info[p] = Lineage(p)
       /\ \A q \in info[p] : parent[q] \in Settled

\* The inductive invariant: every part up to NoStaleAnswer is needed to
\* preserve that, and the others rest on these.
SamplerInv == /\ TypeOK /\ MutexHeld /\ ThreadsStarted
              /\ RequestsOfRound /\ AttachedFirst /\ NoStaleAnswer
              /\ Gathered /\ OldEntries /\ WaitsEnd /\ TreeKnown /\ InfoSettled

\* The phase of the round, and the request of each spy, as the abstract
\* specification sees them.
RoundPhase ==
  IF samp = "notify" THEN "asking" ELSE IF samp = "collect" THEN "gathering" ELSE "idle"
RoundFlight ==
  [p \in Procs |-> IF sampleQ[p] # <<>> THEN "answered"
                   ELSE IF Outstanding(p) THEN "asked" ELSE "none"]

Rounds == INSTANCE SamplingRound WITH phase <- RoundPhase, flight <- RoundFlight

\* The sampler implements the rounds.
RefinesRounds == Rounds!RoundSpec

\* The sample that is sent has one result, traces or an error, of every
\* process the sampler counts as running, and no process has both.
SampleComplete ==
  samp = "send" =>
    /\ \A p \in spies : running[p] => p \in traces \cup errors
    /\ traces \cap errors = {}

\* The process info cached the first time a process has traces is the one
\* get_process_info would compute now: no ancestor gets its entry later.
InfoCurrent == \A p \in Procs : info[p] # {} => info[p] = Lineage(p)

\* An entry of the table is replaced (by a retry of the start loop) only
\* when the thread of the old one has ended: no spy is ever cut off.
NoSpyReplaced ==
  [][\A p \in spies : thread[p] # thread'[p] /\ thread'[p] = "starting"
                        => thread[p] = "gone"]_vars

\* Dropping the sampler returns: the sampling thread it joins ends.
DropReturns == main = "join" ~> main = "joined"

\* It does as long as the monitor does not panic, whatever else happens.
DropReturnsUnlessPanic == main = "join" ~> main = "joined" \/ lock = "poisoned"

\* When no process is left, sampling ends by itself.
EndsWithProcesses == samp # "none" /\ alive = {} ~> samp = "done" \/ lock = "poisoned"

\* When sampling is over and the root has exited, no spy thread is left.
NoThreadLeft ==
  samp = "done" /\ Root \notin alive ~> \A p \in Procs : thread[p] \in {"none", "gone"}
=============================================================================

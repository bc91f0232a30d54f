------------------------------ MODULE Command ------------------------------
(***************************************************************************)
(* stspy_main (src/src/main.rs): how st-spy comes by a VM, given by its    *)
(* pid, found among the running processes or started as a program, and     *)
(* what becomes of it; with the two commands that end by themselves,       *)
(* record, which is Recording, and dump (src/src/dump.rs), which goes      *)
(* through a tree of processes that come and go meanwhile.                 *)
(*                                                                         *)
(* Console models the third command, top.                                  *)
(*                                                                         *)
(* An operator whose comment says "Fault" is a changed form of the         *)
(* definition after it; no specification uses it.                          *)
(***************************************************************************)
EXTENDS Recording, SequencesExt

CONSTANTS
  Procs,   \* processes
  Program, \* the one that st-spy may start
  Worlds   \* command lines, with the processes there may be

ASSUME CommandAssumption == Program \in Procs /\ Nothing \notin Procs

Commands == [how : {"pid", "detect", "program"}, command : {"record", "dump"}, json : BOOLEAN,
             subprocesses : BOOLEAN]

\* What there is to see of a process: the name of its command or executable
\* may look like that of a VM, its executable may have a VM's symbols, and a
\* path with a VM's name in it passes for symbols.  "hidden" has symbols or
\* such a path, but not a name that is looked at twice; "lookalike" is called
\* like a VM without an executable of that name.
Kinds    == {"vm", "namesake", "hidden", "lookalike", "other"}
Named    == {"vm", "namesake", "lookalike"}
Accepted == {"vm", "namesake", "hidden"}

\* Processes descend from others without a cycle.
Acyclic(par) == \A S \in SUBSET Procs \ {{}} : \E p \in S : par[p] \notin S

\* The parser of the command line takes a program to start for record only
\* (and for top); this one is not running before.
ASSUME WorldAssumption ==
  \A w \in Worlds :
    /\ w.ask \in Commands /\ (w.ask.how = "program" => w.ask.command = "record")
    /\ w.kind \in [Procs -> Kinds]
    /\ w.parent \in [Procs -> Procs \cup {Nothing}] /\ Acyclic(w.parent)
    /\ w.live \subseteq Procs \ {Program}
    /\ \A p \in w.live : w.parent[p] \in w.live \cup {Nothing}

VARIABLES
  ask,     \* the command line: how the VM is chosen, command, json, subprocesses
  kind,    \* what there is to see of each process
  parent,  \* the parents of processes, of those to come as well
  live,    \* the processes that run
  fresh,   \* those that have not started yet, or only during the dump
  refused, \* whether the OS has refused to kill the program
  phase,   \* where stspy_main is
  target,  \* the pid of the command
  todo,    \* entries of /proc not yet looked at
  found,   \* found
  stayed,  \* those to be found that have been running since the search began
  calls,   \* the calls of write_traces, the innermost last
  printed, \* the processes whose threads were printed
  result   \* of the command

worldVars  == <<kind, parent, live, fresh, refused>>
searchVars == <<target, todo, found, stayed>>
dumpVars   == <<calls, printed>>
mainVars2  == <<phase, result>>
allVars == <<vars, ask, worldVars, searchVars, dumpVars, mainVars2>>

Over == {"ended", "panicked", "killed"}

\* The cheap look at its names, which a process that is gone does not have.
NameLooksLikeVm(p) == p \in live /\ kind[p] \in Named

\* SmalltalkProcessInfo::new succeeds: the executable has one of the symbols,
\* or its path one of the names.
IsVm(p) == p \in live /\ kind[p] \in Accepted

-----------------------------------------------------------------------------
(***************************************************************************)
(* The world.  Processes other than the target matter only while they are  *)
(* looked for or dumped.  A pid is not used again during a dump.           *)
(***************************************************************************)
ExitOf(p) ==
  /\ p \in live
  /\ p = target \/ phase = "search" \/ calls # <<>>
  /\ live' = live \ {p}
  /\ parent' = [q \in Procs |-> IF parent[q] = p THEN Nothing ELSE parent[q]]
  /\ fresh' = fresh \ {p}
  /\ stayed' = IF phase = "search" THEN stayed \ {p} ELSE stayed
  /\ alive' = (alive /\ p # target)
  /\ UNCHANGED <<config, samplerVars, queue, rx, mainVars, running, mark, ask, kind, refused, target,
                 todo, found, dumpVars, mainVars2>>

\* A process starts during the search, or during a dump.
Starts(p) ==
  /\ p \notin live /\ p # Program /\ parent[p] \in live \cup {Nothing}
  /\ \/ phase = "search" /\ fresh' = fresh \ {p}
     \/ calls # <<>> /\ p \in fresh /\ UNCHANGED fresh
  /\ live' = live \cup {p}
  /\ UNCHANGED <<vars, ask, kind, parent, refused, searchVars, dumpVars, mainVars2>>

\* Control-C while there is no handler for it.
KilledByControlC ==
  /\ phase \in {"search", "spawn"} \/ (phase = "run" /\ (ask.command = "dump" \/ main = "init"))
  /\ phase' = "killed"
  /\ UNCHANGED <<vars, ask, worldVars, searchVars, dumpVars, result>>

-----------------------------------------------------------------------------
(***************************************************************************)
(* stspy_main.                                                             *)
(***************************************************************************)
Call(p, from) == [pid |-> p, from |-> from, at |-> "new", todo |-> {}]

\* run_spy_command
RunOn(p, there) ==
  /\ target' = p
  /\ phase' = "run"
  /\ alive' = there
  /\ calls' = IF ask.command = "dump" THEN <<Call(p, Nothing)>> ELSE <<>>

End(how) == phase' = "ended" /\ result' = how

NotRun == UNCHANGED <<target, alive, calls>>

UsePid(p) ==
  /\ phase = "start" /\ ask.how = "pid" /\ p # Program
  /\ RunOn(p, p \in live)
  /\ UNCHANGED <<config, samplerVars, queue, rx, mainVars, running, mark, ask, worldVars, todo,
                 found, stayed, printed, result>>

\* find_vm_processes
Search ==
  /\ phase = "start" /\ ask.how = "detect"
  /\ phase' = "search"
  /\ todo' = Procs /\ found' = {}
  /\ stayed' = {p \in live : NameLooksLikeVm(p) /\ IsVm(p)}
  /\ UNCHANGED <<vars, ask, worldVars, target, dumpVars, result>>

\* One entry of /proc: its names are looked at, then the process.
LookAt(p) ==
  /\ phase = "search" /\ p \in todo
  /\ todo' = todo \ {p}
  /\ found' = IF NameLooksLikeVm(p) /\ IsVm(p) THEN found \cup {p} ELSE found
  /\ UNCHANGED <<vars, ask, worldVars, target, stayed, dumpVars, mainVars2>>

\* Fault: the first of them is taken.
UseFirstFound ==
  /\ phase = "search" /\ todo = {}
  /\ IF found # {} THEN RunOn(CHOOSE p \in found : TRUE, TRUE) /\ UNCHANGED result
                   ELSE End("failed") /\ NotRun
  /\ UNCHANGED <<config, samplerVars, queue, rx, mainVars, running, mark, ask, worldVars, todo,
                 found, stayed, printed>>

\* It must be the only one.
UseFound ==
  /\ phase = "search" /\ todo = {}
  /\ \/ \E p \in found : found = {p} /\ RunOn(p, p \in live) /\ UNCHANGED result
     \/ (\A p \in found : found # {p}) /\ End("failed") /\ NotRun
  /\ UNCHANGED <<config, samplerVars, queue, rx, mainVars, running, mark, ask, worldVars, todo,
                 found, stayed, printed>>

Spawn ==
  /\ phase = "start" /\ ask.how = "program"
  /\ \/ /\ live' = live \cup {Program} /\ fresh' = fresh \ {Program}
        /\ RunOn(Program, TRUE) /\ UNCHANGED result
     \/ End("failed") /\ NotRun /\ UNCHANGED <<live, fresh>>
  /\ UNCHANGED <<config, samplerVars, queue, rx, mainVars, running, mark, ask, kind, parent, refused,
                 todo, found, stayed, printed>>

\* record_samples returns.
Recorded ==
  /\ phase = "run" /\ ask.command = "record" /\ main \in {"done", "failed"}
  /\ IF ask.how = "program" THEN phase' = "reap" /\ result' = main ELSE End(main)
  /\ UNCHANGED <<vars, ask, worldVars, searchVars, dumpVars>>

\* Fault: a program whose recording failed is let go.
ReapOrGiveUp ==
  /\ phase = "reap"
  /\ phase' = IF result = "failed" THEN "ended" ELSE "kill"
  /\ UNCHANGED <<vars, ask, worldVars, searchVars, dumpVars, result>>

\* try_wait, which may fail for a program that is gone.
Reap ==
  /\ phase = "reap"
  /\ \/ phase' = "kill" /\ UNCHANGED result
     \/ Program \notin live /\ End("failed")
  /\ UNCHANGED <<vars, ask, worldVars, searchVars, dumpVars>>

\* So that there are no dangling processes; that the OS refuses it, for a
\* program that runs as another user, is not looked at.
Kill ==
  /\ phase = "kill"
  /\ \/ live' = live \ {Program} /\ alive' = FALSE /\ UNCHANGED refused
     \/ Program \in live /\ refused' = TRUE /\ UNCHANGED <<live, alive>>
  /\ phase' = "ended"
  /\ UNCHANGED <<config, samplerVars, queue, rx, mainVars, running, mark, ask, kind, parent, fresh,
                 searchVars, dumpVars, result>>

-----------------------------------------------------------------------------
(***************************************************************************)
(* dump.                                                                   *)
(***************************************************************************)
Inner == calls[Len(calls)]

\* write_traces goes on with its next step.
GoOn(step, children) ==
  /\ calls' = [calls EXCEPT ![Len(calls)].at = step, ![Len(calls)].todo = children]
  /\ UNCHANGED mainVars2

\* Fault: the other children are printed all the same.
FailChildOnly ==
  IF Len(calls) = 1 THEN calls' = <<>> /\ End("failed") ELSE calls' = Front(calls) /\ UNCHANGED mainVars2

\* An error goes up through all calls.
Fail == calls' = <<>> /\ End("failed")

Return ==
  /\ calls' = Front(calls)
  /\ IF Len(calls) = 1 THEN End("done") ELSE UNCHANGED mainVars2

Dumping(step) == calls # <<>> /\ phase = "run" /\ Inner.at = step

DumpUnchanged == UNCHANGED <<vars, ask, worldVars, searchVars>>

\* SmalltalkSpy::new
DumpAttach ==
  /\ Dumping("new")
  /\ \/ IsVm(Inner.pid) /\ GoOn(IF ask.json THEN "traces" ELSE "header", {})
     \/ Fail
  /\ UNCHANGED printed /\ DumpUnchanged

\* The command lines of the process and of its parent are read.
DumpHeader ==
  /\ Dumping("header")
  /\ IF {Inner.pid, Inner.from} \ {Nothing} \subseteq live THEN GoOn("traces", {}) ELSE Fail
  /\ UNCHANGED printed /\ DumpUnchanged

DumpTraces ==
  /\ Dumping("traces")
  /\ \/ /\ Inner.pid \in live
        /\ printed' = Append(printed, Inner.pid)
        /\ IF ask.subprocesses /\ ~ ask.json THEN GoOn("list", {}) ELSE Return
     \/ Fail /\ UNCHANGED printed
  /\ DumpUnchanged

\* Fault: all that child_processes lists.
ChildrenListed(p) ==
  LET Down[n \in Nat] == IF n = 0 THEN {p} ELSE {q \in live : parent[q] \in Down[n - 1]}
  IN  Down[1] \cup Down[2]

\* Those of the whole tree whose parent is the process.
Children(p) == {q \in live : parent[q] = p}

\* A process without a list is a panic.
DumpList ==
  /\ Dumping("list")
  /\ \/ GoOn("children", Children(Inner.pid))
     \/ phase' = "panicked" /\ calls' = <<>> /\ UNCHANGED result
  /\ UNCHANGED printed /\ DumpUnchanged

DumpChild ==
  /\ Dumping("children")
  /\ \/ \E c \in Inner.todo :
          /\ calls' = Append([calls EXCEPT ![Len(calls)].todo = @ \ {c}], Call(c, Inner.pid))
          /\ UNCHANGED mainVars2
     \/ Inner.todo = {} /\ Return
  /\ UNCHANGED printed /\ DumpUnchanged

-----------------------------------------------------------------------------
CommandInit ==
  /\ Init
  /\ \E w \in Worlds : ask = w.ask /\ kind = w.kind /\ parent = w.parent /\ live = w.live
  /\ fresh = Procs \ live /\ refused = FALSE
  /\ phase = "start" /\ target = Nothing /\ result = Nothing
  /\ todo = {} /\ found = {} /\ stayed = {}
  /\ calls = <<>> /\ printed = <<>>

World == (\E p \in Procs : ExitOf(p) \/ Starts(p)) \/ KilledByControlC

StspyMain ==
  \/ (\E p \in Procs : UsePid(p) \/ LookAt(p)) \/ Search \/ UseFound \/ Spawn
  \/ Recorded \/ Reap \/ Kill
  \/ DumpAttach \/ DumpHeader \/ DumpTraces \/ DumpList \/ DumpChild

\* A step of the recording.
InRecord(A) ==
  /\ phase = "run" /\ ask.command = "record" /\ A
  /\ UNCHANGED <<ask, worldVars, searchVars, dumpVars, mainVars2>>

CommandNext == World \/ StspyMain \/ InRecord(ControlC) \/ InRecord(Sampling) \/ InRecord(Main)

\* The threads of st-spy run; what the processes and the user do is open.
CommandSpec ==
  /\ CommandInit /\ [][CommandNext]_allVars
  /\ WF_allVars(StspyMain) /\ WF_allVars(InRecord(Sampling)) /\ WF_allVars(InRecord(Main))

-----------------------------------------------------------------------------
(***************************************************************************)
(* Properties.                                                             *)
(***************************************************************************)

CallRecords == [pid : Procs, from : Procs \cup {Nothing},
                at : {"new", "header", "traces", "list", "children"}, todo : SUBSET Procs]

CommandTypeOK ==
  /\ ask \in Commands /\ (ask.how = "program" => ask.command = "record")
  /\ kind \in [Procs -> Kinds] /\ live \subseteq Procs /\ fresh \subseteq Procs
  /\ refused \in BOOLEAN
  /\ parent \in [Procs -> Procs \cup {Nothing}] /\ Acyclic(parent)
  /\ phase \in {"start", "search", "run", "reap", "kill"} \cup Over
  /\ alive \in BOOLEAN /\ target \in Procs \cup {Nothing}
  /\ todo \subseteq Procs /\ found \subseteq Procs /\ stayed \subseteq Procs
  /\ calls \in Seq(CallRecords) /\ printed \in Seq(Procs)
  /\ result \in {Nothing, "done", "failed"}

\* Nothing is spied on before there is a target, the program runs only while
\* st-spy cares for it or when it may not be killed, and a dump is over when
\* its outermost call is.
PhaseOK ==
  /\ phase \in {"start", "search"} => /\ target = Nothing /\ alive
                                      /\ calls = <<>> /\ printed = <<>>
  /\ Program \in live => /\ ask.how = "program"
                         /\ phase \in {"run", "reap", "kill", "killed"} \/ refused
  /\ phase \in {"reap", "kill"} => ask.how = "program"
  /\ calls # <<>> => phase \in {"run", "killed"} /\ ask.command = "dump"

\* What passes for a VM and stays was found or will be, and so does all that
\* was found.
SearchOK ==
  phase = "search" =>
    /\ ask.how = "detect"
    /\ \A p \in stayed : p \in live /\ kind[p] \in Named \cap Accepted /\ p \in found \cup todo
    /\ \A p \in found : kind[p] \in Named \cap Accepted

\* A process that was there before the dump has no parent that was not.
ParentsFirst ==
  /\ phase \in {"start", "search"} => live \cap fresh = {}
  /\ ask.command = "dump" => \A p \in live \ fresh : parent[p] \notin fresh

\* The processes the dump has come across, and those of them whose children
\* were listed.
Pending  == UNION {calls[i].todo : i \in DOMAIN calls}
Known    == {calls[i].pid : i \in DOMAIN calls} \cup ToSet(printed) \cup Pending
Expanded == IF Inner.at = "children" THEN ToSet(printed) ELSE ToSet(printed) \ {Inner.pid}

DumpsTree == ask.command = "dump" /\ ask.subprocesses /\ ~ ask.json

\* A process waits in one call, or has one, or had one.
StackOK ==
  /\ calls[1].pid = target
  /\ \A i \in DOMAIN calls :
       /\ calls[i].at # "children" => i = Len(calls) /\ calls[i].todo = {}
       /\ calls[i].pid \in ToSet(printed) <=> calls[i].at \in {"list", "children"}
       /\ calls[i].pid \notin Pending /\ calls[i].todo \cap ToSet(printed) = {}
       /\ \A j \in DOMAIN calls \ {i} : /\ calls[i].pid # calls[j].pid
                                        /\ calls[i].todo \cap calls[j].todo = {}
  /\ ~ DumpsTree => Len(calls) = 1 /\ calls[1].at \notin {"list", "children"}

\* The dump comes across a process only as the child of one whose children it
\* lists, and across all of its children then, but those yet to start.  It
\* stays within a tree the target is the root of.
TreeOK ==
  /\ \A p \in Known \ {target} : parent[p] \in Expanded \cup {Nothing}
  /\ \A p \in live \ fresh : parent[p] \in Expanded => p \in Known
  /\ \E S \in SUBSET Procs : /\ Known \subseteq S /\ parent[target] \notin S
                             /\ \A p \in Procs : parent[p] \in S => p \in S

\* What the dump has printed holds all children of what it holds, but those
\* that have started meanwhile.
PrintedAll ==
  /\ target \in ToSet(printed)
  /\ \A p \in live \ fresh : parent[p] \in ToSet(printed) => p \in ToSet(printed)

DumpOK ==
  /\ IsFiniteSet(ToSet(printed)) /\ Cardinality(ToSet(printed)) = Len(printed)
  /\ calls # <<>> => StackOK /\ TreeOK
  /\ phase = "ended" /\ result = "done" /\ DumpsTree => PrintedAll

\* st-spy decides for a process by itself only if that one passes both checks,
\* of its name and of its executable, and no other that does was there for all
\* of the search.  (That is not to say that it is a VM: a process whose path
\* has a VM's name in it passes without any of the symbols.)
OnlyVm ==
  ask.how = "detect" /\ target # Nothing =>
    stayed \subseteq {target} /\ kind[target] \in Named \cap Accepted

\* A program that st-spy has started does not run on when st-spy has come to an
\* end of its own, however the recording went, unless the OS refuses to kill it.
\* (When a Control-C kills st-spy before it handles them, nobody does.)
ProgramEnded == phase = "ended" /\ ask.how = "program" => Program \notin live \/ refused

\* A dump prints no process twice, though child_processes lists the whole tree
\* at every level of the recursion; one with subprocesses that ends well has
\* printed all processes that were there when it began and still are below the
\* target, whatever has started and exited meanwhile.
Below(p) ==
  \A S \in SUBSET Procs :
    target \in S /\ (\A q \in live : parent[q] \in S => q \in S) => p \in S
DumpWhole ==
  /\ Cardinality(ToSet(printed)) = Len(printed)
  /\ phase = "ended" /\ result = "done" /\ DumpsTree =>
       \A p \in live \ fresh : Below(p) => p \in ToSet(printed)

\* The inductive invariant, and what it is for.
CommandInv == CommandTypeOK /\ PhaseOK /\ SearchOK /\ OnlyVm /\ ParentsFirst /\ DumpOK
CommandOK  == CommandInv /\ DumpWhole

\* A dump ends; a recording ends when Control-C is pressed, when the process
\* exits or when its time is over, and with it st-spy.
Ends == (~ running \/ ~ alive \/ Limited \/ ask.command = "dump") ~> phase \in Over
=============================================================================

----------------------------- MODULE MCCommand -----------------------------
(***************************************************************************)
(* A program that is recorded; the search among three processes, two of    *)
(* them of any kinds, some of which may start meanwhile; and the dump of   *)
(* trees of up to three processes, one of which may be no VM, or start     *)
(* meanwhile.                                                              *)
(***************************************************************************)
EXTENDS Command

CONSTANTS a, b, c, program

Ask(how, command, json, subprocesses) ==
  [how |-> how, command |-> command, json |-> json, subprocesses |-> subprocesses]
Orphans == [p \in Procs |-> Nothing]

Recordings == {[ask |-> Ask("program", "record", FALSE, FALSE), kind |-> [p \in Procs |-> "vm"],
                parent |-> Orphans, live |-> {}]}
Searches ==
  {[ask |-> Ask("detect", "dump", TRUE, FALSE), kind |-> k, parent |-> Orphans, live |-> l] :
     k \in {f \in [Procs -> Kinds] : f[Program] = "other" /\ f[c] \in {"vm", "other"}},
     l \in SUBSET {a, b, c}}
Trees == {f \in [Procs -> {a, b, Nothing}] : /\ f[Program] = Nothing /\ f[a] = Nothing
                                             /\ f[b] \in {a, Nothing} /\ f[c] \in {a, b}}
Dumps ==
  {[ask |-> Ask("pid", "dump", j, s), kind |-> k, parent |-> t, live |-> l] :
     j \in BOOLEAN, s \in BOOLEAN, t \in Trees, l \in {{a, b}, {a, b, c}},
     k \in {[p \in Procs |-> IF p = q THEN "other" ELSE "vm"] : q \in {c, Program}}}

MCWorlds == Recordings \cup Searches \cup Dumps
=============================================================================

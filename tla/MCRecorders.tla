---------------------------- MODULE MCRecorders -----------------------------
(***************************************************************************)
(* Small instances of Recorders: one thread in a process with a parent and *)
(* one in the parent; a function seen on two lines, in two modules, and in *)
(* files of one name in two directories.                                   *)
(***************************************************************************)
EXTENDS Recorders
CONSTANTS a, here, there, file_name, m1, m2, t1, t2, p1, p2
MCFrames == {Frame(a, here, m1, 1), Frame(a, here, m1, 2),
             Frame(a, here, m2, 1), Frame(a, there, m1, 0)}
MCShort == (here :> file_name) @@ (there :> file_name) @@ (NoFile :> NoFile)
MCChain == (t1 :> <<p1>>) @@ (t2 :> <<p2, p1>>)
MCConfigs == {c \in [lines : BOOLEAN, threads : BOOLEAN, processes : BOOLEAN] : c.threads = c.processes}
=============================================================================

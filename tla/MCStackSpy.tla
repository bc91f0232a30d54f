----------------------------- MODULE MCStackSpy -----------------------------
(***************************************************************************)
(* Small instances of StackSpy: two threads, and two contents for          *)
(* everything copied, so that a change and a change back both occur.       *)
(***************************************************************************)
EXTENDS StackSpy

CONSTANTS t1, t2, x, y
=============================================================================

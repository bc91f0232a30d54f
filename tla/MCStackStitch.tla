--------------------------- MODULE MCStackStitch ---------------------------
(***************************************************************************)
(* Stacks of up to five frames, so that one with four methods is deep and  *)
(* has a boundary all the same; every order of them occurs.                *)
(***************************************************************************)
EXTENDS StackStitch

CONSTANTS m1, m2, base, jit, primitive, native1
=============================================================================

---------------------------- MODULE MCJitResolver ----------------------------
(***************************************************************************)
(* Small instances of JitResolver: methods of two lengths, in a zone where  *)
(* after a compaction a new method comes to lie across the boundary of old *)
(* blocks.                                                                 *)
(***************************************************************************)
EXTENDS JitResolver

CONSTANTS a, b

\* A VM that only appends whole methods, and one that does it all.
BothKinds == {[compacts |-> FALSE, atomic |-> TRUE], [compacts |-> TRUE, atomic |-> FALSE]}

Lengths == [m \in Methods |-> IF m = a THEN 3 ELSE 2]
=============================================================================

------------------------- MODULE MCSubprocessSampler -------------------------
(***************************************************************************)
(* Small instances of SubprocessSampler.  One child reaches every control  *)
(* state of one spy; two make lineages, orders of notification and         *)
(* collection, and a child that is still starting while another answers.   *)
(***************************************************************************)
EXTENDS SubprocessSampler, TLC

\* Nothing tells the children apart.
ChildSymmetry == Permutations(Children)
=============================================================================

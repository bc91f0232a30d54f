--------------------------- MODULE MCNativeUnwind ---------------------------
(***************************************************************************)
(* Small instances of NativeUnwind: stack areas of three words, copies of  *)
(* two, a refresh every second capture; one library has no unwind info.    *)
(***************************************************************************)
EXTENDS NativeUnwind

CONSTANTS t1, t2, p, l, k
=============================================================================

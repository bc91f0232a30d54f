----------------------------- MODULE MCConsole ------------------------------
(***************************************************************************)
(* Small instances of Console: a failed sample, one with a recursive       *)
(* function, one with an idle thread, a late one with an error, and one of *)
(* an empty stack; terminals on both sides of the two limits.              *)
(***************************************************************************)
EXTENDS Console
CONSTANTS a, b
F(name, line) == [name |-> name, line |-> line]
Tr(active, frames) == [active |-> active, frames |-> frames]
In(errors, late, traces) == [errors |-> errors, late |-> late, traces |-> traces]
MCFrames == {F(a, 1), F(a, 2), F(b, 0)}
MCInputs == {
  In(1, FALSE, <<>>),
  In(0, FALSE, <<Tr(TRUE, <<F(a, 1), F(b, 0), F(a, 2)>>)>>),
  In(0, FALSE, <<Tr(TRUE, <<F(a, 2)>>), Tr(FALSE, <<F(b, 0)>>)>>),
  In(1, TRUE, <<Tr(TRUE, <<F(b, 0), F(a, 1)>>)>>),
  In(0, FALSE, <<Tr(TRUE, <<>>)>>)}
MCTerminals == {
  [height |-> 18, narrow |-> FALSE], [height |-> 19, narrow |-> FALSE],
  [height |-> 36, narrow |-> TRUE], [height |-> 37, narrow |-> TRUE]}
=============================================================================

--------------------------- MODULE MCChildProcess ---------------------------
(* A child and two generations of descendants.                             *)
EXTENDS ChildProcess, TLC

CONSTANTS d1, d2, d3

MCDescendants == {d1, d2, d3}
TwoDescendants == {d1, d2}
=============================================================================

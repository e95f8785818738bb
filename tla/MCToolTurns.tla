---------------------------- MODULE MCToolTurns ----------------------------
(* ToolTurns on small sets.                                                *)
EXTENDS ToolTurns, TLC

CONSTANTS x1, x2

(* No call, one call, and one call more than the budget of two, in an      *)
(* order that makes two turns meet on both tools.                          *)
MCRequests == {<<>>, <<x2>>, <<x1, x2, x1>>}
=============================================================================

---------------------------- MODULE MC_Context ----------------------------
(* kmain() and two processes for Context, with one vector of each kind: no  *)
(* error code, one that is returned from, one that is not, and the timer.   *)
EXTENDS Context

CONSTANTS kmain, a, b
MCThreads == {kmain, a, b}
MCVectors == {33, 12, 14, 32}
=============================================================================

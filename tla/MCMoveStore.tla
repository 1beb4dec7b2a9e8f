---------------------------- MODULE MCMoveStore ----------------------------
(* A small instance of MoveStore: one document, two transactions that may   *)
(* both plan to move it, and three audit identifiers to share.              *)
EXTENDS MoveStore, TLC

CONSTANTS d1, t1, t2, pA, pB, o1, x1, x2, x3

MCInitialPath == [d \in {d1} |-> pA]

\* Neither the transactions nor the audit identifiers are told apart.
Symmetry == Permutations({t1, t2}) \cup Permutations({x1, x2, x3})
=============================================================================

------------------------------- MODULE MCHeap -------------------------------
(* A small heap and two threads. *)
EXTENDS Heap, TLC

CONSTANTS c1, c2

\* the two threads do the same things
Clients == Permutations({c1, c2})
=============================================================================

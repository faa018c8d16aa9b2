------------------------------ MODULE MCRtTimer ------------------------------
(* Small instances of RtTimer: a tick counter of three bits. *)
EXTENDS RtTimer, TLC

CONSTANTS t1, t2, t3, c1, c2

Symmetric == Permutations(Timer)
=============================================================================

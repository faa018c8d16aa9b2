----------------------------- MODULE MCRtThread -----------------------------
(* Small instances of RtThread. *)
EXTENDS RtThread

CONSTANTS main, idle, a, b

FourThreads == {main, idle, a, b}
ThreeThreads == {main, idle, a}

\* a and main share a priority, b is the most urgent
ThreeLevels == [t \in FourThreads |-> CASE t = idle -> 2 [] t = b -> 0 [] OTHER -> 1]
ThreeLevels3 == [t \in ThreeThreads |-> IF t = idle THEN 2 ELSE 1]

OneTick == [t \in Thread |-> 1]
\* the slice of a is two ticks, that of the others one
Slices == [t \in Thread |-> IF t = a THEN 2 ELSE 1]
=============================================================================

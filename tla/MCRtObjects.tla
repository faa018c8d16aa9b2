----------------------------- MODULE MCRtObjects -----------------------------
(* Small instances of the IPC objects: low, mid and high differ in priority, *)
(* mid2 is mid's equal.                                                      *)
EXTENDS RtObjects

CONSTANTS idle, low, mid, mid2, high, sem, m1, m2, mb, sndq, msgq, ev

Threads == {idle, low, mid, mid2, high}
TwoThreads == {idle, low, high}
Priorities ==
  [t \in Thread |-> CASE t = high -> 0 [] t \in {mid, mid2} -> 1 [] t = low -> PrioMax - 2
                       [] t = idle -> PrioMax - 1]
OneTick == [t \in Thread |-> 1]
OnePermit == [s \in Semaphore |-> 1]
Flags == [l \in WaitList |-> IF l \in Mutex THEN "prio" ELSE "fifo"]
Senders == [o \in Object |-> IF o = mb THEN sndq ELSE None]

\* the threads that are started beside the objects of a world
Started ==
  [w \in Worlds |-> Thread \cap ({idle} \cup
     (CASE w \subseteq Semaphore -> {mid, mid2, high}
        [] w \subseteq Mutex -> {low, mid, high}
        [] OTHER -> {low, high}))]

=============================================================================

-------------------------------- MODULE Lists --------------------------------
(***************************************************************************)
(* The doubly linked lists of RT-Thread (src/rt-thread/include/rtservice.h)*)
(* as sequences of the objects whose node is linked.                       *)
(***************************************************************************)
EXTENDS Naturals, SequencesExt

\* rt_list_remove of the node of t, as one list sees it: a node is on a list
\* at most once
Without(q, t) ==
  IF Contains(q, t) THEN RemoveAt(q, CHOOSE i \in 1 .. Len(q) : q[i] = t) ELSE q

\* x stands somewhere before y
Before(q, x, y) == \E i, j \in 1 .. Len(q) : i < j /\ q[i] = x /\ q[j] = y

=============================================================================

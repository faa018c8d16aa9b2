------------------------------- MODULE Permit -------------------------------
(***************************************************************************)
(* What a counting semaphore promises its clients: a permit is free, or    *)
(* somebody's; clients wait only while none is free; a permit given back   *)
(* goes to a waiter if there is one.                                       *)
(***************************************************************************)
EXTENDS Naturals

CONSTANT Client

VARIABLES free, has, waiting

permitVars == <<free, has, waiting>>

PermitInit ==
  /\ free \in Nat
  /\ has = [c \in Client |-> 0]
  /\ waiting = {}

Take(c) ==
  /\ c \notin waiting /\ free > 0
  /\ free' = free - 1
  /\ has' = [has EXCEPT ![c] = @ + 1]
  /\ UNCHANGED waiting

WaitFor(c) ==
  /\ c \notin waiting /\ free = 0
  /\ waiting' = waiting \cup {c}
  /\ UNCHANGED <<free, has>>

\* a permit arrives, now that the clients have h
Arrive(h) ==
  \/ waiting = {} /\ free' = free + 1 /\ has' = h /\ UNCHANGED waiting
  \/ \E w \in waiting :
       /\ waiting' = waiting \ {w}
       /\ has' = [h EXCEPT ![w] = @ + 1]
       /\ UNCHANGED free

Give(c) == c \notin waiting /\ has[c] > 0 /\ Arrive([has EXCEPT ![c] = @ - 1])

Add == Arrive(has)

\* a timeout, or the semaphore is deleted
GiveUp(c) ==
  /\ c \in waiting
  /\ waiting' = waiting \ {c}
  /\ UNCHANGED <<free, has>>

Restart ==
  /\ waiting' = {} /\ free' \in Nat
  /\ UNCHANGED has

PermitNext ==
  \/ \E c \in Client : Take(c) \/ WaitFor(c) \/ Give(c) \/ GiveUp(c)
  \/ Add \/ Restart

PermitSpec == PermitInit /\ [][PermitNext]_permitVars

=============================================================================

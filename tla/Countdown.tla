------------------------------ MODULE Countdown ------------------------------
(***************************************************************************)
(* What timers promise: a timer that is armed for n ticks fires in the     *)
(* n-th tick from then (in the next one if n is 0), never before and never *)
(* after, unless it is disarmed.  RtKernel takes the timers of the threads *)
(* for timers of this kind.                                                *)
(***************************************************************************)
EXTENDS Naturals

CONSTANTS Timer, Longest

VARIABLES armed, left, busy

countVars == <<armed, left, busy>>

CountInit == armed = {} /\ left = [t \in Timer |-> 0] /\ busy = FALSE

Arm(t, n) ==
  /\ t \notin armed
  /\ armed' = armed \cup {t} /\ left' = [left EXCEPT ![t] = n]
  /\ UNCHANGED busy

Disarm(t) ==
  /\ armed' = armed \ {t} /\ left' = [left EXCEPT ![t] = 0]
  /\ UNCHANGED busy

Pass ==
  /\ ~busy /\ busy' = TRUE
  /\ left' = [t \in Timer |-> IF left[t] > 0 THEN left[t] - 1 ELSE 0]
  /\ UNCHANGED armed

\* t fires; it and one more timer may be armed again
Fire(t) ==
  /\ busy /\ t \in armed /\ left[t] = 0
  /\ \E u \in Timer : \E S \in SUBSET {t, u} : \E n, m \in 0 .. Longest :
       /\ armed' = (armed \ {t, u}) \cup S
       /\ left' = [left EXCEPT ![u] = IF u \in S THEN n ELSE 0,
                               ![t] = IF t \in S THEN m ELSE 0]
  /\ UNCHANGED busy

\* the tick is over only when nothing is due
Over ==
  /\ busy /\ \A t \in armed : left[t] > 0
  /\ busy' = FALSE
  /\ UNCHANGED <<armed, left>>

CountNext ==
  \/ \E t \in Timer :
       (\E n \in 0 .. Longest : Arm(t, n)) \/ Disarm(t) \/ Fire(t)
  \/ Pass \/ Over

CountSpec == CountInit /\ [][CountNext]_countVars

=============================================================================

------------------------------- MODULE RtTimer -------------------------------
(***************************************************************************)
(* The timer list of RT-Thread (src/rt-thread/src/timer.c): timers sorted  *)
(* by the tick they expire at, on a tick counter that wraps, checked in    *)
(* the tick interrupt (RT_TIMER_SKIP_LIST_LEVEL is 1, no soft timers).     *)
(*                                                                         *)
(* Tasks start, stop, control and detach timers; each of these calls can   *)
(* be interrupted where it enables interrupts.  rt_timer_check runs with   *)
(* interrupts masked, so one turn of its loop, with the callback and what  *)
(* the callback calls, is one step.  Two callers at once about the same    *)
(* timer would link a linked node: the application is taken not to do so.  *)
(***************************************************************************)
EXTENDS Naturals, Lists

CONSTANTS
  Timer, Task,
  None,         \* no timer
  Modulus,      \* rt_tick_t has 32 bits: 2^32, or a small number
  Times,        \* the init_tick values the application sets
  SelfCalls,    \* what a callback may call about its own timer
  OtherCalls,   \* what a callback may call about another timer
  MaxWindow     \* bound: the ticks for which a start can be interrupted

Half == (Modulus - 1) \div 2        \* RT_TICK_MAX / 2

ASSUME TimerAssumption ==
  /\ Modulus \in Nat \ {0} /\ None \notin Timer
  /\ Times \subseteq 0 .. Half - 1 /\ Times # {}      \* asserted by rt_timer_start
  /\ MaxWindow \in Nat /\ MaxWindow + 1 < Half /\ \A n \in Times : n + MaxWindow < Half
  /\ SelfCalls \subseteq {"start", "stop", "detach"}
  /\ OtherCalls \subseteq {"start", "stop", "detach"}

VARIABLES
  tm,     \* the timers and the tick
  call,   \* call[c]: the point task c is at, the timer, and the flag it has read
  isr     \* "none", or "check": the tick interrupt is in rt_timer_check

vars == <<tm, call, isr>>

TimerState ==
  [ tick     : 0 .. Modulus - 1,
    list     : Seq(Timer),
    timeout  : [Timer -> 0 .. Modulus - 1],
    init     : [Timer -> Times],
    active   : SUBSET Timer,      \* RT_TIMER_FLAG_ACTIVATED
    periodic : SUBSET Timer,      \* RT_TIMER_FLAG_PERIODIC
    known    : SUBSET Timer ]     \* initialised, not detached or deleted

Place == {"app", "start", "insert", "stop", "clear", "flag"}

TypeOK ==
  /\ tm \in TimerState
  /\ call \in [Task -> [at : Place, on : Timer \cup {None}, was : BOOLEAN]]
  /\ isr \in {"none", "check"}

-----------------------------------------------------------------------------
\* a - b on rt_tick_t
Minus(a, b) == (a + Modulus - b) % Modulus

Linked(t) == Contains(tm.list, t)

\* _rt_timer_remove; timeout_tick is read only while the timer is on the list,
\* so it is 0 here for any other timer
Removed(k, t) == [k EXCEPT !.list = Without(@, t), !.timeout[t] = 0]

Deactivated(k, t) == [k EXCEPT !.active = @ \ {t}]

Timed(k, t) == [k EXCEPT !.timeout[t] = (k.tick + k.init[t]) % Modulus]

Later_unsigned(k, u, t) == k.timeout[u] > k.timeout[t]

Later_orEqual(k, u, t) == Minus(k.timeout[u], k.timeout[t]) < Half

\* u expires later than t
Later(k, u, t) == LET d == Minus(k.timeout[u], k.timeout[t]) IN d # 0 /\ d < Half

Position(k, t) ==
  LET later == {i \in 1 .. Len(k.list) : Later(k, k.list[i], t)}
  IN IF later = {} THEN Len(k.list) + 1
     ELSE CHOOSE i \in later : \A j \in later : i <= j

Inserted(k, t) ==
  [k EXCEPT !.list = InsertAt(@, Position(k, t), t), !.active = @ \cup {t}]

\* rt_timer_start with interrupts masked: no window inside
Started(k, t) == Inserted(Timed(Deactivated(Removed(k, t), t), t), t)

Stopped(k, t) == IF t \in k.active THEN Deactivated(Removed(k, t), t) ELSE k

\* rt_timer_detach, rt_timer_delete: the flags stay as they are
Detached(k, t) == [Removed(k, t) EXCEPT !.known = @ \ {t}]

Called(k, op, t) ==
  CASE op = "start"  -> Started(k, t)
    [] op = "stop"   -> Stopped(k, t)
    [] op = "detach" -> Detached(k, t)

\* ticks until a linked timer expires
Left(k, t) == IF Minus(k.tick, k.timeout[t]) < Half THEN 0 ELSE Minus(k.timeout[t], k.tick)

-----------------------------------------------------------------------------
Claimed(t) == \E c \in Task : call[c].at # "app" /\ call[c].on = t

Runs(c, place) == isr = "none" /\ call[c].at = place

Calls(c, t) == Runs(c, "app") /\ t \in tm.known /\ ~Claimed(t)

Goto(c, place, t) == call' = [call EXCEPT ![c] = [at |-> place, on |-> t, was |-> FALSE]]

InApp == [at |-> "app", on |-> None, was |-> FALSE]

Return(c) == call' = [call EXCEPT ![c] = InApp]

Init ==
  /\ \E p \in SUBSET Timer, n \in [Timer -> Times] :
       tm = [ tick |-> 0, list |-> << >>, timeout |-> [t \in Timer |-> 0], init |-> n,
              active |-> {}, periodic |-> p, known |-> Timer ]
  /\ call = [c \in Task |-> InApp]
  /\ isr = "none"

(* rt_timer_start: take the timer out ... *)
StartRemove(c, t) ==
  /\ Calls(c, t)
  /\ tm' = Deactivated(Removed(tm, t), t)
  /\ Goto(c, "start", t)
  /\ UNCHANGED isr

(* ... compute when it expires, with interrupts enabled ... *)
StartTime(c) ==
  /\ Runs(c, "start")
  /\ tm' = Timed(tm, call[c].on)
  /\ Goto(c, "insert", call[c].on)
  /\ UNCHANGED isr

(* ... and put it in. *)
StartInsert(c) ==
  /\ Runs(c, "insert")
  /\ tm' = Inserted(tm, call[c].on)
  /\ Return(c)
  /\ UNCHANGED isr

(* rt_timer_stop: it does nothing to a timer that is not active *)
StopRefused(c, t) ==
  /\ Calls(c, t) /\ t \notin tm.active
  /\ UNCHANGED vars

StopTest(c, t) ==
  /\ Calls(c, t) /\ t \in tm.active
  /\ Goto(c, "stop", t)
  /\ UNCHANGED <<tm, isr>>

StopRemove(c) ==
  /\ Runs(c, "stop")
  /\ tm' = Removed(tm, call[c].on)
  /\ Goto(c, "clear", call[c].on)
  /\ UNCHANGED isr

StopClear(c) ==
  /\ Runs(c, "clear")
  /\ tm' = Deactivated(tm, call[c].on)
  /\ Return(c)
  /\ UNCHANGED isr

Detach(c, t) ==
  /\ Calls(c, t)
  /\ tm' = Detached(tm, t)
  /\ UNCHANGED <<call, isr>>

(* rt_timer_init of a timer that was detached *)
Reinit(c, t, n) ==
  /\ Runs(c, "app") /\ t \notin tm.known
  /\ tm' = [Deactivated(tm, t) EXCEPT !.known = @ \cup {t}, !.init[t] = n]
  /\ UNCHANGED <<call, isr>>

(* rt_timer_control: RT_TIMER_CTRL_SET_TIME *)
SetTime(c, t, n) ==
  /\ Calls(c, t)
  /\ tm' = [tm EXCEPT !.init[t] = n]
  /\ UNCHANGED <<call, isr>>

(* rt_timer_control: RT_TIMER_CTRL_SET_ONESHOT and SET_PERIODIC read the     *)
(* flags and write them back with interrupts enabled.                        *)
FlagRead(c, t) ==
  /\ Calls(c, t)
  /\ call' = [call EXCEPT ![c] = [at |-> "flag", on |-> t, was |-> t \in tm.active]]
  /\ UNCHANGED <<tm, isr>>

FlagWrite(c, p) ==
  LET t == call[c].on IN
  /\ Runs(c, "flag")
  /\ tm' = [tm EXCEPT !.periodic = IF p THEN @ \cup {t} ELSE @ \ {t},
                      !.active   = IF call[c].was THEN @ \cup {t} ELSE @ \ {t}]
  /\ Return(c)
  /\ UNCHANGED isr

-----------------------------------------------------------------------------
(* rt_tick_increase -> rt_timer_check *)

\* ticks since the task computed when its timer expires
Waited(c) ==
  LET t == call[c].on IN Minus(tm.tick, Minus(tm.timeout[t], tm.init[t]))

Tick ==
  /\ isr = "none"
  /\ \A c \in Task : call[c].at = "insert" => Waited(c) < MaxWindow
  /\ tm' = [tm EXCEPT !.tick = (@ + 1) % Modulus]
  /\ isr' = "check"
  /\ UNCHANGED call

Expired_atNextTick(k, t) == Minus(k.tick, k.timeout[t]) \in 1 .. Half - 1

Expired(k, t) == Minus(k.tick, k.timeout[t]) < Half

\* the callback makes no call, or one
AfterCallback(k, t) ==
  {k} \cup {Called(k, op, t) : op \in SelfCalls}
      \cup {Called(k, op, u) : op \in OtherCalls, u \in {x \in k.known : x # t /\ ~Claimed(x)}}

Rearmed_clearedLast(k, t) ==
  Deactivated(IF t \in k.periodic \cap k.active THEN Started(k, t) ELSE k, t)

\* a periodic timer that is still active is started again
Rearmed(k, t) ==
  IF t \in k.periodic \cap k.active THEN Started(k, t) ELSE Deactivated(k, t)

SomethingDue == tm.list # << >> /\ Expired(tm, Head(tm.list))

Fires ==
  LET t == Head(tm.list) IN
  /\ isr = "check" /\ SomethingDue
  /\ \E k \in AfterCallback(Removed(tm, t), t) : tm' = Rearmed(k, t)
  /\ UNCHANGED <<call, isr>>

CheckDone ==
  /\ isr = "check"
  /\ ~SomethingDue
  /\ isr' = "none"
  /\ UNCHANGED <<tm, call>>

-----------------------------------------------------------------------------
TaskStep(c) ==
  \/ \E t \in Timer :
       \/ StartRemove(c, t) \/ StopRefused(c, t) \/ StopTest(c, t) \/ Detach(c, t)
       \/ FlagRead(c, t)
       \/ \E n \in Times : Reinit(c, t, n) \/ SetTime(c, t, n)
  \/ StartTime(c) \/ StartInsert(c) \/ StopRemove(c) \/ StopClear(c)
  \/ \E p \in BOOLEAN : FlagWrite(c, p)

Next == (\E c \in Task : TaskStep(c)) \/ Tick \/ Fires \/ CheckDone

Spec == Init /\ [][Next]_vars

-----------------------------------------------------------------------------
(* The list is sorted by the time left, across the wrap of the counter, so   *)
(* rt_timer_check may stop at the first timer that has not expired; and no   *)
(* timer is on it twice.                                                     *)
Sorted ==
  /\ TypeOK
  /\ IsInjective(tm.list)
  /\ \A i, j \in 1 .. Len(tm.list) :
       i < j => Left(tm, tm.list[i]) <= Left(tm, tm.list[j])

(* "If we have two timers that timeout at the same time, it's preferred that *)
(* the timer inserted early get called early" (timer.c:351-354).             *)
EarlyFirst ==
  [][\A t, u \in Timer :
       /\ Contains(tm.list, t) /\ ~Contains(tm.list, u)
       /\ Contains(tm'.list, t) /\ Contains(tm'.list, u)
       /\ tm'.timeout[t] = tm'.timeout[u] /\ tm'.timeout[t] = tm.timeout[t]
       /\ isr = "none"
       => \E i, j \in 1 .. Len(tm'.list) : i < j /\ tm'.list[i] = t /\ tm'.list[j] = u]_vars

(* "This function will stop the timer" (timer.c:412-413, rt_timer_stop): a   *)
(* timer it refuses to stop is not running.                                  *)
RefusedIsStopped ==
  \A c \in Task, t \in Timer : Calls(c, t) /\ t \notin tm.active => ~Linked(t)

Armed == {t \in Timer : Linked(t)}

Abstract == INSTANCE Countdown WITH
  Longest <- Half, armed <- Armed, busy <- isr = "check",
  left <- [t \in Timer |-> IF Linked(t) THEN Left(tm, t) ELSE 0]

(* Every timer fires in the tick it was started for, on a counter that       *)
(* wraps, whatever tasks and callbacks do with the other timers.             *)
ImplementsCountdown == Abstract!CountSpec

=============================================================================

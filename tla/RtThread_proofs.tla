--------------------------- MODULE RtThread_proofs ---------------------------
(***************************************************************************)
(* RtThread for every set of threads, priorities and slices: while the     *)
(* application keeps its rules, every interleaving of the calls with the  *)
(* tick and with each other keeps lists, bit map, states and timers in     *)
(* agreement.  IInv is inductive: the kernel invariant of RtKernel_proofs  *)
(* and what every interrupted call relies on (CallsAgree).                 *)
(***************************************************************************)
EXTENDS RtThread, RtKernel_proofs

CallType == [Thread -> [at : Place, on : Thread]]

IInv ==
  /\ KInv(kern)
  /\ call \in CallType
  /\ CallsAgree(kern, call)
  /\ isr \in {"none", "timers"}

-----------------------------------------------------------------------------
(* Places and lists *)

LEMMA QueuedLinked ==
  ASSUME NEW k, NEW t, Queued(k, t) PROVE Linked(k, t)
  BY ListKeys DEF Queued, Linked

LEMMA QueuedReady ==
  ASSUME NEW k, StatAgrees(k), NEW t \in Thread, Queued(k, t)
  PROVE  k.stat[t] = "ready" /\ Contains(k.list[Ready(k.prio[t])], t)
  BY DEF StatAgrees, Queued

LEMMA LinkedAlive ==
  ASSUME NEW k, StatAgrees(k), NEW t \in Thread, Linked(k, t)
  PROVE  k.stat[t] \in {"ready", "suspend", "close"}
  BY DEF StatAgrees, Linked, List

LEMMA SameQueued ==
  ASSUME NEW k, NEW r, NEW u, OnlyAbout(u, k, r), NEW x \in Thread \ {u}
  PROVE  (Queued(r, x) <=> Queued(k, x)) /\ (Linked(r, x) <=> Linked(k, x))
  BY ListKeys DEF OnlyAbout, Queued, Linked

-----------------------------------------------------------------------------
(* The three shapes of a step *)

(* The current thread t does something to u and goes to another place: k    *)
(* and c become r and c2.                                                   *)
Acts(k, c, t, u, r, c2, pl, w) ==
  /\ OnlyAbout(u, k, r) /\ t = k.cur /\ r.cur = t
  /\ pl \in Place /\ w \in Thread /\ c2 = [c EXCEPT ![t] = To(pl, w)]
  /\ \A d \in Thread \ {t} : c[d].at \in Holding /\ c[d].on = u =>
       c[d].at = "suspend" /\ r.stat[u] \in {"ready", "suspend"} /\ pl \notin Holding
  /\ c[t].at \in Holding => c[t].on = u
  /\ pl \in Holding => w = u /\ k.stat[t] = "ready"
  /\ HeldThread(r, c2, t)
  /\ r.stat[u] = "ready" => Queued(r, u) \/ pl \in {"removed", "stopped"}
  /\ r.stat[u] \in {"none", "init", "close"} => c2[u].at \notin Holding
  /\ r.slice = k.slice \/ \A x \in Thread : r.slice[x] > 0
  /\ Queued(r, t) \/ (r.nest = 0 /\ pl \in {"schedule", "block", "exit"})
  /\ r.nest > 0 => ~(pl = "suspend" /\ w = t)

LEMMA ActsOn ==
  ASSUME NEW k, KInv(k), NEW c \in CallType, CallsAgree(k, c),
         NEW r, KInv(r), NEW u \in Thread, NEW t \in Thread, NEW pl, NEW w, NEW c2,
         Acts(k, c, t, u, r, c2, pl, w)
  PROVE  CallsAgree(r, c2) /\ c2 \in CallType
<1> USE DEF Acts
<1>1. /\ c2 \in CallType
      /\ c2[t].at = pl /\ c2[t].on = w
      /\ \A x \in Thread \ {t} : c2[x] = c[x]
  BY DEF CallType, To
<1>2. \A x \in Thread : c[x].on \in Thread
  BY DEF CallType
<1>3. ASSUME NEW d \in Thread PROVE HeldThread(r, c2, d)
  <2>1. CASE d = t
    BY <2>1
  <2>2. CASE d # t
    <3>1. c2[d] = c[d] /\ HeldThread(k, c, d)
      BY <1>1, <2>2 DEF CallsAgree
    <3> SUFFICES ASSUME c[d].at \in Holding PROVE HeldThread(r, c2, d)
      BY <3>1 DEF HeldThread
    <3> DEFINE x == c[d].on
    <3>2. CASE x = u
      BY <2>2, <3>1, <3>2 DEF HeldThread, Holding
    <3>3. CASE x # u
      <4>1. x \in Thread \ {u}
        BY <1>2, <3>3
      <4>2. /\ r.stat[x] = k.stat[x] /\ (x \in r.armed <=> x \in k.armed)
            /\ (Linked(r, x) <=> Linked(k, x))
        BY <4>1, SameQueued DEF OnlyAbout
      <4>3. c[d].at \in {"removed", "stopped"} => c2[x].at \notin Holding
        BY <1>1, <3>1, <4>1 DEF HeldThread
      <4> QED
        BY <3>1, <4>2, <4>3 DEF HeldThread
    <3> QED
      BY <3>2, <3>3
  <2> QED
    BY <2>1, <2>2
<1>4. OneHolder(c2)
  BY <1>1 DEF OneHolder, CallsAgree
<1>5. ASSUME NEW x \in Thread
      PROVE  /\ r.stat[x] = "ready" => Queued(r, x) \/ BeingDeleted(c2, x)
             /\ r.stat[x] \in {"none", "init", "close"} => c2[x].at \notin Holding
  <2>1. CASE x = u
    BY <2>1, <1>1 DEF BeingDeleted, Holding
  <2>2. CASE x # u
    <3>1. r.stat[x] = k.stat[x] /\ (Queued(r, x) <=> Queued(k, x))
      BY <2>2, SameQueued DEF OnlyAbout
    <3>3. BeingDeleted(c, x) => BeingDeleted(c2, x)
      BY <1>1, <2>2 DEF BeingDeleted, Holding
    <3>4. k.stat[x] \in {"none", "init", "close"} => c2[x].at \notin Holding
      BY <1>1, <2>2 DEF CallsAgree
    <3> QED
      BY <3>1, <3>3, <3>4 DEF CallsAgree
  <2> QED
    BY <2>1, <2>2
<1>6. Current(r, c2)
  BY <1>1 DEF Current
<1>7. \A x \in Thread : r.slice[x] > 0
  BY DEF CallsAgree
<1> QED
  BY <1>1, <1>3, <1>4, <1>5, <1>6, <1>7 DEF CallsAgree

(* The processor goes to another thread, nothing else changes.              *)
LEMMA Switches ==
  ASSUME NEW k, KInv(k), NEW c \in CallType, CallsAgree(k, c),
         NEW r, KInv(r), r.stat = k.stat, r.armed = k.armed, r.nest = k.nest,
         \A l \in List : \A x \in Thread :
           Contains(r.list[l], x) <=> Contains(k.list[l], x),
         r.cur = k.cur \/ (k.nest = 0 /\ Queued(r, r.cur)),
         \A x \in Thread : r.slice[x] > 0
  PROVE  CallsAgree(r, c)
<1>1. \A x \in Thread : c[x].on \in Thread
  BY DEF CallType
<1>2. \A x \in Thread : (Queued(r, x) <=> Queued(k, x)) /\ (Linked(r, x) <=> Linked(k, x))
  BY ListKeys DEF Queued, Linked
<1>3. r.cur \in Thread /\ k.cur \in Thread /\ k.nest \in Nat
  BY DEF KInv, KernelState
<1>4. ASSUME NEW d \in Thread PROVE HeldThread(r, c, d)
  <2>1. HeldThread(k, c, d) /\ c[d].on \in Thread
    BY <1>1 DEF CallsAgree
  <2>2. ~Linked(k, c[d].on) => (c[d].on # k.cur => c[d].on # r.cur)
    BY <1>2, <1>3, <2>1, QueuedLinked
  <2> QED
    BY <1>2, <2>1, <2>2 DEF HeldThread
<1>5. Current(r, c)
  BY <1>2, <1>3 DEF CallsAgree, Current
<1> QED
  BY <1>2, <1>4, <1>5 DEF CallsAgree

(* rt_schedule, whoever calls it: afterwards a queued thread runs.          *)
LEMMA ScheduleCalls ==
  ASSUME NEW k, KInv(k), NEW c \in CallType, CallsAgree(k, c)
  PROVE  LET r == Schedule(k) IN
         KInv(r) /\ CallsAgree(r, c) /\ Queued(r, r.cur)
<1> DEFINE r == Schedule(k)
<1>1. /\ KInv(r) /\ r.stat = k.stat /\ r.armed = k.armed /\ r.nest = k.nest
      /\ r.list = k.list
      /\ k.nest # 0 => r.cur = k.cur
      /\ k.nest = 0 => Queued(k, r.cur)
  BY ScheduleInv
<1>2. r.slice = k.slice
  BY DEF Schedule, KInv, KernelState
<1> HIDE DEF r
<1>3. Queued(r, r.cur)
  BY <1>1 DEF CallsAgree, Current, Queued
<1>4. CallsAgree(r, c)
  BY <1>1, <1>2, <1>3, Switches DEF CallsAgree
<1> QED
  BY <1>1, <1>3, <1>4 DEF r

(* A thread that runs queued, or not at all, goes on to another place.      *)
LEMMA MovesOn ==
  ASSUME NEW k, KInv(k), NEW c \in CallType, CallsAgree(k, c), Queued(k, k.cur),
         NEW t \in Thread, c[t].at \notin Holding, NEW pl \in Place \ Holding,
         NEW w \in Thread, NEW c2, c2 = [c EXCEPT ![t] = To(pl, w)]
  PROVE  CallsAgree(k, c2) /\ c2 \in CallType
<1>1. /\ c2 \in CallType
      /\ c2[t].at = pl /\ c2[t].on = w
      /\ \A x \in Thread \ {t} : c2[x] = c[x]
  BY DEF CallType, To
<1>2. \A x \in Thread : c[x].on \in Thread
  BY DEF CallType
<1>3. ASSUME NEW d \in Thread PROVE HeldThread(k, c2, d)
  BY <1>1, <1>2 DEF HeldThread, CallsAgree
<1>4. OneHolder(c2)
  BY <1>1 DEF OneHolder, CallsAgree
<1>5. ASSUME NEW x \in Thread
      PROVE  /\ k.stat[x] = "ready" => Queued(k, x) \/ BeingDeleted(c2, x)
             /\ k.stat[x] \in {"none", "init", "close"} => c2[x].at \notin Holding
  BY <1>1 DEF CallsAgree, BeingDeleted, Holding
<1>6. Current(k, c2)
  BY <1>1 DEF CallsAgree, Current, Holding
<1> QED
  BY <1>1, <1>3, <1>4, <1>5, <1>6 DEF CallsAgree

(* What is known of a thread that runs application code.                    *)
LEMMA InAppFacts ==
  ASSUME IInv, NEW t \in Thread, Runs(t, "app")
  PROVE  /\ kern.cur = t /\ Queued(kern, t) /\ kern.stat[t] = "ready"
         /\ call[t].at = "app" /\ isr = "none"
         /\ Contains(kern.list[Ready(kern.prio[t])], t)
  BY QueuedReady DEF IInv, KInv, CallsAgree, Current, Runs

(* No primitive but the tick touches remaining_tick.                        *)
LEMMA SliceKept ==
  ASSUME NEW k \in KernelState, NEW t \in Thread
  PROVE  /\ InsertThread(k, t).slice = k.slice
         /\ RemoveThread(k, t).slice = k.slice
         /\ Unlink(k, t).slice = k.slice
         /\ TimerStop(k, t).slice = k.slice
         /\ Suspend(k, t).slice = k.slice
         /\ Detached(k, t).slice = k.slice
         /\ ToTail(k, t).slice = k.slice
         /\ Timeout(k, t).slice = k.slice
         /\ \A p \in Prio : ChangePriority(k, t, p).slice = k.slice
<1>1. /\ InsertThread(k, t).slice = k.slice
      /\ RemoveThread(k, t).slice = k.slice
      /\ Unlink(k, t).slice = k.slice
      /\ TimerStop(k, t).slice = k.slice
  BY DEF InsertThread, RemoveThread, Unlink, TimerStop, KernelState
<1>2. /\ Suspend(k, t).slice = k.slice
      /\ Detached(k, t).slice = k.slice
      /\ ToTail(k, t).slice = k.slice
  BY DEF Suspend, Detached, ToTail, RemoveThread, Unlink, TimerStop, KernelState
<1>3. Timeout(k, t).slice = k.slice
  BY DEF Timeout, Schedule, InsertThread, Unlink, TimerStop, KernelState
<1>4. \A p \in Prio : ChangePriority(k, t, p).slice = k.slice
  BY DEF ChangePriority, InsertThread, RemoveThread, Unlink, KernelState
<1> QED
  BY <1>1, <1>2, <1>3, <1>4

-----------------------------------------------------------------------------
(* One lemma per action *)

RulesKept == Rules = {"claims", "timers", "unlocked"}

\* IInv after a step, from the next kernel state and places
LEMMA NextIInv ==
  ASSUME KInv(kern'), CallsAgree(kern', call'), call' \in CallType,
         isr' \in {"none", "timers"}
  PROVE  IInv'
  BY DEF IInv

LEMMA InitInv ==
  ASSUME Init PROVE IInv
<1>1. /\ KInv(Boot) /\ Boot.slice = InitTick /\ Queued(Boot, Boot.cur)
      /\ \A t \in Thread : Boot.stat[t] = "ready" => Queued(Boot, t)
  BY BootInv
<1>2. kern = Boot /\ isr = "none" /\ call = [t \in Thread |-> InApp]
  BY DEF Init
<1>3. call \in CallType /\ \A t \in Thread : call[t].at = "app"
  BY <1>2, ThreadAssumption DEF CallType, InApp, Place
<1>4. kern.cur \in Thread /\ \A t \in Thread : kern.slice[t] > 0
  BY <1>1, <1>2, TickAssumption DEF KInv, KernelState
<1>5. CallsAgree(kern, call)
  BY <1>1, <1>2, <1>3, <1>4
     DEF CallsAgree, HeldThread, OneHolder, Current, Holding
<1> QED
  BY <1>1, <1>2, <1>3, <1>5 DEF IInv

(* A thread that runs and is ready is queued: nobody deletes it.             *)
LEMMA RunsQueued ==
  ASSUME IInv, kern.stat[kern.cur] = "ready"
  PROVE  Contains(kern.list[Ready(kern.prio[kern.cur])], kern.cur)
<1>1. KInv(kern) /\ call \in CallType /\ CallsAgree(kern, call)
  BY DEF IInv
<1>2. CASE Queued(kern, kern.cur)
  BY <1>1, <1>2, QueuedReady DEF KInv, KernelState
<1>3. CASE ~Queued(kern, kern.cur)
  <2>1. kern.cur \in Thread /\ \A d \in Thread : HeldThread(kern, call, d)
    BY <1>1 DEF KInv, KernelState, CallsAgree
  <2>2. ~BeingDeleted(call, kern.cur)
    BY <2>1 DEF BeingDeleted, HeldThread, Holding
  <2> QED
    BY <1>1, <1>3, <2>1, <2>2 DEF CallsAgree
<1> QED
  BY <1>2, <1>3

LEMMA TickStep ==
  ASSUME IInv, Tick PROVE IInv'
<1>1. KInv(kern) /\ call \in CallType /\ CallsAgree(kern, call)
  BY DEF IInv
<1>2. \A t \in Thread : kern.slice[t] > 0
  BY <1>1 DEF CallsAgree
<1>3. kern.stat[kern.cur] = "ready"
        => Contains(kern.list[Ready(kern.prio[kern.cur])], kern.cur)
  BY RunsQueued
<1> DEFINE r == TimersTick(SliceTick(kern))
<1>4. /\ KInv(r) /\ r.stat = kern.stat /\ r.armed = kern.armed /\ r.nest = kern.nest
      /\ \A l \in List : \A x \in Thread :
           Contains(r.list[l], x) <=> Contains(kern.list[l], x)
      /\ r.cur = kern.cur \/ (kern.nest = 0 /\ Queued(r, r.cur))
      /\ \A t \in Thread : r.slice[t] > 0
  BY <1>1, <1>2, <1>3, TickInv
<1> HIDE DEF r
<1>5. CallsAgree(r, call)
  BY <1>1, <1>4, Switches
<1>6. kern' = r /\ call' = call /\ isr' = "timers"
  BY DEF Tick, r
<1> QED
  BY <1>1, <1>4, <1>5, <1>6, NextIInv

LEMMA TimerStep ==
  ASSUME IInv, NEW u \in Thread, TimerFires(u) PROVE IInv'
<1>1. /\ KInv(kern) /\ call \in CallType /\ CallsAgree(kern, call)
      /\ kern \in KernelState
  BY DEF IInv, KInv
<1>2. u \in kern.armed /\ kern.stat[u] = "suspend"
  BY <1>1 DEF TimerFires, Due, KInv, TimersAgree
<1> DEFINE r == Timeout(kern, u)
<1>3. /\ KInv(r) /\ OnlyAbout(u, kern, r)
      /\ r.stat[u] = "ready" /\ u \notin r.armed
      /\ Queued(r, u)
      /\ kern.nest # 0 => r.cur = kern.cur
      /\ kern.nest = 0 => Queued(r, r.cur)
  BY <1>1, <1>2, TimeoutInv
<1>4. r.slice = kern.slice
  BY <1>1, SliceKept
<1> HIDE DEF r
<1>5. \A x \in Thread : call[x].on \in Thread
  BY <1>1 DEF CallType
<1>6. r.cur \in Thread /\ kern.cur \in Thread
  BY <1>1, <1>3 DEF KInv, KernelState
<1>7. ASSUME NEW d \in Thread PROVE HeldThread(r, call, d)
  <2> SUFFICES ASSUME call[d].at \in Holding PROVE HeldThread(r, call, d)
    BY DEF HeldThread
  <2> DEFINE x == call[d].on
  <2>1. HeldThread(kern, call, d) /\ x \in Thread
    BY <1>1, <1>5 DEF CallsAgree
  <2>2. CASE x = u
    BY <1>2, <1>3, <2>1, <2>2 DEF HeldThread, Holding
  <2>3. CASE x # u
    <3>1. /\ r.stat[x] = kern.stat[x] /\ (x \in r.armed <=> x \in kern.armed)
          /\ (Linked(r, x) <=> Linked(kern, x))
      BY <1>3, <2>1, <2>3, SameQueued DEF OnlyAbout
    <3>2. ~Linked(kern, x) => (x # kern.cur => x # r.cur)
      BY <1>3, <1>6, <3>1, QueuedLinked
    <3> QED
      BY <2>1, <3>1, <3>2 DEF HeldThread
  <2> QED
    BY <2>2, <2>3
<1>8. ASSUME NEW x \in Thread
      PROVE  /\ r.stat[x] = "ready" => Queued(r, x) \/ BeingDeleted(call, x)
             /\ r.stat[x] \in {"none", "init", "close"} => call[x].at \notin Holding
             /\ r.slice[x] > 0
  <2>1. CASE x = u
    BY <1>1, <1>3, <1>4, <2>1 DEF CallsAgree
  <2>2. CASE x # u
    BY <1>1, <1>3, <1>4, <2>2, SameQueued DEF CallsAgree, OnlyAbout
  <2> QED
    BY <2>1, <2>2
<1>9. Current(r, call)
  <2>1. CASE kern.nest = 0
    BY <1>3, <2>1 DEF Current, OnlyAbout
  <2>2. CASE kern.nest # 0
    <3>1. Queued(kern, kern.cur)
      BY <1>1, <2>2 DEF CallsAgree, Current
    <3>2. Queued(r, r.cur)
      BY <1>3, <1>6, <2>2, <3>1, SameQueued
    <3> QED
      BY <1>1, <1>3, <2>2, <3>2 DEF CallsAgree, Current, OnlyAbout
  <2> QED
    BY <2>1, <2>2
<1>10. CallsAgree(r, call)
  BY <1>1, <1>7, <1>8, <1>9 DEF CallsAgree
<1> QED
  BY <1>1, <1>3, <1>10, NextIInv DEF TimerFires, r, IInv

LEMMA TickDoneStep ==
  ASSUME IInv, TickDone PROVE IInv'
  BY DEF IInv, TickDone

(* Acts for a call that comes back to where it came from.                   *)
ActsHere(k, c, t, u, r) ==
  /\ OnlyAbout(u, k, r) /\ t = k.cur /\ r.cur = t /\ c[t].at = "app"
  /\ \A d \in Thread : c[d].at \in Holding => c[d].on # u
  /\ r.stat[u] = "ready" => Queued(r, u)
  /\ r.stat[u] \in {"none", "init", "close"} => c[u].at \notin Holding
  /\ r.slice = k.slice \/ \A x \in Thread : r.slice[x] > 0
  /\ Queued(r, t)

LEMMA ActsInApp ==
  ASSUME NEW k, KInv(k), NEW c \in CallType, CallsAgree(k, c),
         NEW r, KInv(r), NEW u \in Thread, NEW t \in Thread, ActsHere(k, c, t, u, r)
  PROVE  CallsAgree(r, c)
<1> DEFINE w == c[t].on
<1>1. w \in Thread /\ c[t] = To("app", w) /\ c = [c EXCEPT ![t] = To("app", w)]
  BY DEF CallType, To, ActsHere
<1>2. HeldThread(r, c, t)
  BY DEF HeldThread, Holding, ActsHere
<1> HIDE DEF w
<1>3. "app" \in Place /\ "app" \notin Holding
  BY DEF Place, Holding
<1>4. Acts(k, c, t, u, r, c, "app", w)
  BY <1>1, <1>2, <1>3 DEF Acts, ActsHere
<1> QED
  BY <1>4, ActsOn

LEMMA FreeOfClaims ==
  ASSUME RulesKept, NEW u, MayTouch(u)
  PROVE  \A d \in Thread : call[d].at \in Holding => call[d].on # u
  BY DEF RulesKept, MayTouch, Claimed

LEMMA CreateStep ==
  ASSUME IInv, RulesKept, NEW t \in Thread, NEW u \in Thread, Create(t, u) PROVE IInv'
<1>1. /\ KInv(kern) /\ call \in CallType /\ CallsAgree(kern, call)
      /\ kern \in KernelState /\ StatAgrees(kern)
  BY DEF IInv, KInv
<1>2. /\ kern.cur = t /\ Queued(kern, t) /\ kern.stat[t] = "ready"
      /\ call[t].at = "app" /\ isr = "none"
  BY InAppFacts DEF Create, Calls
<1>3. kern.stat[u] = "none" /\ u # t
  BY <1>2 DEF Create
<1>4. ~Linked(kern, u) /\ u \notin kern.armed
  BY <1>1, <1>3, LinkedAlive DEF KInv, TimersAgree
<1> DEFINE r == [kern EXCEPT !.stat[u] = "init", !.prio[u] = InitPrio[u],
                             !.slice[u] = InitTick[u], !.error[u] = "ok",
                             !.armed = @ \ {u}]
<1>5. /\ r \in KernelState /\ r.list = kern.list /\ r.group = kern.group
      /\ r.stat = [kern.stat EXCEPT ![u] = "init"]
      /\ r.prio = [kern.prio EXCEPT ![u] = InitPrio[u]]
      /\ r.slice = [kern.slice EXCEPT ![u] = InitTick[u]]
      /\ r.armed = kern.armed \ {u} /\ r.cur = kern.cur /\ r.nest = kern.nest
  BY <1>1, PrioAssumption, TickAssumption DEF KernelState, Stat, Error
<1> HIDE DEF r
<1>6. OnlyAbout(u, kern, r) /\ r.stat[u] = "init" /\ Queued(r, t)
  BY <1>1, <1>2, <1>5 DEF OnlyAbout, KernelState, Queued
<1>7. KInv(r)
  BY <1>1, <1>4, <1>5, <1>6, UnlinkedInv
<1>8. \A x \in Thread : r.slice[x] > 0
  BY <1>1, <1>5, TickAssumption DEF CallsAgree, KernelState
<1>9. call[u].at \notin Holding
  BY <1>1, <1>3 DEF CallsAgree
<1>10. CallsAgree(r, call)
  <2>1. \A d \in Thread : call[d].at \in Holding => call[d].on # u
    BY FreeOfClaims DEF Create
  <2>2. ActsHere(kern, call, t, u, r)
    BY <1>2, <1>5, <1>6, <1>8, <1>9, <2>1 DEF ActsHere
  <2> QED
    BY <1>1, <1>7, <2>2, ActsInApp
<1>11. /\ kern' = r /\ call' = [call EXCEPT ![u] = To("app", Idle)] /\ isr' = isr
  BY DEF Create, r, InApp, To
<1>12. "app" \in Place \ Holding /\ Idle \in Thread
  BY ThreadAssumption DEF Place, Holding
<1>13. CallsAgree(r, call') /\ call' \in CallType
  BY <1>1, <1>2, <1>5, <1>6, <1>7, <1>9, <1>10, <1>11, <1>12, MovesOn
<1> QED
  BY <1>2, <1>7, <1>11, <1>13, NextIInv

LEMMA StartupStep ==
  ASSUME IInv, RulesKept, NEW t \in Thread, NEW u \in Thread, Startup(t, u) PROVE IInv'
<1>1. /\ KInv(kern) /\ call \in CallType /\ CallsAgree(kern, call)
      /\ kern \in KernelState /\ StatAgrees(kern)
  BY DEF IInv, KInv
<1>2. /\ kern.cur = t /\ Queued(kern, t) /\ kern.stat[t] = "ready"
      /\ call[t].at = "app" /\ isr = "none" /\ t # Idle /\ u # Idle
  BY InAppFacts DEF Startup, Calls
<1>3. kern.stat[u] = "init" /\ u # t
  BY <1>2 DEF Startup
<1>4. ~Linked(kern, u) /\ u \notin kern.armed
  BY <1>1, <1>3, LinkedAlive DEF KInv, TimersAgree
<1> DEFINE m == [kern EXCEPT !.prio[u] = InitPrio[u], !.stat[u] = "suspend"]
           r == Detached(m, u)
<1>5. /\ m \in KernelState /\ m.list = kern.list /\ m.group = kern.group
      /\ m.stat = [kern.stat EXCEPT ![u] = "suspend"]
      /\ m.prio = [kern.prio EXCEPT ![u] = InitPrio[u]]
      /\ m.slice = kern.slice
      /\ m.armed = kern.armed /\ m.cur = kern.cur /\ m.nest = kern.nest
  BY <1>1, PrioAssumption DEF KernelState, Stat
<1> HIDE DEF m
<1>6. OnlyAbout(u, kern, m) /\ m.stat[u] = "suspend"
  BY <1>1, <1>5 DEF OnlyAbout, KernelState
<1>7. KInv(m)
  BY <1>1, <1>4, <1>5, <1>6, UnlinkedInv
<1>8. /\ KInv(r) /\ OnlyAbout(u, m, r) /\ ~Linked(r, u) /\ u \notin r.armed
      /\ r.stat = m.stat /\ r.cur = m.cur /\ r.slice = m.slice
  BY <1>5, <1>6, <1>7, DetachedInv, SliceKept
<1>9. kern' = r /\ call' = [call EXCEPT ![t] = To("startup", u)] /\ isr' = isr
  BY DEF Startup, m, r, Goto
<1> HIDE DEF r
<1>10. OnlyAbout(u, kern, r)
  BY <1>6, <1>8 DEF OnlyAbout
<1>11. Queued(r, t)
  BY <1>2, <1>3, <1>10, SameQueued
<1>12. call'[t] = To("startup", u)
  BY <1>1, <1>9 DEF CallType
<1>13. HeldThread(r, call', t)
  BY <1>2, <1>3, <1>5, <1>6, <1>8, <1>12 DEF HeldThread, Holding, To
<1>14. CallsAgree(r, call') /\ call' \in CallType
  <2>1. \A d \in Thread : call[d].at \in Holding => call[d].on # u
    BY FreeOfClaims DEF Startup
  <2>2. "startup" \in Place /\ call[t].at \notin Holding /\ r.stat[u] = "suspend"
    BY <1>2, <1>6, <1>8 DEF Place, Holding
  <2>3. Acts(kern, call, t, u, r, call', "startup", u)
    BY <1>2, <1>3, <1>5, <1>8, <1>9, <1>10, <1>11, <1>13, <2>1, <2>2 DEF Acts
  <2> QED
    BY <1>1, <1>8, <2>3, ActsOn
<1> QED
  BY <1>2, <1>8, <1>9, <1>14, NextIInv

LEMMA ResumeStep ==
  ASSUME IInv, RulesKept, NEW t \in Thread, NEW u \in Thread, ThreadResume(t, u)
  PROVE  IInv'
<1>1. /\ KInv(kern) /\ call \in CallType /\ CallsAgree(kern, call)
      /\ kern \in KernelState
  BY DEF IInv, KInv
<1>2. /\ kern.cur = t /\ Queued(kern, t) /\ kern.stat[t] = "ready"
      /\ call[t].at = "app" /\ isr = "none" /\ t # Idle /\ u # Idle
  BY InAppFacts DEF ThreadResume, Calls
<1>3. kern.stat[u] = "suspend" /\ u # t
  BY <1>2 DEF ThreadResume
<1> DEFINE r == Detached(kern, u)
<1>4. /\ KInv(r) /\ OnlyAbout(u, kern, r) /\ ~Linked(r, u) /\ u \notin r.armed
      /\ r.stat = kern.stat /\ r.cur = kern.cur /\ r.slice = kern.slice
  BY <1>1, <1>3, DetachedInv, SliceKept
<1>5. kern' = r /\ call' = [call EXCEPT ![t] = To("resume", u)] /\ isr' = isr
  BY DEF ThreadResume, Goto
<1> HIDE DEF r
<1>6. Queued(r, t)
  BY <1>2, <1>3, <1>4, SameQueued
<1>7. call'[t] = To("resume", u)
  BY <1>1, <1>5 DEF CallType
<1>8. HeldThread(r, call', t)
  BY <1>2, <1>3, <1>4, <1>7 DEF HeldThread, Holding, To
<1>9. CallsAgree(r, call') /\ call' \in CallType
  <2>1. \A d \in Thread : call[d].at \in Holding => call[d].on # u
    BY FreeOfClaims DEF ThreadResume
  <2>2. "resume" \in Place /\ call[t].at \notin Holding /\ r.stat[u] = "suspend"
    BY <1>2, <1>3, <1>4 DEF Place, Holding
  <2>3. Acts(kern, call, t, u, r, call', "resume", u)
    BY <1>2, <1>3, <1>4, <1>5, <1>6, <1>8, <2>1, <2>2 DEF Acts
  <2> QED
    BY <1>1, <1>4, <2>3, ActsOn
<1> QED
  BY <1>2, <1>4, <1>5, <1>9, NextIInv

(* A thread that goes on with a call about u: u is as the call left it.     *)
LEMMA HolderFacts ==
  ASSUME IInv, NEW t \in Thread, Runs(t, call[t].at), call[t].at \in Holding
  PROVE  LET u == call[t].on IN
         /\ u \in Thread /\ u # Idle /\ HeldThread(kern, call, t)
         /\ \A d \in Thread \ {t} : call[d].at \in Holding => call[d].on # u
         /\ kern.cur = t /\ Queued(kern, t) /\ kern.stat[t] = "ready" /\ isr = "none"
<1>1. /\ KInv(kern) /\ call \in CallType /\ CallsAgree(kern, call) /\ StatAgrees(kern)
  BY DEF IInv, KInv
<1>2. call[t].on \in Thread /\ kern.cur = t /\ isr = "none"
  BY <1>1 DEF CallType, Runs
<1>3. HeldThread(kern, call, t) /\ OneHolder(call)
  BY <1>1 DEF CallsAgree
<1>4. \A d \in Thread \ {t} : call[d].at \in Holding => call[d].on # call[t].on
  BY <1>3 DEF OneHolder
<1>5. Queued(kern, t)
  BY <1>1, <1>2 DEF CallsAgree, Current, Holding
<1>6. kern.stat[t] = "ready"
  BY <1>1, <1>5, QueuedReady
<1> QED
  BY <1>2, <1>3, <1>4, <1>5, <1>6 DEF HeldThread

LEMMA ResumeInsertStep ==
  ASSUME IInv, NEW t \in Thread, ResumeInsert(t) PROVE IInv'
<1> DEFINE u == call[t].on
           r == InsertThread(kern, u)
           pl == IF call[t].at = "startup" THEN "schedule" ELSE "app"
<1>1. /\ KInv(kern) /\ call \in CallType /\ CallsAgree(kern, call)
      /\ kern \in KernelState
  BY DEF IInv, KInv
<1>2. /\ u \in Thread /\ u # Idle /\ HeldThread(kern, call, t)
      /\ \A d \in Thread \ {t} : call[d].at \in Holding => call[d].on # u
      /\ kern.cur = t /\ Queued(kern, t) /\ kern.stat[t] = "ready" /\ isr = "none"
  BY HolderFacts DEF ResumeInsert, Holding
<1>3. /\ kern' = r /\ call' = [call EXCEPT ![t] = To(pl, Idle)] /\ isr' = isr
      /\ call[t].at \in {"resume", "startup"} /\ pl \in {"schedule", "app"}
  BY DEF ResumeInsert, Goto, Return, InApp, To
<1> HIDE DEF u, pl
<1>4. ~Linked(kern, u) /\ u \notin kern.armed /\ u # t
  BY <1>2, <1>3 DEF HeldThread, Holding, u
<1>5. /\ KInv(r) /\ OnlyAbout(u, kern, r)
      /\ r.stat[u] = "ready" /\ r.cur = kern.cur /\ Queued(r, u)
      /\ r.slice = kern.slice
  BY <1>1, <1>2, <1>4, InsertInv, SliceKept
<1> HIDE DEF r
<1>6. Queued(r, t)
  BY <1>2, <1>4, <1>5, SameQueued
<1>7. call'[t].at = pl /\ pl \notin Holding /\ pl \in Place
  BY <1>1, <1>3 DEF CallType, To, Holding, Place
<1>8. HeldThread(r, call', t)
  BY <1>7 DEF HeldThread
<1>9. Acts(kern, call, t, u, r, call', pl, Idle)
  BY <1>2, <1>3, <1>4, <1>5, <1>6, <1>7, <1>8, ThreadAssumption DEF Acts, u
<1>10. CallsAgree(r, call') /\ call' \in CallType
  BY <1>1, <1>2, <1>5, <1>9, ActsOn
<1> QED
  BY <1>2, <1>3, <1>5, <1>10, NextIInv

LEMMA RescheduleStep ==
  ASSUME IInv, NEW t \in Thread, Reschedule(t) PROVE IInv'
<1>1. /\ KInv(kern) /\ call \in CallType /\ CallsAgree(kern, call)
  BY DEF IInv
<1>2. /\ kern' = Schedule(kern) /\ call' = [call EXCEPT ![t] = To("app", Idle)]
      /\ isr = "none" /\ isr' = isr /\ call[t].at = "schedule"
  BY DEF Reschedule, Return, InApp, To, Runs
<1>3. KInv(kern') /\ CallsAgree(kern', call) /\ Queued(kern', kern'.cur)
  BY <1>1, <1>2, ScheduleCalls
<1>4. call[t].at \notin Holding /\ "app" \in Place \ Holding /\ Idle \in Thread
  BY <1>2, ThreadAssumption DEF Holding, Place
<1>5. CallsAgree(kern', call') /\ call' \in CallType
  BY <1>1, <1>2, <1>3, <1>4, MovesOn
<1> QED
  BY <1>2, <1>3, <1>5, NextIInv

LEMMA SuspendTestStep ==
  ASSUME IInv, RulesKept, NEW t \in Thread, NEW u \in Thread, SuspendTest(t, u)
  PROVE  IInv'
<1>1. /\ KInv(kern) /\ call \in CallType /\ CallsAgree(kern, call)
  BY DEF IInv
<1>2. /\ kern.cur = t /\ Queued(kern, t) /\ kern.stat[t] = "ready"
      /\ call[t].at = "app" /\ isr = "none" /\ t # Idle /\ u # Idle
  BY InAppFacts DEF SuspendTest, Calls
<1>3. /\ kern' = kern /\ call' = [call EXCEPT ![t] = To("suspend", u)] /\ isr' = isr
      /\ kern.stat[u] = "ready"
      /\ t = u => kern.nest = 0
  BY DEF SuspendTest, Goto, MayBlock, RulesKept
<1>4. call'[t] = To("suspend", u) /\ "suspend" \in Place /\ call[t].at \notin Holding
  BY <1>1, <1>2, <1>3 DEF CallType, Place, Holding
<1>5. HeldThread(kern, call', t)
  BY <1>2, <1>3, <1>4 DEF HeldThread, Holding, To
<1>6. \A d \in Thread : call[d].at \in Holding => call[d].on # u
  BY FreeOfClaims DEF SuspendTest
<1>7. Queued(kern, u)
  BY <1>1, <1>3, <1>6 DEF CallsAgree, BeingDeleted, Holding
<1>8. OnlyAbout(u, kern, kern)
  BY DEF OnlyAbout
<1>9. Acts(kern, call, t, u, kern, call', "suspend", u)
  BY <1>2, <1>3, <1>4, <1>5, <1>6, <1>7, <1>8 DEF Acts
<1>10. CallsAgree(kern, call') /\ call' \in CallType
  BY <1>1, <1>9, ActsOn
<1> QED
  BY <1>1, <1>2, <1>3, <1>10, NextIInv

LEMMA SuspendStep ==
  ASSUME IInv, NEW t \in Thread, ThreadSuspend(t) PROVE IInv'
<1> DEFINE u == call[t].on
           r == Suspend(kern, u)
           pl == IF u = t THEN "schedule" ELSE "app"
<1>1. /\ KInv(kern) /\ call \in CallType /\ CallsAgree(kern, call)
      /\ kern \in KernelState
  BY DEF IInv, KInv
<1>2. /\ u \in Thread /\ u # Idle /\ HeldThread(kern, call, t)
      /\ \A d \in Thread \ {t} : call[d].at \in Holding => call[d].on # u
      /\ kern.cur = t /\ Queued(kern, t) /\ kern.stat[t] = "ready" /\ isr = "none"
  BY HolderFacts DEF ThreadSuspend, Holding, Runs
<1>3. /\ kern' = r /\ call' = [call EXCEPT ![t] = To(pl, Idle)] /\ isr' = isr
      /\ call[t].at = "suspend" /\ pl \in {"schedule", "app"}
      /\ t = u => pl = "schedule"
  BY DEF ThreadSuspend, Goto, Return, InApp, To, Runs
<1> HIDE DEF u, pl
<1>4. t = u => kern.nest = 0
  BY <1>1, <1>2, <1>3 DEF CallsAgree, Current, KernelState, u
<1>5. /\ KInv(r) /\ OnlyAbout(u, kern, r)
      /\ r.stat[u] = "suspend" /\ r.cur = kern.cur /\ r.slice = kern.slice
  BY <1>1, <1>2, SuspendInv, SliceKept
<1> HIDE DEF r
<1>6. Queued(r, t) \/ (r.nest = 0 /\ pl = "schedule")
  BY <1>2, <1>3, <1>4, <1>5, SameQueued DEF OnlyAbout
<1>7. call'[t].at = pl /\ pl \notin Holding /\ pl \in Place
  BY <1>1, <1>3 DEF CallType, To, Holding, Place
<1>8. HeldThread(r, call', t)
  BY <1>7 DEF HeldThread
<1>9. Acts(kern, call, t, u, r, call', pl, Idle)
  BY <1>2, <1>3, <1>5, <1>6, <1>7, <1>8, ThreadAssumption DEF Acts, u
<1>10. CallsAgree(r, call') /\ call' \in CallType
  BY <1>1, <1>2, <1>5, <1>9, ActsOn
<1> QED
  BY <1>2, <1>3, <1>5, <1>10, NextIInv

LEMMA YieldStep ==
  ASSUME IInv, NEW t \in Thread, ThreadYield(t) PROVE IInv'
<1> DEFINE r == ToTail(kern, t)
<1>1. /\ KInv(kern) /\ call \in CallType /\ CallsAgree(kern, call)
      /\ kern \in KernelState /\ kern.prio[t] \in Prio
  BY DEF IInv, KInv, KernelState
<1>2. /\ kern.cur = t /\ Queued(kern, t) /\ kern.stat[t] = "ready"
      /\ call[t].at = "app" /\ isr = "none"
      /\ Contains(kern.list[Ready(kern.prio[t])], t)
  BY InAppFacts DEF ThreadYield
<1>3. /\ kern' = r /\ call' = [call EXCEPT ![t] = To("schedule", Idle)] /\ isr' = isr
  BY DEF ThreadYield, Goto
<1>4. /\ KInv(r)
      /\ \A l \in List : \A x : Contains(r.list[l], x) <=> Contains(kern.list[l], x)
      /\ r.stat = kern.stat /\ r.cur = kern.cur /\ r.armed = kern.armed
      /\ OnlyAbout(t, kern, r) /\ r.slice = kern.slice
  BY <1>1, <1>2, ToTailInv, SliceKept
<1> HIDE DEF r
<1>5. Queued(r, r.cur)
  BY <1>2, <1>4, ListKeys DEF Queued
<1>6. CallsAgree(r, call)
  BY <1>1, <1>4, <1>5, Switches DEF CallsAgree, OnlyAbout
<1>7. call[t].at \notin Holding /\ "schedule" \in Place \ Holding /\ Idle \in Thread
  BY <1>2, ThreadAssumption DEF Holding, Place
<1>8. CallsAgree(r, call') /\ call' \in CallType
  BY <1>1, <1>3, <1>4, <1>5, <1>6, <1>7, MovesOn
<1> QED
  BY <1>2, <1>3, <1>4, <1>8, NextIInv

LEMMA SleepStep ==
  ASSUME IInv, RulesKept, NEW t \in Thread, NEW n \in Nat, Sleep(t, n) PROVE IInv'
<1> DEFINE m == Suspend(kern, t)
           r == TimerStart(m, t, n)
<1>1. /\ KInv(kern) /\ call \in CallType /\ CallsAgree(kern, call)
      /\ kern \in KernelState
  BY DEF IInv, KInv
<1>2. /\ kern.cur = t /\ Queued(kern, t) /\ kern.stat[t] = "ready"
      /\ call[t].at = "app" /\ isr = "none"
  BY InAppFacts DEF Sleep
<1>3. /\ kern' = r /\ call' = [call EXCEPT ![t] = To("block", Idle)] /\ isr' = isr
      /\ t # Idle /\ kern.nest = 0
  BY DEF Sleep, Goto, MayBlock, RulesKept
<1>4. /\ KInv(m) /\ OnlyAbout(t, kern, m)
      /\ m.stat[t] = "suspend" /\ m.cur = kern.cur /\ m.slice = kern.slice
  BY <1>1, <1>3, SuspendInv, SliceKept
<1> HIDE DEF m
<1>5. /\ KInv(r) /\ OnlyAbout(t, m, r)
      /\ r.stat = m.stat /\ r.cur = m.cur
  BY <1>4, TimerStartInv
<1>6. r.slice = m.slice
  BY <1>4 DEF TimerStart, KInv, KernelState
<1> HIDE DEF r
<1>7. OnlyAbout(t, kern, r) /\ r.nest = 0
  BY <1>3, <1>4, <1>5 DEF OnlyAbout
<1>8. call'[t].at = "block" /\ "block" \notin Holding /\ "block" \in Place
  BY <1>1, <1>3 DEF CallType, To, Holding, Place
<1>9. HeldThread(r, call', t)
  BY <1>8 DEF HeldThread
<1>10. \A d \in Thread \ {t} : call[d].at \in Holding /\ call[d].on = t =>
         call[d].at = "suspend"
  BY <1>1, <1>2 DEF CallsAgree, HeldThread
<1>11. call[t].at \notin Holding /\ r.stat[t] = "suspend"
  BY <1>2, <1>4, <1>5 DEF Holding
<1>12. Acts(kern, call, t, t, r, call', "block", Idle)
  BY <1>2, <1>3, <1>4, <1>5, <1>6, <1>7, <1>8, <1>9, <1>10, <1>11, ThreadAssumption DEF Acts
<1>13. CallsAgree(r, call') /\ call' \in CallType
  BY <1>1, <1>5, <1>12, ActsOn
<1> QED
  BY <1>2, <1>3, <1>5, <1>13, NextIInv

LEMMA SleepScheduleStep ==
  ASSUME IInv, NEW t \in Thread, SleepSchedule(t) PROVE IInv'
<1>1. /\ KInv(kern) /\ call \in CallType /\ CallsAgree(kern, call)
  BY DEF IInv
<1>2. /\ kern' = Schedule(kern) /\ call' = [call EXCEPT ![t] = To("woken", Idle)]
      /\ isr = "none" /\ isr' = isr /\ call[t].at = "block"
  BY DEF SleepSchedule, Goto, Runs
<1>3. KInv(kern') /\ CallsAgree(kern', call) /\ Queued(kern', kern'.cur)
  BY <1>1, <1>2, ScheduleCalls
<1>4. call[t].at \notin Holding /\ "woken" \in Place \ Holding /\ Idle \in Thread
  BY <1>2, ThreadAssumption DEF Holding, Place
<1>5. CallsAgree(kern', call') /\ call' \in CallType
  BY <1>1, <1>2, <1>3, <1>4, MovesOn
<1> QED
  BY <1>2, <1>3, <1>5, NextIInv

LEMMA SleptStep ==
  ASSUME IInv, NEW t \in Thread, Slept(t) PROVE IInv'
<1> DEFINE r == [kern EXCEPT !.error[t] = IF @ = "timeout" THEN "ok" ELSE @]
<1>1. /\ KInv(kern) /\ call \in CallType /\ CallsAgree(kern, call)
      /\ kern \in KernelState
  BY DEF IInv, KInv
<1>2. /\ kern.cur = t /\ call[t].at = "woken" /\ isr = "none"
      /\ kern' = r /\ call' = [call EXCEPT ![t] = To("app", Idle)] /\ isr' = isr
  BY DEF Slept, Runs, Return, InApp, To
<1>3. /\ r \in KernelState /\ r.list = kern.list /\ r.group = kern.group
      /\ r.stat = kern.stat /\ r.prio = kern.prio /\ r.slice = kern.slice
      /\ r.armed = kern.armed /\ r.cur = kern.cur /\ r.nest = kern.nest
  BY <1>1 DEF KernelState, Error
<1> HIDE DEF r
<1>4. KInv(r)
  BY <1>1, <1>3, SameKInv
<1>5. CallsAgree(r, call)
  BY <1>1, <1>3, <1>4, Switches DEF CallsAgree
<1>6. Queued(r, r.cur)
  BY <1>1, <1>2, <1>3 DEF CallsAgree, Current, Queued
<1>7. call[t].at \notin Holding /\ "app" \in Place \ Holding /\ Idle \in Thread
  BY <1>2, ThreadAssumption DEF Holding, Place
<1>8. CallsAgree(r, call') /\ call' \in CallType
  BY <1>1, <1>2, <1>4, <1>5, <1>6, <1>7, MovesOn
<1> QED
  BY <1>2, <1>4, <1>8, NextIInv

LEMMA PriorityStep ==
  ASSUME IInv, RulesKept, NEW t \in Thread, NEW u \in Thread, NEW p \in NewPrio,
         ThreadPriority(t, u, p)
  PROVE  IInv'
<1> DEFINE r == ChangePriority(kern, u, p)
<1>1. /\ KInv(kern) /\ call \in CallType /\ CallsAgree(kern, call)
      /\ kern \in KernelState /\ TimersAgree(kern)
  BY DEF IInv, KInv
<1>2. /\ kern.cur = t /\ Queued(kern, t) /\ kern.stat[t] = "ready"
      /\ call[t].at = "app" /\ isr = "none" /\ u # Idle
  BY InAppFacts DEF ThreadPriority, Calls
<1>3. p \in Prio /\ kern.stat[u] = "ready" => u \notin kern.armed
  BY <1>1, NewPrioAssumption DEF TimersAgree
<1>4. kern' = r /\ call' = call /\ isr' = isr
  BY DEF ThreadPriority
<1>5. /\ KInv(r) /\ OnlyAbout(u, kern, r)
      /\ r.stat = kern.stat /\ r.cur = kern.cur
      /\ kern.stat[u] = "ready" => Queued(r, u)
  BY <1>1, <1>2, <1>3, NewPrioAssumption, ChangePriorityInv DEF TimersAgree
<1>6. r.slice = kern.slice
  BY <1>1, NewPrioAssumption, SliceKept
<1> HIDE DEF r
<1>7. Queued(r, t)
  <2>1. CASE t = u
    BY <2>1, <1>2, <1>5
  <2>2. CASE t # u
    BY <2>2, <1>2, <1>5, SameQueued
  <2> QED
    BY <2>1, <2>2
<1>8. \A d \in Thread : call[d].at \in Holding => call[d].on # u
  BY FreeOfClaims DEF ThreadPriority
<1>9. ActsHere(kern, call, t, u, r)
  BY <1>1, <1>2, <1>5, <1>6, <1>7, <1>8 DEF ActsHere, CallsAgree
<1>10. CallsAgree(r, call)
  BY <1>1, <1>5, <1>9, ActsInApp
<1> QED
  BY <1>1, <1>2, <1>4, <1>5, <1>10, NextIInv

LEMMA DeleteRemoveStep ==
  ASSUME IInv, RulesKept, NEW t \in Thread, NEW u \in Thread, DeleteRemove(t, u)
  PROVE  IInv'
<1> DEFINE r == IF kern.stat[u] = "init" THEN kern ELSE RemoveThread(kern, u)
<1>1. /\ KInv(kern) /\ call \in CallType /\ CallsAgree(kern, call)
      /\ kern \in KernelState /\ StatAgrees(kern) /\ TimersAgree(kern)
  BY DEF IInv, KInv
<1>2. /\ kern.cur = t /\ Queued(kern, t) /\ kern.stat[t] = "ready"
      /\ call[t].at = "app" /\ isr = "none" /\ t # Idle /\ u # Idle
  BY InAppFacts DEF DeleteRemove, Calls
<1>3. /\ kern' = r /\ call' = [call EXCEPT ![t] = To("removed", u)] /\ isr' = isr
      /\ t # u /\ kern.stat[u] \in {"init", "ready", "suspend"}
  BY DEF DeleteRemove, Goto
<1>4. /\ \A d \in Thread : call[d].at \in Holding => call[d].on # u
      /\ call[u].at \notin Holding /\ u \notin kern.armed
  BY DEF DeleteRemove, MayDelete, Claimed, RulesKept
<1>5. /\ KInv(r) /\ OnlyAbout(u, kern, r) /\ ~Linked(r, u)
      /\ r.stat = kern.stat /\ r.cur = kern.cur /\ r.armed = kern.armed
      /\ r.slice = kern.slice
  <2>1. CASE kern.stat[u] = "init"
    <3>1. r = kern
      BY <2>1
    <3> HIDE DEF r
    <3> QED
      BY <1>1, <2>1, <3>1, LinkedAlive DEF OnlyAbout
  <2>2. CASE kern.stat[u] # "init"
    <3>1. r = RemoveThread(kern, u)
      BY <2>2
    <3> HIDE DEF r
    <3> QED
      BY <1>1, <1>2, <3>1, RemoveInv, SliceKept
  <2> QED
    BY <2>1, <2>2
<1> HIDE DEF r
<1>6. Queued(r, t)
  BY <1>2, <1>3, <1>5, SameQueued
<1>7. /\ call'[t] = To("removed", u) /\ call'[u] = call[u]
      /\ "removed" \in Place /\ call[t].at \notin Holding
  BY <1>1, <1>2, <1>3 DEF CallType, Place, Holding
<1>8. HeldThread(r, call', t)
  BY <1>2, <1>3, <1>4, <1>5, <1>7 DEF HeldThread, Holding, To
<1>9. Acts(kern, call, t, u, r, call', "removed", u)
  BY <1>2, <1>3, <1>4, <1>5, <1>6, <1>7, <1>8 DEF Acts
<1>10. CallsAgree(r, call') /\ call' \in CallType
  BY <1>1, <1>5, <1>9, ActsOn
<1> QED
  BY <1>2, <1>3, <1>5, <1>10, NextIInv

LEMMA DeleteTimerStep ==
  ASSUME IInv, NEW t \in Thread, DeleteTimer(t) PROVE IInv'
<1> DEFINE u == call[t].on
           r == TimerStop(kern, u)
<1>1. /\ KInv(kern) /\ call \in CallType /\ CallsAgree(kern, call)
      /\ kern \in KernelState
  BY DEF IInv, KInv
<1>2. /\ u \in Thread /\ u # Idle /\ HeldThread(kern, call, t)
      /\ \A d \in Thread \ {t} : call[d].at \in Holding => call[d].on # u
      /\ kern.cur = t /\ Queued(kern, t) /\ kern.stat[t] = "ready" /\ isr = "none"
  BY HolderFacts DEF DeleteTimer, Holding, Runs
<1>3. /\ kern' = r /\ call' = [call EXCEPT ![t] = To("stopped", u)] /\ isr' = isr
      /\ call[t].at = "removed"
  BY DEF DeleteTimer, Goto, Runs
<1> HIDE DEF u
<1>4. /\ ~Linked(kern, u) /\ u # t /\ t # Idle /\ call[u].at \notin Holding
      /\ kern.stat[u] \in {"init", "ready", "suspend"}
  BY <1>2, <1>3 DEF HeldThread, Holding, u
<1>5. /\ KInv(r) /\ OnlyAbout(u, kern, r) /\ u \notin r.armed
      /\ r.stat = kern.stat /\ r.list = kern.list /\ r.cur = kern.cur
      /\ r.slice = kern.slice
  BY <1>1, <1>2, TimerStopInv, SliceKept
<1> HIDE DEF r
<1>6. Queued(r, t) /\ ~Linked(r, u)
  BY <1>2, <1>4, <1>5 DEF Queued, Linked
<1>7. /\ call'[t] = To("stopped", u) /\ call'[u] = call[u]
      /\ "stopped" \in Place
  BY <1>1, <1>3, <1>4 DEF CallType, Place
<1>8. HeldThread(r, call', t)
  BY <1>2, <1>4, <1>5, <1>6, <1>7 DEF HeldThread, Holding, To
<1>9. Acts(kern, call, t, u, r, call', "stopped", u)
  BY <1>2, <1>3, <1>4, <1>5, <1>6, <1>7, <1>8 DEF Acts, u
<1>10. CallsAgree(r, call') /\ call' \in CallType
  BY <1>1, <1>2, <1>5, <1>9, ActsOn
<1> QED
  BY <1>2, <1>3, <1>5, <1>10, NextIInv

(* The thread is CLOSEd, and on the defunct list unless it is the caller's. *)
LEMMA ClosedInv ==
  ASSUME NEW k, KInv(k), NEW u \in Thread, ~Linked(k, u), u \notin k.armed
  PROVE  LET r == Closed(k, u) IN
         /\ KInv(r) /\ OnlyAbout(u, k, r)
         /\ r.stat[u] = "close" /\ r.cur = k.cur /\ r.slice = k.slice
<1> DEFINE m == [k EXCEPT !.stat[u] = "close"]
           d == ToDefunct(m, u)
<1>0. "close" \in Stat
  BY DEF Stat
<1>1. /\ KInv(m) /\ OnlyAbout(u, k, m) /\ ~Linked(m, u)
      /\ m.stat[u] = "close" /\ m.cur = k.cur /\ m.armed = k.armed
  BY <1>0, SetStatInv
<1>2. m.slice = k.slice /\ d.slice = m.slice
  BY DEF KInv, KernelState, ToDefunct
<1>3. Closed(k, u) = m \/ Closed(k, u) = d
  BY DEF Closed
<1> HIDE DEF m
<1>4. /\ KInv(d) /\ OnlyAbout(u, m, d)
      /\ d.stat = m.stat /\ d.cur = m.cur
  BY <1>1, DefunctInv DEF ToDefunct
<1> HIDE DEF d
<1>5. OnlyAbout(u, k, d)
  BY <1>1, <1>4 DEF OnlyAbout
<1> QED
  BY <1>1, <1>2, <1>3, <1>4, <1>5

LEMMA DeleteCloseStep ==
  ASSUME IInv, NEW t \in Thread, DeleteClose(t) PROVE IInv'
<1> DEFINE u == call[t].on
           r == [kern EXCEPT !.stat[u] = "close"]
           pl == IF OnlyDetached(u) THEN "app" ELSE "closed"
           w == IF OnlyDetached(u) THEN Idle ELSE u
<1>1. /\ KInv(kern) /\ call \in CallType /\ CallsAgree(kern, call)
      /\ "close" \in Stat
  BY DEF IInv, Stat
<1>2. /\ u \in Thread /\ u # Idle /\ HeldThread(kern, call, t)
      /\ \A d \in Thread \ {t} : call[d].at \in Holding => call[d].on # u
      /\ kern.cur = t /\ Queued(kern, t) /\ kern.stat[t] = "ready" /\ isr = "none"
  BY HolderFacts DEF DeleteClose, Holding, Runs
<1>3. /\ kern' = r /\ call' = [call EXCEPT ![t] = To(pl, w)] /\ isr' = isr
      /\ call[t].at = "stopped" /\ pl \in {"app", "closed"} /\ w \in Thread
      /\ pl = "closed" => w = u
  BY <1>2, ThreadAssumption DEF DeleteClose, Goto, Return, InApp, To, Runs
<1> HIDE DEF u, pl, w
<1>4. /\ ~Linked(kern, u) /\ u \notin kern.armed /\ u # t /\ call[u].at \notin Holding
      /\ t # Idle
  BY <1>2, <1>3 DEF HeldThread, Holding, u
<1>5. /\ KInv(r) /\ OnlyAbout(u, kern, r) /\ ~Linked(r, u) /\ u \notin r.armed
      /\ r.stat[u] = "close" /\ r.cur = kern.cur
  BY <1>1, <1>2, <1>4, SetStatInv
<1>6. Queued(r, t) /\ r.slice = kern.slice
  BY <1>1, <1>2, <1>4, <1>5, SameQueued DEF KInv, KernelState
<1> HIDE DEF r
<1>7. call'[t] = To(pl, w) /\ call'[u] = call[u] /\ pl \in Place
  BY <1>1, <1>3, <1>4 DEF CallType, Place
<1>8. HeldThread(r, call', t)
  BY <1>2, <1>3, <1>4, <1>5, <1>7 DEF HeldThread, Holding, To
<1>9. Acts(kern, call, t, u, r, call', pl, w)
  BY <1>2, <1>3, <1>4, <1>5, <1>6, <1>7, <1>8 DEF Acts, Holding, u
<1>10. CallsAgree(r, call') /\ call' \in CallType
  BY <1>1, <1>2, <1>5, <1>9, ActsOn
<1> QED
  BY <1>2, <1>3, <1>5, <1>10, NextIInv

LEMMA DeleteDefunctStep ==
  ASSUME IInv, NEW t \in Thread, DeleteDefunct(t) PROVE IInv'
<1> DEFINE u == call[t].on
           r == ToDefunct(kern, u)
<1>1. /\ KInv(kern) /\ call \in CallType /\ CallsAgree(kern, call)
  BY DEF IInv
<1>2. /\ u \in Thread /\ u # Idle /\ HeldThread(kern, call, t)
      /\ \A d \in Thread \ {t} : call[d].at \in Holding => call[d].on # u
      /\ kern.cur = t /\ Queued(kern, t) /\ kern.stat[t] = "ready" /\ isr = "none"
  BY HolderFacts DEF DeleteDefunct, Holding, Runs
<1>3. /\ kern' = r /\ call' = [call EXCEPT ![t] = To("app", Idle)] /\ isr' = isr
      /\ call[t].at = "closed"
  BY DEF DeleteDefunct, Return, InApp, To, Runs
<1> HIDE DEF u
<1>4. /\ ~Linked(kern, u) /\ u # t /\ kern.stat[u] = "close" /\ call[u].at \notin Holding
  BY <1>1, <1>2, <1>3 DEF CallsAgree, HeldThread, Holding, u
<1>5. /\ KInv(r) /\ OnlyAbout(u, kern, r) /\ r.stat = kern.stat /\ r.cur = kern.cur
  BY <1>1, <1>2, <1>4, DefunctInv DEF ToDefunct
<1>6. Queued(r, t) /\ r.slice = kern.slice
  BY <1>1, <1>2, <1>4, <1>5, SameQueued DEF KInv, KernelState, ToDefunct
<1> HIDE DEF r
<1>7. /\ call'[t].at = "app" /\ call'[u] = call[u]
      /\ "app" \notin Holding /\ "app" \in Place
  BY <1>1, <1>3, <1>4 DEF CallType, To, Holding, Place
<1>8. HeldThread(r, call', t)
  BY <1>7 DEF HeldThread
<1>9. Acts(kern, call, t, u, r, call', "app", Idle)
  BY <1>2, <1>3, <1>4, <1>5, <1>6, <1>7, <1>8, ThreadAssumption DEF Acts, u
<1>10. CallsAgree(r, call') /\ call' \in CallType
  BY <1>1, <1>2, <1>5, <1>9, ActsOn
<1> QED
  BY <1>2, <1>3, <1>5, <1>10, NextIInv

LEMMA ExitStep ==
  ASSUME IInv, RulesKept, NEW t \in Thread, Exit(t) PROVE IInv'
<1> DEFINE v == RemoveThread(kern, t)
           m == TimerStop(v, t)
           r == Closed(m, t)
<1>1. /\ KInv(kern) /\ call \in CallType /\ CallsAgree(kern, call)
      /\ kern \in KernelState
  BY DEF IInv, KInv
<1>2. /\ kern.cur = t /\ call[t].at = "app" /\ isr = "none"
  BY InAppFacts DEF Exit
<1>3. /\ kern' = r /\ call' = [call EXCEPT ![t] = To("exit", Idle)] /\ isr' = isr
      /\ t # Idle /\ kern.nest = 0
  BY DEF Exit, Goto, MayBlock, RulesKept
<1>4. /\ KInv(v) /\ OnlyAbout(t, kern, v) /\ ~Linked(v, t)
      /\ v.cur = kern.cur /\ v.slice = kern.slice
  BY <1>1, <1>3, RemoveInv, SliceKept
<1> HIDE DEF v
<1>5. /\ KInv(m) /\ OnlyAbout(t, v, m) /\ t \notin m.armed
      /\ m.list = v.list /\ m.cur = v.cur /\ m.slice = v.slice
  BY <1>4, TimerStopInv, SliceKept DEF KInv
<1> HIDE DEF m
<1>6. ~Linked(m, t)
  BY <1>4, <1>5 DEF Linked
<1>7. /\ KInv(r) /\ OnlyAbout(t, m, r)
      /\ r.stat[t] = "close" /\ r.cur = m.cur /\ r.slice = m.slice
  BY <1>5, <1>6, ClosedInv
<1> HIDE DEF r
<1>8. OnlyAbout(t, kern, r) /\ r.nest = 0
  BY <1>3, <1>4, <1>5, <1>7 DEF OnlyAbout
<1>9. /\ call'[t].at = "exit" /\ "exit" \notin Holding /\ "exit" \in Place
      /\ call[t].at \notin Holding
  BY <1>1, <1>2, <1>3 DEF CallType, To, Holding, Place
<1>10. HeldThread(r, call', t)
  BY <1>9 DEF HeldThread
<1>11. \A d \in Thread : call[d].at \in Holding => call[d].on # t
  BY FreeOfClaims DEF Exit
<1>12. Acts(kern, call, t, t, r, call', "exit", Idle)
  BY <1>2, <1>3, <1>4, <1>5, <1>7, <1>8, <1>9, <1>10, <1>11, ThreadAssumption DEF Acts
<1>13. CallsAgree(r, call') /\ call' \in CallType
  BY <1>1, <1>7, <1>12, ActsOn
<1> QED
  BY <1>2, <1>3, <1>7, <1>13, NextIInv

LEMMA ExitScheduleStep ==
  ASSUME IInv, NEW t \in Thread, ExitSchedule(t) PROVE IInv'
<1>1. /\ KInv(kern) /\ call \in CallType /\ CallsAgree(kern, call)
  BY DEF IInv
<1>2. kern' = Schedule(kern) /\ call' = call /\ isr' = isr /\ isr = "none"
  BY DEF ExitSchedule, Runs
<1>3. KInv(kern') /\ CallsAgree(kern', call)
  BY <1>1, <1>2, ScheduleCalls
<1> QED
  BY <1>1, <1>2, <1>3, NextIInv

LEMMA EnterCriticalStep ==
  ASSUME IInv, NEW t \in Thread, EnterCritical(t) PROVE IInv'
<1> DEFINE r == [kern EXCEPT !.nest = @ + 1]
<1>1. /\ KInv(kern) /\ call \in CallType /\ CallsAgree(kern, call)
      /\ kern \in KernelState
  BY DEF IInv, KInv
<1>2. /\ kern.cur = t /\ Queued(kern, t) /\ call[t].at = "app" /\ isr = "none"
  BY InAppFacts DEF EnterCritical
<1>3. kern' = r /\ call' = call /\ isr' = isr
  BY DEF EnterCritical
<1>4. /\ r \in KernelState /\ r.list = kern.list /\ r.group = kern.group
      /\ r.stat = kern.stat /\ r.prio = kern.prio /\ r.slice = kern.slice
      /\ r.armed = kern.armed /\ r.cur = kern.cur
  <2>1. kern.nest + 1 \in Nat
    BY <1>1 DEF KernelState
  <2> QED
    BY <1>1, <2>1 DEF KernelState
<1> HIDE DEF r
<1>5. KInv(r)
  BY <1>1, <1>4, SameKInv
<1>6. ASSUME NEW d \in Thread PROVE HeldThread(r, call, d)
  BY <1>1, <1>4 DEF CallsAgree, HeldThread, Linked
<1>7. Current(r, call)
  BY <1>2, <1>4 DEF Current, Queued
<1>8. CallsAgree(r, call)
  BY <1>1, <1>4, <1>6, <1>7 DEF CallsAgree, Queued
<1> QED
  BY <1>1, <1>2, <1>3, <1>5, <1>8, NextIInv

LEMMA ExitCriticalStep ==
  ASSUME IInv, NEW t \in Thread, ExitCritical(t) PROVE IInv'
<1> DEFINE n == IF kern.nest = 0 THEN 0 ELSE kern.nest - 1
           r == [kern EXCEPT !.nest = n]
<1>1. /\ KInv(kern) /\ call \in CallType /\ CallsAgree(kern, call)
      /\ kern \in KernelState
  BY DEF IInv, KInv
<1>2. /\ kern.cur = t /\ Queued(kern, t) /\ call[t].at = "app" /\ isr = "none"
  BY InAppFacts DEF ExitCritical
<1>3. /\ kern' = r /\ isr' = isr
      /\ call' = call \/ call' = [call EXCEPT ![t] = To("schedule", Idle)]
  BY DEF ExitCritical, Goto
<1>4. /\ r \in KernelState /\ r.list = kern.list /\ r.group = kern.group
      /\ r.stat = kern.stat /\ r.prio = kern.prio /\ r.slice = kern.slice
      /\ r.armed = kern.armed /\ r.cur = kern.cur
  <2>1. n \in Nat
    BY <1>1 DEF KernelState
  <2> HIDE DEF n
  <2> QED
    BY <1>1, <2>1 DEF KernelState
<1> HIDE DEF r
<1>5. KInv(r)
  BY <1>1, <1>4, SameKInv
<1>6. ASSUME NEW d \in Thread PROVE HeldThread(r, call, d)
  BY <1>1, <1>4 DEF CallsAgree, HeldThread, Linked
<1>7. Current(r, call) /\ Queued(r, r.cur)
  BY <1>2, <1>4 DEF Current, Queued
<1>8. CallsAgree(r, call)
  BY <1>1, <1>4, <1>6, <1>7 DEF CallsAgree, Queued
<1>9. call[t].at \notin Holding /\ "schedule" \in Place \ Holding /\ Idle \in Thread
  BY <1>2, ThreadAssumption DEF Holding, Place
<1>10. CallsAgree(r, call') /\ call' \in CallType
  <2>1. CASE call' = call
    BY <2>1, <1>1, <1>8
  <2>2. CASE call' = [call EXCEPT ![t] = To("schedule", Idle)]
    BY <2>2, <1>1, <1>5, <1>7, <1>8, <1>9, MovesOn
  <2> QED
    BY <1>3, <2>1, <2>2
<1> QED
  BY <1>2, <1>3, <1>5, <1>10, NextIInv

LEMMA IdleReapStep ==
  ASSUME IInv, IdleReap PROVE IInv'
<1> DEFINE u == Head(kern.list[Defunct])
           m == Unlink(kern, u)
           r == Schedule(m)
<1>1. /\ KInv(kern) /\ call \in CallType /\ CallsAgree(kern, call)
      /\ kern \in KernelState /\ StatAgrees(kern) /\ TimersAgree(kern)
  BY DEF IInv, KInv
<1>2. /\ kern.cur = Idle /\ Queued(kern, Idle) /\ kern.stat[Idle] = "ready"
      /\ call[Idle].at = "app" /\ isr = "none"
  BY InAppFacts, ThreadAssumption DEF IdleReap
<1>3. /\ kern' = r /\ isr' = isr /\ kern.list[Defunct] # << >>
      /\ call' = call \/ call' = [call EXCEPT ![Idle] = To("free", u)]
  BY DEF IdleReap, Goto
<1>4. u \in Thread /\ Contains(kern.list[Defunct], u)
  <2>1. kern.list[Defunct] \in Seq(Thread)
    BY <1>1, ListKeys DEF KernelState
  <2>2. 1 \in 1 .. Len(kern.list[Defunct]) /\ u = kern.list[Defunct][1]
    BY <1>3, <2>1
  <2> QED
    BY <2>1, <2>2 DEF Contains
<1> HIDE DEF u
<1>5. /\ kern.stat[u] = "close" /\ u # Idle /\ u \notin kern.armed /\ Linked(kern, u)
  BY <1>1, <1>2, <1>4, ListKeys DEF StatAgrees, TimersAgree, Linked
<1>6. /\ KInv(m) /\ OnlyAbout(u, kern, m) /\ ~Linked(m, u)
      /\ m.stat = kern.stat /\ m.cur = kern.cur /\ m.armed = kern.armed
      /\ m.slice = kern.slice
  BY <1>1, <1>4, <1>5, UnlinkInv, SliceKept
<1> HIDE DEF m
<1>7. Queued(m, Idle)
  BY <1>6 DEF KInv
<1>8. \A d \in Thread : call[d].at \in Holding => call[d].on # u
  BY <1>1, <1>5 DEF CallsAgree, HeldThread, Holding
<1>9. call[u].at \notin Holding
  BY <1>1, <1>4, <1>5 DEF CallsAgree
<1>10. CallsAgree(m, call') /\ call' \in CallType
  <2>1. CASE call' = call
    <3>1. ActsHere(kern, call, Idle, u, m)
      BY <1>2, <1>5, <1>6, <1>7, <1>8, <1>9 DEF ActsHere
    <3> QED
      BY <2>1, <3>1, <1>1, <1>4, <1>6, ActsInApp, ThreadAssumption
  <2>2. CASE call' = [call EXCEPT ![Idle] = To("free", u)]
    <3>1. /\ call'[Idle] = To("free", u) /\ call'[u] = call[u]
          /\ "free" \in Place /\ call[Idle].at \notin Holding
      BY <2>2, <1>1, <1>2, <1>5, ThreadAssumption DEF CallType, Place, Holding
    <3>2. HeldThread(m, call', Idle)
      BY <1>2, <1>5, <1>6, <3>1 DEF HeldThread, Holding, To
    <3>3. Acts(kern, call, Idle, u, m, call', "free", u)
      BY <2>2, <1>2, <1>4, <1>5, <1>6, <1>7, <1>8, <1>9, <3>1, <3>2 DEF Acts
    <3> QED
      BY <3>3, <1>1, <1>4, <1>6, ActsOn, ThreadAssumption
  <2> QED
    BY <1>3, <2>1, <2>2
<1>11. KInv(r) /\ CallsAgree(r, call')
  BY <1>6, <1>10, ScheduleCalls
<1> QED
  BY <1>2, <1>3, <1>10, <1>11, NextIInv

LEMMA IdleFreeStep ==
  ASSUME IInv, IdleFree PROVE IInv'
<1> DEFINE u == call[Idle].on
           r == [kern EXCEPT !.stat[u] = "none"]
<1>1. /\ KInv(kern) /\ call \in CallType /\ CallsAgree(kern, call)
  BY DEF IInv
<1>2. /\ u \in Thread /\ u # Idle /\ HeldThread(kern, call, Idle)
      /\ \A d \in Thread \ {Idle} : call[d].at \in Holding => call[d].on # u
      /\ kern.cur = Idle /\ Queued(kern, Idle) /\ kern.stat[Idle] = "ready" /\ isr = "none"
  BY HolderFacts, ThreadAssumption DEF IdleFree, Holding, Runs
<1>3. /\ kern' = r /\ call' = [call EXCEPT ![Idle] = To("app", Idle)] /\ isr' = isr
      /\ call[Idle].at = "free"
  BY DEF IdleFree, Return, InApp, To, Runs
<1> HIDE DEF u
<1>4. /\ ~Linked(kern, u) /\ u \notin kern.armed /\ u # Idle /\ kern.stat[u] = "close"
  BY <1>2, <1>3 DEF HeldThread, Holding, u
<1>5. call[u].at \notin Holding /\ "none" \in Stat
  BY <1>1, <1>2, <1>4 DEF CallsAgree, Stat
<1>6. /\ KInv(r) /\ OnlyAbout(u, kern, r) /\ r.stat[u] = "none" /\ r.cur = kern.cur
  BY <1>1, <1>2, <1>4, <1>5, SetStatInv
<1>7. r.slice = kern.slice
  BY <1>1 DEF KInv, KernelState
<1> HIDE DEF r
<1>8. Queued(r, Idle)
  BY <1>6 DEF KInv
<1>9. /\ call'[Idle].at = "app" /\ call'[u] = call[u]
      /\ "app" \notin Holding /\ "app" \in Place
  BY <1>1, <1>3, <1>4, ThreadAssumption DEF CallType, To, Holding, Place
<1>10. HeldThread(r, call', Idle)
  BY <1>9 DEF HeldThread
<1>11. Acts(kern, call, Idle, u, r, call', "app", Idle)
  BY <1>2, <1>3, <1>4, <1>5, <1>6, <1>7, <1>8, <1>9, <1>10, ThreadAssumption DEF Acts, u
<1>12. CallsAgree(r, call') /\ call' \in CallType
  BY <1>1, <1>2, <1>6, <1>11, ActsOn, ThreadAssumption
<1> QED
  BY <1>2, <1>3, <1>6, <1>12, NextIInv

LEMMA ReclaimStep ==
  ASSUME IInv, RulesKept, NEW t \in Thread, NEW u \in Thread, Reclaim(t, u) PROVE IInv'
<1> DEFINE r == [kern EXCEPT !.stat[u] = "none"]
<1>1. /\ KInv(kern) /\ call \in CallType /\ CallsAgree(kern, call) /\ TimersAgree(kern)
  BY DEF IInv, KInv
<1>2. /\ kern.cur = t /\ Queued(kern, t) /\ kern.stat[t] = "ready"
      /\ call[t].at = "app" /\ isr = "none"
  BY InAppFacts DEF Reclaim, Calls
<1>3. /\ kern' = r /\ call' = call /\ isr' = isr
      /\ kern.stat[u] = "close" /\ ~Linked(kern, u) /\ u # t /\ u \notin kern.armed
  BY <1>1, <1>2 DEF Reclaim, TimersAgree
<1>4. call[u].at \notin Holding /\ "none" \in Stat
  BY <1>1, <1>3 DEF CallsAgree, Stat
<1>5. /\ KInv(r) /\ OnlyAbout(u, kern, r) /\ r.stat[u] = "none" /\ r.cur = kern.cur
  BY <1>1, <1>3, <1>4, SetStatInv
<1>6. r.slice = kern.slice
  BY <1>1 DEF KInv, KernelState
<1> HIDE DEF r
<1>7. Queued(r, t)
  BY <1>2, <1>3, <1>5, SameQueued
<1>8. \A d \in Thread : call[d].at \in Holding => call[d].on # u
  BY FreeOfClaims DEF Reclaim
<1>9. ActsHere(kern, call, t, u, r)
  BY <1>2, <1>4, <1>5, <1>6, <1>7, <1>8 DEF ActsHere
<1>10. CallsAgree(r, call)
  BY <1>1, <1>5, <1>9, ActsInApp
<1> QED
  BY <1>1, <1>2, <1>3, <1>5, <1>10, NextIInv

-----------------------------------------------------------------------------
(* The invariant and what follows from it *)

LEMMA StepInv ==
  ASSUME RulesKept, IInv, [Next]_vars PROVE IInv'
<1>1. CASE Interrupt
  BY <1>1, TickStep, TimerStep, TickDoneStep DEF Interrupt
<1>2. ASSUME NEW t \in Thread, ThreadStep(t) PROVE IInv'
  <2>1. ASSUME NEW u \in Thread,
               \/ Create(t, u) \/ Startup(t, u) \/ ThreadResume(t, u)
               \/ SuspendTest(t, u) \/ DeleteRemove(t, u) \/ Reclaim(t, u)
        PROVE  IInv'
    BY <2>1, CreateStep, StartupStep, ResumeStep, SuspendTestStep, DeleteRemoveStep,
       ReclaimStep
  <2>2. ASSUME NEW u \in Thread, NEW p \in NewPrio, ThreadPriority(t, u, p) PROVE IInv'
    BY <2>2, PriorityStep
  <2>3. ASSUME NEW n \in 0 .. MaxDelay, Sleep(t, n) PROVE IInv'
    BY <2>3, SleepStep, BoundAssumption
  <2>4. ASSUME \/ ResumeInsert(t) \/ Reschedule(t) \/ ThreadSuspend(t) \/ ThreadYield(t)
               \/ SleepSchedule(t) \/ Slept(t) \/ DeleteTimer(t) \/ DeleteClose(t)
               \/ DeleteDefunct(t) \/ Exit(t) \/ ExitSchedule(t)
               \/ EnterCritical(t) \/ ExitCritical(t)
        PROVE  IInv'
    BY <2>4, ResumeInsertStep, RescheduleStep, SuspendStep, YieldStep, SleepScheduleStep,
       SleptStep, DeleteTimerStep, DeleteCloseStep, DeleteDefunctStep, ExitStep, ExitScheduleStep,
       EnterCriticalStep, ExitCriticalStep
  <2> QED
    BY <1>2, <2>1, <2>2, <2>3, <2>4 DEF ThreadStep
<1>3. CASE IdleReap \/ IdleFree
  BY <1>3, IdleReapStep, IdleFreeStep
<1>4. CASE UNCHANGED vars
  BY <1>4 DEF vars, IInv
<1> QED
  BY <1>1, <1>2, <1>3, <1>4 DEF Next

(* IInv holds in every reachable state of an application that keeps the      *)
(* rules.                                                                    *)
THEOREM Invariance ==
  ASSUME RulesKept PROVE Spec => []IInv
<1>1. Init => IInv
  BY InitInv
<1>2. IInv /\ [Next]_vars => IInv'
  BY StepInv
<1> QED
  BY <1>1, <1>2, PTL DEF Spec

(* Every reachable state is a kernel state, and every call at a known place. *)
THEOREM TypeCorrect ==
  ASSUME RulesKept PROVE Spec => []TypeOK
<1>1. IInv => TypeOK
  BY DEF IInv, TypeOK, KInv, CallType
<1> QED
  BY <1>1, Invariance, PTL

(* A thread's list node is on at most one list, once.                        *)
THEOREM ListsStayLists ==
  ASSUME RulesKept PROVE Spec => []OneList
<1>1. IInv => OneList
  BY DEF IInv, OneList, KInv
<1> QED
  BY <1>1, Invariance, PTL

(* The ready bit map says which ready lists have a thread.                   *)
THEOREM GroupCorrect ==
  ASSUME RulesKept PROVE Spec => []GroupMatchesLists
<1>1. IInv => GroupMatchesLists
  BY DEF IInv, GroupMatchesLists, KInv
<1> QED
  BY <1>1, Invariance, PTL

(* stat and current_priority say on which list a thread is.                  *)
THEOREM StatCorrect ==
  ASSUME RulesKept PROVE Spec => []StatMatchesLists
<1>1. IInv => StatMatchesLists
  <2> SUFFICES ASSUME IInv, NEW t \in Thread, kern.stat[t] = "ready"
               PROVE  Contains(kern.list[Ready(kern.prio[t])], t) \/ BeingDeleted(call, t)
    BY DEF StatMatchesLists, TimerOnlySuspended, IInv, KInv
  <2>1. Queued(kern, t) \/ BeingDeleted(call, t)
    BY DEF IInv, CallsAgree
  <2> QED
    BY <2>1, QueuedReady DEF IInv, KInv
<1> QED
  BY <1>1, Invariance, PTL

(* The assertion of rt_thread_timeout: only suspended threads time out.      *)
THEOREM TimeoutAssertion ==
  ASSUME RulesKept PROVE Spec => []TimerOnlySuspended
<1>1. IInv => TimerOnlySuspended
  BY DEF IInv, TimerOnlySuspended, KInv
<1> QED
  BY <1>1, Invariance, PTL

(* Application code runs only in threads that are READY.                     *)
THEOREM RunningIsReady ==
  ASSUME RulesKept PROVE Spec => []OnlyReadyRuns
<1>1. IInv => OnlyReadyRuns
  <2> SUFFICES ASSUME IInv, isr = "none", call[kern.cur].at = "app"
               PROVE  kern.stat[kern.cur] = "ready"
    BY DEF OnlyReadyRuns
  <2>1. kern.cur \in Thread /\ StatAgrees(kern) /\ Queued(kern, kern.cur)
    BY DEF IInv, KInv, KernelState, CallsAgree, Current
  <2> QED
    BY <2>1, QueuedReady
<1> QED
  BY <1>1, Invariance, PTL

(* An interrupted call finds the thread it is about as it left it.           *)
THEOREM CallsGoOn ==
  ASSUME RulesKept PROVE Spec => []CallsHold
<1>1. IInv => CallsHold
  BY DEF IInv, CallsHold
<1> QED
  BY <1>1, Invariance, PTL

(* "The thread object will be removed from thread queue": with the rules     *)
(* kept a closed thread is on no ready list; without the rule "timers" this  *)
(* is false (the finding RtThread_detach).                                   *)
THEOREM ClosedOffQueue ==
  ASSUME RulesKept PROVE Spec => []ClosedIsOffQueue
<1>1. IInv => ClosedIsOffQueue
  BY DEF IInv, KInv, StatAgrees, ClosedIsOffQueue
<1> QED
  BY <1>1, Invariance, PTL

-----------------------------------------------------------------------------
(* The most urgent thread runs.  Top says so of the threads instead of the   *)
(* lists; TopInv is OnTop in these words.                                    *)

Leaving == {"schedule", "block", "exit"}

Top(k) == \A x \in Thread : Queued(k, x) => k.prio[k.cur] <= k.prio[x]

TopInv == kern.nest = 0 /\ call[kern.cur].at \notin Leaving => Top(kern)

\* what a step with rt_schedule, or without need of it, does
KeepsTop == (TopInv => TopInv') /\ (kern'.cur # kern.cur => Top(kern'))

LEMMA TopMostUrgent ==
  ASSUME NEW k, KInv(k) PROVE Top(k) <=> MostUrgent(k)
<1>1. /\ StatAgrees(k) /\ k.prio \in [Thread -> Prio]
      /\ \A p \in Prio : k.list[Ready(p)] \in Seq(Thread)
  BY ListKeys DEF KInv, KernelState
<1>2. ASSUME Top(k), NEW p \in Prio, k.list[Ready(p)] # << >>
      PROVE  k.prio[k.cur] <= p
  <2>1. PICK x \in Thread : Contains(k.list[Ready(p)], x)
    BY <1>1, <1>2, EmptyMember
  <2>2. Queued(k, x) /\ k.prio[x] = p
    BY <1>1, <2>1 DEF Queued, StatAgrees
  <2> QED
    BY <1>2, <2>2 DEF Top
<1>3. ASSUME MostUrgent(k), NEW x \in Thread, Queued(k, x)
      PROVE  k.prio[k.cur] <= k.prio[x]
  <2>1. Contains(k.list[Ready(k.prio[x])], x) /\ k.prio[x] \in Prio
    BY <1>1, <1>3, QueuedReady
  <2>2. k.list[Ready(k.prio[x])] # << >>
    BY <1>1, <2>1, EmptyMember
  <2> QED
    BY <1>3, <2>1, <2>2 DEF MostUrgent
<1> QED
  BY <1>2, <1>3 DEF Top, MostUrgent

(* rt_schedule picks the most urgent thread.                                 *)
LEMMA ScheduleTop ==
  ASSUME NEW k, KInv(k), k.nest = 0 PROVE Top(Schedule(k))
<1> DEFINE r == Schedule(k)
<1>1. /\ r.list = k.list /\ r.prio = k.prio
      /\ \E p \in Prio : Contains(k.list[Ready(p)], r.cur) /\ \A q \in k.group : p <= q
  BY ScheduleEffect, GroupNotEmpty DEF KInv
<1>2. KInv(r)
  BY ScheduleInv
<1> HIDE DEF r
<1>3. PICK p \in Prio : Contains(k.list[Ready(p)], r.cur) /\ \A q \in k.group : p <= q
  BY <1>1
<1>4. r.cur \in Thread /\ k.prio[r.cur] = p
  BY <1>2, <1>3 DEF KInv, KernelState, StatAgrees
<1>5. ASSUME NEW x \in Thread, Queued(r, x) PROVE p <= k.prio[x]
  <2>1. PICK q \in Prio : Contains(k.list[Ready(q)], x)
    BY <1>1, <1>5 DEF Queued
  <2>2. k.prio[x] = q
    BY <2>1 DEF KInv, StatAgrees
  <2>3. k.list[Ready(q)] # << >>
    <3>1. k.list[Ready(q)] \in Seq(Thread)
      BY ListKeys DEF KInv, KernelState
    <3> QED
      BY <2>1, <3>1, EmptyMember
  <2>4. q \in k.group
    BY <2>3 DEF KInv, GroupAgrees
  <2> QED
    BY <1>3, <2>2, <2>4
<1> QED
  BY <1>1, <1>4, <1>5 DEF Top, r

(* The current thread goes on, and nobody becomes ready.                     *)
Calm(k, r) ==
  /\ r.cur = k.cur /\ r.nest = k.nest /\ r.prio[k.cur] = k.prio[k.cur]
  /\ \A x \in Thread : Queued(r, x) => Queued(k, x) /\ r.prio[x] = k.prio[x]

LEMMA CalmTop ==
  ASSUME Calm(kern, kern'), call[kern.cur].at \notin Leaving PROVE KeepsTop
  BY DEF KeepsTop, TopInv, Calm, Top

LEMMA SameTop ==
  ASSUME NEW k, NEW r, r.list = k.list, r.prio = k.prio, r.cur = k.cur, r.nest = k.nest
  PROVE  Calm(k, r)
  BY DEF Calm, Queued

(* Taking a thread out of its list makes nobody ready.                       *)
LEMMA OutCalm ==
  ASSUME NEW k \in KernelState, NEW t \in Thread, Disjoint(k)
  PROVE  /\ Calm(k, Unlink(k, t)) /\ Calm(k, RemoveThread(k, t))
         /\ Calm(k, Suspend(k, t)) /\ Calm(k, Detached(k, t))
<1> DEFINE u == Unlink(k, t)
<1>1. /\ SameExceptLists(k, u) /\ u \in KernelState
      /\ \A l \in List : \A x : Contains(u.list[l], x) => Contains(k.list[l], x)
  BY UnlinkEffect
<1>2. Calm(k, u)
  BY <1>1, ListKeys DEF Calm, SameExceptLists, Queued
<1>3. ASSUME NEW r, r.list = u.list, r.prio = u.prio, r.cur = u.cur, r.nest = u.nest
      PROVE  Calm(k, r)
  BY <1>2, <1>3 DEF Calm, Queued
<1>4. LET r == RemoveThread(k, t) IN
      r.list = u.list /\ r.prio = u.prio /\ r.cur = u.cur /\ r.nest = u.nest
  BY <1>1 DEF RemoveThread, KernelState
<1>5. LET r == Suspend(k, t) IN
      r.list = u.list /\ r.prio = u.prio /\ r.cur = u.cur /\ r.nest = u.nest
  BY DEF Suspend, TimerStop, RemoveThread, Unlink, KernelState
<1>6. LET r == Detached(k, t) IN
      r.list = u.list /\ r.prio = u.prio /\ r.cur = u.cur /\ r.nest = u.nest
  BY <1>1 DEF Detached, TimerStop, KernelState
<1> HIDE DEF u
<1> QED
  BY <1>2, <1>3, <1>4, <1>5, <1>6 DEF u

\* what the step lemmas need of IInv
LEMMA TopFacts ==
  ASSUME IInv
  PROVE  /\ KInv(kern) /\ kern \in KernelState /\ Disjoint(kern) /\ StatAgrees(kern)
         /\ call \in CallType /\ CallsAgree(kern, call)
         /\ kern.cur \in Thread /\ kern.nest \in Nat
  BY DEF IInv, KInv, KernelState

(* Calls that change at most one other thread, or leave towards rt_schedule. *)
LEMMA CallTop ==
  ASSUME IInv, IInv', RulesKept, NEW t \in Thread, NEW u \in Thread,
         \/ Create(t, u) \/ Startup(t, u) \/ ThreadResume(t, u)
         \/ SuspendTest(t, u) \/ DeleteRemove(t, u) \/ Reclaim(t, u)
  PROVE  KeepsTop
<1>0. /\ KInv(kern) /\ kern \in KernelState /\ Disjoint(kern) /\ StatAgrees(kern)
      /\ call \in CallType
  BY TopFacts
<1>1. /\ kern.cur = t /\ Queued(kern, t) /\ kern.stat[t] = "ready" /\ call[t].at = "app"
      /\ call[kern.cur].at \notin Leaving
  BY InAppFacts
     DEF Create, Startup, ThreadResume, SuspendTest, DeleteRemove, Reclaim, Calls, Leaving
<1>2. CASE Create(t, u)
  <2>1. u # t
    BY <1>1, <1>2 DEF Create
  <2>2. /\ kern'.list = kern.list /\ kern'.cur = kern.cur /\ kern'.nest = kern.nest
        /\ kern'.prio = [kern.prio EXCEPT ![u] = InitPrio[u]]
    BY <1>0, <1>2 DEF Create, KernelState
  <2>3. ~Queued(kern, u)
    BY <1>0, <1>2, QueuedReady DEF Create
  <2>4. Calm(kern, kern')
    BY <1>0, <1>1, <2>1, <2>2, <2>3 DEF Calm, Queued, KernelState
  <2> QED
    BY <1>1, <2>4, CalmTop
<1>3. CASE Startup(t, u)
  <2> DEFINE m == [kern EXCEPT !.prio[u] = InitPrio[u], !.stat[u] = "suspend"]
  <2>1. u # t /\ ~Queued(kern, u)
    BY <1>0, <1>1, <1>3, QueuedReady DEF Startup
  <2>2. /\ m \in KernelState /\ m.list = kern.list /\ m.cur = kern.cur /\ m.nest = kern.nest
        /\ m.prio = [kern.prio EXCEPT ![u] = InitPrio[u]]
    BY <1>0, PrioAssumption DEF KernelState, Stat
  <2>3. kern' = Detached(m, u)
    BY <1>3 DEF Startup
  <2> HIDE DEF m
  <2>4. Calm(kern, m)
    BY <1>0, <1>1, <2>1, <2>2 DEF Calm, Queued, KernelState
  <2>5. Disjoint(m)
    BY <1>0, <2>2 DEF Disjoint
  <2>6. Calm(m, kern')
    BY <2>2, <2>3, <2>5, OutCalm
  <2>7. Calm(kern, kern')
    BY <2>4, <2>6 DEF Calm
  <2> QED
    BY <1>1, <2>7, CalmTop
<1>4. CASE ThreadResume(t, u)
  BY <1>0, <1>1, <1>4, OutCalm, CalmTop DEF ThreadResume
<1>5. CASE SuspendTest(t, u)
  BY <1>1, <1>5, SameTop, CalmTop DEF SuspendTest
<1>6. CASE DeleteRemove(t, u)
  BY <1>0, <1>1, <1>6, OutCalm, SameTop, CalmTop DEF DeleteRemove
<1>7. CASE Reclaim(t, u)
  <2>1. /\ kern'.list = kern.list /\ kern'.prio = kern.prio
        /\ kern'.cur = kern.cur /\ kern'.nest = kern.nest
    BY <1>0, <1>7 DEF Reclaim, KernelState
  <2> QED
    BY <1>1, <2>1, SameTop, CalmTop
<1> QED
  BY <1>2, <1>3, <1>4, <1>5, <1>6, <1>7

(* Calls of the current thread about itself, and calls that go on, but for   *)
(* the end of rt_thread_resume.                                              *)
LEMMA OwnTop ==
  ASSUME IInv, IInv', RulesKept, NEW t \in Thread,
         \/ (call[t].at # "resume" /\ ResumeInsert(t))
         \/ Reschedule(t) \/ ThreadSuspend(t) \/ ThreadYield(t)
         \/ (\E n \in 0 .. MaxDelay : Sleep(t, n))
         \/ SleepSchedule(t) \/ Slept(t)
         \/ DeleteTimer(t) \/ DeleteClose(t) \/ DeleteDefunct(t)
         \/ Exit(t) \/ ExitSchedule(t) \/ EnterCritical(t) \/ ExitCritical(t)
  PROVE  KeepsTop
<1>0. /\ KInv(kern) /\ kern \in KernelState /\ Disjoint(kern) /\ StatAgrees(kern)
      /\ call \in CallType /\ CallsAgree(kern, call) /\ kern.nest \in Nat
      /\ KInv(kern')
  BY TopFacts DEF IInv
<1>1. kern.cur = t /\ isr = "none"
  BY DEF ResumeInsert, Reschedule, ThreadSuspend, ThreadYield, Sleep, SleepSchedule, Slept,
         DeleteTimer, DeleteClose, DeleteDefunct, Exit, ExitSchedule, EnterCritical,
         ExitCritical, Runs
<1>2. ASSUME kern'.cur = t, call'[t].at \in Leaving PROVE KeepsTop
  BY <1>1, <1>2 DEF KeepsTop, TopInv
<1>3. ASSUME kern' = Schedule(kern) PROVE KeepsTop
  BY <1>0, <1>3, ScheduleTop, ScheduleInv DEF KeepsTop, TopInv
<1>4. ASSUME NEW pl, NEW w, Goto(t, pl, w), pl \in Leaving PROVE call'[t].at \in Leaving
  BY <1>0, <1>4 DEF Goto, To, CallType
<1>5. CASE call[t].at # "resume" /\ ResumeInsert(t)
  <2>1. kern'.cur = t
    BY <1>0, <1>1, <1>5 DEF ResumeInsert, InsertThread, KernelState
  <2> QED
    BY <1>2, <1>4, <1>5, <2>1 DEF ResumeInsert, Leaving
<1>6. CASE Reschedule(t) \/ SleepSchedule(t) \/ ExitSchedule(t)
  BY <1>3, <1>6 DEF Reschedule, SleepSchedule, ExitSchedule
<1>7. CASE ThreadSuspend(t)
  <2>1. kern'.cur = t
    BY <1>0, <1>1, <1>7
       DEF ThreadSuspend, Suspend, RemoveThread, Unlink, TimerStop, KernelState
  <2>2. CASE call[t].on = t
    BY <1>2, <1>4, <1>7, <2>1, <2>2 DEF ThreadSuspend, Leaving
  <2>3. CASE call[t].on # t
    <3>1. kern' = Suspend(kern, call[t].on) /\ call[t].on \in Thread
          /\ call[kern.cur].at \notin Leaving
      BY <1>0, <1>1, <1>7 DEF ThreadSuspend, Runs, Leaving, CallType
    <3> QED
      BY <1>0, <3>1, OutCalm, CalmTop
  <2> QED
    BY <2>2, <2>3
<1>8. CASE ThreadYield(t)
  <2>1. kern'.cur = t
    BY <1>0, <1>1, <1>8 DEF ThreadYield, ToTail, Unlink, KernelState
  <2> QED
    BY <1>2, <1>4, <1>8, <2>1 DEF ThreadYield, Leaving
<1>9. ASSUME NEW n \in 0 .. MaxDelay, Sleep(t, n) PROVE KeepsTop
  <2>1. kern'.cur = t
    BY <1>0, <1>1, <1>9
       DEF Sleep, TimerStart, Suspend, RemoveThread, Unlink, TimerStop, KernelState
  <2> QED
    BY <1>2, <1>4, <1>9, <2>1 DEF Sleep, Leaving
<1>10. CASE Slept(t) \/ DeleteTimer(t)
  <2>1. /\ kern'.list = kern.list /\ kern'.prio = kern.prio
        /\ kern'.cur = kern.cur /\ kern'.nest = kern.nest
    BY <1>0, <1>10 DEF Slept, DeleteTimer, TimerStop, KernelState
  <2>2. call[kern.cur].at \notin Leaving
    BY <1>1, <1>10 DEF Slept, DeleteTimer, Runs, Leaving
  <2> QED
    BY <2>1, <2>2, SameTop, CalmTop
<1>11. CASE DeleteClose(t) \/ DeleteDefunct(t)
  <2>1. /\ kern'.prio = kern.prio /\ kern'.cur = kern.cur /\ kern'.nest = kern.nest
        /\ \A p \in Prio : kern'.list[Ready(p)] = kern.list[Ready(p)]
    BY <1>0, <1>11, ListKeys DEF DeleteClose, DeleteDefunct, ToDefunct, KernelState
  <2>2. call[kern.cur].at \notin Leaving
    BY <1>1, <1>11 DEF DeleteClose, DeleteDefunct, Runs, Leaving
  <2>3. Calm(kern, kern')
    BY <2>1 DEF Calm, Queued
  <2> QED
    BY <2>2, <2>3, CalmTop
<1>12. CASE Exit(t)
  <2>1. kern'.cur = t
    BY <1>0, <1>1, <1>12
       DEF Exit, Closed, ToDefunct, RemoveThread, Unlink, TimerStop, KernelState
  <2> QED
    BY <1>2, <1>4, <1>12, <2>1 DEF Exit, Leaving
<1>13. CASE EnterCritical(t)
  <2>1. kern'.nest # 0 /\ kern'.cur = kern.cur
    BY <1>0, <1>13 DEF EnterCritical, KernelState
  <2> QED
    BY <2>1 DEF KeepsTop, TopInv
<1>14. CASE ExitCritical(t)
  <2>1. kern'.cur = t /\ kern'.nest = IF kern.nest = 0 THEN 0 ELSE kern.nest - 1
    BY <1>0, <1>1, <1>14 DEF ExitCritical, KernelState
  <2>2. CASE kern.nest <= 1
    BY <1>2, <1>4, <1>14, <2>1, <2>2 DEF ExitCritical, Leaving
  <2>3. CASE ~(kern.nest <= 1)
    <3>1. kern'.nest # 0
      BY <1>0, <2>1, <2>3
    <3> QED
      BY <1>1, <2>1, <3>1 DEF KeepsTop, TopInv
  <2> QED
    BY <2>2, <2>3
<1> QED
  BY <1>5, <1>6, <1>7, <1>8, <1>9, <1>10, <1>11, <1>12, <1>13, <1>14

(* The idle thread and the tick.                                             *)
LEMMA OtherTop ==
  ASSUME IInv, IInv', Interrupt \/ IdleReap \/ IdleFree
  PROVE  KeepsTop
<1>0. /\ KInv(kern) /\ kern \in KernelState /\ Disjoint(kern) /\ StatAgrees(kern)
      /\ call \in CallType /\ CallsAgree(kern, call) /\ kern.nest \in Nat
      /\ KInv(kern') /\ kern.cur \in Thread
  BY TopFacts DEF IInv
<1>1. ASSUME NEW m, kern' = Schedule(m), KInv(m), m.cur = kern.cur PROVE KeepsTop
  BY <1>1, ScheduleTop, ScheduleInv DEF KeepsTop, TopInv
<1>2. CASE Tick
  <2> DEFINE s == SliceTick(kern)
  <2>1. /\ kern'.list = s.list /\ kern'.prio = s.prio /\ kern'.cur = s.cur
        /\ kern'.nest = s.nest /\ call' = call
    <3>1. s \in KernelState
      BY <1>0, RunsQueued, SliceTickInv DEF CallsAgree, KInv
    <3> HIDE DEF s
    <3> QED
      BY <1>2, <3>1 DEF Tick, TimersTick, KernelState, s
  <2>2. CASE s.list = kern.list /\ s.prio = kern.prio /\ s.cur = kern.cur /\ s.nest = kern.nest
    <3> HIDE DEF s
    <3>1. Calm(kern, kern') /\ kern'.cur = kern.cur
      BY <2>1, <2>2, SameTop
    <3>2. CASE call[kern.cur].at \notin Leaving
      BY <3>1, <3>2, CalmTop
    <3>3. CASE call[kern.cur].at \in Leaving
      BY <2>1, <3>1, <3>3 DEF KeepsTop, TopInv
    <3> QED
      BY <3>2, <3>3
  <2>3. ASSUME NEW m, s = Schedule(m), KInv(m), m.cur = kern.cur PROVE KeepsTop
    <3>1. Schedule(m).nest = m.nest /\ (m.nest # 0 => Schedule(m).cur = kern.cur)
      BY <2>3, ScheduleInv
    <3>2. m.nest = 0 => Top(Schedule(m))
      BY <2>3, ScheduleTop
    <3> HIDE DEF s
    <3>3. Top(s) => Top(kern')
      BY <2>1 DEF Top, Queued
    <3>4. kern'.nest = 0 => Top(kern')
      BY <2>1, <2>3, <3>1, <3>2, <3>3
    <3>5. kern'.nest # 0 => kern'.cur = kern.cur
      BY <2>1, <2>3, <3>1
    <3> QED
      BY <3>4, <3>5 DEF KeepsTop, TopInv
  <2>4. CASE kern.slice[kern.cur] = 1
    <3> DEFINE m == [kern EXCEPT !.slice[kern.cur] = InitTick[kern.cur]]
               t == kern.cur
    <3>1. /\ m \in KernelState /\ m.list = kern.list /\ m.group = kern.group
          /\ m.stat = kern.stat /\ m.prio = kern.prio /\ m.armed = kern.armed
          /\ m.cur = kern.cur /\ m.nest = kern.nest
      BY <1>0, TickAssumption DEF KernelState
    <3>2. s = Yield(m)
      BY <2>4 DEF SliceTick
    <3> HIDE DEF m, s
    <3>3. KInv(m)
      BY <1>0, <3>1, SameKInv
    <3>4. CASE m.stat[m.cur] = "ready" /\ ~Alone(m, m.cur)
      <4>1. KInv(ToTail(m, m.cur))
        BY <1>0, <3>1, <3>3, <3>4, RunsQueued, ToTailInv DEF KernelState
      <4>2. ToTail(m, m.cur).cur = kern.cur
        BY <1>0, <3>1 DEF ToTail, Unlink, KernelState
      <4> QED
        BY <2>3, <3>2, <3>4, <4>1, <4>2 DEF Yield
    <3>5. CASE ~(m.stat[m.cur] = "ready" /\ ~Alone(m, m.cur))
      BY <2>2, <3>1, <3>2, <3>5 DEF Yield
    <3> QED
      BY <3>4, <3>5
  <2>5. CASE kern.slice[kern.cur] # 1
    BY <1>0, <2>2, <2>5 DEF SliceTick, KernelState
  <2> QED
    BY <2>4, <2>5
<1>3. ASSUME NEW u \in Thread, TimerFires(u) PROVE KeepsTop
  <2>1. kern.stat[u] = "suspend" /\ kern' = Timeout(kern, u)
    BY <1>0, <1>3 DEF TimerFires, Due, KInv, TimersAgree
  <2>2. PICK m : KInv(m) /\ m.cur = kern.cur /\ Timeout(kern, u) = Schedule(m)
    BY <1>0, <2>1, TimeoutSchedules
  <2> QED
    BY <1>1, <2>1, <2>2
<1>4. CASE TickDone
  <2>1. kern' = kern /\ call' = call
    BY <1>4 DEF TickDone
  <2> QED
    BY <2>1 DEF KeepsTop, TopInv
<1>5. CASE IdleReap
  <2> DEFINE u == Head(kern.list[Defunct])
  <2>1. u \in Thread /\ kern.stat[u] # "ready"
    <3>1. kern.list[Defunct] \in Seq(Thread) /\ kern.list[Defunct] # << >>
      BY <1>0, <1>5, ListKeys DEF KernelState, IdleReap
    <3>2. Contains(kern.list[Defunct], u) /\ u \in Thread
      BY <3>1 DEF Contains
    <3> QED
      BY <1>0, <3>2 DEF StatAgrees
  <2>2. /\ KInv(Unlink(kern, u)) /\ Unlink(kern, u).cur = kern.cur
        /\ kern' = Schedule(Unlink(kern, u))
    BY <1>0, <1>5, <2>1, UnlinkInv DEF IdleReap
  <2> QED
    BY <1>1, <2>2
<1>6. CASE IdleFree
  <2>1. /\ kern'.list = kern.list /\ kern'.prio = kern.prio
        /\ kern'.cur = kern.cur /\ kern'.nest = kern.nest
    BY <1>0, <1>6 DEF IdleFree, KernelState
  <2>2. call[kern.cur].at \notin Leaving
    BY <1>6 DEF IdleFree, Runs, Leaving
  <2> QED
    BY <2>1, <2>2, SameTop, CalmTop
<1> QED
  BY <1>2, <1>3, <1>4, <1>5, <1>6 DEF Interrupt

(* Strict priority: the processor goes to a most urgent thread only, and a   *)
(* ready thread more urgent than the one that executes comes about by the    *)
(* end of rt_thread_resume or by a change of priority alone.                 *)
THEOREM MostUrgentRuns ==
  ASSUME RulesKept PROVE Spec => HighestRuns
<1>1. Init => OnTop(kern, call)
  <2> SUFFICES ASSUME Init PROVE MostUrgent(Boot)
    BY DEF Init, OnTop
  <2>1. PICK m : KInv(m) /\ m.nest = 0 /\ Boot = Schedule(m)
    BY BootSchedules
  <2> QED
    BY <2>1, ScheduleTop, ScheduleInv, TopMostUrgent
<1>2. IInv /\ IInv' /\ [Next]_vars => [StaysOnTop]_vars
  <2> SUFFICES ASSUME IInv, IInv', Next PROVE StaysOnTop
    OBVIOUS
  <2>1. KInv(kern) /\ KInv(kern') /\ kern \in KernelState /\ call \in CallType
    BY DEF IInv, KInv
  <2>2. /\ TopInv <=> OnTop(kern, call)
        /\ TopInv' <=> OnTop(kern', call')
        /\ Top(kern') <=> MostUrgent(kern')
    BY <2>1, TopMostUrgent DEF TopInv, OnTop, Leaving
  <2>3. ASSUME KeepsTop PROVE StaysOnTop
    BY <2>2, <2>3 DEF KeepsTop, StaysOnTop
  <2>4. ASSUME Unscheduled, kern'.cur = kern.cur PROVE StaysOnTop
    BY <2>4 DEF StaysOnTop
  <2>5. ASSUME NEW t \in Thread, ThreadStep(t) PROVE StaysOnTop
    <3>1. CASE call[t].at = "resume" /\ ResumeInsert(t)
      <4>1. kern'.cur = kern.cur
        BY <2>1, <3>1 DEF ResumeInsert, InsertThread, KernelState
      <4> QED
        BY <2>4, <3>1, <4>1 DEF Unscheduled
    <3>2. ASSUME NEW u \in Thread, NEW p \in NewPrio, ThreadPriority(t, u, p)
          PROVE  StaysOnTop
      <4>1. kern'.cur = kern.cur
        BY <2>1, <3>2
           DEF ThreadPriority, ChangePriority, InsertThread, RemoveThread, Unlink, KernelState
      <4> QED
        BY <2>4, <3>2, <4>1 DEF Unscheduled
    <3> QED
      BY <2>3, <2>5, <3>1, <3>2, CallTop, OwnTop DEF ThreadStep
  <2> QED
    BY <2>3, <2>5, OtherTop DEF Next
<1> QED
  BY <1>1, <1>2, Invariance, PTL DEF Spec, HighestRuns

-----------------------------------------------------------------------------
(* First in, first out among equals.                                         *)

\* what NoOvertaking asks of one ready list, q before and r after the step,
\* c the thread that was current
Orderly(q, r, c) ==
  \A x, y \in 1 .. Len(r) :
    /\ x < y /\ Contains(q, r[y])
    /\ r[y] # c \/ ~Contains(q, r[x])
    => \E i, j \in 1 .. Len(q) : i < j /\ q[i] = r[x] /\ q[j] = r[y]

(* The four things a step may do to a ready list.                            *)
LEMMA OrderlySteps ==
  ASSUME NEW S, NEW q \in Seq(S), NEW c
  PROVE  /\ Orderly(q, q, c)
         /\ \A t : Orderly(q, Without(q, t), c)
         /\ \A t \in S : ~Contains(q, t) => Orderly(q, Append(q, t), c)
         /\ c \in S => Orderly(q, Append(Without(q, c), c), c)
<1>1. Orderly(q, q, c)
  BY DEF Orderly
<1>2. ASSUME NEW t PROVE Orderly(q, Without(q, t), c)
  BY WithoutOrder DEF Orderly
<1>3. ASSUME NEW t \in S, ~Contains(q, t) PROVE Orderly(q, Append(q, t), c)
  <2> DEFINE r == Append(q, t)
  <2>1. /\ Len(q) \in Nat /\ Len(r) = Len(q) + 1 /\ r[Len(q) + 1] = t
        /\ \A i \in 1 .. Len(q) : r[i] = q[i]
    BY AppendProperties
  <2> HIDE DEF r
  <2> SUFFICES ASSUME NEW x \in 1 .. Len(r), NEW y \in 1 .. Len(r), x < y,
                      Contains(q, r[y])
               PROVE  \E i, j \in 1 .. Len(q) : i < j /\ q[i] = r[x] /\ q[j] = r[y]
    BY DEF Orderly, r
  <2>2. y # Len(q) + 1
    BY <1>3, <2>1
  <2>3. x \in 1 .. Len(q) /\ y \in 1 .. Len(q)
    BY <2>1, <2>2
  <2> QED
    BY <2>1, <2>3
<1>4. ASSUME c \in S PROVE Orderly(q, Append(Without(q, c), c), c)
  <2> DEFINE w == Without(q, c)
             r == Append(w, c)
  <2>1. w \in Seq(S)
    BY WithoutProperties
  <2>2. \A x, y \in 1 .. Len(w) : x < y =>
          \E i, j \in 1 .. Len(q) : i < j /\ q[i] = w[x] /\ q[j] = w[y]
    BY WithoutOrder
  <2>3. \A x \in 1 .. Len(w) : Contains(q, w[x])
    <3> TAKE x \in 1 .. Len(w)
    <3>1. CASE ~Contains(q, c)
      BY <3>1 DEF Without, Contains
    <3>2. CASE Contains(q, c)
      <4> DEFINE m == CHOOSE i \in 1 .. Len(q) : q[i] = c
      <4>1. m \in 1 .. Len(q)
        BY <3>2 DEF Contains
      <4>2. w = RemoveAt(q, m)
        BY <3>2 DEF Without
      <4> HIDE DEF m
      <4>3. /\ Len(w) = Len(q) - 1
            /\ \A j \in 1 .. Len(q) - 1 : w[j] = IF j < m THEN q[j] ELSE q[j + 1]
        BY <4>1, <4>2, RemoveAtProperties
      <4> HIDE DEF w
      <4>4. x \in 1 .. Len(q) - 1 /\ x + 1 \in 1 .. Len(q) /\ x \in 1 .. Len(q)
        BY <4>3 DEF w
      <4> QED
        BY <4>3, <4>4 DEF Contains, w
    <3> QED
      BY <3>1, <3>2
  <2> HIDE DEF w
  <2>4. /\ Len(w) \in Nat /\ Len(r) = Len(w) + 1 /\ r[Len(w) + 1] = c
        /\ \A i \in 1 .. Len(w) : r[i] = w[i]
    BY <1>4, <2>1, AppendProperties
  <2> HIDE DEF r
  <2> SUFFICES ASSUME NEW x \in 1 .. Len(r), NEW y \in 1 .. Len(r), x < y,
                      r[y] # c \/ ~Contains(q, r[x])
               PROVE  \E i, j \in 1 .. Len(q) : i < j /\ q[i] = r[x] /\ q[j] = r[y]
    BY DEF Orderly, r, w
  <2>5. x \in 1 .. Len(w) /\ r[x] = w[x]
    BY <2>4
  <2>6. y # Len(w) + 1
    BY <2>3, <2>4, <2>5
  <2>7. y \in 1 .. Len(w) /\ r[y] = w[y]
    BY <2>4, <2>6
  <2> QED
    BY <2>2, <2>5, <2>7
<1> QED
  BY <1>1, <1>2, <1>3, <1>4

\* a step is in order when every ready list is
InOrder(k, r, c) == \A p \in Prio : Orderly(k.list[Ready(p)], r.list[Ready(p)], c)

(* The primitives of the scheduler are in order.                             *)
LEMMA PrimitivesInOrder ==
  ASSUME NEW k \in KernelState, NEW t \in Thread, NEW c
  PROVE  /\ InOrder(k, k, c)
         /\ \A r : (\A p \in Prio : r.list[Ready(p)] = k.list[Ready(p)]) => InOrder(k, r, c)
         /\ InOrder(k, Unlink(k, t), c)
         /\ InOrder(k, RemoveThread(k, t), c)
         /\ InOrder(k, Suspend(k, t), c)
         /\ InOrder(k, Detached(k, t), c)
         /\ ~Queued(k, t) => InOrder(k, InsertThread(k, t), c)
         /\ InOrder(k, ToTail(k, t), t)
<1>1. \A p \in Prio : k.list[Ready(p)] \in Seq(Thread) /\ Ready(p) \in List
  BY ListKeys DEF KernelState
<1>2. \A r : (\A p \in Prio : r.list[Ready(p)] = k.list[Ready(p)]) => InOrder(k, r, c)
  BY <1>1, OrderlySteps DEF InOrder
<1>3. ASSUME NEW r, r.list = Unlink(k, t).list PROVE InOrder(k, r, c)
  <2>1. \A p \in Prio : r.list[Ready(p)] = Without(k.list[Ready(p)], t)
    BY <1>1, <1>3 DEF Unlink, KernelState
  <2> QED
    BY <1>1, <2>1, OrderlySteps DEF InOrder
<1>4. RemoveThread(k, t).list = Unlink(k, t).list
  BY DEF RemoveThread, Unlink, KernelState
<1>5. Suspend(k, t).list = Unlink(k, t).list
  BY DEF Suspend, TimerStop, RemoveThread, Unlink, KernelState
<1>6. Detached(k, t).list = Unlink(k, t).list
  BY DEF Detached, TimerStop, Unlink, KernelState
<1>7. ASSUME ~Queued(k, t) PROVE InOrder(k, InsertThread(k, t), c)
  <2> SUFFICES ASSUME NEW p \in Prio
               PROVE  Orderly(k.list[Ready(p)], InsertThread(k, t).list[Ready(p)], c)
    BY DEF InOrder
  <2>1. InsertThread(k, t).list[Ready(p)] \in {k.list[Ready(p)], Append(k.list[Ready(p)], t)}
    BY <1>1, ListKeys DEF InsertThread, KernelState
  <2>2. ~Contains(k.list[Ready(p)], t)
    BY <1>7 DEF Queued
  <2> QED
    BY <1>1, <2>1, <2>2, OrderlySteps
<1>8. InOrder(k, ToTail(k, t), t)
  <2> SUFFICES ASSUME NEW p \in Prio
               PROVE  Orderly(k.list[Ready(p)], ToTail(k, t).list[Ready(p)], t)
    BY DEF InOrder
  <2> DEFINE w == Without(k.list[Ready(p)], t)
  <2>1. ToTail(k, t).list[Ready(p)] \in {w, Append(w, t)}
    BY <1>1, ListKeys DEF ToTail, Unlink, KernelState
  <2> QED
    BY <1>1, <2>1, OrderlySteps
<1> QED
  BY <1>2, <1>3, <1>4, <1>5, <1>6, <1>7, <1>8

(* No step of the application, the tick or the idle thread overtakes, as     *)
(* long as nobody changes a priority.                                        *)
LEMMA StepInOrder ==
  ASSUME IInv, NewPrio = {}, Next PROVE InOrder(kern, kern', kern.cur)
<1> DEFINE c == kern.cur
<1>0. /\ KInv(kern) /\ kern \in KernelState /\ StatAgrees(kern)
      /\ call \in CallType /\ CallsAgree(kern, call) /\ c \in Thread
      /\ \A p \in Prio : Ready(p) \in List
  BY TopFacts, ListKeys
<1>1. ASSUME \A p \in Prio : kern'.list[Ready(p)] = kern.list[Ready(p)]
      PROVE  InOrder(kern, kern', c)
  BY <1>0, <1>1, PrimitivesInOrder
<1>2. ASSUME NEW t \in Thread, ThreadStep(t) PROVE InOrder(kern, kern', c)
  <2>1. ASSUME NEW u \in Thread,
               \/ Create(t, u) \/ Startup(t, u) \/ ThreadResume(t, u)
               \/ SuspendTest(t, u) \/ DeleteRemove(t, u) \/ Reclaim(t, u)
        PROVE  InOrder(kern, kern', c)
    <3>1. CASE Create(t, u) \/ SuspendTest(t, u) \/ Reclaim(t, u)
      BY <1>0, <1>1, <3>1 DEF Create, SuspendTest, Reclaim, KernelState
    <3>2. CASE Startup(t, u)
      <4> DEFINE m == [kern EXCEPT !.prio[u] = InitPrio[u], !.stat[u] = "suspend"]
      <4>1. m \in KernelState /\ m.list = kern.list
        BY <1>0, PrioAssumption DEF KernelState, Stat
      <4>2. kern' = Detached(m, u)
        BY <3>2 DEF Startup
      <4> HIDE DEF m
      <4>3. InOrder(m, kern', c)
        BY <4>1, <4>2, PrimitivesInOrder
      <4> QED
        BY <4>1, <4>3 DEF InOrder
    <3>3. CASE ThreadResume(t, u)
      BY <1>0, <3>3, PrimitivesInOrder DEF ThreadResume
    <3>4. CASE DeleteRemove(t, u)
      BY <1>0, <3>4, PrimitivesInOrder DEF DeleteRemove
    <3> QED
      BY <2>1, <3>1, <3>2, <3>3, <3>4
  <2>2. ASSUME NEW n \in 0 .. MaxDelay, Sleep(t, n) PROVE InOrder(kern, kern', c)
    <3>1. kern'.list = Suspend(kern, t).list
      BY <2>2 DEF Sleep, TimerStart, Suspend, RemoveThread, Unlink, TimerStop, KernelState
    <3>2. InOrder(kern, Suspend(kern, t), c)
      BY <1>0, PrimitivesInOrder
    <3> QED
      BY <3>1, <3>2 DEF InOrder
  <2>3. CASE ResumeInsert(t)
    <3> DEFINE u == call[t].on
    <3>1. u \in Thread /\ ~Linked(kern, u) /\ kern' = InsertThread(kern, u)
      BY <1>0, <2>3 DEF ResumeInsert, CallsAgree, HeldThread, Holding, CallType
    <3>2. ~Queued(kern, u)
      BY <1>0, <3>1 DEF Queued, Linked
    <3> QED
      BY <1>0, <3>1, <3>2, PrimitivesInOrder
  <2>4. CASE Reschedule(t) \/ SleepSchedule(t) \/ ExitSchedule(t)
    BY <1>0, <1>1, <2>4, ScheduleInv DEF Reschedule, SleepSchedule, ExitSchedule
  <2>5. CASE ThreadSuspend(t)
    BY <1>0, <2>5, PrimitivesInOrder DEF ThreadSuspend, CallType
  <2>6. CASE ThreadYield(t)
    BY <1>0, <2>6, PrimitivesInOrder DEF ThreadYield, Runs
  <2>7. CASE Slept(t) \/ DeleteTimer(t) \/ EnterCritical(t) \/ ExitCritical(t)
    BY <1>0, <1>1, <2>7
       DEF Slept, DeleteTimer, TimerStop, EnterCritical, ExitCritical, KernelState
  <2>8. CASE DeleteClose(t) \/ DeleteDefunct(t)
    BY <1>0, <1>1, <2>8, ListKeys DEF DeleteClose, DeleteDefunct, ToDefunct, KernelState
  <2>9. CASE Exit(t)
    <3>1. \A p \in Prio : kern'.list[Ready(p)] = RemoveThread(kern, t).list[Ready(p)]
      BY <1>0, <2>9, ListKeys
         DEF Exit, Closed, ToDefunct, RemoveThread, Unlink, TimerStop, KernelState
    <3>2. InOrder(kern, RemoveThread(kern, t), c)
      BY <1>0, PrimitivesInOrder
    <3> QED
      BY <3>1, <3>2 DEF InOrder
  <2> QED
    BY <1>2, <2>1, <2>2, <2>3, <2>4, <2>5, <2>6, <2>7, <2>8, <2>9 DEF ThreadStep
<1>3. CASE Tick
  <2>1. kern'.list = SliceTick(kern).list
    BY <1>0, <1>3 DEF Tick, TimersTick, SliceTick, Yield, Schedule, ToTail, Unlink, KernelState
  <2>2. \/ SliceTick(kern).list = kern.list
        \/ SliceTick(kern).list = ToTail(kern, c).list
    BY <1>0 DEF SliceTick, Yield, Schedule, ToTail, Unlink, KernelState
  <2>3. InOrder(kern, ToTail(kern, c), c)
    BY <1>0, PrimitivesInOrder
  <2> QED
    BY <1>1, <2>1, <2>2, <2>3 DEF InOrder
<1>4. ASSUME NEW u \in Thread, TimerFires(u) PROVE InOrder(kern, kern', c)
  <2> DEFINE m == [TimerStop(kern, u) EXCEPT !.error[u] = "timeout"]
             w == Unlink(m, u)
  <2>1. kern.stat[u] = "suspend" /\ kern' = Schedule(InsertThread(w, u))
    BY <1>0, <1>4 DEF TimerFires, Due, Timeout, KInv, TimersAgree
  <2>2. m \in KernelState /\ m.list = kern.list
    BY <1>0 DEF TimerStop, KernelState, Error
  <2>3. \A p \in Prio : ~Contains(kern.list[Ready(p)], u)
    BY <1>0, <2>1 DEF StatAgrees
  <2> HIDE DEF m
  <2>4. /\ w \in KernelState
        /\ \A p \in Prio : w.list[Ready(p)] = kern.list[Ready(p)]
    <3>1. Disjoint(m)
      BY <1>0, <2>2 DEF KInv, Disjoint
    <3>2. w \in KernelState
      BY <2>2, <3>1, UnlinkEffect
    <3> QED
      BY <1>0, <2>2, <2>3, <3>2 DEF Unlink, KernelState, Without
  <2> HIDE DEF w
  <2>5. InOrder(w, InsertThread(w, u), c)
    BY <2>3, <2>4, PrimitivesInOrder DEF Queued
  <2>6. kern'.list = InsertThread(w, u).list
    BY <2>1, <2>4 DEF Schedule, InsertThread, KernelState
  <2> QED
    BY <2>4, <2>5, <2>6 DEF InOrder
<1>5. CASE TickDone
  BY <1>1, <1>5 DEF TickDone
<1>6. CASE IdleReap
  <2> DEFINE u == Head(kern.list[Defunct])
  <2>1. u \in Thread
    BY <1>0, <1>6, ListKeys DEF KernelState, IdleReap
  <2>2. kern'.list = Unlink(kern, u).list
    BY <1>6 DEF IdleReap, Schedule, Unlink, KernelState
  <2>3. InOrder(kern, Unlink(kern, u), c)
    BY <1>0, <2>1, PrimitivesInOrder
  <2> QED
    BY <2>2, <2>3 DEF InOrder
<1>7. CASE IdleFree
  BY <1>0, <1>1, <1>7 DEF IdleFree, KernelState
<1> QED
  BY <1>2, <1>3, <1>4, <1>5, <1>6, <1>7 DEF Next, Interrupt

(* The action property: a thread gets ahead of another one on a ready list   *)
(* only when that one is the current thread and goes to the tail.            *)
THEOREM FifoAmongEquals ==
  ASSUME RulesKept, NewPrio = {} PROVE Spec => NoOvertaking
<1>1. IInv /\ [Next]_vars => [InOrder(kern, kern', kern.cur)]_vars
  BY StepInOrder
<1>2. NoOvertaking <=> [][InOrder(kern, kern', kern.cur)]_vars
  BY DEF NoOvertaking, InOrder, Orderly
<1> QED
  BY <1>1, <1>2, Invariance, PTL DEF Spec

=============================================================================

--------------------------- MODULE RtKernel_proofs ---------------------------
(***************************************************************************)
(* What the primitives of RtKernel preserve, for any number of threads,    *)
(* priorities and suspend lists.                                           *)
(***************************************************************************)
EXTENDS RtKernel, Lists_proofs

-----------------------------------------------------------------------------
(* The list heads *)

(* List heads of different kinds, or for different priorities, differ.      *)
LEMMA ListKeys ==
  /\ Defunct \in List
  /\ \A p \in Prio : Ready(p) \in List /\ Ready(p) # Defunct
  /\ \A p, r \in Prio : Ready(p) = Ready(r) => p = r
  /\ \A q \in WaitList : Wait(q) \in List /\ Wait(q) # Defunct
  /\ \A q \in WaitList, p \in Prio : Wait(q) # Ready(p)
  /\ \A q, w \in WaitList : Wait(q) = Wait(w) => q = w
  BY DEF List, Ready, Wait, Defunct

(* The fields a list operation leaves alone.                                *)
SameExceptLists(k, r) ==
  /\ r.stat = k.stat /\ r.prio = k.prio /\ r.slice = k.slice /\ r.error = k.error
  /\ r.armed = k.armed /\ r.left = k.left /\ r.cur = k.cur /\ r.nest = k.nest

(* rt_list_remove takes one thread out and disturbs no other.               *)
LEMMA UnlinkEffect ==
  ASSUME NEW k \in KernelState, NEW t \in Thread, Disjoint(k)
  PROVE  /\ Unlink(k, t) \in KernelState
         /\ Disjoint(Unlink(k, t))
         /\ SameExceptLists(k, Unlink(k, t))
         /\ Unlink(k, t).group = k.group
         /\ \A l \in List : \A x : Contains(Unlink(k, t).list[l], x)
                                  <=> Contains(k.list[l], x) /\ x # t
<1> DEFINE u == Unlink(k, t)
<1>1. \A l \in List : k.list[l] \in Seq(Thread) /\ IsInjective(k.list[l])
  BY DEF KernelState, Disjoint
<1>2. \A l \in List : u.list[l] = Without(k.list[l], t)
  BY DEF Unlink, KernelState
<1>3. \A l \in List : /\ u.list[l] \in Seq(Thread) /\ IsInjective(u.list[l])
                      /\ \A x : Contains(u.list[l], x) <=> Contains(k.list[l], x) /\ x # t
  BY <1>1, <1>2, WithoutProperties
<1>4. /\ u.list = [l \in List |-> Without(k.list[l], t)]
      /\ SameExceptLists(k, u) /\ u.group = k.group
  BY DEF Unlink, KernelState, SameExceptLists
<1>5. u.list \in [List -> Seq(Thread)]
  BY <1>2, <1>3, <1>4
<1>6. u \in KernelState
  BY <1>5 DEF Unlink, KernelState
<1>7. Disjoint(u)
  BY <1>3 DEF Disjoint
<1> QED
  BY <1>3, <1>4, <1>6, <1>7

(* rt_schedule_remove_thread keeps the bit map and the ready lists in step, *)
(* provided a queued thread is on the list of its current priority.         *)
LEMMA RemoveEffect ==
  ASSUME NEW k \in KernelState, NEW t \in Thread, Disjoint(k), GroupAgrees(k),
         \A p \in Prio : Contains(k.list[Ready(p)], t) => p = k.prio[t]
  PROVE  /\ RemoveThread(k, t) \in KernelState
         /\ Disjoint(RemoveThread(k, t))
         /\ GroupAgrees(RemoveThread(k, t))
         /\ SameExceptLists(k, RemoveThread(k, t))
         /\ \A l \in List : \A x : Contains(RemoveThread(k, t).list[l], x)
                                  <=> Contains(k.list[l], x) /\ x # t
<1> DEFINE u == Unlink(k, t)
           r == RemoveThread(k, t)
           p0 == k.prio[t]
<1>1. /\ u \in KernelState /\ Disjoint(u) /\ SameExceptLists(k, u) /\ u.group = k.group
      /\ \A l \in List : \A x : Contains(u.list[l], x) <=> Contains(k.list[l], x) /\ x # t
  BY UnlinkEffect
<1> HIDE DEF u
<1>2. r = [u EXCEPT !.group = IF u.list[Ready(p0)] = << >> THEN @ \ {p0} ELSE @]
  BY DEF RemoveThread, u
<1> HIDE DEF r
<1>3. /\ r.list = u.list /\ SameExceptLists(k, r)
      /\ r.group = IF u.list[Ready(p0)] = << >> THEN k.group \ {p0} ELSE k.group
  BY <1>1, <1>2 DEF KernelState, SameExceptLists
<1>4. r \in KernelState
  BY <1>1, <1>2 DEF KernelState
<1>5. Disjoint(r)
  BY <1>1, <1>3 DEF Disjoint
<1>6. ASSUME NEW p \in Prio PROVE p \in r.group <=> r.list[Ready(p)] # << >>
  <2>1. /\ k.list[Ready(p)] \in Seq(Thread) /\ u.list[Ready(p)] \in Seq(Thread)
        /\ Ready(p) \in List
    BY <1>1, ListKeys DEF KernelState
  <2>2. CASE p = p0
    <3>1. ASSUME u.list[Ready(p)] # << >> PROVE k.list[Ready(p)] # << >>
      <4>1. PICK x \in Thread : Contains(u.list[Ready(p)], x)
        BY <2>1, <3>1, EmptyMember
      <4>2. Contains(k.list[Ready(p)], x)
        BY <2>1, <4>1, <1>1
      <4> QED
        BY <2>1, <4>2, EmptyMember
    <3> QED
      BY <2>2, <3>1, <1>3 DEF GroupAgrees
  <2>3. CASE p # p0
    <3>1. \A x : Contains(u.list[Ready(p)], x) <=> Contains(k.list[Ready(p)], x)
      BY <2>1, <2>3, <1>1
    <3>2. u.list[Ready(p)] # << >> <=> k.list[Ready(p)] # << >>
      BY <2>1, <3>1, EmptyMember
    <3> QED
      BY <2>3, <3>2, <1>3 DEF GroupAgrees
  <2> QED
    BY <2>2, <2>3
<1>7. GroupAgrees(r)
  BY <1>6 DEF GroupAgrees
<1> QED
  BY <1>1, <1>3, <1>4, <1>5, <1>7 DEF r

(* rt_schedule_insert_thread of an unlinked thread.                         *)
LEMMA InsertEffect ==
  ASSUME NEW k \in KernelState, NEW t \in Thread, Disjoint(k), GroupAgrees(k),
         ~Linked(k, t)
  PROVE  LET r == InsertThread(k, t) IN
         /\ r \in KernelState
         /\ Disjoint(r)
         /\ GroupAgrees(r)
         /\ r.stat = [k.stat EXCEPT ![t] = "ready"]
         /\ r.prio = k.prio /\ r.slice = k.slice /\ r.error = k.error
         /\ r.armed = k.armed /\ r.left = k.left /\ r.cur = k.cur /\ r.nest = k.nest
         /\ \A l \in List : \A x : Contains(r.list[l], x)
              <=> Contains(k.list[l], x) \/ (l = Ready(k.prio[t]) /\ x = t)
<1> DEFINE r == InsertThread(k, t)
           p0 == k.prio[t]
           l0 == Ready(p0)
<1>1. p0 \in Prio /\ l0 \in List
  BY ListKeys DEF KernelState
<1>2. k.list[l0] \in Seq(Thread) /\ IsInjective(k.list[l0]) /\ ~Contains(k.list[l0], t)
  BY <1>1 DEF KernelState, Disjoint, Linked
<1> DEFINE a == Append(k.list[l0], t)
<1>3. /\ a \in Seq(Thread) /\ a # << >> /\ IsInjective(a)
      /\ \A x : Contains(a, x) <=> Contains(k.list[l0], x) \/ x = t
  BY <1>2, AppendMember
<1>4. r = [k EXCEPT !.stat[t] = "ready", !.list[l0] = a, !.group = @ \cup {p0}]
  BY DEF InsertThread
<1> HIDE DEF a, r
<1>5. /\ r.list = [k.list EXCEPT ![l0] = a]
      /\ r.stat = [k.stat EXCEPT ![t] = "ready"]
      /\ r.group = k.group \cup {p0}
      /\ r.prio = k.prio /\ r.slice = k.slice /\ r.error = k.error
      /\ r.armed = k.armed /\ r.left = k.left /\ r.cur = k.cur /\ r.nest = k.nest
  BY <1>4 DEF KernelState
<1>6. r \in KernelState
  <2>1. r.list \in [List -> Seq(Thread)]
    BY <1>1, <1>3, <1>5 DEF KernelState
  <2>2. r.stat \in [Thread -> Stat]
    BY <1>5 DEF KernelState, Stat
  <2>3. r.group \in SUBSET Prio
    BY <1>1, <1>5 DEF KernelState
  <2> QED
    BY <1>4, <2>1, <2>2, <2>3, <1>5 DEF KernelState
<1>7. \A l \in List : r.list[l] = IF l = l0 THEN a ELSE k.list[l]
  BY <1>5 DEF KernelState
<1>8. \A l \in List : \A x : Contains(r.list[l], x)
        <=> Contains(k.list[l], x) \/ (l = l0 /\ x = t)
  BY <1>3, <1>7
<1>9. Disjoint(r)
  <2>1. \A l \in List : IsInjective(r.list[l])
    BY <1>3, <1>7 DEF Disjoint
  <2>2. \A x \in Thread : \A l, m \in List :
          Contains(r.list[l], x) /\ Contains(r.list[m], x) => l = m
    BY <1>8 DEF Disjoint, Linked
  <2> QED
    BY <2>1, <2>2 DEF Disjoint
<1>10. GroupAgrees(r)
  <2> SUFFICES ASSUME NEW p \in Prio PROVE p \in r.group <=> r.list[Ready(p)] # << >>
    BY DEF GroupAgrees
  <2>1. Ready(p) \in List /\ (Ready(p) = l0 => p = p0)
    BY <1>1, ListKeys
  <2> QED
    BY <2>1, <1>3, <1>5, <1>7 DEF GroupAgrees
<1> QED
  BY <1>5, <1>6, <1>8, <1>9, <1>10 DEF r

(* rt_schedule picks a thread from a ready list when there is one, and      *)
(* changes nothing but rt_current_thread; with the scheduler locked it does *)
(* not even that.  The thread it picks has the most urgent ready priority.  *)
LEMMA ScheduleEffect ==
  ASSUME NEW k \in KernelState, GroupAgrees(k), k.group # {}
  PROVE  LET r == Schedule(k) IN
         /\ r \in KernelState
         /\ r.list = k.list /\ r.group = k.group /\ r.stat = k.stat /\ r.prio = k.prio
         /\ r.slice = k.slice /\ r.error = k.error /\ r.armed = k.armed
         /\ r.left = k.left /\ r.nest = k.nest
         /\ k.nest # 0 => r.cur = k.cur
         /\ k.nest = 0 => \E p \in Prio : /\ Contains(k.list[Ready(p)], r.cur)
                                        /\ \A q \in k.group : p <= q
<1> DEFINE r == Schedule(k)
           p == Highest(k)
<1>1. Prio \subseteq Nat
  BY PrioAssumption DEF Prio
<1>2. k.group \in SUBSET Nat
  BY <1>1 DEF KernelState
<1>3. p \in k.group /\ \A q \in k.group : p <= q
  <2>1. \E x \in k.group : \A y \in k.group : x <= y
    BY <1>2, LeastExists
  <2> QED
    BY <2>1 DEF Highest
<1> HIDE DEF p
<1>4. p \in Prio
  BY <1>3 DEF KernelState
<1>5. k.list[Ready(p)] # << >> /\ k.list[Ready(p)] \in Seq(Thread)
  BY <1>3, <1>4, ListKeys DEF GroupAgrees, KernelState
<1>6. ToThread(k) = Head(k.list[Ready(p)])
  BY DEF ToThread, p
<1>7. ToThread(k) \in Thread /\ Contains(k.list[Ready(p)], ToThread(k))
  <2>1. 1 \in 1 .. Len(k.list[Ready(p)]) /\ Head(k.list[Ready(p)]) = k.list[Ready(p)][1]
    BY <1>5
  <2> QED
    BY <1>5, <1>6, <2>1 DEF Contains
<1>8. CASE k.nest = 0
  <2>1. r = [k EXCEPT !.cur = ToThread(k)]
    BY <1>8 DEF Schedule
  <2> HIDE DEF r
  <2>2. r \in KernelState /\ r.cur = ToThread(k)
    BY <2>1, <1>7 DEF KernelState
  <2>3. /\ r.list = k.list /\ r.group = k.group /\ r.stat = k.stat /\ r.prio = k.prio
        /\ r.slice = k.slice /\ r.error = k.error /\ r.armed = k.armed
        /\ r.left = k.left /\ r.nest = k.nest
    BY <2>1 DEF KernelState
  <2> QED
    BY <1>3, <1>4, <1>7, <1>8, <2>2, <2>3 DEF r
<1>9. CASE k.nest # 0
  BY <1>9 DEF Schedule
<1> QED
  BY <1>8, <1>9

-----------------------------------------------------------------------------
(* The kernel invariant, primitive by primitive *)

(* The state between two masked sections: lists, bit map, stat and timers   *)
(* agree, and the idle thread is ready, so that there is a thread to run.   *)
KInv(k) ==
  /\ k \in KernelState
  /\ Disjoint(k) /\ GroupAgrees(k) /\ StatAgrees(k) /\ TimersAgree(k)
  /\ Queued(k, Idle)

KLists(k) ==
  /\ k \in KernelState
  /\ Disjoint(k) /\ GroupAgrees(k) /\ StatAgrees(k) /\ TimersAgree(k)

(* r differs from k at most in what concerns t, and in the current thread.  *)
OnlyAbout(t, k, r) ==
  /\ r.nest = k.nest
  /\ \A x \in Thread \ {t} :
       /\ r.stat[x] = k.stat[x] /\ r.prio[x] = k.prio[x]
       /\ x \in r.armed <=> x \in k.armed
       /\ \A l \in List : Contains(r.list[l], x) <=> Contains(k.list[l], x)

(* Fields that KInv does not relate to others may change at will.           *)
LEMMA SameKInv ==
  ASSUME NEW k, KInv(k), NEW r \in KernelState,
         r.list = k.list, r.group = k.group, r.stat = k.stat, r.prio = k.prio,
         r.armed = k.armed
  PROVE  KInv(r)
  BY DEF KInv, Disjoint, GroupAgrees, StatAgrees, TimersAgree, Queued

(* There is always a most urgent ready priority.                            *)
LEMMA GroupNotEmpty ==
  ASSUME NEW k, KInv(k) PROVE k.group # {}
<1>1. PICK p \in Prio : Contains(k.list[Ready(p)], Idle)
  BY DEF KInv, Queued
<1>2. k.list[Ready(p)] \in Seq(Thread)
  BY ListKeys DEF KInv, KernelState
<1>3. k.list[Ready(p)] # << >>
  BY <1>1, <1>2, EmptyMember, ThreadAssumption
<1> QED
  BY <1>3 DEF KInv, GroupAgrees

LEMMA ScheduleInv ==
  ASSUME NEW k, KInv(k)
  PROVE  /\ KInv(Schedule(k))
         /\ OnlyAbout(Idle, k, Schedule(k)) /\ Schedule(k).stat = k.stat
         /\ Schedule(k).armed = k.armed /\ Schedule(k).list = k.list
         /\ Schedule(k).prio = k.prio /\ Schedule(k).nest = k.nest
         /\ k.nest # 0 => Schedule(k).cur = k.cur
         /\ k.nest = 0 => Queued(k, Schedule(k).cur)
<1> DEFINE r == Schedule(k)
<1>1. k \in KernelState /\ GroupAgrees(k) /\ k.group # {}
  BY GroupNotEmpty DEF KInv
<1>2. /\ r \in KernelState
      /\ r.list = k.list /\ r.group = k.group /\ r.stat = k.stat /\ r.prio = k.prio
      /\ r.slice = k.slice /\ r.error = k.error /\ r.armed = k.armed
      /\ r.left = k.left /\ r.nest = k.nest
      /\ k.nest # 0 => r.cur = k.cur
      /\ k.nest = 0 => \E p \in Prio : Contains(k.list[Ready(p)], r.cur)
  BY <1>1, ScheduleEffect
<1> HIDE DEF r
<1>3. KInv(r)
  BY <1>2 DEF KInv, Disjoint, GroupAgrees, StatAgrees, TimersAgree, Queued
<1>4. k.nest = 0 => Queued(k, r.cur)
  BY <1>2 DEF Queued
<1> QED
  BY <1>2, <1>3, <1>4 DEF r, OnlyAbout

(* rt_schedule_insert_thread, before the idle thread need be there.         *)
LEMMA InsertLists ==
  ASSUME NEW k, KLists(k), NEW t \in Thread, ~Linked(k, t), t \notin k.armed
  PROVE  LET r == InsertThread(k, t) IN
         /\ KLists(r) /\ OnlyAbout(t, k, r)
         /\ r.stat[t] = "ready" /\ r.cur = k.cur /\ r.armed = k.armed
         /\ Queued(r, t) /\ \A x \in Thread : Queued(k, x) => Queued(r, x)
<1> DEFINE r == InsertThread(k, t)
<1>1. /\ r \in KernelState /\ Disjoint(r) /\ GroupAgrees(r)
      /\ r.stat = [k.stat EXCEPT ![t] = "ready"]
      /\ r.prio = k.prio /\ r.slice = k.slice /\ r.error = k.error
      /\ r.armed = k.armed /\ r.left = k.left /\ r.cur = k.cur /\ r.nest = k.nest
      /\ \A l \in List : \A x : Contains(r.list[l], x)
            <=> Contains(k.list[l], x) \/ (l = Ready(k.prio[t]) /\ x = t)
  BY InsertEffect DEF KLists
<1> HIDE DEF r
<1>2. k.prio[t] \in Prio /\ k.stat \in [Thread -> Stat]
  BY DEF KLists, KernelState
<1>3. StatAgrees(r)
  <2> SUFFICES ASSUME NEW x \in Thread
      PROVE /\ \A p \in Prio : Contains(r.list[Ready(p)], x)
                                  => r.stat[x] = "ready" /\ r.prio[x] = p
            /\ \A q \in WaitList : Contains(r.list[Wait(q)], x) => r.stat[x] = "suspend"
            /\ Contains(r.list[Defunct], x) => r.stat[x] = "close"
    BY DEF StatAgrees
  <2>1. CASE x = t
    BY <2>1, <1>1, <1>2, ListKeys DEF Linked
  <2>2. CASE x # t
    <3>1. /\ r.stat[x] = k.stat[x] /\ r.prio[x] = k.prio[x]
          /\ \A l \in List : Contains(r.list[l], x) <=> Contains(k.list[l], x)
      BY <2>2, <1>1, <1>2
    <3> QED
      BY <3>1, ListKeys DEF KLists, StatAgrees
  <2> QED
    BY <2>1, <2>2
<1>4. TimersAgree(r)
  BY <1>1, <1>2 DEF KLists, TimersAgree, KernelState
<1>5. KLists(r)
  BY <1>1, <1>3, <1>4 DEF KLists
<1>6. OnlyAbout(t, k, r)
  BY <1>1, <1>2 DEF OnlyAbout
<1>7. Queued(r, t)
  BY <1>1, <1>2, ListKeys DEF Queued
<1>8. \A x \in Thread : Queued(k, x) => Queued(r, x)
  BY <1>1, ListKeys DEF Queued
<1>9. r.stat[t] = "ready"
  BY <1>1, <1>2
<1> QED
  BY <1>1, <1>5, <1>6, <1>7, <1>8, <1>9 DEF r

LEMMA InsertInv ==
  ASSUME NEW k, KInv(k), NEW t \in Thread, ~Linked(k, t), t \notin k.armed
  PROVE  LET r == InsertThread(k, t) IN
         /\ KInv(r) /\ OnlyAbout(t, k, r)
         /\ r.stat[t] = "ready" /\ r.cur = k.cur /\ r.armed = k.armed
         /\ Queued(r, t)
  BY InsertLists, ThreadAssumption DEF KInv, KLists

(* rt_schedule_remove_thread and a new stat that fits an unlinked thread.   *)
LEMMA RemoveInv ==
  ASSUME NEW k, KInv(k), NEW t \in Thread, t # Idle
  PROVE  LET r == RemoveThread(k, t) IN
         /\ KInv(r) /\ OnlyAbout(t, k, r) /\ ~Linked(r, t)
         /\ r.stat = k.stat /\ r.cur = k.cur /\ r.armed = k.armed
<1> DEFINE r == RemoveThread(k, t)
<1>1. \A p \in Prio : Contains(k.list[Ready(p)], t) => p = k.prio[t]
  BY DEF KInv, StatAgrees
<1>2. /\ r \in KernelState /\ Disjoint(r) /\ GroupAgrees(r) /\ SameExceptLists(k, r)
      /\ \A l \in List : \A x : Contains(r.list[l], x) <=> Contains(k.list[l], x) /\ x # t
  BY <1>1, RemoveEffect DEF KInv
<1> HIDE DEF r
<1>3. StatAgrees(r)
  BY <1>2, ListKeys DEF KInv, StatAgrees, SameExceptLists
<1>4. TimersAgree(r)
  BY <1>2 DEF KInv, TimersAgree, SameExceptLists
<1>5. Queued(r, Idle)
  BY <1>2, ListKeys DEF KInv, Queued
<1> QED
  BY <1>2, <1>3, <1>4, <1>5 DEF KInv, OnlyAbout, SameExceptLists, Linked, r

(* A new stat for an unlinked thread without a timer.                       *)
LEMMA SetStatInv ==
  ASSUME NEW k, KInv(k), NEW t \in Thread, ~Linked(k, t), NEW st \in Stat,
         t \notin k.armed \/ st = "suspend"
  PROVE  LET r == [k EXCEPT !.stat[t] = st] IN
         /\ KInv(r) /\ OnlyAbout(t, k, r) /\ ~Linked(r, t)
         /\ r.stat[t] = st /\ r.cur = k.cur /\ r.armed = k.armed
<1> DEFINE r == [k EXCEPT !.stat[t] = st]
<1>1. /\ r \in KernelState /\ r.stat = [k.stat EXCEPT ![t] = st]
      /\ r.list = k.list /\ r.group = k.group /\ r.prio = k.prio /\ r.nest = k.nest
      /\ r.armed = k.armed /\ r.cur = k.cur
  BY DEF KInv, KernelState
<1>2. k.stat \in [Thread -> Stat] /\ k.armed \in SUBSET Thread
  BY DEF KInv, KernelState
<1> HIDE DEF r
<1>3. StatAgrees(r)
  <2> SUFFICES ASSUME NEW x \in Thread
      PROVE /\ \A p \in Prio : Contains(r.list[Ready(p)], x)
                                  => r.stat[x] = "ready" /\ r.prio[x] = p
            /\ \A q \in WaitList : Contains(r.list[Wait(q)], x) => r.stat[x] = "suspend"
            /\ Contains(r.list[Defunct], x) => r.stat[x] = "close"
    BY DEF StatAgrees
  <2>1. CASE x = t
    BY <2>1, <1>1, ListKeys DEF Linked
  <2>2. CASE x # t
    <3>1. r.stat[x] = k.stat[x]
      BY <2>2, <1>1, <1>2
    <3> QED
      BY <3>1, <1>1 DEF KInv, StatAgrees
  <2> QED
    BY <2>1, <2>2
<1>4. TimersAgree(r)
  BY <1>1, <1>2 DEF KInv, TimersAgree
<1>5. Disjoint(r) /\ GroupAgrees(r) /\ Queued(r, Idle)
  BY <1>1 DEF KInv, Disjoint, GroupAgrees, Queued
<1> QED
  BY <1>1, <1>2, <1>3, <1>4, <1>5 DEF KInv, OnlyAbout, Linked, r

LEMMA TimerStopInv ==
  ASSUME NEW k, KInv(k), NEW t \in Thread
  PROVE  LET r == TimerStop(k, t) IN
         /\ KInv(r) /\ OnlyAbout(t, k, r) /\ t \notin r.armed
         /\ r.stat = k.stat /\ r.list = k.list /\ r.cur = k.cur /\ r.prio = k.prio
<1> DEFINE r == TimerStop(k, t)
<1>1. /\ r \in KernelState /\ r.armed = k.armed \ {t}
      /\ r.list = k.list /\ r.group = k.group /\ r.stat = k.stat /\ r.prio = k.prio
      /\ r.nest = k.nest /\ r.cur = k.cur
  BY DEF TimerStop, KInv, KernelState
<1> HIDE DEF r
<1> QED
  BY <1>1 DEF r, KInv, Disjoint, GroupAgrees, StatAgrees, TimersAgree, OnlyAbout, Queued

LEMMA TimerStartInv ==
  ASSUME NEW k, KInv(k), NEW t \in Thread, NEW n \in Nat, k.stat[t] = "suspend"
  PROVE  LET r == TimerStart(k, t, n) IN
         /\ KInv(r) /\ OnlyAbout(t, k, r)
         /\ r.stat = k.stat /\ r.list = k.list /\ r.cur = k.cur
<1> DEFINE r == TimerStart(k, t, n)
<1>1. /\ r \in KernelState /\ r.armed = k.armed \cup {t}
      /\ r.list = k.list /\ r.group = k.group /\ r.stat = k.stat /\ r.prio = k.prio
      /\ r.nest = k.nest /\ r.cur = k.cur
  BY DEF TimerStart, KInv, KernelState
<1> HIDE DEF r
<1> QED
  BY <1>1 DEF r, KInv, Disjoint, GroupAgrees, StatAgrees, TimersAgree, OnlyAbout, Queued

(* rt_thread_suspend of a thread other than idle leaves it suspended, on no *)
(* list and without a timer.                                                *)
LEMMA SuspendInv ==
  ASSUME NEW k, KInv(k), NEW t \in Thread, t # Idle
  PROVE  LET r == Suspend(k, t) IN
         /\ KInv(r) /\ OnlyAbout(t, k, r) /\ ~Linked(r, t)
         /\ r.stat[t] = "suspend" /\ t \notin r.armed /\ r.cur = k.cur
<1> DEFINE u == RemoveThread(k, t)
           m == [u EXCEPT !.stat[t] = "suspend"]
<1>1. Suspend(k, t) = TimerStop(m, t)
  <2>1. RemoveThread([k EXCEPT !.stat[t] = "suspend"], t) = m
    BY DEF RemoveThread, Unlink, KInv, KernelState
  <2> QED
    BY <2>1 DEF Suspend
<1>2. /\ KInv(u) /\ OnlyAbout(t, k, u) /\ ~Linked(u, t)
      /\ u.stat = k.stat /\ u.cur = k.cur /\ u.armed = k.armed
  BY RemoveInv
<1> HIDE DEF u
<1>3. /\ KInv(m) /\ OnlyAbout(t, u, m) /\ ~Linked(m, t)
      /\ m.stat[t] = "suspend" /\ m.cur = k.cur
  <2>1. "suspend" \in Stat
    BY DEF Stat
  <2> QED
    BY <1>2, <2>1, SetStatInv
<1> HIDE DEF m
<1>4. LET r == TimerStop(m, t) IN
      /\ KInv(r) /\ OnlyAbout(t, m, r) /\ t \notin r.armed
      /\ r.stat = m.stat /\ r.list = m.list /\ r.cur = m.cur
  BY <1>3, TimerStopInv
<1> QED
  BY <1>1, <1>2, <1>3, <1>4 DEF OnlyAbout, Linked

(* The first half of rt_thread_resume, and rt_list_remove of any thread     *)
(* that is not ready: no ready list changes.                                *)
LEMMA UnlinkInv ==
  ASSUME NEW k, KInv(k), NEW t \in Thread, k.stat[t] # "ready"
  PROVE  LET r == Unlink(k, t) IN
         /\ KInv(r) /\ OnlyAbout(t, k, r) /\ ~Linked(r, t)
         /\ r.stat = k.stat /\ r.cur = k.cur /\ r.armed = k.armed
<1> DEFINE r == Unlink(k, t)
<1>1. /\ r \in KernelState /\ Disjoint(r) /\ SameExceptLists(k, r) /\ r.group = k.group
      /\ \A l \in List : \A x : Contains(r.list[l], x) <=> Contains(k.list[l], x) /\ x # t
  BY UnlinkEffect DEF KInv
<1>2. \A p \in Prio : ~Contains(k.list[Ready(p)], t)
  BY DEF KInv, StatAgrees
<1> HIDE DEF r
<1>3. GroupAgrees(r)
  <2> SUFFICES ASSUME NEW p \in Prio PROVE p \in r.group <=> r.list[Ready(p)] # << >>
    BY DEF GroupAgrees
  <2>1. /\ k.list[Ready(p)] \in Seq(Thread) /\ r.list[Ready(p)] \in Seq(Thread)
        /\ \A x : Contains(r.list[Ready(p)], x) <=> Contains(k.list[Ready(p)], x)
    BY <1>1, <1>2, ListKeys DEF KInv, KernelState
  <2>2. r.list[Ready(p)] # << >> <=> k.list[Ready(p)] # << >>
    BY <2>1, EmptyMember
  <2> QED
    BY <1>1, <2>2 DEF KInv, GroupAgrees
<1>4. StatAgrees(r)
  BY <1>1, ListKeys DEF KInv, StatAgrees, SameExceptLists
<1>5. TimersAgree(r)
  BY <1>1 DEF KInv, TimersAgree, SameExceptLists
<1>6. Queued(r, Idle)
  BY <1>1, <1>2, ListKeys DEF KInv, Queued
<1> QED
  BY <1>1, <1>3, <1>4, <1>5, <1>6 DEF KInv, OnlyAbout, SameExceptLists, Linked, r

LEMMA DetachedInv ==
  ASSUME NEW k, KInv(k), NEW t \in Thread, k.stat[t] # "ready"
  PROVE  LET r == Detached(k, t) IN
         /\ KInv(r) /\ OnlyAbout(t, k, r) /\ ~Linked(r, t) /\ t \notin r.armed
         /\ r.stat = k.stat /\ r.cur = k.cur
<1> DEFINE u == Unlink(k, t)
<1>1. /\ KInv(u) /\ OnlyAbout(t, k, u) /\ ~Linked(u, t)
      /\ u.stat = k.stat /\ u.cur = k.cur
  BY UnlinkInv
<1>2. Detached(k, t) = TimerStop(u, t)
  BY DEF Detached
<1> HIDE DEF u
<1>3. LET r == TimerStop(u, t) IN
      /\ KInv(r) /\ OnlyAbout(t, u, r) /\ t \notin r.armed
      /\ r.stat = u.stat /\ r.list = u.list /\ r.cur = u.cur
  BY <1>1, TimerStopInv
<1> QED
  BY <1>1, <1>2, <1>3 DEF OnlyAbout, Linked

(* rt_thread_resume without a window: the thread ends up ready.             *)
LEMMA ResumeInv ==
  ASSUME NEW k, KInv(k), NEW t \in Thread, k.stat[t] # "ready"
  PROVE  LET r == Resume(k, t) IN
         /\ KInv(r) /\ OnlyAbout(t, k, r)
         /\ r.stat[t] = "ready" /\ t \notin r.armed /\ r.cur = k.cur
         /\ Queued(r, t)
<1> DEFINE u == Detached(k, t)
<1>1. /\ KInv(u) /\ OnlyAbout(t, k, u) /\ ~Linked(u, t) /\ t \notin u.armed
      /\ u.cur = k.cur
  BY DetachedInv
<1>2. Resume(k, t) = InsertThread(u, t)
  BY DEF Resume
<1> HIDE DEF u
<1>3. LET r == InsertThread(u, t) IN
      /\ KInv(r) /\ OnlyAbout(t, u, r)
      /\ r.stat[t] = "ready" /\ r.cur = u.cur /\ r.armed = u.armed
      /\ Queued(r, t)
  BY <1>1, InsertInv
<1> QED
  BY <1>1, <1>2, <1>3 DEF OnlyAbout

(* rt_thread_timeout: the thread ends up ready, and the scheduler has been  *)
(* asked.                                                                   *)
LEMMA TimeoutInv ==
  ASSUME NEW k, KInv(k), NEW t \in Thread, k.stat[t] = "suspend"
  PROVE  LET r == Timeout(k, t) IN
         /\ KInv(r) /\ OnlyAbout(t, k, r)
         /\ r.stat[t] = "ready" /\ t \notin r.armed
         /\ Queued(r, t)
         /\ k.nest # 0 => r.cur = k.cur
         /\ k.nest = 0 => Queued(r, r.cur)
<1> DEFINE e == [TimerStop(k, t) EXCEPT !.error[t] = "timeout"]
           u == Unlink(e, t)
           i == InsertThread(u, t)
<1>1. LET s == TimerStop(k, t) IN
      /\ KInv(s) /\ OnlyAbout(t, k, s) /\ t \notin s.armed
      /\ s.stat = k.stat /\ s.list = k.list /\ s.cur = k.cur /\ s.prio = k.prio
  BY TimerStopInv
<1>2. LET s == TimerStop(k, t) IN
      /\ e \in KernelState /\ e.list = s.list /\ e.group = s.group /\ e.stat = s.stat
      /\ e.prio = s.prio /\ e.armed = s.armed /\ e.cur = s.cur /\ e.nest = s.nest
  BY <1>1 DEF KInv, KernelState, Error
<1> HIDE DEF e
<1>3. /\ KInv(e) /\ OnlyAbout(t, k, e) /\ t \notin e.armed
      /\ e.stat = k.stat /\ e.cur = k.cur
  BY <1>1, <1>2 DEF KInv, Disjoint, GroupAgrees, StatAgrees, TimersAgree, OnlyAbout, Queued
<1>4. /\ KInv(u) /\ OnlyAbout(t, e, u) /\ ~Linked(u, t) /\ t \notin u.armed
      /\ u.cur = k.cur
  BY <1>3, UnlinkInv
<1>5. Timeout(k, t) = Schedule(i)
  BY DEF Timeout, e, u, i
<1> HIDE DEF u
<1>6. /\ KInv(i) /\ OnlyAbout(t, u, i) /\ i.stat[t] = "ready"
      /\ i.cur = u.cur /\ i.armed = u.armed
      /\ Queued(i, t)
  BY <1>4, InsertInv
<1> HIDE DEF i
<1>7. LET r == Schedule(i) IN
      /\ KInv(r) /\ OnlyAbout(Idle, i, r) /\ r.stat = i.stat
      /\ r.armed = i.armed /\ r.list = i.list /\ r.prio = i.prio
      /\ i.nest # 0 => r.cur = i.cur
      /\ i.nest = 0 => Queued(i, r.cur)
  BY <1>6, ScheduleInv
<1> QED
  BY <1>3, <1>4, <1>5, <1>6, <1>7 DEF OnlyAbout, Queued

(* The last thing rt_thread_timeout does is rt_schedule.                    *)
LEMMA TimeoutSchedules ==
  ASSUME NEW k, KInv(k), NEW t \in Thread, k.stat[t] = "suspend"
  PROVE  \E m : KInv(m) /\ m.cur = k.cur /\ Timeout(k, t) = Schedule(m)
<1> DEFINE s == TimerStop(k, t)
           e == [s EXCEPT !.error[t] = "timeout"]
           u == Unlink(e, t)
<1>1. KInv(s) /\ t \notin s.armed /\ s.stat = k.stat /\ s.cur = k.cur
  BY TimerStopInv
<1>2. /\ e \in KernelState /\ e.list = s.list /\ e.group = s.group /\ e.stat = s.stat
      /\ e.prio = s.prio /\ e.armed = s.armed /\ e.cur = s.cur
  BY <1>1 DEF KInv, KernelState, Error
<1>3. Timeout(k, t) = Schedule(InsertThread(u, t))
  BY DEF Timeout
<1> HIDE DEF s, e
<1>4. KInv(e)
  BY <1>1, <1>2, SameKInv
<1>5. KInv(u) /\ ~Linked(u, t) /\ t \notin u.armed /\ u.cur = k.cur
  BY <1>1, <1>2, <1>4, UnlinkInv
<1> HIDE DEF u
<1>6. KInv(InsertThread(u, t)) /\ InsertThread(u, t).cur = k.cur
  BY <1>5, InsertInv
<1> QED
  BY <1>3, <1>6

(* Going to the tail of the ready list keeps the thread on it: the masked   *)
(* section of rt_thread_yield changes nothing that KInv can see.            *)
LEMMA ToTailInv ==
  ASSUME NEW k, KInv(k), NEW t \in Thread, NEW p0 \in Prio,
         Contains(k.list[Ready(p0)], t)
  PROVE  LET r == ToTail(k, t) IN
         /\ KInv(r) /\ OnlyAbout(t, k, r)
         /\ \A l \in List : \A x : Contains(r.list[l], x) <=> Contains(k.list[l], x)
         /\ r.stat = k.stat /\ r.cur = k.cur /\ r.armed = k.armed /\ r.prio = k.prio
<1> DEFINE u == Unlink(k, t)
           l0 == Ready(p0)
           a == Append(u.list[l0], t)
           r == ToTail(k, t)
<1>1. k.prio[t] = p0 /\ l0 \in List
  BY ListKeys DEF KInv, StatAgrees
<1>2. /\ u \in KernelState /\ Disjoint(u) /\ SameExceptLists(k, u) /\ u.group = k.group
      /\ \A l \in List : \A x : Contains(u.list[l], x) <=> Contains(k.list[l], x) /\ x # t
  BY UnlinkEffect DEF KInv
<1>3. r = [u EXCEPT !.list[l0] = a]
  BY <1>1, <1>2 DEF ToTail
<1> HIDE DEF u, r
<1>4. u.list[l0] \in Seq(Thread) /\ IsInjective(u.list[l0]) /\ ~Contains(u.list[l0], t)
  BY <1>1, <1>2 DEF KernelState, Disjoint
<1>5. /\ a \in Seq(Thread) /\ a # << >> /\ IsInjective(a)
      /\ \A x : Contains(a, x) <=> Contains(u.list[l0], x) \/ x = t
  BY <1>4, AppendMember
<1> HIDE DEF a
<1>6. /\ r \in KernelState /\ r.list = [u.list EXCEPT ![l0] = a]
      /\ SameExceptLists(k, r) /\ r.group = k.group
  BY <1>1, <1>2, <1>3, <1>5 DEF KernelState, SameExceptLists
<1>7. \A l \in List : r.list[l] = IF l = l0 THEN a ELSE u.list[l]
  BY <1>2, <1>6 DEF KernelState
<1>8. \A l \in List : Contains(k.list[l], t) => l = l0
  BY <1>1 DEF KInv, Disjoint
<1>9. \A l \in List : \A x : Contains(r.list[l], x) <=> Contains(k.list[l], x)
  <2> SUFFICES ASSUME NEW l \in List, NEW x
               PROVE  Contains(r.list[l], x) <=> Contains(k.list[l], x)
    OBVIOUS
  <2>1. CASE l = l0
    BY <2>1, <1>1, <1>2, <1>5, <1>7
  <2>2. CASE l # l0
    BY <2>2, <1>2, <1>7, <1>8
  <2> QED
    BY <2>1, <2>2
<1>10. \A l \in List : IsInjective(r.list[l])
  BY <1>2, <1>5, <1>7 DEF Disjoint
<1>11. Disjoint(r)
  BY <1>9, <1>10 DEF KInv, Disjoint
<1>12. GroupAgrees(r)
  <2> SUFFICES ASSUME NEW p \in Prio PROVE p \in r.group <=> r.list[Ready(p)] # << >>
    BY DEF GroupAgrees
  <2>1. /\ k.list[Ready(p)] \in Seq(Thread) /\ r.list[Ready(p)] \in Seq(Thread)
        /\ \A x : Contains(r.list[Ready(p)], x) <=> Contains(k.list[Ready(p)], x)
    BY <1>6, <1>9, ListKeys DEF KInv, KernelState
  <2>2. r.list[Ready(p)] # << >> <=> k.list[Ready(p)] # << >>
    BY <2>1, EmptyMember
  <2> QED
    BY <1>6, <2>2 DEF KInv, GroupAgrees
<1>13. StatAgrees(r)
  BY <1>6, <1>9, ListKeys DEF KInv, StatAgrees, SameExceptLists
<1>14. TimersAgree(r)
  BY <1>6 DEF KInv, TimersAgree, SameExceptLists
<1>15. Queued(r, Idle)
  BY <1>9, ListKeys DEF KInv, Queued
<1> QED
  BY <1>6, <1>9, <1>11, <1>12, <1>13, <1>14, <1>15 DEF KInv, OnlyAbout, SameExceptLists, r

(* RT_THREAD_CTRL_CHANGE_PRIORITY of a thread that is ready and queued, or  *)
(* that is on no ready list.                                                *)
LEMMA ChangePriorityInv ==
  ASSUME NEW k, KInv(k), NEW t \in Thread, t # Idle, NEW p \in Prio,
         k.stat[t] = "ready" => t \notin k.armed
  PROVE  LET r == ChangePriority(k, t, p) IN
         /\ KInv(r) /\ OnlyAbout(t, k, r)
         /\ r.stat = k.stat /\ r.cur = k.cur /\ r.armed = k.armed
         /\ k.stat[t] = "ready" => Queued(r, t)
         /\ k.stat[t] # "ready" => r.list = k.list
<1> DEFINE r == ChangePriority(k, t, p)
<1>1. CASE k.stat[t] = "ready"
  <2> DEFINE u == RemoveThread(k, t)
             m == [u EXCEPT !.prio[t] = p]
  <2>1. /\ KInv(u) /\ OnlyAbout(t, k, u) /\ ~Linked(u, t)
        /\ u.stat = k.stat /\ u.cur = k.cur /\ u.armed = k.armed
    BY RemoveInv
  <2>2. r = InsertThread(m, t)
    BY <1>1 DEF ChangePriority
  <2> HIDE DEF u, r
  <2>3. /\ m \in KernelState /\ m.prio = [u.prio EXCEPT ![t] = p]
        /\ m.list = u.list /\ m.group = u.group /\ m.stat = u.stat
        /\ m.armed = u.armed /\ m.cur = u.cur /\ m.nest = u.nest
    BY <2>1 DEF KInv, KernelState
  <2> HIDE DEF m
  <2>4. StatAgrees(m)
    <3> SUFFICES ASSUME NEW x \in Thread
        PROVE /\ \A q \in Prio : Contains(m.list[Ready(q)], x)
                                    => m.stat[x] = "ready" /\ m.prio[x] = q
              /\ \A q \in WaitList : Contains(m.list[Wait(q)], x) => m.stat[x] = "suspend"
              /\ Contains(m.list[Defunct], x) => m.stat[x] = "close"
      BY DEF StatAgrees
    <3>1. CASE x = t
      BY <3>1, <2>1, <2>3, ListKeys DEF Linked
    <3>2. CASE x # t
      <4>1. m.prio[x] = u.prio[x]
        BY <3>2, <2>1, <2>3 DEF KInv, KernelState
      <4> QED
        BY <4>1, <2>1, <2>3 DEF KInv, StatAgrees
    <3> QED
      BY <3>1, <3>2
  <2>5. KInv(m)
    BY <2>1, <2>3, <2>4 DEF KInv, Disjoint, GroupAgrees, TimersAgree, Queued
  <2>6. OnlyAbout(t, u, m) /\ ~Linked(m, t) /\ t \notin m.armed
    BY <1>1, <2>1, <2>3 DEF OnlyAbout, Linked, KInv, KernelState
  <2>7. /\ KInv(r) /\ OnlyAbout(t, m, r) /\ r.stat[t] = "ready"
        /\ r.cur = m.cur /\ r.armed = m.armed
        /\ Queued(r, t)
    BY <2>2, <2>5, <2>6, InsertInv
  <2>8. r.stat = k.stat
    <3>1. r.stat \in [Thread -> Stat] /\ k.stat \in [Thread -> Stat]
      BY <2>7 DEF KInv, KernelState
    <3>2. \A x \in Thread : r.stat[x] = k.stat[x]
      BY <1>1, <2>1, <2>3, <2>7 DEF OnlyAbout
    <3> QED
      BY <3>1, <3>2
  <2> QED
    BY <1>1, <2>1, <2>3, <2>6, <2>7, <2>8 DEF OnlyAbout, r
<1>2. CASE k.stat[t] # "ready"
  <2>1. r = [k EXCEPT !.prio[t] = p]
    BY <1>2 DEF ChangePriority
  <2> HIDE DEF r
  <2>2. /\ r \in KernelState /\ r.prio = [k.prio EXCEPT ![t] = p]
        /\ r.list = k.list /\ r.group = k.group /\ r.stat = k.stat
        /\ r.armed = k.armed /\ r.cur = k.cur /\ r.nest = k.nest
    BY <2>1 DEF KInv, KernelState
  <2>3. StatAgrees(r)
    BY <1>2, <2>2 DEF KInv, KernelState, StatAgrees
  <2>4. KInv(r)
    BY <2>2, <2>3 DEF KInv, Disjoint, GroupAgrees, TimersAgree, Queued
  <2> QED
    BY <1>2, <2>2, <2>4 DEF OnlyAbout, KInv, KernelState, r
<1> QED
  BY <1>1, <1>2

-----------------------------------------------------------------------------
(* The tick *)

LEMMA YieldInv ==
  ASSUME NEW k, KInv(k),
         k.stat[k.cur] = "ready" => Contains(k.list[Ready(k.prio[k.cur])], k.cur)
  PROVE  LET r == Yield(k) IN
         /\ KInv(r) /\ r.stat = k.stat /\ r.armed = k.armed /\ r.nest = k.nest
         /\ \A l \in List : \A x \in Thread :
              Contains(r.list[l], x) <=> Contains(k.list[l], x)
         /\ r.prio = k.prio
         /\ r.cur = k.cur \/ (k.nest = 0 /\ Queued(r, r.cur))
<1> DEFINE t == k.cur
           u == ToTail(k, t)
<1>1. CASE k.stat[t] = "ready" /\ ~Alone(k, t)
  <2>1. Yield(k) = Schedule(u)
    BY <1>1 DEF Yield
  <2>2. t \in Thread /\ k.prio[t] \in Prio
    BY DEF KInv, KernelState
  <2>3. /\ KInv(u) /\ OnlyAbout(t, k, u)
        /\ \A l \in List : \A x : Contains(u.list[l], x) <=> Contains(k.list[l], x)
        /\ u.stat = k.stat /\ u.cur = k.cur /\ u.armed = k.armed /\ u.prio = k.prio
    BY <1>1, <2>2, ToTailInv
  <2> HIDE DEF u
  <2>4. LET r == Schedule(u) IN
        /\ KInv(r) /\ r.stat = u.stat /\ r.armed = u.armed /\ r.list = u.list
        /\ r.prio = u.prio /\ r.nest = u.nest
        /\ u.nest # 0 => r.cur = u.cur
        /\ u.nest = 0 => Queued(u, r.cur)
    BY <2>3, ScheduleInv
  <2> QED
    BY <2>1, <2>3, <2>4 DEF OnlyAbout, Queued
<1>2. CASE ~(k.stat[t] = "ready" /\ ~Alone(k, t))
  BY <1>2 DEF Yield
<1> QED
  BY <1>1, <1>2

(* The time slice of the current thread: remaining_tick never underflows.   *)
LEMMA SliceTickInv ==
  ASSUME NEW k, KInv(k), \A t \in Thread : k.slice[t] > 0,
         k.stat[k.cur] = "ready" => Contains(k.list[Ready(k.prio[k.cur])], k.cur)
  PROVE  LET r == SliceTick(k) IN
         /\ KInv(r) /\ r.stat = k.stat /\ r.armed = k.armed /\ r.nest = k.nest
         /\ \A l \in List : \A x \in Thread :
              Contains(r.list[l], x) <=> Contains(k.list[l], x)
         /\ r.prio = k.prio
         /\ r.cur = k.cur \/ (k.nest = 0 /\ Queued(r, r.cur))
         /\ \A t \in Thread : r.slice[t] > 0
<1> DEFINE m == [k EXCEPT !.slice[k.cur] = InitTick[k.cur]]
           d == [k EXCEPT !.slice[k.cur] = @ - 1]
           s == SliceTick(k)
<1>0. /\ k \in KernelState /\ k.cur \in Thread /\ InitTick \in [Thread -> Nat \ {0}]
      /\ k.slice \in [Thread -> Nat]
  BY TickAssumption DEF KInv, KernelState
<1>1. CASE k.slice[k.cur] = 1
  <2>1. /\ m \in KernelState /\ m.slice = [k.slice EXCEPT ![k.cur] = InitTick[k.cur]]
        /\ m.list = k.list /\ m.group = k.group /\ m.stat = k.stat /\ m.prio = k.prio
        /\ m.armed = k.armed /\ m.cur = k.cur /\ m.nest = k.nest
    BY <1>0 DEF KernelState
  <2>2. s = Yield(m)
    BY <1>1 DEF SliceTick
  <2> HIDE DEF m, s
  <2>3. KInv(m)
    BY <2>1, SameKInv
  <2>4. /\ KInv(s) /\ s.stat = m.stat /\ s.armed = m.armed /\ s.nest = m.nest
        /\ \A l \in List : \A x \in Thread :
             Contains(s.list[l], x) <=> Contains(m.list[l], x)
        /\ s.prio = m.prio
        /\ s.cur = m.cur \/ (m.nest = 0 /\ Queued(s, s.cur))
    BY <2>1, <2>2, <2>3, YieldInv
  <2>5. s.slice = m.slice
    BY <2>1, <2>2 DEF Yield, Schedule, ToTail, Unlink, KernelState
  <2>6. \A t \in Thread : s.slice[t] > 0
    BY <1>0, <2>1, <2>5
  <2> QED
    BY <2>1, <2>4, <2>6 DEF s
<1>2. CASE k.slice[k.cur] # 1
  <2>1. s = d
    BY <1>2 DEF SliceTick
  <2>2. k.slice[k.cur] - 1 \in Nat /\ k.slice[k.cur] - 1 > 0
    BY <1>0, <1>2
  <2>3. /\ d \in KernelState /\ d.slice = [k.slice EXCEPT ![k.cur] = @ - 1]
        /\ d.list = k.list /\ d.group = k.group /\ d.stat = k.stat /\ d.prio = k.prio
        /\ d.armed = k.armed /\ d.cur = k.cur /\ d.nest = k.nest
    BY <1>0, <2>2 DEF KernelState
  <2> HIDE DEF d, s
  <2>4. KInv(d)
    BY <2>3, SameKInv
  <2>5. \A t \in Thread : d.slice[t] > 0
    BY <1>0, <2>2, <2>3
  <2> QED
    BY <2>1, <2>3, <2>4, <2>5 DEF s
<1> QED
  BY <1>1, <1>2

(* rt_tick_increase before the timers: at most the order of one ready list  *)
(* and the current thread change.                                           *)
LEMMA TickInv ==
  ASSUME NEW k, KInv(k), \A t \in Thread : k.slice[t] > 0,
         k.stat[k.cur] = "ready" => Contains(k.list[Ready(k.prio[k.cur])], k.cur)
  PROVE  LET r == TimersTick(SliceTick(k)) IN
         /\ KInv(r) /\ r.stat = k.stat /\ r.armed = k.armed /\ r.nest = k.nest
         /\ \A l \in List : \A x \in Thread :
              Contains(r.list[l], x) <=> Contains(k.list[l], x)
         /\ r.prio = k.prio
         /\ r.cur = k.cur \/ (k.nest = 0 /\ Queued(r, r.cur))
         /\ \A t \in Thread : r.slice[t] > 0
<1> DEFINE s == SliceTick(k)
<1>1. /\ KInv(s) /\ s.stat = k.stat /\ s.armed = k.armed /\ s.nest = k.nest
      /\ \A l \in List : \A x \in Thread :
           Contains(s.list[l], x) <=> Contains(k.list[l], x)
      /\ s.prio = k.prio
      /\ s.cur = k.cur \/ (k.nest = 0 /\ Queued(s, s.cur))
      /\ \A t \in Thread : s.slice[t] > 0
  BY SliceTickInv
<1> HIDE DEF s
<1> DEFINE f == [t \in Thread |-> IF t \in s.armed /\ s.left[t] > 0
                                THEN s.left[t] - 1 ELSE s.left[t]]
           r == [s EXCEPT !.left = f]
<1>2. TimersTick(s) = r
  BY DEF TimersTick
<1>3. f \in [Thread -> Nat]
  BY <1>1 DEF KInv, KernelState
<1> HIDE DEF f
<1>4. /\ r \in KernelState /\ r.list = s.list /\ r.group = s.group /\ r.stat = s.stat
      /\ r.prio = s.prio /\ r.armed = s.armed /\ r.cur = s.cur /\ r.nest = s.nest
      /\ r.slice = s.slice
  BY <1>1, <1>3 DEF KInv, KernelState
<1> HIDE DEF r
<1>5. KInv(r)
  BY <1>1, <1>4, SameKInv
<1>6. \A x \in Thread : Queued(r, x) <=> Queued(s, x)
  BY <1>4 DEF Queued
<1>7. r.cur \in Thread
  BY <1>4 DEF KernelState
<1> QED
  BY <1>1, <1>2, <1>4, <1>5, <1>6, <1>7 DEF s

-----------------------------------------------------------------------------
(* Creating and closing a thread, and the boot *)

(* Whatever is written into an unlinked thread object.                      *)
LEMMA UnlinkedInv ==
  ASSUME NEW k, KInv(k), NEW t \in Thread, ~Linked(k, t),
         NEW r \in KernelState, r.list = k.list, r.group = k.group,
         OnlyAbout(t, k, r), t \in r.armed => r.stat[t] = "suspend"
  PROVE  KInv(r) /\ ~Linked(r, t)
<1>1. StatAgrees(r)
  <2> SUFFICES ASSUME NEW x \in Thread
      PROVE /\ \A p \in Prio : Contains(r.list[Ready(p)], x)
                                  => r.stat[x] = "ready" /\ r.prio[x] = p
            /\ \A q \in WaitList : Contains(r.list[Wait(q)], x) => r.stat[x] = "suspend"
            /\ Contains(r.list[Defunct], x) => r.stat[x] = "close"
    BY DEF StatAgrees
  <2>1. CASE x = t
    BY <2>1, ListKeys DEF Linked
  <2>2. CASE x # t
    BY <2>2 DEF KInv, StatAgrees, OnlyAbout
  <2> QED
    BY <2>1, <2>2
<1>2. r.armed \in SUBSET Thread
  BY DEF KernelState
<1>3. TimersAgree(r)
  BY <1>2 DEF KInv, TimersAgree, OnlyAbout
<1>4. Disjoint(r) /\ GroupAgrees(r) /\ Queued(r, Idle)
  BY DEF KInv, Disjoint, GroupAgrees, Queued
<1> QED
  BY <1>1, <1>3, <1>4 DEF KInv, Linked

(* A closed thread goes to the head of the defunct list.                    *)
LEMMA DefunctInv ==
  ASSUME NEW k, KInv(k), NEW t \in Thread, ~Linked(k, t), k.stat[t] = "close"
  PROVE  LET r == [k EXCEPT !.list[Defunct] = <<t>> \o @] IN
         /\ KInv(r) /\ OnlyAbout(t, k, r)
         /\ r.stat = k.stat /\ r.cur = k.cur /\ r.armed = k.armed
<1> DEFINE a == <<t>> \o k.list[Defunct]
           r == [k EXCEPT !.list[Defunct] = <<t>> \o @]
<1>1. /\ k.list[Defunct] \in Seq(Thread) /\ IsInjective(k.list[Defunct])
      /\ ~Contains(k.list[Defunct], t)
  BY ListKeys DEF KInv, KernelState, Disjoint, Linked
<1>2. /\ a \in Seq(Thread) /\ IsInjective(a)
      /\ \A x : Contains(a, x) <=> Contains(k.list[Defunct], x) \/ x = t
  BY <1>1, ConsMember
<1>3. r = [k EXCEPT !.list[Defunct] = a]
  OBVIOUS
<1> HIDE DEF a, r
<1>4. /\ r \in KernelState /\ r.list = [k.list EXCEPT ![Defunct] = a]
      /\ SameExceptLists(k, r) /\ r.group = k.group
  BY <1>2, <1>3 DEF KInv, KernelState, SameExceptLists
<1>5. \A l \in List : r.list[l] = IF l = Defunct THEN a ELSE k.list[l]
  BY <1>4 DEF KInv, KernelState
<1>6. \A l \in List : \A x : Contains(r.list[l], x)
        <=> Contains(k.list[l], x) \/ (l = Defunct /\ x = t)
  BY <1>2, <1>5
<1>7. Disjoint(r)
  <2>1. \A l \in List : IsInjective(r.list[l])
    BY <1>2, <1>5 DEF KInv, Disjoint
  <2>2. \A x \in Thread : \A l, m \in List :
          Contains(r.list[l], x) /\ Contains(r.list[m], x) => l = m
    BY <1>6 DEF KInv, Disjoint, Linked
  <2> QED
    BY <2>1, <2>2 DEF Disjoint
<1>8. GroupAgrees(r) /\ Queued(r, Idle)
  BY <1>4, <1>5, ListKeys DEF KInv, GroupAgrees, Queued
<1>9. StatAgrees(r)
  BY <1>4, <1>6, ListKeys DEF KInv, StatAgrees, SameExceptLists
<1>10. TimersAgree(r)
  BY <1>4 DEF KInv, TimersAgree, SameExceptLists
<1> QED
  BY <1>4, <1>6, <1>7, <1>8, <1>9, <1>10 DEF KInv, OnlyAbout, SameExceptLists, r

(* rtthread_startup makes main and idle ready, then starts the scheduler.   *)
LEMMA BootSchedules ==
  \E m : /\ KInv(m) /\ m.nest = 0 /\ Boot = Schedule(m) /\ m.slice = InitTick
         /\ \A t \in Thread : m.stat[t] = "ready" => Queued(m, t)
<1> DEFINE k0 == SchedulerInit
           k1 == InsertThread(k0, Main)
           k2 == InsertThread(k1, Idle)
<1>1. /\ k0 \in KernelState /\ k0.armed = {} /\ k0.nest = 0 /\ k0.slice = InitTick
      /\ k0.group = {} /\ k0.list = [l \in List |-> << >>]
      /\ k0.stat = [t \in Thread |-> IF t \in {Main, Idle} THEN "init" ELSE "none"]
  BY ThreadAssumption, PrioAssumption, TickAssumption
     DEF SchedulerInit, KernelState, Stat, Error
<1> HIDE DEF k0
<1>2. \A l \in List : \A x : ~Contains(k0.list[l], x)
  BY <1>1 DEF Contains
<1>3. KLists(k0)
  <2>1. Disjoint(k0)
    BY <1>1, <1>2 DEF Disjoint, IsInjective
  <2>2. GroupAgrees(k0) /\ TimersAgree(k0)
    BY <1>1, ListKeys DEF GroupAgrees, TimersAgree
  <2>3. StatAgrees(k0)
    BY <1>2, ListKeys DEF StatAgrees
  <2> QED
    BY <1>1, <2>1, <2>2, <2>3 DEF KLists
<1>4. ~Linked(k0, Main) /\ ~Linked(k0, Idle) /\ \A x \in Thread : k0.stat[x] # "ready"
  BY <1>1, <1>2 DEF Linked
<1>5. /\ KLists(k1) /\ OnlyAbout(Main, k0, k1) /\ k1.armed = {}
      /\ k1.stat[Main] = "ready" /\ Queued(k1, Main)
  BY <1>1, <1>3, <1>4, InsertLists, ThreadAssumption
<1>6. k1.slice = InitTick /\ k2.slice = k1.slice
  BY <1>1 DEF InsertThread, KernelState
<1> HIDE DEF k1
<1>7. ~Linked(k1, Idle)
  BY <1>4, <1>5, ThreadAssumption DEF OnlyAbout, Linked
<1>8. /\ KLists(k2) /\ OnlyAbout(Idle, k1, k2)
      /\ k2.stat[Idle] = "ready" /\ Queued(k2, Idle)
      /\ \A x \in Thread : Queued(k1, x) => Queued(k2, x)
  BY <1>5, <1>7, InsertLists, ThreadAssumption
<1> HIDE DEF k2
<1>9. KInv(k2)
  BY <1>8 DEF KInv, KLists
<1>10. Boot = Schedule(k2)
  BY DEF Boot, k0, k1, k2
<1>11. k2.nest = 0
  BY <1>1, <1>5, <1>8 DEF OnlyAbout
<1>12. \A t \in Thread : k2.stat[t] = "ready" => Queued(k2, t)
  <2> TAKE t \in Thread
  <2>1. CASE t \in {Main, Idle}
    BY <2>1, <1>5, <1>8, ThreadAssumption
  <2>2. CASE t \notin {Main, Idle}
    BY <2>2, <1>4, <1>5, <1>8 DEF OnlyAbout
  <2> QED
    BY <2>1, <2>2
<1> QED
  BY <1>6, <1>9, <1>10, <1>11, <1>12

(* So it starts with main and idle on their ready lists.                    *)
LEMMA BootInv ==
  /\ KInv(Boot) /\ Boot.slice = InitTick
  /\ Queued(Boot, Boot.cur)
  /\ \A t \in Thread : Boot.stat[t] = "ready" => Queued(Boot, t)
<1>1. PICK m : /\ KInv(m) /\ m.nest = 0 /\ Boot = Schedule(m) /\ m.slice = InitTick
               /\ \A t \in Thread : m.stat[t] = "ready" => Queued(m, t)
  BY BootSchedules
<1>2. Schedule(m).slice = m.slice
  BY <1>1 DEF Schedule, KInv, KernelState
<1>3. /\ KInv(Schedule(m)) /\ Schedule(m).list = m.list
      /\ Schedule(m).stat = m.stat /\ Queued(m, Schedule(m).cur)
  BY <1>1, ScheduleInv
<1> QED
  BY <1>1, <1>2, <1>3 DEF Queued

-----------------------------------------------------------------------------
(* Who wakes and who falls asleep in a step *)

-----------------------------------------------------------------------------
(* Waiting lists *)

OnWait(k, q, x) == Contains(k.list[Wait(q)], x)

(* r is k after the threads in R have been resumed, and after things that    *)
(* take nobody off a ready list and touch no suspend list.                   *)
Wakes(R, k, r) ==
  /\ KInv(r) /\ r.nest = k.nest
  /\ (\A x \in Thread : k.slice[x] > 0) => (\A x \in Thread : r.slice[x] > 0)
  /\ \A x \in Thread \ R :
       /\ r.stat[x] = k.stat[x]
       /\ Queued(k, x) => Queued(r, x)
       /\ \A q \in WaitList : OnWait(r, q, x) <=> OnWait(k, q, x)
  /\ \A x \in R : k.stat[x] = "suspend" /\ r.stat[x] = "ready" /\ Queued(r, x)

(* Doing nothing makes nobody runnable.                                     *)
LEMMA WakesNobody ==
  ASSUME NEW k, KInv(k) PROVE Wakes({}, k, k)
  BY DEF Wakes

(* Two steps in a row make runnable what either does.                       *)
LEMMA WakesThen ==
  ASSUME NEW k, NEW m, NEW r, NEW R \in SUBSET Thread, NEW S \in SUBSET Thread,
         Wakes(R, k, m), Wakes(S, m, r)
  PROVE  Wakes(R \cup S, k, r)
<1>1. KInv(r) /\ r.nest = k.nest
      /\ ((\A x \in Thread : k.slice[x] > 0) => (\A x \in Thread : r.slice[x] > 0))
  BY DEF Wakes
<1>2. ASSUME NEW x \in Thread \ (R \cup S)
      PROVE  /\ r.stat[x] = k.stat[x]
             /\ Queued(k, x) => Queued(r, x)
             /\ \A q \in WaitList : OnWait(r, q, x) <=> OnWait(k, q, x)
  BY <1>2 DEF Wakes
<1>3. ASSUME NEW x \in R \cup S
      PROVE  k.stat[x] = "suspend" /\ r.stat[x] = "ready" /\ Queued(r, x)
  <2>1. CASE x \in R
    <3>1. x \in Thread /\ k.stat[x] = "suspend" /\ m.stat[x] = "ready" /\ Queued(m, x)
      BY <2>1 DEF Wakes
    <3>2. x \notin S
      BY <3>1 DEF Wakes
    <3> QED
      BY <3>1, <3>2 DEF Wakes
  <2>2. CASE x \notin R
    BY <1>3, <2>2 DEF Wakes
  <2> QED
    BY <2>1, <2>2
<1> QED
  BY <1>1, <1>2, <1>3 DEF Wakes

(* A step about a single thread that was suspended and becomes queued wakes *)
(* that thread and no other.                                                *)
LEMMA WakesOne ==
  ASSUME NEW k, NEW t \in Thread, NEW r, KInv(r), OnlyAbout(t, k, r),
         r.slice = k.slice, k.stat[t] = "suspend", r.stat[t] = "ready", Queued(r, t)
  PROVE  Wakes({t}, k, r)
  BY ListKeys DEF Wakes, OnlyAbout, Queued, OnWait

(* A step about a single thread that leaves its state and its place in the  *)
(* waiting lists alone wakes nobody.                                        *)
LEMMA WakesSame ==
  ASSUME NEW k, NEW t \in Thread, NEW r, KInv(r), OnlyAbout(t, k, r),
         r.slice = k.slice, r.stat[t] = k.stat[t], Queued(k, t) => Queued(r, t),
         \A q \in WaitList : OnWait(r, q, t) <=> OnWait(k, q, t)
  PROVE  Wakes({}, k, r)
  BY ListKeys DEF Wakes, OnlyAbout, Queued, OnWait

(* A ready thread waits nowhere.                                             *)
LEMMA ReadyWaitsNot ==
  ASSUME NEW k, KInv(k), NEW t \in Thread, k.stat[t] = "ready", NEW q \in WaitList
  PROVE  ~OnWait(k, q, t)
  BY DEF KInv, StatAgrees, OnWait

(* What rt_schedule and the operations on a thread leave alone.              *)
LEMMA Untouched ==
  ASSUME NEW k \in KernelState, NEW t \in Thread
  PROVE  /\ Schedule(k).error = k.error /\ Schedule(k).slice = k.slice
         /\ Resume(k, t).error = k.error /\ Resume(k, t).slice = k.slice
         /\ Resume(k, t).prio = k.prio
         /\ Suspend(k, t).error = k.error /\ Suspend(k, t).slice = k.slice
         /\ Suspend(k, t).prio = k.prio
         /\ \A p \in Prio : /\ ChangePriority(k, t, p).error = k.error
                            /\ ChangePriority(k, t, p).slice = k.slice
                            /\ ChangePriority(k, t, p).prio = [k.prio EXCEPT ![t] = p]
         /\ Timeout(k, t).error = [k.error EXCEPT ![t] = "timeout"]
         /\ Timeout(k, t).slice = k.slice /\ Timeout(k, t).prio = k.prio
<1>1. Schedule(k).error = k.error /\ Schedule(k).slice = k.slice
  BY DEF Schedule, KernelState
<1>2. /\ Resume(k, t).error = k.error /\ Resume(k, t).slice = k.slice
      /\ Resume(k, t).prio = k.prio
  BY DEF Resume, Detached, InsertThread, Unlink, TimerStop, KernelState
<1>3. /\ Suspend(k, t).error = k.error /\ Suspend(k, t).slice = k.slice
      /\ Suspend(k, t).prio = k.prio
  BY DEF Suspend, RemoveThread, Unlink, TimerStop, KernelState
<1>4. ASSUME NEW p \in Prio
      PROVE  /\ ChangePriority(k, t, p).error = k.error
             /\ ChangePriority(k, t, p).slice = k.slice
             /\ ChangePriority(k, t, p).prio = [k.prio EXCEPT ![t] = p]
  BY DEF ChangePriority, InsertThread, RemoveThread, Unlink, KernelState
<1>5. /\ Timeout(k, t).error = [k.error EXCEPT ![t] = "timeout"]
      /\ Timeout(k, t).slice = k.slice /\ Timeout(k, t).prio = k.prio
  BY DEF Timeout, Schedule, InsertThread, Unlink, TimerStop, KernelState
<1> QED
  BY <1>1, <1>2, <1>3, <1>4, <1>5

(* rt_schedule wakes nobody, and with no lock held the running thread is    *)
(* queued after it.                                                         *)
LEMMA ScheduleWakes ==
  ASSUME NEW k, KInv(k)
  PROVE  LET r == Schedule(k) IN
         /\ Wakes({}, k, r) /\ r.error = k.error /\ r.prio = k.prio /\ r.list = k.list
         /\ k.nest = 0 => Queued(r, r.cur)
<1> DEFINE r == Schedule(k)
<1>1. /\ KInv(r) /\ OnlyAbout(Idle, k, r) /\ r.stat = k.stat /\ r.list = k.list
      /\ r.prio = k.prio /\ (k.nest = 0 => Queued(k, r.cur))
  BY ScheduleInv
<1>2. r.error = k.error /\ r.slice = k.slice
  BY DEF KInv, KernelState, Schedule
<1> HIDE DEF r
<1>3. Wakes({}, k, r)
  BY <1>1, <1>2, WakesSame, ThreadAssumption DEF Queued, OnWait
<1>4. k.nest = 0 => Queued(r, r.cur)
  BY <1>1 DEF Queued
<1> QED
  BY <1>1, <1>2, <1>3, <1>4 DEF r

(* rt_thread_resume of a suspended thread wakes that thread.                *)
LEMMA ResumeWakes ==
  ASSUME NEW k, KInv(k), NEW t \in Thread, k.stat[t] = "suspend"
  PROVE  LET r == Resume(k, t) IN
         /\ Wakes({t}, k, r) /\ r.error = k.error /\ r.prio = k.prio /\ r.cur = k.cur
<1> DEFINE r == Resume(k, t)
<1>1. /\ KInv(r) /\ OnlyAbout(t, k, r) /\ r.stat[t] = "ready" /\ r.cur = k.cur
      /\ Queued(r, t)
  BY ResumeInv
<1>2. r.error = k.error /\ r.slice = k.slice /\ r.prio = k.prio
  BY Untouched DEF KInv
<1> HIDE DEF r
<1> QED
  BY <1>1, <1>2, WakesOne DEF r

(* thread->error is nobody's business but the thread's.                      *)
LEMMA ErrorWakes ==
  ASSUME NEW k, KInv(k), NEW t \in Thread, NEW e \in Error
  PROVE  LET r == [k EXCEPT !.error[t] = e] IN
         /\ Wakes({}, k, r) /\ r.error = [k.error EXCEPT ![t] = e]
         /\ r.list = k.list /\ r.prio = k.prio /\ r.cur = k.cur /\ r.stat = k.stat
<1> DEFINE r == [k EXCEPT !.error[t] = e]
<1>1. /\ r \in KernelState /\ r.list = k.list /\ r.group = k.group /\ r.stat = k.stat
      /\ r.prio = k.prio /\ r.armed = k.armed /\ r.cur = k.cur /\ r.slice = k.slice
      /\ r.nest = k.nest /\ r.error = [k.error EXCEPT ![t] = e]
  BY DEF KInv, KernelState
<1> HIDE DEF r
<1>2. KInv(r)
  BY <1>1, SameKInv
<1>3. OnlyAbout(t, k, r)
  BY <1>1 DEF OnlyAbout
<1>4. Wakes({}, k, r)
  BY <1>1, <1>2, <1>3, WakesSame DEF Queued, OnWait
<1> QED
  BY <1>1, <1>4 DEF r

(* A waiter that is told of an error and resumed.                            *)
ResumeTold(k, t) == Resume([k EXCEPT !.error[t] = "error"], t)

(* One iteration of rt_ipc_list_resume_all: the thread wakes with           *)
(* -RT_ERROR.                                                               *)
LEMMA ResumeToldWakes ==
  ASSUME NEW k, KInv(k), NEW t \in Thread, k.stat[t] = "suspend"
  PROVE  LET r == ResumeTold(k, t) IN
         /\ Wakes({t}, k, r) /\ r.error = [k.error EXCEPT ![t] = "error"]
         /\ r.prio = k.prio /\ r.cur = k.cur
<1> DEFINE m == [k EXCEPT !.error[t] = "error"]
           r == Resume(m, t)
<1>1. /\ Wakes({}, k, m) /\ m.error = [k.error EXCEPT ![t] = "error"]
      /\ m.prio = k.prio /\ m.cur = k.cur /\ m.stat = k.stat
  BY ErrorWakes DEF Error
<1> HIDE DEF m
<1>2. KInv(m)
  BY <1>1 DEF Wakes
<1>3. /\ Wakes({t}, m, r) /\ r.error = m.error /\ r.prio = m.prio /\ r.cur = m.cur
  BY <1>1, <1>2, ResumeWakes
<1> HIDE DEF r
<1>4. Wakes({} \cup {t}, k, r)
  <2>1. {} \in SUBSET Thread /\ {t} \in SUBSET Thread
    OBVIOUS
  <2> QED
    BY <1>1, <1>3, <2>1, WakesThen
<1>5. {} \cup {t} = {t}
  OBVIOUS
<1> QED
  BY <1>1, <1>3, <1>4, <1>5 DEF ResumeTold, m, r

(* rt_thread_control(CHANGE_PRIORITY) wakes nobody and leaves every waiting *)
(* list as it is.                                                           *)
LEMMA PriorityWakes ==
  ASSUME NEW k, KInv(k), NEW t \in Thread, t # Idle, NEW p \in Prio
  PROVE  LET r == ChangePriority(k, t, p) IN
         /\ Wakes({}, k, r) /\ r.error = k.error /\ r.cur = k.cur /\ r.stat = k.stat
         /\ r.prio = [k.prio EXCEPT ![t] = p]
         /\ \A q \in WaitList : r.list[Wait(q)] = k.list[Wait(q)]
<1> DEFINE r == ChangePriority(k, t, p)
<1>1. k.stat[t] = "ready" => t \notin k.armed
  BY DEF KInv, TimersAgree
<1>2. /\ KInv(r) /\ OnlyAbout(t, k, r)
      /\ r.stat = k.stat /\ r.cur = k.cur
      /\ k.stat[t] = "ready" => Queued(r, t)
      /\ k.stat[t] # "ready" => r.list = k.list
  BY <1>1, ChangePriorityInv
<1>3. /\ r.error = k.error /\ r.slice = k.slice
      /\ r.prio = [k.prio EXCEPT ![t] = p]
  BY Untouched DEF KInv
<1>4. ASSUME NEW q \in WaitList PROVE r.list[Wait(q)] = k.list[Wait(q)]
  <2>1. CASE k.stat[t] # "ready"
    BY <1>2, <2>1
  <2>2. CASE k.stat[t] = "ready"
    <3> DEFINE m == [RemoveThread(k, t) EXCEPT !.prio[t] = p]
    <3>1. k \in KernelState /\ k.list[Wait(q)] \in Seq(Thread) /\ ~Contains(k.list[Wait(q)], t)
      BY <2>2, ReadyWaitsNot, ListKeys DEF OnWait, KInv, KernelState
    <3>2. Unlink(k, t).list[Wait(q)] = k.list[Wait(q)]
      BY <3>1, ListKeys, WithoutProperties DEF Unlink, KernelState
    <3>3. m.list = Unlink(k, t).list /\ m.prio[t] = p
      BY <3>1 DEF RemoveThread, Unlink, KernelState
    <3>4. m.list \in [List -> Seq(Thread)]
      BY <3>1, <3>3, UnlinkEffect DEF KInv, KernelState
    <3>5. r = InsertThread(m, t)
      BY <2>2 DEF ChangePriority
    <3> HIDE DEF m, r
    <3>6. r.list[Wait(q)] = m.list[Wait(q)]
      BY <3>3, <3>4, <3>5, ListKeys DEF InsertThread
    <3> QED
      BY <3>2, <3>3, <3>6
  <2> QED
    BY <2>1, <2>2
<1> HIDE DEF r
<1>5. ASSUME NEW q \in WaitList PROVE OnWait(r, q, t) <=> OnWait(k, q, t)
  BY <1>4 DEF OnWait
<1>6. Queued(k, t) => Queued(r, t)
  BY <1>2 DEF KInv, StatAgrees, Queued
<1>7. Wakes({}, k, r)
  BY <1>2, <1>3, <1>5, <1>6, WakesSame
<1> QED
  BY <1>2, <1>3, <1>4, <1>7 DEF r

(* A tick that fires no timer wakes nobody; the round robin may hand the    *)
(* processor to another queued thread.                                      *)
LEMMA TickWakes ==
  ASSUME NEW k, KInv(k), \A x \in Thread : k.slice[x] > 0,
         \A x \in Thread : k.stat[x] = "ready" => Queued(k, x)
  PROVE  LET r == TimersTick(SliceTick(k)) IN
         /\ Wakes({}, k, r) /\ r.error = k.error /\ r.prio = k.prio
         /\ r.cur = k.cur \/ Queued(r, r.cur)
<1> DEFINE r == TimersTick(SliceTick(k))
<1>1. k.stat[k.cur] = "ready" => Contains(k.list[Ready(k.prio[k.cur])], k.cur)
  BY DEF KInv, KernelState, StatAgrees, Queued
<1>2. /\ KInv(r) /\ r.stat = k.stat /\ r.nest = k.nest
      /\ \A l \in List : \A x \in Thread :
           Contains(r.list[l], x) <=> Contains(k.list[l], x)
      /\ r.prio = k.prio
      /\ r.cur = k.cur \/ (k.nest = 0 /\ Queued(r, r.cur))
      /\ \A t \in Thread : r.slice[t] > 0
  BY <1>1, TickInv
<1>3. r.error = k.error
  BY DEF TimersTick, SliceTick, Yield, ToTail, Schedule, Unlink, KInv, KernelState
<1> HIDE DEF r
<1>4. Wakes({}, k, r)
  BY <1>2, ListKeys DEF Wakes, Queued, OnWait
<1> QED
  BY <1>2, <1>3, <1>4 DEF r

(* The timer of a suspended thread: it wakes with -RT_ETIMEOUT.             *)
LEMMA TimeoutWakes ==
  ASSUME NEW k, KInv(k), k.nest = 0, NEW t \in Thread, k.stat[t] = "suspend"
  PROVE  LET r == Timeout(k, t) IN
         /\ Wakes({t}, k, r) /\ r.error = [k.error EXCEPT ![t] = "timeout"]
         /\ r.prio = k.prio /\ Queued(r, r.cur)
<1> DEFINE r == Timeout(k, t)
<1>1. /\ KInv(r) /\ OnlyAbout(t, k, r) /\ r.stat[t] = "ready"
      /\ Queued(r, t) /\ Queued(r, r.cur)
  BY TimeoutInv
<1>2. /\ r.error = [k.error EXCEPT ![t] = "timeout"]
      /\ r.slice = k.slice /\ r.prio = k.prio
  BY Untouched DEF KInv
<1> HIDE DEF r
<1> QED
  BY <1>1, <1>2, WakesOne DEF r

(* Where the insertion by priority goes: behind everybody as urgent.         *)
LEMMA PrioPositionIs ==
  ASSUME NEW k \in KernelState, NEW q \in WaitList, NEW t \in Thread
  PROVE  LET w == k.list[Wait(q)]
             p == PrioPosition(k, q, t)
         IN /\ p \in 1 .. Len(w) + 1
            /\ \A i \in 1 .. Len(w) : i < p => k.prio[w[i]] <= k.prio[t]
            /\ p <= Len(w) => k.prio[t] < k.prio[w[p]]
<1> DEFINE w == k.list[Wait(q)]
           later == {i \in 1 .. Len(w) : k.prio[t] < k.prio[w[i]]}
           p == PrioPosition(k, q, t)
<1>1. w \in Seq(Thread) /\ Len(w) \in Nat
  BY ListKeys DEF KernelState
<1>2. p = IF later = {} THEN Len(w) + 1 ELSE CHOOSE i \in later : \A j \in later : i <= j
  BY DEF PrioPosition
<1>3. \A x \in Thread : k.prio[x] \in Nat
  BY PrioAssumption DEF KernelState, Prio
<1>4. \A i \in 1 .. Len(w) : w[i] \in Thread
  BY <1>1
<1> HIDE DEF w, p
<1>5. CASE later = {}
  <2>1. p = Len(w) + 1
    BY <1>2, <1>5
  <2>2. ASSUME NEW i \in 1 .. Len(w) PROVE k.prio[w[i]] <= k.prio[t]
    <3>1. k.prio[w[i]] \in Nat /\ k.prio[t] \in Nat /\ ~(k.prio[t] < k.prio[w[i]])
      BY <1>3, <1>4, <1>5
    <3> QED
      BY <3>1
  <2>3. p \in 1 .. Len(w) + 1 /\ ~(p <= Len(w))
    BY <1>1, <2>1
  <2> QED
    BY <2>2, <2>3 DEF p, w
<1>6. CASE later # {}
  <2>1. later \in SUBSET Nat
    BY <1>1
  <2> HIDE DEF later
  <2>2. p \in later /\ \A j \in later : p <= j
    BY <1>2, <1>6, <2>1, LeastExists
  <2> USE DEF later
  <2>3. ASSUME NEW i \in 1 .. Len(w), i < p PROVE k.prio[w[i]] <= k.prio[t]
    <3>1. i \notin later /\ k.prio[w[i]] \in Nat /\ k.prio[t] \in Nat
      BY <1>1, <1>3, <1>4, <2>1, <2>2, <2>3
    <3> QED
      BY <3>1
  <2>4. p \in 1 .. Len(w) + 1 /\ k.prio[t] < k.prio[w[p]]
    BY <1>1, <2>2
  <2> QED
    BY <2>3, <2>4 DEF p, w
<1> QED
  BY <1>5, <1>6

(* r is k after t has gone to sleep.                                         *)
Sleeps(t, k, r) ==
  /\ KInv(r) /\ r.nest = k.nest /\ r.cur = k.cur
  /\ r.slice = k.slice /\ r.prio = k.prio
  /\ r.stat[t] = "suspend" /\ ~Queued(r, t)
  /\ \A x \in Thread \ {t} :
       /\ r.stat[x] = k.stat[x] /\ r.error[x] = k.error[x]
       /\ Queued(r, x) <=> Queued(k, x)
       /\ \A q \in WaitList : OnWait(r, q, x) <=> OnWait(k, q, x)

(* rt_thread_suspend leaves the thread suspended and in no list.            *)
LEMMA SuspendSleeps ==
  ASSUME NEW k, KInv(k), NEW t \in Thread, t # Idle
  PROVE  LET r == Suspend(k, t) IN
         Sleeps(t, k, r) /\ ~Linked(r, t) /\ r.error = k.error
<1> DEFINE r == Suspend(k, t)
<1>1. /\ KInv(r) /\ OnlyAbout(t, k, r) /\ ~Linked(r, t)
      /\ r.stat[t] = "suspend" /\ r.cur = k.cur
  BY SuspendInv
<1>2. r.error = k.error /\ r.slice = k.slice /\ r.prio = k.prio
  BY Untouched DEF KInv
<1> HIDE DEF r
<1>3. ~Queued(r, t)
  BY <1>1, ListKeys DEF Linked, Queued
<1>4. \A x \in Thread \ {t} : /\ Queued(r, x) <=> Queued(k, x)
                              /\ \A q \in WaitList : OnWait(r, q, x) <=> OnWait(k, q, x)
  BY <1>1, ListKeys DEF OnlyAbout, Queued, OnWait
<1> QED
  BY <1>1, <1>2, <1>3, <1>4 DEF r, Sleeps, OnlyAbout

(* A timer that is started for a sleeping thread.                            *)
LEMMA TimedSleep ==
  ASSUME NEW k, NEW s, NEW t \in Thread, Sleeps(t, k, s), NEW n \in Nat
  PROVE  LET r == TimerStart(s, t, n) IN
         Sleeps(t, k, r) /\ r.list = s.list /\ r.error = s.error
<1> DEFINE r == TimerStart(s, t, n)
<1>1. /\ KInv(r) /\ OnlyAbout(t, s, r) /\ r.stat = s.stat /\ r.list = s.list /\ r.cur = s.cur
  BY TimerStartInv DEF Sleeps
<1>2. r.slice = s.slice /\ r.error = s.error /\ r.prio = s.prio /\ r.nest = s.nest
  BY DEF Sleeps, KInv, KernelState, TimerStart
<1> HIDE DEF r
<1> QED
  BY <1>1, <1>2 DEF r, Sleeps, Queued, OnWait

\* a is w with t put somewhere
Joins(w, t, a) ==
  /\ a \in Seq(Thread) /\ IsInjective(a)
  /\ \A x : Contains(a, x) <=> Contains(w, x) \/ x = t

(* An unlinked sleeping thread joins a suspend list.                         *)
LEMMA JoinInv ==
  ASSUME NEW k, KInv(k), NEW t \in Thread, ~Linked(k, t), k.stat[t] = "suspend",
         NEW q \in WaitList, NEW a, Joins(k.list[Wait(q)], t, a),
         NEW r, r = [k EXCEPT !.list[Wait(q)] = a]
  PROVE  /\ KInv(r) /\ OnlyAbout(t, k, r) /\ SameExceptLists(k, r)
         /\ \A l \in WaitList : OnWait(r, l, t) <=> l = q
         /\ ~Queued(r, t)
         /\ \A l \in WaitList : r.list[Wait(l)] = IF l = q THEN a ELSE k.list[Wait(l)]
<1>1. k \in KernelState /\ Wait(q) \in List
  BY ListKeys DEF KInv
<1>2. /\ a \in Seq(Thread) /\ IsInjective(a)
      /\ \A x : Contains(a, x) <=> Contains(k.list[Wait(q)], x) \/ x = t
  BY DEF Joins
<1>3. /\ r \in KernelState /\ r.list = [k.list EXCEPT ![Wait(q)] = a]
      /\ SameExceptLists(k, r) /\ r.group = k.group
  BY <1>1, <1>2 DEF KernelState, SameExceptLists
<1>4. \A l \in List : r.list[l] = IF l = Wait(q) THEN a ELSE k.list[l]
  BY <1>1, <1>3 DEF KernelState
<1>5. \A l \in List : \A x : Contains(r.list[l], x)
        <=> Contains(k.list[l], x) \/ (l = Wait(q) /\ x = t)
  BY <1>2, <1>4
<1>6. Disjoint(r)
  <2>1. \A l \in List : IsInjective(r.list[l])
    BY <1>2, <1>4 DEF KInv, Disjoint
  <2>2. \A x \in Thread : \A l, m \in List :
          Contains(r.list[l], x) /\ Contains(r.list[m], x) => l = m
    BY <1>5 DEF KInv, Disjoint, Linked
  <2> QED
    BY <2>1, <2>2 DEF Disjoint
<1>7. GroupAgrees(r) /\ Queued(r, Idle)
  BY <1>3, <1>4, ListKeys DEF KInv, GroupAgrees, Queued
<1>8. StatAgrees(r)
  BY <1>3, <1>5, ListKeys DEF KInv, StatAgrees, SameExceptLists
<1>9. TimersAgree(r)
  BY <1>3 DEF KInv, TimersAgree, SameExceptLists
<1>10. ~Queued(r, t) /\ \A l \in WaitList : OnWait(r, l, t) <=> l = q
  BY <1>5, ListKeys DEF Queued, OnWait, Linked
<1>11. \A l \in WaitList : r.list[Wait(l)] = IF l = q THEN a ELSE k.list[Wait(l)]
  BY <1>4, ListKeys
<1> QED
  BY <1>3, <1>5, <1>6, <1>7, <1>8, <1>9, <1>10, <1>11
     DEF KInv, OnlyAbout, SameExceptLists

(* The place rt_ipc_list_suspend puts a thread at.                           *)
Placed(k, q, t, flag) ==
  LET w == k.list[Wait(q)] IN
  IF flag = "fifo" THEN Append(w, t) ELSE InsertAt(w, PrioPosition(k, q, t), t)

(* Either policy of rt_ipc_list_suspend puts the thread once into the list. *)
LEMMA PlacedJoins ==
  ASSUME NEW k, KInv(k), NEW t \in Thread, ~Linked(k, t), NEW q \in WaitList, NEW flag
  PROVE  Joins(k.list[Wait(q)], t, Placed(k, q, t, flag))
<1> DEFINE w == k.list[Wait(q)]
<1>1. /\ w \in Seq(Thread) /\ IsInjective(w) /\ ~Contains(w, t) /\ k \in KernelState
  BY ListKeys DEF KInv, KernelState, Disjoint, Linked
<1>2. PrioPosition(k, q, t) \in 1 .. Len(w) + 1
  BY <1>1, PrioPositionIs
<1> HIDE DEF w
<1>3. Joins(w, t, Append(w, t))
  BY <1>1, AppendMember DEF Joins
<1>4. Joins(w, t, InsertAt(w, PrioPosition(k, q, t), t))
  BY <1>1, <1>2, InsertAtMember DEF Joins
<1> QED
  BY <1>3, <1>4 DEF Placed, w

(* A thread that has to wait sleeps, on that list and with no error yet.     *)
LEMMA BlockSleeps ==
  ASSUME NEW k, KInv(k), NEW t \in Thread, t # Idle, NEW q \in WaitList,
         NEW flag, NEW n \in Nat
  PROVE  LET r == Block(k, q, t, flag, n) IN
         /\ Sleeps(t, k, r) /\ r.error[t] = "ok"
         /\ \A l \in WaitList : OnWait(r, l, t) <=> l = q
<1> DEFINE k0 == [k EXCEPT !.error[t] = "ok"]
           s == Suspend(k0, t)
           a == Placed(s, q, t, flag)
           m == IpcSuspend(k0, q, t, flag)
           r == Block(k, q, t, flag, n)
<1>1. /\ Wakes({}, k, k0) /\ k0.error = [k.error EXCEPT ![t] = "ok"] /\ k0.nest = k.nest
      /\ k0.list = k.list /\ k0.prio = k.prio /\ k0.cur = k.cur /\ k0.stat = k.stat
  BY ErrorWakes DEF Error, Wakes
<1>2. k0.slice = k.slice /\ k0.error[t] = "ok" /\ \A x \in Thread \ {t} : k0.error[x] = k.error[x]
  BY DEF KInv, KernelState
<1> HIDE DEF k0
<1>3. KInv(k0)
  BY <1>1 DEF Wakes
<1>4. Sleeps(t, k0, s) /\ ~Linked(s, t) /\ s.error = k0.error
  BY <1>3, SuspendSleeps
<1>5. m = [s EXCEPT !.list[Wait(q)] = a]
  <2>1. s \in KernelState /\ Wait(q) \in List
    BY <1>4, ListKeys DEF Sleeps, KInv
  <2> HIDE DEF s
  <2>2. IpcSuspend(k0, q, t, flag) = [s EXCEPT !.list[Wait(q)] = Placed(s, q, t, flag)]
    BY <2>1 DEF IpcSuspend, Placed, s
  <2> QED
    BY <2>2
<1> HIDE DEF s
<1>6. KInv(s) /\ s.stat[t] = "suspend"
  BY <1>4 DEF Sleeps
<1>7. Joins(s.list[Wait(q)], t, a)
  BY <1>4, <1>6, PlacedJoins
<1> HIDE DEF a, m
<1>8. /\ KInv(m) /\ OnlyAbout(t, s, m) /\ SameExceptLists(s, m)
      /\ \A l \in WaitList : OnWait(m, l, t) <=> l = q
      /\ ~Queued(m, t)
  BY <1>4, <1>5, <1>6, <1>7, JoinInv
<1>9. Sleeps(t, k, m) /\ m.error[t] = "ok"
  <2>1. \A x \in Thread \ {t} :
          /\ m.stat[x] = s.stat[x] /\ (Queued(m, x) <=> Queued(s, x))
          /\ \A l \in WaitList : OnWait(m, l, x) <=> OnWait(s, l, x)
    BY <1>8, ListKeys DEF OnlyAbout, Queued, OnWait
  <2>2. \A x \in Thread \ {t} :
          /\ s.stat[x] = k0.stat[x] /\ (Queued(s, x) <=> Queued(k0, x))
          /\ \A l \in WaitList : OnWait(s, l, x) <=> OnWait(k0, l, x)
    BY <1>4 DEF Sleeps
  <2>3. \A x \in Thread : /\ Queued(k0, x) <=> Queued(k, x)
                          /\ \A l \in WaitList : OnWait(k0, l, x) <=> OnWait(k, l, x)
    BY <1>1 DEF Queued, OnWait
  <2>4. /\ m.nest = k.nest /\ m.cur = k.cur /\ m.slice = k.slice /\ m.prio = k.prio
        /\ m.stat[t] = "suspend" /\ m.error = k0.error
    BY <1>1, <1>2, <1>4, <1>8 DEF Sleeps, SameExceptLists
  <2> QED
    BY <1>1, <1>2, <1>8, <2>1, <2>2, <2>3, <2>4 DEF Sleeps
<1>10. r = IF n = Forever THEN m ELSE TimerStart(m, t, n)
  BY DEF r, m, k0, Block
<1> HIDE DEF r
<1>11. CASE n = Forever
  BY <1>8, <1>9, <1>10, <1>11 DEF r
<1>12. CASE n # Forever
  <2>1. Sleeps(t, k, r) /\ r.list = m.list /\ r.error = m.error
    BY <1>9, <1>10, <1>12, TimedSleep
  <2> QED
    BY <1>8, <1>9, <2>1 DEF r, OnWait
<1> QED
  BY <1>11, <1>12

(* rt_schedule_insert_thread keeps the type of the kernel's state.          *)
LEMMA InsertType ==
  ASSUME NEW k \in KernelState, NEW t \in Thread
  PROVE  InsertThread(k, t) \in KernelState
<1> DEFINE p == k.prio[t]
           a == Append(k.list[Ready(p)], t)
           r == InsertThread(k, t)
<1>1. p \in Prio /\ Ready(p) \in List
  BY ListKeys DEF KernelState
<1>2. k.list[Ready(p)] \in Seq(Thread)
  BY <1>1 DEF KernelState
<1>3. a \in Seq(Thread)
  BY <1>2
<1>4. r = [k EXCEPT !.stat[t] = "ready", !.list[Ready(p)] = a, !.group = @ \cup {p}]
  BY DEF InsertThread
<1> HIDE DEF p, a, r
<1>5. /\ r.list = [k.list EXCEPT ![Ready(p)] = a]
      /\ r.stat = [k.stat EXCEPT ![t] = "ready"]
      /\ r.group = k.group \cup {p}
      /\ r.prio = k.prio /\ r.slice = k.slice /\ r.error = k.error
      /\ r.armed = k.armed /\ r.left = k.left /\ r.cur = k.cur /\ r.nest = k.nest
  BY <1>4 DEF KernelState
<1>6. r.list \in [List -> Seq(Thread)]
  BY <1>1, <1>3, <1>5 DEF KernelState
<1>7. r.stat \in [Thread -> Stat] /\ r.group \in SUBSET Prio
  BY <1>1, <1>5 DEF KernelState, Stat
<1>8. r \in KernelState
  BY <1>4, <1>5, <1>6, <1>7 DEF KernelState
<1> QED
  BY <1>8 DEF r

(* rt_thread_resume keeps the type of the kernel's state.                   *)
LEMMA ResumeType ==
  ASSUME NEW k \in KernelState, NEW t \in Thread
  PROVE  Resume(k, t) \in KernelState
<1> DEFINE u == Unlink(k, t)
           d == TimerStop(u, t)
<1>1. u \in KernelState
  <2>1. \A l \in List : Without(k.list[l], t) \in Seq(Thread)
    BY WithoutProperties DEF KernelState
  <2>2. [l \in List |-> Without(k.list[l], t)] \in [List -> Seq(Thread)]
    BY <2>1
  <2> QED
    BY <2>2 DEF Unlink, KernelState
<1> HIDE DEF u
<1>2. d \in KernelState
  BY <1>1 DEF TimerStop, KernelState
<1> HIDE DEF d
<1>3. InsertThread(d, t) \in KernelState
  BY <1>2, InsertType
<1> QED
  BY <1>3 DEF Resume, Detached, u, d

(* One iteration of rt_ipc_list_resume_all keeps the type of the kernel's   *)
(* state.                                                                   *)
LEMMA ResumeToldType ==
  ASSUME NEW k \in KernelState, NEW t \in Thread
  PROVE  ResumeTold(k, t) \in KernelState
<1> DEFINE m == [k EXCEPT !.error[t] = "error"]
<1>1. m \in KernelState
  BY DEF KernelState, Error
<1> HIDE DEF m
<1>2. Resume(m, t) \in KernelState
  BY <1>1, ResumeType
<1> QED
  BY <1>2 DEF ResumeTold, m

-----------------------------------------------------------------------------
(* In which order threads wait *)

(* The list v is w with some threads taken out.                             *)
Within(v, w) ==
  /\ \A x : Contains(v, x) => Contains(w, x)
  /\ \A x, y : Before(v, x, y) => Before(w, x, y)

(* r is k with some waiters taken off their lists, and with its priorities. *)
Thins(k, r) ==
  /\ r \in KernelState /\ r.prio = k.prio
  /\ \A q \in WaitList : Within(r.list[Wait(q)], k.list[Wait(q)])

(* Nobody left, nothing moved.                                             *)
LEMMA WithinSelf == ASSUME NEW w PROVE Within(w, w)
BY DEF Within

(* Taking waiters out in two steps.                                        *)
LEMMA WithinThen ==
  ASSUME NEW u, NEW v, NEW w, Within(u, v), Within(v, w) PROVE Within(u, w)
BY DEF Within

(* Taking a thread out.                                                     *)
LEMMA WithoutWithin ==
  ASSUME NEW w \in Seq(Thread), IsInjective(w), NEW t PROVE Within(Without(w, t), w)
PROOF
<1>1. \A x : Contains(Without(w, t), x) => Contains(w, x)  BY WithoutProperties
<1>2. ASSUME NEW x, NEW y, Before(Without(w, t), x, y) PROVE Before(w, x, y)
  BY <1>2, WithoutOrder DEF Before
<1> QED BY <1>1, <1>2 DEF Within

(* The same lists and priorities.                                           *)
LEMMA SameThins ==
  ASSUME NEW k, NEW r \in KernelState, r.prio = k.prio,
         \A q \in WaitList : r.list[Wait(q)] = k.list[Wait(q)]
  PROVE  Thins(k, r)
BY WithinSelf DEF Thins

(* The same of two kernel operations.                                      *)
LEMMA ThinsThen ==
  ASSUME NEW k, NEW m, NEW r, Thins(k, m), Thins(m, r) PROVE Thins(k, r)
BY WithinThen DEF Thins

(* t is taken out of every waiting list, and the priorities stay.           *)
LEMMA TakenOutThins ==
  ASSUME NEW k, KInv(k), NEW t, NEW r \in KernelState, r.prio = k.prio,
         \A q \in WaitList : r.list[Wait(q)] = Without(k.list[Wait(q)], t)
  PROVE  Thins(k, r)
PROOF
<1> SUFFICES ASSUME NEW q \in WaitList PROVE Within(r.list[Wait(q)], k.list[Wait(q)])
  BY DEF Thins
<1>1. Wait(q) \in List  BY ListKeys
<1>2. k.list[Wait(q)] \in Seq(Thread) /\ IsInjective(k.list[Wait(q)])
  BY <1>1 DEF KInv, KernelState, Disjoint
<1> QED BY <1>2, WithoutWithin

(* rt_schedule leaves every list as it is.                                  *)
LEMMA ScheduleThins ==
  ASSUME NEW k, KInv(k) PROVE Thins(k, Schedule(k))
PROOF
<1>1. KInv(Schedule(k)) /\ Schedule(k).list = k.list /\ Schedule(k).prio = k.prio
  BY ScheduleInv
<1> QED BY <1>1, SameThins DEF KInv

(* An error code of a thread.                                               *)
LEMMA ErrorThins ==
  ASSUME NEW k, KInv(k), NEW t \in Thread, NEW e \in Error
  PROVE  Thins(k, [k EXCEPT !.error[t] = e])
PROOF
<1> DEFINE r == [k EXCEPT !.error[t] = e]
<1>1. Wakes({}, k, r) /\ r.list = k.list /\ r.prio = k.prio  BY ErrorWakes
<1> HIDE DEF r
<1> QED BY <1>1, SameThins DEF r, Wakes, KInv

(* rt_thread_resume, rt_thread_suspend and rt_thread_timeout take the       *)
(* thread off its list.                                                     *)
LEMMA InsertLeaves ==
  ASSUME NEW k \in KernelState, NEW t \in Thread, NEW q \in WaitList
  PROVE  InsertThread(k, t).list[Wait(q)] = k.list[Wait(q)]
PROOF
<1>1. k.prio[t] \in Prio  BY DEF KernelState
<1>2. /\ Ready(k.prio[t]) \in List /\ Wait(q) \in List /\ Wait(q) # Ready(k.prio[t])
      /\ k.list \in [List -> Seq(Thread)]
  BY <1>1, ListKeys DEF KernelState
<1> DEFINE f == [k.list EXCEPT ![Ready(k.prio[t])] = Append(@, t)]
<1>3. InsertThread(k, t).list = f  BY DEF InsertThread, KernelState
<1>4. f[Wait(q)] = k.list[Wait(q)]  BY <1>2
<1> QED BY <1>3, <1>4

(* rt_list_remove takes the thread out of whatever list it is on.          *)
LEMMA UnlinkLists ==
  ASSUME NEW k \in KernelState, NEW t
  PROVE  /\ Unlink(k, t) \in KernelState
         /\ \A q \in WaitList : Unlink(k, t).list[Wait(q)] = Without(k.list[Wait(q)], t)
PROOF
<1>1. \A q \in WaitList : Wait(q) \in List  BY ListKeys
<1>2. \A l \in List : Without(k.list[l], t) \in Seq(Thread)
  BY WithoutProperties DEF KernelState
<1>3. [l \in List |-> Without(k.list[l], t)] \in [List -> Seq(Thread)]  BY <1>2
<1>4. Unlink(k, t).list = [l \in List |-> Without(k.list[l], t)]
  BY DEF Unlink, KernelState
<1>5. Unlink(k, t) \in KernelState  BY <1>3 DEF Unlink, KernelState
<1> QED BY <1>1, <1>4, <1>5

(* rt_thread_resume                                                        *)
LEMMA ResumeThins ==
  ASSUME NEW k, KInv(k), NEW t \in Thread
  PROVE  Thins(k, Resume(k, t))
PROOF
<1> DEFINE u == Unlink(k, t)
           d == TimerStop(u, t)
           r == Resume(k, t)
<1>1. k \in KernelState  BY DEF KInv
<1>2. u \in KernelState /\ \A q \in WaitList : u.list[Wait(q)] = Without(k.list[Wait(q)], t)
  BY <1>1, UnlinkLists
<1>3. r.prio = k.prio  BY <1>1, Untouched
<1>4. r = InsertThread(d, t)  BY DEF Resume, Detached
<1> HIDE DEF u
<1>5. d \in KernelState /\ d.list = u.list  BY <1>2 DEF TimerStop, KernelState
<1> HIDE DEF d
<1>6. r \in KernelState  BY <1>4, <1>5, InsertType
<1>7. \A q \in WaitList : r.list[Wait(q)] = Without(k.list[Wait(q)], t)
  BY <1>2, <1>4, <1>5, InsertLeaves
<1> HIDE DEF r
<1> QED BY <1>3, <1>6, <1>7, TakenOutThins DEF r

(* rt_thread_timeout                                                       *)
LEMMA TimeoutThins ==
  ASSUME NEW k, KInv(k), k.nest = 0, NEW t \in Thread, k.stat[t] = "suspend"
  PROVE  Thins(k, Timeout(k, t))
PROOF
<1> DEFINE e == [TimerStop(k, t) EXCEPT !.error[t] = "timeout"]
           u == Unlink(e, t)
           i == InsertThread(u, t)
           r == Timeout(k, t)
<1>1. k \in KernelState  BY DEF KInv
<1>2. KInv(r) /\ r.prio = k.prio
  BY TimeoutWakes DEF Wakes
<1>3. r = Schedule(i)  BY DEF Timeout
<1>4. e \in KernelState /\ e.list = k.list
  BY <1>1 DEF TimerStop, KernelState, Error
<1> HIDE DEF e
<1>5. u \in KernelState /\ \A q \in WaitList : u.list[Wait(q)] = Without(k.list[Wait(q)], t)
  BY <1>4, UnlinkLists
<1> HIDE DEF u
<1>6. i \in KernelState /\ \A q \in WaitList : i.list[Wait(q)] = u.list[Wait(q)]
  BY <1>5, InsertType, InsertLeaves
<1> HIDE DEF i
<1>7. r.list = i.list  BY <1>3, <1>6 DEF Schedule, KernelState
<1> HIDE DEF r
<1>8. r \in KernelState  BY <1>2 DEF KInv
<1> QED BY <1>2, <1>5, <1>6, <1>7, <1>8, TakenOutThins DEF r

(* A tick moves at most the current thread.                                 *)
LEMMA TickThins ==
  ASSUME NEW k, KInv(k), \A x \in Thread : k.slice[x] > 0,
         \A x \in Thread : k.stat[x] = "ready" => Queued(k, x)
  PROVE  Thins(k, TimersTick(SliceTick(k)))
PROOF
<1> DEFINE s == SliceTick(k)
           r == TimersTick(s)
           m == [k EXCEPT !.slice[k.cur] = InitTick[k.cur]]
           u == ToTail(m, k.cur)
<1>1. KInv(r) /\ r.prio = k.prio  BY TickWakes DEF Wakes
<1>2. /\ k \in KernelState /\ k.cur \in Thread /\ k.prio[k.cur] \in Prio
      /\ InitTick[k.cur] \in Nat
  BY TickAssumption DEF KInv, KernelState
<1>3. k.stat[k.cur] = "ready" => Contains(k.list[Ready(k.prio[k.cur])], k.cur)
  BY <1>2 DEF KInv, KernelState, StatAgrees, Queued
<1>4. KInv(s) /\ s \in KernelState  BY <1>3, SliceTickInv DEF KInv
<1>5. /\ m \in KernelState /\ m.list = k.list /\ m.cur = k.cur /\ m.prio = k.prio
  BY <1>2 DEF KernelState
<1>6. s = Yield(m) \/ s.list = k.list
  BY <1>2 DEF SliceTick, KernelState
<1>7. Yield(m) = m \/ Yield(m) = Schedule(u)
  BY <1>5 DEF Yield
<1> DEFINE v == Unlink(m, k.cur)
           l == Ready(k.prio[k.cur])
           a == Append(v.list[l], k.cur)
<1>8. v \in KernelState /\ \A q \in WaitList : v.list[Wait(q)] = Without(k.list[Wait(q)], k.cur)
  BY <1>5, UnlinkLists
<1>9. u = [v EXCEPT !.list[l] = a]
  BY <1>5 DEF ToTail
<1>10. l \in List /\ \A q \in WaitList : Wait(q) \in List /\ Wait(q) # l
  BY <1>2, ListKeys
<1> HIDE DEF v, u, l
<1>11. a \in Seq(Thread)  BY <1>2, <1>8, <1>10 DEF KernelState
<1> HIDE DEF a
<1>12. u \in KernelState /\ u.list = [v.list EXCEPT ![l] = a]
  BY <1>8, <1>9, <1>10, <1>11 DEF KernelState
<1>13. \A q \in WaitList : u.list[Wait(q)] = Without(k.list[Wait(q)], k.cur)
  BY <1>8, <1>10, <1>12 DEF KernelState
<1>14. Schedule(u).list = u.list  BY <1>12 DEF Schedule, KernelState
<1>15. r.list = s.list  BY <1>4 DEF TimersTick, KernelState
<1> HIDE DEF r, s, m
<1>16. r \in KernelState  BY <1>1 DEF KInv
<1>17. CASE r.list = k.list
  BY <1>1, <1>16, <1>17, SameThins DEF r, s
<1>18. CASE r.list = u.list
  BY <1>1, <1>13, <1>16, <1>18, TakenOutThins DEF r, s
<1> QED BY <1>5, <1>6, <1>7, <1>14, <1>15, <1>17, <1>18

(* The place of a newcomer depends on the list and the priorities only.     *)
LEMMA SamePosition ==
  ASSUME NEW k, NEW s, NEW q, NEW t,
         s.list[Wait(q)] = k.list[Wait(q)], s.prio = k.prio
  PROVE  PrioPosition(s, q, t) = PrioPosition(k, q, t)
PROOF
<1> DEFINE later(x) == {i \in 1 .. Len(x.list[Wait(q)]) : x.prio[t] < x.prio[x.list[Wait(q)][i]]}
           pos(w, l) == IF l = {} THEN Len(w) + 1 ELSE CHOOSE i \in l : \A j \in l : i <= j
<1>1. later(s) = later(k)  OBVIOUS
<1>2. /\ PrioPosition(s, q, t) = pos(s.list[Wait(q)], later(s))
      /\ PrioPosition(k, q, t) = pos(k.list[Wait(q)], later(k))
  BY DEF PrioPosition
<1> HIDE DEF later, pos
<1> QED BY <1>1, <1>2

(* What rt_ipc_list_suspend does to the lists: the thread is put into one   *)
(* of them.                                                                 *)
LEMMA BlockLists ==
  ASSUME NEW k, KInv(k), NEW t \in Thread, t # Idle, NEW q \in WaitList,
         NEW flag, NEW n \in Nat, \A p \in WaitList : ~OnWait(k, p, t)
  PROVE  LET r == Block(k, q, t, flag, n) IN
         \A p \in WaitList :
           r.list[Wait(p)] = IF p = q THEN Placed(k, q, t, flag) ELSE k.list[Wait(p)]
PROOF
<1> DEFINE e == [k EXCEPT !.error[t] = "ok"]
           s == Suspend(e, t)
           a == Placed(s, q, t, flag)
           m == IpcSuspend(e, q, t, flag)
           r == Block(k, q, t, flag, n)
<1>1. KInv(e) /\ e.list = k.list /\ e.prio = k.prio
  BY ErrorWakes DEF Error, Wakes
<1> DEFINE f == [e EXCEPT !.stat[t] = "suspend"]
           v == Unlink(f, t)
<1>2. f \in KernelState /\ f.list = k.list  BY <1>1 DEF KInv, KernelState, Stat
<1> HIDE DEF e
<1>3. Sleeps(t, e, s) /\ ~Linked(s, t)  BY <1>1, SuspendSleeps
<1>4. s = TimerStop(RemoveThread(f, t), t)  BY DEF Suspend
<1>5. v \in KernelState /\ \A p \in WaitList : v.list[Wait(p)] = Without(k.list[Wait(p)], t)
  BY <1>2, UnlinkLists
<1>6. s.list = v.list
  <2> HIDE DEF v, f
  <2>1. RemoveThread(f, t) = [v EXCEPT !.group = IF v.list[Ready(f.prio[t])] = << >>
                                                 THEN @ \ {f.prio[t]} ELSE @]
    BY DEF RemoveThread, v
  <2> DEFINE g == RemoveThread(f, t)
  <2>2. g.list = v.list /\ TimerStop(g, t).list = g.list
    BY <1>5, <2>1 DEF TimerStop, KernelState
  <2> QED BY <1>4, <2>2
<1> HIDE DEF f, v
<1>7. \A p \in WaitList : s.list[Wait(p)] = k.list[Wait(p)]
  <2> TAKE p \in WaitList
  <2>1. k.list[Wait(p)] \in Seq(Thread) /\ ~Contains(k.list[Wait(p)], t)
    BY ListKeys DEF KInv, KernelState, OnWait
  <2> QED BY <1>5, <1>6, <2>1, WithoutProperties
<1>8. s.prio = k.prio /\ KInv(s) /\ s.stat[t] = "suspend"  BY <1>1, <1>3 DEF Sleeps
<1>9. m = [s EXCEPT !.list[Wait(q)] = a]
  <2>1. s \in KernelState /\ Wait(q) \in List
    BY <1>8, ListKeys DEF KInv
  <2> HIDE DEF s
  <2>2. IpcSuspend(e, q, t, flag) = [s EXCEPT !.list[Wait(q)] = Placed(s, q, t, flag)]
    BY <2>1 DEF IpcSuspend, Placed, s
  <2> QED BY <2>2
<1> HIDE DEF s
<1>10. Joins(s.list[Wait(q)], t, a)  BY <1>3, <1>8, PlacedJoins
<1>11. a = Placed(k, q, t, flag)
  <2>1. s.list[Wait(q)] = k.list[Wait(q)] /\ s.prio = k.prio  BY <1>7, <1>8
  <2>2. PrioPosition(s, q, t) = PrioPosition(k, q, t)  BY <2>1, SamePosition
  <2> QED BY <2>1, <2>2 DEF Placed
<1> HIDE DEF a, m
<1>12. /\ KInv(m)
       /\ \A l \in WaitList : m.list[Wait(l)] = IF l = q THEN a ELSE s.list[Wait(l)]
  <2>1. KInv(s) /\ s.stat[t] = "suspend" /\ ~Linked(s, t)  BY <1>3, <1>8
  <2>2. KInv(m) /\ OnlyAbout(t, s, m)  BY <2>1, <1>9, <1>10, JoinInv
  <2>3. s.list \in [List -> Seq(Thread)] /\ Wait(q) \in List
    BY <2>1, ListKeys DEF KInv, KernelState
  <2>4. m.list = [s.list EXCEPT ![Wait(q)] = a]
    BY <2>1, <1>9 DEF KInv, KernelState
  <2>5. \A l \in WaitList : Wait(l) \in List /\ (Wait(l) = Wait(q) <=> l = q)
    BY ListKeys
  <2> QED BY <2>2, <2>3, <2>4, <2>5
<1>13. r = IF n = Forever THEN m ELSE TimerStart(m, t, n)
  BY DEF r, m, e, Block
<1>14. TimerStart(m, t, n).list = m.list  BY <1>12 DEF TimerStart, KInv, KernelState
<1> HIDE DEF r
<1>15. r.list = m.list  BY <1>13, <1>14
<1> QED BY <1>7, <1>11, <1>12, <1>15 DEF r

(* rt_thread_suspend takes a thread that waits nowhere off no list.         *)
LEMMA SleepLists ==
  ASSUME NEW k, KInv(k), NEW t \in Thread, NEW n \in Nat, t # Idle
  PROVE  Thins(k, TimerStart(Suspend(k, t), t, n))
PROOF
<1> DEFINE f == [k EXCEPT !.stat[t] = "suspend"]
           v == Unlink(f, t)
           g == RemoveThread(f, t)
           s == Suspend(k, t)
           r == TimerStart(s, t, n)
<1>1. f \in KernelState /\ f.list = k.list  BY DEF KInv, KernelState, Stat
<1>2. s = TimerStop(g, t)  BY DEF Suspend
<1>3. g = [v EXCEPT !.group = IF v.list[Ready(f.prio[t])] = << >>
                               THEN @ \ {f.prio[t]} ELSE @]
  BY DEF RemoveThread
<1> HIDE DEF f, g
<1>4. v \in KernelState /\ \A p \in WaitList : v.list[Wait(p)] = Without(k.list[Wait(p)], t)
  BY <1>1, UnlinkLists
<1> HIDE DEF v
<1>5. g.list = v.list /\ TimerStop(g, t).list = g.list
  BY <1>3, <1>4 DEF TimerStop, KernelState
<1>6. Sleeps(t, k, s)  BY SuspendSleeps
<1> HIDE DEF s
<1>7. Sleeps(t, k, r) /\ r.list = s.list  BY <1>6, TimedSleep
<1> HIDE DEF r
<1>8. r \in KernelState /\ r.prio = k.prio  BY <1>7 DEF Sleeps, KInv
<1> QED BY <1>2, <1>4, <1>5, <1>7, <1>8, TakenOutThins DEF r, s

(* A waiter that is told of an error.                                       *)
LEMMA ResumeToldThins ==
  ASSUME NEW k, KInv(k), NEW t \in Thread
  PROVE  Thins(k, ResumeTold(k, t))
PROOF
<1> DEFINE m == [k EXCEPT !.error[t] = "error"]
<1>1. Thins(k, m) /\ KInv(m)  BY ErrorThins, ErrorWakes DEF Error, Wakes
<1> HIDE DEF m
<1>2. Thins(m, Resume(m, t))  BY <1>1, ResumeThins
<1> QED BY <1>1, <1>2, ThinsThen DEF ResumeTold, m

-----------------------------------------------------------------------------
(* rt_ipc_list_resume_all *)

(* One after the other: everybody on the list is resumed, with an error.     *)
LEMMA ResumeAllWakes ==
  ASSUME NEW k, KInv(k), NEW q \in WaitList
  PROVE  LET r == ResumeAll(k, q)
             R == {x \in Thread : OnWait(k, q, x)}
         IN /\ Wakes(R, k, r) /\ r.prio = k.prio /\ r.cur = k.cur /\ Thins(k, r)
            /\ \A x \in Thread : r.error[x] = IF x \in R THEN "error" ELSE k.error[x]
<1> DEFINE w == k.list[Wait(q)]
           S == DOMAIN w
           E(f) == f = [s \in SUBSET S |-> IF s = {} THEN k
                          ELSE ResumeTold(f[s \ {Max(s)}], w[Max(s)])]
           F == CHOOSE f : E(f)
<1>1. ResumeAll(k, q) = F[S]
  BY DEF ResumeAll, FoldLeft, MapThenFoldSet, ResumeTold
<1>2. /\ w \in Seq(Thread) /\ IsInjective(w) /\ k \in KernelState
      /\ S = 1 .. Len(w) /\ Len(w) \in Nat
  BY ListKeys DEF KInv, KernelState, Disjoint
<1> DEFINE c == [s \in SUBSET S |-> Max(s)]
           G == [a \in S \X KernelState |-> ResumeTold(a[2], w[a[1]])]
<1>3. /\ IsFiniteSet(S)
      /\ \A s \in SUBSET S : s # {} => c[s] \in s
      /\ \A x \in S, v \in KernelState : G[<<x, v>>] \in KernelState
  <2>1. IsFiniteSet(S)
    BY <1>2, FS_Interval
  <2>2. \A s \in SUBSET S : s # {} => c[s] \in s
    BY <1>2, GreatestExists
  <2>3. \A x \in S, v \in KernelState : G[<<x, v>>] \in KernelState
    <3> TAKE x \in S, v \in KernelState
    <3>1. w[x] \in Thread
      BY <1>2
    <3>2. ResumeTold(v, w[x]) \in KernelState
      BY <3>1, ResumeToldType
    <3> QED
      BY <3>2
  <2> QED
    BY <2>1, <2>2, <2>3
<1>4. \E f : E(f)
  <2>1. PICK f \in [SUBSET S -> KernelState] : Folds(S, c, G, k, f)
    <3> HIDE DEF S, c, G, w
    <3> QED
      BY <1>2, <1>3, FoldsExist
  <2>2. ASSUME NEW s \in SUBSET S, s # {}
        PROVE  G[<<c[s], f[s \ {c[s]}]>>] = ResumeTold(f[s \ {Max(s)}], w[Max(s)])
    <3>1. c[s] = Max(s) /\ c[s] \in S
      BY <1>3, <2>2
    <3>2. f[s \ {c[s]}] \in KernelState
      BY <2>1
    <3> HIDE DEF S, c, w
    <3> QED
      BY <3>1, <3>2
  <2>3. [s \in SUBSET S |-> IF s = {} THEN k ELSE G[<<c[s], f[s \ {c[s]}]>>]]
          = [s \in SUBSET S |-> IF s = {} THEN k ELSE ResumeTold(f[s \ {Max(s)}], w[Max(s)])]
    <3> HIDE DEF G, c, S, w
    <3> QED
      BY <2>2
  <2>4. E(f)
    <3> HIDE DEF G, c, S, w
    <3> QED
      BY <2>1, <2>3 DEF Folds
  <2> HIDE DEF E
  <2> QED
    BY <2>4
<1>5. E(F)
  <2> HIDE DEF E
  <2> QED
    BY <1>4
<1> HIDE DEF c, G, F
<1>6. /\ F[1 .. 0] = k
      /\ \A i \in 0 .. Len(w) : i < Len(w) => F[1 .. i + 1] = ResumeTold(F[1 .. i], w[i + 1])
  <2>1. F[1 .. 0] = k
    BY <1>5
  <2>2. ASSUME NEW i \in 0 .. Len(w), i < Len(w)
        PROVE  F[1 .. i + 1] = ResumeTold(F[1 .. i], w[i + 1])
    <3> DEFINE s == 1 .. i + 1
    <3>1. s \in SUBSET S /\ s # {} /\ Max(s) = i + 1 /\ s \ {i + 1} = 1 .. i
      <4>1. s \in SUBSET S /\ i + 1 \in s
        BY <1>2, <2>2
      <4>2. i \in Nat
        BY <2>2
      <4> QED
        BY <4>1, <4>2, MaxUpTo
    <3> HIDE DEF s, S, w
    <3>2. F[s] = ResumeTold(F[s \ {Max(s)}], w[Max(s)])
      BY <1>5, <3>1
    <3> QED
      BY <3>1, <3>2 DEF s
  <2> QED
    BY <2>1, <2>2
<1> HIDE DEF E
<1> DEFINE Upto(i) == {w[j] : j \in 1 .. i}
           Done(i) == /\ Wakes(Upto(i), k, F[1 .. i]) /\ Thins(k, F[1 .. i])
                      /\ F[1 .. i].prio = k.prio /\ F[1 .. i].cur = k.cur
                      /\ \A x \in Thread : F[1 .. i].error[x]
                           = IF x \in Upto(i) THEN "error" ELSE k.error[x]
           P == {i \in 0 .. Len(w) : Done(i)}
<1>7. Done(0)
  <2>1. Upto(0) = {}
    OBVIOUS
  <2> HIDE DEF Upto
  <2> QED
    BY <1>2, <1>6, <2>1, WakesNobody, SameThins
<1>8. ASSUME NEW i \in 0 .. Len(w), Done(i), i < Len(w) PROVE Done(i + 1)
  <2> DEFINE m == F[1 .. i]
             t == w[i + 1]
             r == ResumeTold(m, t)
  <2>1. /\ t \in Thread /\ t \notin Upto(i) /\ Upto(i + 1) = Upto(i) \cup {t}
        /\ Upto(i) \in SUBSET Thread
    <3>1. \A j \in 1 .. i : j \in 1 .. Len(w) /\ j # i + 1 /\ i + 1 \in 1 .. Len(w)
      BY <1>2, <1>8
    <3>2. i + 1 \in 1 .. Len(w) /\ (1 .. i + 1) = (1 .. i) \cup {i + 1}
      BY <1>2, <1>8
    <3>3. \A j \in 1 .. i : w[j] # t /\ w[j] \in Thread
      BY <1>2, <3>1 DEF IsInjective
    <3>4. t \in Thread
      BY <1>2, <3>2
    <3> HIDE DEF w
    <3> QED
      BY <3>2, <3>3, <3>4
  <2>2. k.stat[t] = "suspend"
    <3>1. Contains(w, t)
      BY <1>2, <1>8 DEF Contains
    <3> QED
      BY <2>1, <3>1 DEF KInv, StatAgrees
  <2>3. F[1 .. i + 1] = r
    BY <1>6, <1>8
  <2>4. /\ Wakes(Upto(i), k, m) /\ m.prio = k.prio /\ m.cur = k.cur /\ Thins(k, m)
        /\ \A x \in Thread : m.error[x] = IF x \in Upto(i) THEN "error" ELSE k.error[x]
    BY <1>8
  <2> HIDE DEF m, t, Upto
  <2>5. KInv(m) /\ m.stat[t] = "suspend" /\ m \in KernelState
    BY <2>1, <2>2, <2>4 DEF Wakes, KInv
  <2>6. /\ Wakes({t}, m, r) /\ r.error = [m.error EXCEPT ![t] = "error"]
        /\ r.prio = m.prio /\ r.cur = m.cur
    BY <2>1, <2>5, ResumeToldWakes
  <2>7. Thins(m, r)
    BY <2>1, <2>5, ResumeToldThins
  <2> HIDE DEF r
  <2>8. Thins(k, r)
    BY <2>4, <2>7, ThinsThen
  <2>9. Wakes(Upto(i + 1), k, r)
    <3>1. {t} \in SUBSET Thread
      BY <2>1
    <3>2. Wakes(Upto(i) \cup {t}, k, r)
      BY <2>1, <2>4, <2>6, <3>1, WakesThen
    <3> QED
      BY <2>1, <3>2
  <2>10. \A x \in Thread : r.error[x] = IF x \in Upto(i + 1) THEN "error" ELSE k.error[x]
    BY <2>1, <2>4, <2>5, <2>6 DEF KernelState
  <2> QED
    BY <2>3, <2>4, <2>6, <2>8, <2>9, <2>10
<1> HIDE DEF Done
<1>9. Done(Len(w))
  <2>1. 0 \in P /\ P \subseteq 0 .. Len(w)
    BY <1>2, <1>7
  <2>2. \A i \in 0 .. Len(w) : i \in P /\ i < Len(w) => i + 1 \in P
    BY <1>2, <1>8
  <2>3. Len(w) \in P
    <3> HIDE DEF P, w
    <3> QED
      BY <1>2, <2>1, <2>2, InitialSegment
  <2> QED
    BY <2>3
<1>10. Upto(Len(w)) = {x \in Thread : OnWait(k, q, x)}
  BY <1>2 DEF OnWait, Contains
<1> QED
  <2> HIDE DEF Upto
  <2> QED
    BY <1>1, <1>2, <1>9, <1>10 DEF Done

\* the threads in T have been started, nothing else has happened
StartedThreads(T, k) ==
  /\ KLists(k) /\ k.armed = {} /\ k.nest = 0
  /\ k.slice = InitTick /\ k.prio = InitPrio /\ k.error = [t \in Thread |-> "ok"]
  /\ \A x \in Thread : IF x \in T THEN k.stat[x] = "ready" /\ Queued(k, x)
                                  ELSE k.stat[x] = "init" /\ ~Linked(k, x)

(* rt_thread_startup of one more thread.                                    *)
LEMMA StartOne ==
  ASSUME NEW T \in SUBSET Thread, NEW k, StartedThreads(T, k), NEW t \in Thread \ T
  PROVE  StartedThreads(T \cup {t}, InsertThread(k, t))
<1> DEFINE r == InsertThread(k, t)
<1>1. KLists(k) /\ ~Linked(k, t) /\ t \notin k.armed /\ k \in KernelState
  BY DEF StartedThreads, KLists
<1>2. /\ KLists(r) /\ OnlyAbout(t, k, r)
      /\ r.stat[t] = "ready" /\ r.armed = k.armed
      /\ Queued(r, t) /\ \A x \in Thread : Queued(k, x) => Queued(r, x)
  BY <1>1, InsertLists
<1>3. r.slice = k.slice /\ r.prio = k.prio /\ r.error = k.error
  BY <1>1 DEF InsertThread, KernelState
<1> HIDE DEF r
<1>4. \A x \in Thread \ {t} : r.stat[x] = k.stat[x] /\ (Linked(r, x) <=> Linked(k, x))
  BY <1>2 DEF OnlyAbout, Linked
<1>5. \A x \in Thread : IF x \in T \cup {t} THEN r.stat[x] = "ready" /\ Queued(r, x)
                                  ELSE r.stat[x] = "init" /\ ~Linked(r, x)
  BY <1>2, <1>4 DEF StartedThreads
<1>6. r.nest = k.nest
  BY <1>2 DEF OnlyAbout
<1> QED
  BY <1>2, <1>3, <1>5, <1>6 DEF r, StartedThreads

(* The state in which an application starts, all its threads queued and     *)
(* none of them waiting.                                                    *)
LEMMA UpInv ==
  ASSUME NEW S \in SUBSET Thread, IsFiniteSet(S), Idle \in S
  PROVE  LET r == Up(S) IN
         /\ KInv(r) /\ r.nest = 0 /\ r.slice = InitTick /\ r.prio = InitPrio
         /\ Queued(r, r.cur)
         /\ \A x \in Thread : /\ r.stat[x] \in {"init", "ready"} /\ r.error[x] = "ok"
                              /\ r.stat[x] = "ready" => Queued(r, x)
                              /\ \A q \in WaitList : ~OnWait(r, q, x)
<1> DEFINE k == [SchedulerInit EXCEPT !.stat = [t \in Thread |-> "init"]]
           w == SetToSeq(S)
           D == DOMAIN w
           E(f) == f = [s \in SUBSET D |-> IF s = {} THEN k
                          ELSE InsertThread(f[s \ {Max(s)}], w[Max(s)])]
           F == CHOOSE f : E(f)
<1>1. Up(S) = Schedule(F[D])
  BY DEF Up, FoldLeft, MapThenFoldSet
<1>2. /\ w \in Seq(Thread) /\ IsInjective(w) /\ D = 1 .. Len(w) /\ Len(w) \in Nat
      /\ \A x : Contains(w, x) <=> x \in S
  <2> HIDE DEF w
  <2>1. w \in Seq(S) /\ IsInjective(w) /\ \A x : Contains(w, x) <=> x \in S
    BY SetToSeqIs DEF w
  <2> QED
    BY <2>1
<1>3. k \in KernelState /\ StartedThreads({}, k)
  <2>1. /\ k.stat = [t \in Thread |-> "init"] /\ k.list = [l \in List |-> << >>]
        /\ k.armed = {} /\ k.nest = 0 /\ k.group = {}
        /\ k.slice = InitTick /\ k.prio = InitPrio /\ k.error = [t \in Thread |-> "ok"]
    BY DEF SchedulerInit
  <2>2. k \in KernelState
    <3>1. SchedulerInit \in KernelState
      BY ThreadAssumption, PrioAssumption, TickAssumption
         DEF SchedulerInit, KernelState, Stat, Error
    <3>2. [t \in Thread |-> "init"] \in [Thread -> Stat]
      BY DEF Stat
    <3> QED
      BY <3>1, <3>2 DEF KernelState
  <2> HIDE DEF k
  <2>3. \A l \in List : \A x : ~Contains(k.list[l], x)
    BY <2>1 DEF Contains
  <2>4. KLists(k)
    <3>1. Disjoint(k)
      BY <2>1, <2>3 DEF Disjoint, IsInjective
    <3>2. GroupAgrees(k) /\ TimersAgree(k)
      BY <2>1, ListKeys DEF GroupAgrees, TimersAgree
    <3>3. StatAgrees(k)
      BY <2>3, ListKeys DEF StatAgrees
    <3> QED
      BY <2>2, <3>1, <3>2, <3>3 DEF KLists
  <2>5. \A x \in Thread : k.stat[x] = "init" /\ ~Linked(k, x)
    BY <2>1, <2>3 DEF Linked
  <2> QED
    BY <2>1, <2>2, <2>4, <2>5 DEF StartedThreads
<1> HIDE DEF k, w
<1> DEFINE c == [s \in SUBSET D |-> Max(s)]
           G == [a \in D \X KernelState |-> InsertThread(a[2], w[a[1]])]
<1>4. /\ IsFiniteSet(D)
      /\ \A s \in SUBSET D : s # {} => c[s] \in s
      /\ \A x \in D, v \in KernelState : G[<<x, v>>] \in KernelState
  <2>1. IsFiniteSet(D)
    BY <1>2, FS_Interval
  <2>2. \A s \in SUBSET D : s # {} => c[s] \in s
    BY <1>2, GreatestExists
  <2>3. \A x \in D, v \in KernelState : G[<<x, v>>] \in KernelState
    <3> TAKE x \in D, v \in KernelState
    <3>1. w[x] \in Thread
      BY <1>2
    <3>2. InsertThread(v, w[x]) \in KernelState
      BY <3>1, InsertType
    <3> QED
      BY <3>2
  <2> QED
    BY <2>1, <2>2, <2>3
<1>5. E(F)
  <2>1. PICK f \in [SUBSET D -> KernelState] : Folds(D, c, G, k, f)
    <3> HIDE DEF D, c, G
    <3> QED
      BY <1>3, <1>4, FoldsExist
  <2>2. ASSUME NEW s \in SUBSET D, s # {}
        PROVE  G[<<c[s], f[s \ {c[s]}]>>] = InsertThread(f[s \ {Max(s)}], w[Max(s)])
    <3>1. c[s] = Max(s) /\ c[s] \in D
      BY <1>4, <2>2
    <3>2. f[s \ {c[s]}] \in KernelState
      BY <2>1
    <3> HIDE DEF D, c
    <3> QED
      BY <3>1, <3>2
  <2>3. [s \in SUBSET D |-> IF s = {} THEN k ELSE G[<<c[s], f[s \ {c[s]}]>>]]
          = [s \in SUBSET D |-> IF s = {} THEN k ELSE InsertThread(f[s \ {Max(s)}], w[Max(s)])]
    <3> HIDE DEF G, c, D
    <3> QED
      BY <2>2
  <2>4. E(f)
    <3> HIDE DEF G, c, D
    <3> QED
      BY <2>1, <2>3 DEF Folds
  <2> HIDE DEF E
  <2> QED
    BY <2>4
<1> HIDE DEF c, G, F
<1>6. /\ F[1 .. 0] = k
      /\ \A i \in 0 .. Len(w) : i < Len(w) => F[1 .. i + 1] = InsertThread(F[1 .. i], w[i + 1])
  <2>1. F[1 .. 0] = k
    BY <1>5
  <2>2. ASSUME NEW i \in 0 .. Len(w), i < Len(w)
        PROVE  F[1 .. i + 1] = InsertThread(F[1 .. i], w[i + 1])
    <3> DEFINE s == 1 .. i + 1
    <3>1. s \in SUBSET D /\ s # {} /\ Max(s) = i + 1 /\ s \ {i + 1} = 1 .. i
      <4>1. s \in SUBSET D /\ i + 1 \in s
        BY <1>2, <2>2
      <4>2. i \in Nat
        BY <2>2
      <4> QED
        BY <4>1, <4>2, MaxUpTo
    <3> HIDE DEF s, D
    <3>2. F[s] = InsertThread(F[s \ {Max(s)}], w[Max(s)])
      BY <1>5, <3>1
    <3> QED
      BY <3>1, <3>2 DEF s
  <2> QED
    BY <2>1, <2>2
<1> HIDE DEF E
<1> DEFINE Upto(i) == {w[j] : j \in 1 .. i}
           Done(i) == StartedThreads(Upto(i), F[1 .. i])
           P == {i \in 0 .. Len(w) : Done(i)}
<1>7. StartedThreads(Upto(0), F[1 .. 0])
  <2>1. Upto(0) = {}
    OBVIOUS
  <2> HIDE DEF Upto
  <2> QED
    BY <1>3, <1>6, <2>1
<1>8. ASSUME NEW i \in 0 .. Len(w), StartedThreads(Upto(i), F[1 .. i]), i < Len(w)
      PROVE  StartedThreads(Upto(i + 1), F[1 .. i + 1])
  <2> DEFINE t == w[i + 1]
  <2>1. t \in Thread \ Upto(i) /\ Upto(i + 1) = Upto(i) \cup {t} /\ Upto(i) \in SUBSET Thread
    <3>1. \A j \in 1 .. i : j \in 1 .. Len(w) /\ j # i + 1 /\ i + 1 \in 1 .. Len(w)
      BY <1>2, <1>8
    <3>2. i + 1 \in 1 .. Len(w) /\ (1 .. i + 1) = (1 .. i) \cup {i + 1}
      BY <1>2, <1>8
    <3>3. \A j \in 1 .. i : w[j] # t /\ w[j] \in Thread
      BY <1>2, <3>1 DEF IsInjective
    <3>4. t \in Thread
      BY <1>2, <3>2
    <3> QED
      BY <3>2, <3>3, <3>4
  <2>2. F[1 .. i + 1] = InsertThread(F[1 .. i], t)
    BY <1>6, <1>8
  <2> HIDE DEF t, Upto
  <2>3. StartedThreads(Upto(i) \cup {t}, InsertThread(F[1 .. i], t))
    BY <1>8, <2>1, StartOne
  <2> QED
    BY <2>1, <2>2, <2>3
<1>9. Done(Len(w))
  <2> HIDE DEF Done
  <2>1. 0 \in P /\ P \subseteq 0 .. Len(w)
    BY <1>2, <1>7 DEF Done
  <2>2. \A i \in 0 .. Len(w) : i \in P /\ i < Len(w) => i + 1 \in P
    <3>1. \A i \in 0 .. Len(w) : Done(i) /\ i < Len(w) => Done(i + 1)
      BY <1>8 DEF Done
    <3> QED
      BY <1>2, <3>1
  <2>3. Len(w) \in P
    <3> HIDE DEF P
    <3> QED
      BY <1>2, <2>1, <2>2, InitialSegment
  <2> QED
    BY <2>3
<1>10. Upto(Len(w)) = S
  BY <1>2 DEF Contains
<1> HIDE DEF Upto
<1> DEFINE m == F[D]
<1>11. StartedThreads(S, m)
  BY <1>2, <1>9, <1>10
<1> HIDE DEF m
<1>12. KInv(m)
  BY <1>11, ThreadAssumption DEF StartedThreads, KLists, KInv
<1> DEFINE r == Schedule(m)
<1>13. /\ Wakes({}, m, r) /\ r.error = m.error /\ r.prio = m.prio /\ r.list = m.list
       /\ m.nest = 0 => Queued(r, r.cur)
  BY <1>12, ScheduleWakes
<1>14. r.slice = m.slice
  BY <1>12, Untouched, ThreadAssumption DEF KInv
<1> HIDE DEF r
<1>15. \A x \in Thread : \A q \in WaitList : ~OnWait(m, q, x)
  <2> TAKE x \in Thread
  <2> TAKE q \in WaitList
  <2>1. CASE x \in S
    BY <1>11, <1>12, <2>1, ReadyWaitsNot DEF StartedThreads
  <2>2. CASE x \notin S
    BY <1>11, <2>2, ListKeys DEF StartedThreads, OnWait, Linked
  <2> QED
    BY <2>1, <2>2
<1>16. Up(S) = r
  BY <1>1 DEF r, m
<1> QED
  BY <1>11, <1>13, <1>14, <1>15, <1>16 DEF Wakes, StartedThreads

=============================================================================

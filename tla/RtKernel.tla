------------------------------ MODULE RtKernel ------------------------------
(***************************************************************************)
(* The state the RT-Thread scheduler keeps and its internal primitives, as *)
(* functions from a kernel state to the next one (src/rt-thread/src:       *)
(* scheduler.c, the interrupts-off sections of thread.c and ipc.c).        *)
(*                                                                         *)
(* The C code runs each primitive with interrupts disabled and composes    *)
(* them by calling one from another; here composition of functions is      *)
(* composition of the calls, and an action of a module that EXTENDS this   *)
(* one applies to kern whatever the code does in one masked section.       *)
(*                                                                         *)
(* A thread has ONE list node, tlist.  It sits on a ready list, on the     *)
(* suspend list of an IPC object, or on the defunct list.  All the list    *)
(* heads are one function, list:                                           *)
(*   list[Ready(p)]    rt_thread_priority_table[p]                       *)
(*   list[Wait(q)]     the suspend list q of an IPC object               *)
(*   list[Defunct]    rt_thread_defunct                                *)
(*                                                                         *)
(* An operator X_fault next to an operator X is X with a plausible bug     *)
(* put in; nothing refers to it.                                           *)
(***************************************************************************)
EXTENDS Naturals, Lists

CONSTANTS
  Thread,     \* the thread objects
  Idle,       \* the idle thread, rt_thread_idle_init
  Main,       \* the main thread, rt_application_init
  PrioMax,    \* RT_THREAD_PRIORITY_MAX; 0 is the most urgent priority
  InitPrio,   \* init_priority of each thread
  InitTick,   \* init_tick, the time slice of each thread
  WaitList,   \* the suspend lists of the IPC objects
  MaxDelay,   \* bound: the longest timeout a call asks for, in ticks
  MaxNest     \* bound: the depth of rt_enter_critical

Prio == 0 .. PrioMax - 1

ASSUME ThreadAssumption == Idle \in Thread /\ Main \in Thread /\ Idle # Main
ASSUME PrioAssumption ==
  /\ PrioMax \in Nat \ {0}
  /\ InitPrio \in [Thread -> Prio]
  /\ InitPrio[Idle] = PrioMax - 1
ASSUME TickAssumption == InitTick \in [Thread -> Nat \ {0}]
ASSUME BoundAssumption == MaxDelay \in Nat /\ MaxNest \in Nat

Ready(p) == <<"ready", p>>
Wait(q)  == <<"wait", q>>
Defunct  == <<"defunct", 0>>

List == {Ready(p) : p \in Prio} \cup {Wait(q) : q \in WaitList} \cup {Defunct}

(* "none" is a thread object that does not exist: never created, or freed. *)
Stat == {"none", "init", "ready", "suspend", "close"}

Error == {"ok", "timeout", "error"}

KernelState ==
  [ list  : [List -> Seq(Thread)],
    group : SUBSET Prio,            \* rt_thread_ready_priority_group, the set bits
    stat  : [Thread -> Stat],
    prio  : [Thread -> Prio],       \* current_priority, number_mask
    slice : [Thread -> Nat],        \* remaining_tick
    error : [Thread -> Error],
    armed : SUBSET Thread,          \* the threads whose thread_timer is active
    left  : [Thread -> Nat],        \* ticks until it fires
    cur   : Thread,                 \* rt_current_thread
    nest  : Nat ]                   \* rt_scheduler_lock_nest

-----------------------------------------------------------------------------
(* Lists *)

Unlink(k, t) == [k EXCEPT !.list = [l \in List |-> Without(k.list[l], t)]]

Linked(k, t) == \E l \in List : Contains(k.list[l], t)

Queued(k, t) == \E p \in Prio : Contains(k.list[Ready(p)], t)

-----------------------------------------------------------------------------
(* scheduler.c *)

InsertThread_atHead(k, t) ==
  [k EXCEPT !.stat[t] = "ready",
            !.list[Ready(k.prio[t])] = <<t>> \o @,
            !.group = @ \cup {k.prio[t]}]

InsertThread(k, t) ==
  [k EXCEPT !.stat[t] = "ready",
            !.list[Ready(k.prio[t])] = Append(@, t),
            !.group = @ \cup {k.prio[t]}]

RemoveThread_alwaysClears(k, t) ==
  [Unlink(k, t) EXCEPT !.group = @ \ {k.prio[t]}]

RemoveThread(k, t) ==
  LET u == Unlink(k, t) IN
  [u EXCEPT !.group = IF u.list[Ready(k.prio[t])] = << >>
                      THEN @ \ {k.prio[t]} ELSE @]

\* __rt_ffs(rt_thread_ready_priority_group) - 1
Highest(k) == CHOOSE p \in k.group : \A q \in k.group : p <= q

ToThread(k) == Head(k.list[Ready(Highest(k))])

Schedule_whileLocked(k) == [k EXCEPT !.cur = ToThread(k)]

Schedule(k) == IF k.nest = 0 THEN [k EXCEPT !.cur = ToThread(k)] ELSE k

-----------------------------------------------------------------------------
(* The thread's own timer, thread_timer: the module RtTimer models the      *)
(* timer list, here a timer is only armed or not.                           *)

TimerStop(k, t) == [k EXCEPT !.armed = @ \ {t}]

TimerStart(k, t, n) == [k EXCEPT !.armed = @ \cup {t}, !.left[t] = n]

-----------------------------------------------------------------------------
(* thread.c, as one masked section *)

Suspend_staysLinked(k, t) ==
  TimerStop([k EXCEPT !.stat[t] = "suspend"], t)

Suspend(k, t) ==
  TimerStop(RemoveThread([k EXCEPT !.stat[t] = "suspend"], t), t)

Detached_timerRuns(k, t) == Unlink(k, t)

\* rt_thread_resume up to the point where it unmasks interrupts again
Detached(k, t) == TimerStop(Unlink(k, t), t)

\* rt_thread_resume called with interrupts masked: no window inside
Resume(k, t) == InsertThread(Detached(k, t), t)

Timeout_noSchedule(k, t) ==
  InsertThread(Unlink([TimerStop(k, t) EXCEPT !.error[t] = "timeout"], t), t)

\* rt_thread_timeout, the callback of the thread's timer; the timer itself
\* has left the timer list when the callback runs
Timeout(k, t) ==
  Schedule(InsertThread(
    Unlink([TimerStop(k, t) EXCEPT !.error[t] = "timeout"], t), t))

\* the masked section of rt_thread_yield, for the current thread
Alone(k, t) == Len(k.list[Ready(k.prio[t])]) = 1

ToTail_staysLinked(k, t) ==
  [k EXCEPT !.list[Ready(k.prio[t])] = Append(@, t)]

ToTail(k, t) ==
  LET u == Unlink(k, t) IN
  [u EXCEPT !.list[Ready(k.prio[t])] = Append(@, t)]

Yield(k) ==
  IF k.stat[k.cur] = "ready" /\ ~Alone(k, k.cur)
  THEN Schedule(ToTail(k, k.cur)) ELSE k

\* RT_THREAD_CTRL_CHANGE_PRIORITY: a suspended thread is not moved in the
\* list it waits on, and nobody reschedules
ChangePriority(k, t, p) ==
  IF k.stat[t] = "ready"
  THEN InsertThread([RemoveThread(k, t) EXCEPT !.prio[t] = p], t)
  ELSE [k EXCEPT !.prio[t] = p]

SliceTick_noReload(k) ==
  IF k.slice[k.cur] = 1
  THEN Yield([k EXCEPT !.slice[k.cur] = 0])
  ELSE [k EXCEPT !.slice[k.cur] = @ - 1]

SliceTick_noYield(k) ==
  [k EXCEPT !.slice[k.cur] = IF @ = 1 THEN InitTick[k.cur] ELSE @ - 1]

\* rt_tick_increase without rt_timer_check
SliceTick(k) ==
  IF k.slice[k.cur] = 1
  THEN Yield([k EXCEPT !.slice[k.cur] = InitTick[k.cur]])
  ELSE [k EXCEPT !.slice[k.cur] = @ - 1]

TimersTick_stopped(k) == k

TimersTick(k) ==
  [k EXCEPT !.left = [t \in Thread |-> IF t \in k.armed /\ k.left[t] > 0
                                       THEN k.left[t] - 1 ELSE k.left[t]]]

Due(k) == {t \in k.armed : k.left[t] = 0}

-----------------------------------------------------------------------------
(* ipc.c: the suspend list of an IPC object *)

\* RT_IPC_FLAG_PRIO: before the first waiter that is less urgent
PrioPosition(k, q, t) ==
  LET w == k.list[Wait(q)]
      later == {i \in 1 .. Len(w) : k.prio[t] < k.prio[w[i]]}
  IN IF later = {} THEN Len(w) + 1
     ELSE CHOOSE i \in later : \A j \in later : i <= j

IpcSuspend_atHead(k, q, t, flag) ==
  LET s == Suspend(k, t) IN
  [s EXCEPT !.list[Wait(q)] =
     IF flag = "fifo" THEN << t >> \o @ ELSE InsertAt(@, PrioPosition(s, q, t), t)]

IpcSuspend(k, q, t, flag) ==
  LET s == Suspend(k, t) IN
  [s EXCEPT !.list[Wait(q)] =
     IF flag = "fifo" THEN Append(@, t) ELSE InsertAt(@, PrioPosition(s, q, t), t)]

Waiting(k, q) == k.list[Wait(q)] # << >>

\* a call with a negative timeout waits for ever
Forever == MaxDelay + 1

\* the current thread waits on q, for at most n ticks
Block(k, q, t, flag, n) ==
  LET s == IpcSuspend([k EXCEPT !.error[t] = "ok"], q, t, flag)
  IN  IF n = Forever THEN s ELSE TimerStart(s, t, n)

IpcResume(k, q) == Resume(k, Head(k.list[Wait(q)]))

\* one turn of the loop of rt_ipc_list_resume_all
ResumeWithError(k, q) ==
  IpcResume([k EXCEPT !.error[Head(k.list[Wait(q)])] = "error"], q)

\* rt_ipc_list_resume_all called with interrupts masked
ResumeAll(k, q) ==
  FoldLeft(LAMBDA m, t : Resume([m EXCEPT !.error[t] = "error"], t), k, k.list[Wait(q)])

-----------------------------------------------------------------------------
(* When a kernel state is consistent *)

\* every thread's list node is on at most one list, once
Disjoint(k) ==
  /\ \A l \in List : IsInjective(k.list[l])
  /\ \A t \in Thread : \A l, m \in List :
       Contains(k.list[l], t) /\ Contains(k.list[m], t) => l = m

\* the bit map says which ready lists have a thread
GroupAgrees(k) ==
  \A p \in Prio : p \in k.group <=> k.list[Ready(p)] # << >>

\* stat and current_priority say which list a thread may be on
StatAgrees(k) ==
  \A t \in Thread :
    /\ \A p \in Prio : Contains(k.list[Ready(p)], t)
                          => k.stat[t] = "ready" /\ k.prio[t] = p
    /\ \A q \in WaitList : Contains(k.list[Wait(q)], t) => k.stat[t] = "suspend"
    /\ Contains(k.list[Defunct], t) => k.stat[t] = "close"

\* only suspended threads have a running timer
TimersAgree(k) == \A t \in k.armed : k.stat[t] = "suspend"

-----------------------------------------------------------------------------
(* rtthread_startup: empty tables, then main and idle are started, then    *)
(* the scheduler.  No tick is handled before that.                         *)

SchedulerInit ==
  [ list  |-> [l \in List |-> << >>],
    group |-> {},
    stat  |-> [t \in Thread |-> IF t \in {Main, Idle} THEN "init" ELSE "none"],
    prio  |-> InitPrio,
    slice |-> InitTick,
    error |-> [t \in Thread |-> "ok"],
    armed |-> {},
    left  |-> [t \in Thread |-> 0],
    cur   |-> Main,
    nest  |-> 0 ]

Boot == Schedule(InsertThread(InsertThread(SchedulerInit, Main), Idle))

\* the application is up: all its threads are initialised, those in S started
Up(S) ==
  LET k == [SchedulerInit EXCEPT !.stat = [t \in Thread |-> "init"]]
  IN  Schedule(FoldLeft(InsertThread, k, SetToSeq(S)))

=============================================================================

------------------------------ MODULE RtThread ------------------------------
(***************************************************************************)
(* Threads, scheduler, tick interrupt and idle thread of RT-Thread         *)
(* (src/rt-thread/src: scheduler.c, thread.c, clock.c, idle.c) on the one  *)
(* core of the STM32F429.                                                  *)
(*                                                                         *)
(* An action is what runs between two points at which interrupts are       *)
(* enabled.  call[t] says where thread t is: in application code ("app"),  *)
(* or at the point inside a kernel call at which it can be interrupted,    *)
(* with the thread the call is about.  Only the current thread acts; the   *)
(* tick interrupt acts between any two of its actions, and a pending       *)
(* context switch (PendSV) is taken as soon as interrupts are enabled, so  *)
(* rt_current_thread is the thread that executes.                          *)
(***************************************************************************)
EXTENDS RtKernel

CONSTANTS
  Static,        \* threads made by rt_thread_init: their memory is the caller's
  Cleanup,       \* threads with a cleanup function
  NewPrio,       \* the priorities the application asks for
  Rules          \* which of the rules below the application keeps

ASSUME ObjectAssumption == Idle \in Static /\ Main \notin Static
ASSUME NewPrioAssumption == NewPrio \subseteq Prio
ASSUME RulesAssumption == Rules \subseteq {"claims", "timers", "unlocked"}

VARIABLES
  kern,   \* the kernel state
  call,   \* call[t].at, call[t].on: where t is, and the thread it acts upon
  isr     \* "none", or "timers": SysTick is in rt_timer_check

vars == <<kern, call, isr>>

Place == {"app", "schedule", "resume", "startup", "suspend", "block", "woken",
          "removed", "stopped", "closed", "exit", "free"}

\* the places at which a call still has something to do to the thread it is about
Holding == {"resume", "startup", "suspend", "removed", "stopped", "closed", "free"}

InApp == [at |-> "app", on |-> Idle]
To(place, u) == [at |-> place, on |-> u]

TypeOK ==
  /\ kern \in KernelState
  /\ call \in [Thread -> [at : Place, on : Thread]]
  /\ isr \in {"none", "timers"}

-----------------------------------------------------------------------------
(* Rules an application may keep.  "claims": it does not call the kernel     *)
(* about a thread that another thread's unfinished call is about, nor delete *)
(* a thread that is itself inside a call about another one.  "timers": it    *)
(* does not delete a thread whose timer is running.  "unlocked": a thread    *)
(* does not sleep, suspend itself or exit while it has locked the scheduler. *)

Claimed(u) == \E t \in Thread : call[t].at \in Holding /\ call[t].on = u

MayTouch(u) == "claims" \in Rules => ~Claimed(u)

MayDelete(u) ==
  /\ "claims" \in Rules => ~Claimed(u) /\ call[u].at \notin Holding
  /\ "timers" \in Rules => u \notin kern.armed

MayBlock == "unlocked" \in Rules => kern.nest = 0

Runs(t, place) == isr = "none" /\ kern.cur = t /\ call[t].at = place

\* t calls the kernel about u, from application code
Calls(t, u) == Runs(t, "app") /\ t # Idle /\ u # Idle

Goto(t, place, u) == call' = [call EXCEPT ![t] = To(place, u)]

Return(t) == call' = [call EXCEPT ![t] = InApp]

-----------------------------------------------------------------------------
Init ==
  /\ kern = Boot
  /\ call = [t \in Thread |-> InApp]
  /\ isr = "none"

(* rt_thread_create, rt_thread_init *)
Create(t, u) ==
  /\ Calls(t, u) /\ MayTouch(u)
  /\ kern.stat[u] = "none"
  /\ kern' = [kern EXCEPT !.stat[u] = "init",
                          !.prio[u] = InitPrio[u],
                          !.slice[u] = InitTick[u],
                          !.error[u] = "ok",
                          !.armed = @ \ {u}]
  /\ call' = [call EXCEPT ![u] = InApp]
  /\ UNCHANGED isr

ThreadResume_unchecked(t, u) ==
  /\ Calls(t, u) /\ MayTouch(u)
  /\ kern' = Detached(kern, u)
  /\ Goto(t, "resume", u)
  /\ UNCHANGED isr

(* rt_thread_startup, up to the window inside rt_thread_resume *)
Startup(t, u) ==
  /\ Calls(t, u) /\ MayTouch(u)
  /\ kern.stat[u] = "init"
  /\ kern' = Detached([kern EXCEPT !.prio[u] = InitPrio[u], !.stat[u] = "suspend"], u)
  /\ Goto(t, "startup", u)
  /\ UNCHANGED isr

(* rt_thread_resume, up to its window; it refuses a thread that is not      *)
(* suspended                                                                *)
ThreadResume(t, u) ==
  /\ Calls(t, u) /\ MayTouch(u)
  /\ kern.stat[u] = "suspend"
  /\ kern' = Detached(kern, u)
  /\ Goto(t, "resume", u)
  /\ UNCHANGED isr

(* the rest of rt_thread_resume, which returns: its caller goes on beside   *)
(* the thread it resumed, whatever its priority.  rt_thread_startup goes on *)
(* to rt_schedule.                                                          *)
ResumeInsert(t) ==
  /\ Runs(t, call[t].at) /\ call[t].at \in {"resume", "startup"}
  /\ kern' = InsertThread(kern, call[t].on)
  /\ IF call[t].at = "startup" THEN Goto(t, "schedule", Idle) ELSE Return(t)
  /\ UNCHANGED isr

(* rt_schedule, as the last step of a call *)
Reschedule(t) ==
  /\ Runs(t, "schedule")
  /\ kern' = Schedule(kern)
  /\ Return(t)
  /\ UNCHANGED isr

(* rt_thread_suspend tests the state before it masks interrupts *)
SuspendTest(t, u) ==
  /\ Calls(t, u) /\ MayTouch(u)
  /\ t = u => MayBlock
  /\ kern.stat[u] = "ready"
  /\ Goto(t, "suspend", u)
  /\ UNCHANGED <<kern, isr>>

(* the rest of rt_thread_suspend, which returns; a thread that suspended     *)
(* itself calls rt_schedule next, as the note of the function demands        *)
ThreadSuspend(t) ==
  /\ Runs(t, "suspend")
  /\ kern' = Suspend(kern, call[t].on)
  /\ IF call[t].on = t THEN Goto(t, "schedule", Idle) ELSE Return(t)
  /\ UNCHANGED isr

(* rt_thread_yield: the masked section ends with the thread moved, and the  *)
(* call goes on to rt_schedule                                              *)
ThreadYield(t) ==
  /\ Runs(t, "app") /\ t # Idle
  /\ kern.stat[t] = "ready" /\ ~Alone(kern, t)
  /\ kern' = ToTail(kern, t)
  /\ Goto(t, "schedule", Idle)
  /\ UNCHANGED isr

(* rt_thread_sleep *)
Sleep(t, n) ==
  /\ Runs(t, "app") /\ t # Idle /\ MayBlock
  /\ kern' = TimerStart(Suspend(kern, t), t, n)
  /\ Goto(t, "block", Idle)
  /\ UNCHANGED isr

SleepSchedule(t) ==
  /\ Runs(t, "block")
  /\ kern' = Schedule(kern)
  /\ Goto(t, "woken", Idle)
  /\ UNCHANGED isr

Slept(t) ==
  /\ Runs(t, "woken")
  /\ kern' = [kern EXCEPT !.error[t] = IF @ = "timeout" THEN "ok" ELSE @]
  /\ Return(t)
  /\ UNCHANGED isr

(* rt_thread_control(u, RT_THREAD_CTRL_CHANGE_PRIORITY, p) *)
ThreadPriority(t, u, p) ==
  /\ Calls(t, u) /\ MayTouch(u)
  /\ kern.stat[u] \in {"init", "ready", "suspend"}
  /\ kern' = ChangePriority(kern, u, p)
  /\ UNCHANGED <<call, isr>>

(* rt_thread_delete (a thread from rt_thread_create) and rt_thread_detach    *)
(* (a static thread) of another thread: out of its list ...                  *)
DeleteRemove(t, u) ==
  /\ Calls(t, u) /\ t # u /\ MayDelete(u)
  /\ kern.stat[u] \in {"init", "ready", "suspend"}
  /\ kern' = IF kern.stat[u] = "init" THEN kern ELSE RemoveThread(kern, u)
  /\ Goto(t, "removed", u)
  /\ UNCHANGED isr

(* ... its timer released ...                                                *)
DeleteTimer(t) ==
  /\ Runs(t, "removed")
  /\ kern' = TimerStop(kern, call[t].on)
  /\ Goto(t, "stopped", call[t].on)
  /\ UNCHANGED isr

\* a static thread without cleanup is only detached: its memory is the
\* caller's again
OnlyDetached(u) == u \in Static \ Cleanup

ToDefunct(k, u) == [k EXCEPT !.list[Defunct] = <<u>> \o @]

(* ... closed, with interrupts enabled ...                                   *)
DeleteClose(t) ==
  /\ Runs(t, "stopped")
  /\ kern' = [kern EXCEPT !.stat[call[t].on] = "close"]
  /\ IF OnlyDetached(call[t].on) THEN Return(t) ELSE Goto(t, "closed", call[t].on)
  /\ UNCHANGED isr

(* ... and put at the head of the defunct list.                              *)
DeleteDefunct(t) ==
  /\ Runs(t, "closed")
  /\ kern' = ToDefunct(kern, call[t].on)
  /\ Return(t)
  /\ UNCHANGED isr

\* what rt_thread_exit makes of its thread, in one masked section
Closed(k, u) ==
  LET c == [k EXCEPT !.stat[u] = "close"]
  IN  IF OnlyDetached(u) THEN c ELSE ToDefunct(c, u)

(* rt_thread_exit, reached when the entry function returns *)
Exit(t) ==
  /\ Runs(t, "app") /\ t # Idle /\ MayTouch(t) /\ MayBlock
  /\ kern' = Closed(TimerStop(RemoveThread(kern, t), t), t)
  /\ Goto(t, "exit", Idle)
  /\ UNCHANGED isr

\* the thread stays there: nothing may switch back to it
ExitSchedule(t) ==
  /\ Runs(t, "exit")
  /\ kern' = Schedule(kern)
  /\ UNCHANGED <<call, isr>>

(* rt_enter_critical, rt_exit_critical *)
EnterCritical(t) ==
  /\ Runs(t, "app") /\ t # Idle
  /\ kern.nest < MaxNest
  /\ kern' = [kern EXCEPT !.nest = @ + 1]
  /\ UNCHANGED <<call, isr>>

\* an exit without an enter leaves the scheduler unlocked and schedules
ExitCritical(t) ==
  /\ Runs(t, "app") /\ t # Idle
  /\ kern' = [kern EXCEPT !.nest = IF @ = 0 THEN 0 ELSE @ - 1]
  /\ IF kern.nest <= 1 THEN Goto(t, "schedule", Idle) ELSE UNCHANGED call
  /\ UNCHANGED isr

(* rt_thread_idle_excute: one turn of its loop.  A static thread's memory   *)
(* is not freed: the function returns and the idle loop calls it again.     *)
IdleReap_dynamicOnly ==
  LET u == Head(kern.list[Defunct]) IN
  /\ Runs(Idle, "app")
  /\ kern.list[Defunct] # << >> /\ u \notin Static
  /\ kern' = Schedule(Unlink(kern, u))
  /\ Goto(Idle, "free", u)
  /\ UNCHANGED isr

IdleReap ==
  LET u == Head(kern.list[Defunct]) IN
  /\ Runs(Idle, "app")
  /\ kern.list[Defunct] # << >>
  /\ kern' = Schedule(Unlink(kern, u))
  /\ IF u \in Static THEN UNCHANGED call ELSE Goto(Idle, "free", u)
  /\ UNCHANGED isr

\* the stack and the thread object are given back to the heap
IdleFree ==
  /\ Runs(Idle, "free")
  /\ kern' = [kern EXCEPT !.stat[call[Idle].on] = "none"]
  /\ Return(Idle)
  /\ UNCHANGED isr

\* the owner of a closed static thread uses its memory again
Reclaim(t, u) ==
  /\ Calls(t, u) /\ MayTouch(u) /\ u \in Static
  /\ kern.stat[u] = "close" /\ ~Linked(kern, u)
  /\ kern' = [kern EXCEPT !.stat[u] = "none"]
  /\ UNCHANGED <<call, isr>>

-----------------------------------------------------------------------------
(* SysTick_Handler -> rt_tick_increase.  The callbacks of the timers that    *)
(* are due run one after the other, in the interrupt.                        *)

Tick ==
  /\ isr = "none"
  /\ kern' = TimersTick(SliceTick(kern))
  /\ isr' = "timers"
  /\ UNCHANGED call

TimerFires(u) ==
  /\ isr = "timers"
  /\ u \in Due(kern)
  /\ kern' = Timeout(kern, u)
  /\ UNCHANGED <<call, isr>>

TickDone ==
  /\ isr = "timers"
  /\ Due(kern) = {}
  /\ isr' = "none"
  /\ UNCHANGED <<kern, call>>

Interrupt == Tick \/ (\E u \in Thread : TimerFires(u)) \/ TickDone

ThreadStep(t) ==
  \/ \E u \in Thread : \/ Create(t, u) \/ Startup(t, u) \/ ThreadResume(t, u)
                       \/ SuspendTest(t, u) \/ DeleteRemove(t, u) \/ Reclaim(t, u)
  \/ \E u \in Thread, p \in NewPrio : ThreadPriority(t, u, p)
  \/ \E n \in 0 .. MaxDelay : Sleep(t, n)
  \/ ResumeInsert(t) \/ Reschedule(t) \/ ThreadSuspend(t) \/ ThreadYield(t)
  \/ SleepSchedule(t) \/ Slept(t)
  \/ DeleteTimer(t) \/ DeleteClose(t) \/ DeleteDefunct(t)
  \/ Exit(t) \/ ExitSchedule(t) \/ EnterCritical(t) \/ ExitCritical(t)

Next == Interrupt \/ (\E t \in Thread : ThreadStep(t)) \/ IdleReap \/ IdleFree

Spec == Init /\ [][Next]_vars
-----------------------------------------------------------------------------
(* Safety *)

(* A thread's list node is on at most one list, once: the doubly linked     *)
(* lists stay lists whatever order calls, timeouts and the idle thread come *)
(* in (rt_list_insert_* never relinks a linked node).                       *)
OneList == Disjoint(kern)

(* The bit map the scheduler looks at agrees with the ready lists: a set bit *)
(* over an empty list would make rt_schedule run a list head as a thread, a  *)
(* clear bit over a thread would starve it.                                  *)
GroupMatchesLists == GroupAgrees(kern)

BeingDeleted(c, t) == \E d \in Thread : c[d].at \in {"removed", "stopped"} /\ c[d].on = t

(* rt_thread_timeout asserts that the thread whose timer fires is suspended  *)
(* (thread.c:722): no other thread has a running timer.                      *)
TimerOnlySuspended == TimersAgree(kern)

(* stat says where the thread is linked: READY threads are on the ready list *)
(* of their current priority (except while a deleter holds them), suspended  *)
(* ones on a suspend list or none, dead ones nowhere but on the defunct      *)
(* list, nothing points at memory that was freed, and only suspended threads *)
(* have a running timer.                                                     *)
StatMatchesLists ==
  /\ StatAgrees(kern) /\ TimerOnlySuspended
  /\ \A t \in Thread : kern.stat[t] = "ready" =>
       \/ Contains(kern.list[Ready(kern.prio[t])], t)
       \/ BeingDeleted(call, t)

(* Outside a kernel call the current thread is READY: a thread that was      *)
(* suspended, deleted or that exited never executes application code.        *)
OnlyReadyRuns ==
  isr = "none" /\ call[kern.cur].at = "app" => kern.stat[kern.cur] = "ready"

(* "The thread object will be removed from thread queue" (thread.c:307-309,  *)
(* rt_thread_detach): once closed, a thread is on no ready list.             *)
ClosedIsOffQueue ==
  \A t \in Thread : kern.stat[t] = "close" =>
    \A p \in Prio : ~Contains(kern.list[Ready(p)], t)

(* What a call that was interrupted finds when it goes on: the thread it is  *)
(* about is as the call left it, off every list, not running and without a   *)
(* timer (rt_thread_suspend has done nothing yet); no other call is about    *)
(* that thread; and the processor runs a thread that is queued, or one that  *)
(* is about to call rt_schedule.                                             *)
HeldThread(k, c, d) ==
  c[d].at \in Holding =>
    LET u == c[d].on IN
    /\ u # Idle
    /\ d = Idle <=> c[d].at = "free"
    /\ c[d].at # "suspend" => ~Linked(k, u) /\ u \notin k.armed /\ u # k.cur
    /\ c[d].at = "suspend" => k.stat[u] \in {"ready", "suspend"}
    /\ c[d].at \in {"resume", "startup"} => k.stat[u] = "suspend"
    /\ c[d].at \in {"removed", "stopped"} =>
         k.stat[u] \in {"init", "ready", "suspend"} /\ c[u].at \notin Holding
    /\ c[d].at \in {"closed", "free"} => k.stat[u] = "close"

OneHolder(c) ==
  \A d, e \in Thread :
    c[d].at \in Holding /\ c[e].at \in Holding /\ c[d].on = c[e].on => d = e

Current(k, c) ==
  /\ \/ Queued(k, k.cur)
     \/ k.nest = 0 /\ c[k.cur].at \in {"schedule", "block", "exit"}
  /\ k.nest > 0 => ~(c[k.cur].at = "suspend" /\ c[k.cur].on = k.cur)

CallsAgree(k, c) ==
  /\ \A d \in Thread : HeldThread(k, c, d)
  /\ OneHolder(c)
  /\ \A t \in Thread :
       /\ k.stat[t] = "ready" => Queued(k, t) \/ BeingDeleted(c, t)
       /\ k.stat[t] \in {"none", "init", "close"} => c[t].at \notin Holding
       /\ k.slice[t] > 0
  /\ Current(k, c)

CallsHold == CallsAgree(kern, call)

-----------------------------------------------------------------------------
(* Action properties *)

(* First in, first out among equals: on a ready list a thread gets ahead of  *)
(* another one only when that one is the current thread and goes to the tail *)
(* (by itself or at the end of its slice); a thread that becomes ready goes  *)
(* behind all that are there (no priority changes).                          *)
NoOvertaking ==
  [][\A p \in Prio :
       LET q == kern.list[Ready(p)]
           r == kern'.list[Ready(p)]
       IN \A x, y \in 1 .. Len(r) :
            /\ x < y /\ Contains(q, r[y])
            /\ r[y] # kern.cur \/ ~Contains(q, r[x])
            => \E i, j \in 1 .. Len(q) : i < j /\ q[i] = r[x] /\ q[j] = r[y]]_vars

MostUrgent(k) == \A p \in Prio : k.list[Ready(p)] # << >> => k.prio[k.cur] <= p

\* with the scheduler unlocked, only a thread on its way into rt_schedule
\* executes beside a more urgent thread that is ready
OnTop(k, c) ==
  k.nest = 0 /\ c[k.cur].at \notin {"schedule", "block", "exit"} => MostUrgent(k)

\* the calls that return without rt_schedule: rt_thread_resume, and
\* rt_thread_control for a change of priority
Unscheduled ==
  \E t, u \in Thread : \/ call[t].at = "resume" /\ ResumeInsert(t)
                       \/ \E p \in NewPrio : ThreadPriority(t, u, p)

StaysOnTop ==
  /\ OnTop(kern, call) => OnTop(kern', call') \/ Unscheduled
  /\ kern'.cur # kern.cur => MostUrgent(kern')

(* Strict priority, as far as it goes: the processor is only ever given to a *)
(* most urgent READY thread, and the thread that has it comes to execute     *)
(* beside a more urgent one by rt_thread_resume or a change of priority      *)
(* alone, never by a timeout, an unlock, a start or the end of a call.       *)
HighestRuns == OnTop(kern, call) /\ [][StaysOnTop]_vars

-----------------------------------------------------------------------------
(* Liveness.  The hardware keeps ticking, and a thread inside a kernel call  *)
(* that keeps being the current one gets on with it: a call lasts much less  *)
(* than a tick, so an interrupt cannot always come first (strong fairness).  *)
(* Application code may loop for ever: no fairness on leaving "app".         *)

InKernel(t) ==
  \/ ResumeInsert(t) \/ Reschedule(t) \/ ThreadSuspend(t) \/ SleepSchedule(t)
  \/ Slept(t) \/ DeleteTimer(t) \/ DeleteClose(t) \/ DeleteDefunct(t) \/ ExitSchedule(t)

FairSpec ==
  /\ Spec
  /\ WF_vars(Interrupt)
  /\ \A t \in Thread : SF_vars(InKernel(t))
  /\ SF_vars(IdleReap) /\ SF_vars(IdleFree)

(* A sleeping thread is made READY again, unless it is deleted.              *)
SleepEnds ==
  \A t \in Thread : t \in kern.armed ~> t \notin kern.armed

\* somebody sets the priority of t: that puts it at the tail of its list
Reset(t) == \E d \in Thread, p \in NewPrio : ThreadPriority(d, t, p)

(* Round robin: while a thread of its priority has the processor, a READY    *)
(* thread gets its turn, whatever the others of that priority do, unless its *)
(* own priority is set again and again.                                      *)
RoundRobin ==
  \A t \in Thread : <>[][~Reset(t)]_vars =>
    \A p \in Prio :
      (Contains(kern.list[Ready(p)], t) /\ kern.prio[kern.cur] = p) ~>
        \/ kern.cur = t \/ kern.prio[kern.cur] # p \/ kern.nest > 0
        \/ ~Contains(kern.list[Ready(p)], t)

Dies == \E t \in Thread : kern.stat[t] # "close" /\ kern'.stat[t] = "close"

(* Every dead thread is reclaimed if the idle thread runs again and again    *)
(* and threads stop dying at last: the idle thread takes the one that died   *)
(* last, so that an older one waits as long as others die.                   *)
DeadAreReaped ==
  []<>(isr = "none" /\ kern.cur = Idle) /\ <>[][~Dies]_vars =>
    \A t \in Thread : Contains(kern.list[Defunct], t) ~> ~Contains(kern.list[Defunct], t)

=============================================================================

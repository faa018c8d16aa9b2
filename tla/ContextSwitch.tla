--------------------------- MODULE ContextSwitch ---------------------------
(***************************************************************************)
(* How the Cortex-M4 port changes threads                                  *)
(* (src/rt-thread/libcpu/arm/cortex-m4): rt_schedule only writes down which*)
(* thread to leave and which to enter and pends PendSV, the exception of   *)
(* the lowest priority; PendSV_Handler exchanges the registers later, with *)
(* interrupts disabled.  RtKernel switches in the step that schedules;     *)
(* this module says why it may.                                            *)
(*                                                                         *)
(* A context is a value: whose it is, how far that thread has come, and    *)
(* whether it holds FPU registers (bit 4 of EXC_RETURN, "flag" in its      *)
(* frame).  Which thread rt_schedule finds is left open here.              *)
(***************************************************************************)
EXTENDS Naturals

CONSTANTS
  Thread,
  NoThread,     \* 0
  MaxNest,      \* bound: handlers of interrupts inside each other
  MaxSteps      \* bound: steps of a thread

ASSUME ContextAssumption ==
  NoThread \notin Thread /\ MaxNest \in Nat /\ MaxSteps \in Nat

VARIABLES
  current,    \* rt_current_thread
  request,    \* rt_thread_switch_interrupt_flag, rt_interrupt_from_thread, .._to_thread
  pend,       \* PENDSVSET
  mask,       \* PRIMASK
  nest,       \* rt_interrupt_nest
  pc,         \* what PendSV_Handler does next; "thread" when it is not active
  frame,      \* the kind of frame lr tells the handler to return from
  cpu,        \* the context in the processor
  sp,         \* sp of each thread: the context saved on its stack
  own         \* history: the context each thread has brought itself into

csVars == <<current, request, pend, mask, nest, pc, frame, cpu, sp, own>>

Context == [who : Thread \cup {NoThread}, step : Nat, fpu : BOOLEAN]

\* rt_hw_stack_init: a thread starts at its entry, without FPU registers
Fresh(t) == [who |-> t, step |-> 0, fpu |-> FALSE]

ContextTypeOK ==
  /\ current \in Thread \cup {NoThread}
  /\ request \in [flag : {0, 1}, from : Thread \cup {NoThread},
                  to : Thread \cup {NoThread}]
  /\ pend \in BOOLEAN /\ mask \in BOOLEAN /\ nest \in Nat
  /\ pc \in {"thread", "entry", "test", "save", "load", "exit", "return"}
  /\ frame \in BOOLEAN /\ cpu \in Context
  /\ sp \in [Thread -> Context] /\ own \in [Thread -> Context]

\* rtthread_startup runs on the boot stack with interrupts disabled
ContextInit ==
  /\ current = NoThread
  /\ request = [flag |-> 0, from |-> NoThread, to |-> NoThread]
  /\ pend = FALSE /\ mask = TRUE /\ nest = 0
  /\ pc = "thread" /\ frame = FALSE /\ cpu = Fresh(NoThread)
  /\ sp = [t \in Thread |-> Fresh(t)] /\ own = [t \in Thread |-> Fresh(t)]

-----------------------------------------------------------------------------
(* rt_system_scheduler_start, rt_hw_context_switch_to: there is nothing to   *)
(* leave; interrupts come on only here                                       *)
Start(t) ==
  /\ current = NoThread
  /\ current' = t
  /\ request' = [flag |-> 1, from |-> NoThread, to |-> t]
  /\ pend' = TRUE /\ mask' = FALSE
  /\ UNCHANGED <<nest, pc, frame, cpu, sp, own>>

Request_takesFrom(f, t) == [flag |-> 1, from |-> f, to |-> t]

Request_keepsTo(f, t) ==
  IF request.flag = 1 THEN request ELSE [flag |-> 1, from |-> f, to |-> t]

\* rt_hw_context_switch, rt_hw_context_switch_interrupt: a request that PendSV
\* has not served yet keeps the thread to leave
Request(f, t) ==
  [flag |-> 1, from |-> IF request.flag = 1 THEN request.from ELSE f, to |-> t]

\* rt_schedule, with interrupts disabled from its test to the request
Schedule(t) ==
  /\ t # current
  /\ current' = t /\ request' = Request(current, t) /\ pend' = TRUE
  /\ UNCHANGED <<mask, nest, pc, frame, cpu, sp, own>>

\* A thread's code goes on when no exception can be taken: a pended PendSV is
\* taken as soon as interrupts are enabled, before the thread does anything else.
InThread == pc = "thread" /\ nest = 0 /\ cpu.who # NoThread /\ (pend => mask)

Work(fpu) ==
  /\ InThread /\ cpu.step < MaxSteps
  /\ cpu' = [cpu EXCEPT !.step = @ + 1, !.fpu = @ \/ fpu]
  /\ own' = [own EXCEPT ![cpu.who] = cpu']
  /\ UNCHANGED <<current, request, pend, mask, nest, pc, frame, sp>>

\* rt_hw_interrupt_disable, rt_hw_interrupt_enable
SetMask(m) ==
  /\ InThread /\ mask # m
  /\ mask' = m
  /\ UNCHANGED <<current, request, pend, nest, pc, frame, cpu, sp, own>>

\* a call of the kernel, also inside a section with interrupts disabled
ThreadSchedule(t) == InThread /\ Schedule(t)

-----------------------------------------------------------------------------
(* Interrupts preempt threads, each other, and PendSV_Handler               *)

\* rt_interrupt_enter, rt_interrupt_leave
IsrEnter ==
  /\ ~mask /\ current # NoThread /\ nest < MaxNest
  /\ nest' = nest + 1
  /\ UNCHANGED <<current, request, pend, mask, pc, frame, cpu, sp, own>>

IsrLeave ==
  /\ nest > 0
  /\ nest' = nest - 1
  /\ UNCHANGED <<current, request, pend, mask, pc, frame, cpu, sp, own>>

IsrSchedule(t) == nest > 0 /\ Schedule(t)

-----------------------------------------------------------------------------
(* PendSV_Handler, taken when nothing else is active                        *)

PendSVEnter ==
  /\ pend /\ ~mask /\ nest = 0 /\ pc = "thread"
  /\ pend' = FALSE /\ pc' = "entry" /\ frame' = cpu.fpu
  /\ UNCHANGED <<current, request, mask, nest, cpu, sp, own>>

PendSVMask_not ==
  /\ pc = "entry" /\ nest = 0
  /\ pc' = "test"
  /\ UNCHANGED <<current, request, pend, mask, nest, frame, cpu, sp, own>>

\* until here an interrupt can still change the request
PendSVMask ==
  /\ pc = "entry" /\ nest = 0
  /\ mask' = TRUE /\ pc' = "test"
  /\ UNCHANGED <<current, request, pend, nest, frame, cpu, sp, own>>

PendSVTest_keepsFlag ==
  /\ pc = "test" /\ nest = 0
  /\ pc' = IF request.flag = 0 THEN "exit" ELSE "save"
  /\ UNCHANGED <<current, request, pend, mask, nest, frame, cpu, sp, own>>

\* "pendsv already handled"
PendSVTest ==
  /\ pc = "test" /\ nest = 0
  /\ pc' = IF request.flag = 0 THEN "exit" ELSE "save"
  /\ request' = [request EXCEPT !.flag = 0]
  /\ UNCHANGED <<current, pend, mask, nest, frame, cpu, sp, own>>

\* "skip register save at the first time"
PendSVSave ==
  /\ pc = "save" /\ nest = 0
  /\ sp' = [t \in Thread |-> IF t = request.from THEN [cpu EXCEPT !.fpu = frame] ELSE sp[t]]
  /\ pc' = "load"
  /\ UNCHANGED <<current, request, pend, mask, nest, frame, cpu, own>>

PendSVLoad ==
  /\ pc = "load" /\ nest = 0
  /\ cpu' = sp[request.to] /\ frame' = sp[request.to].fpu
  /\ pc' = "exit"
  /\ UNCHANGED <<current, request, pend, mask, nest, sp, own>>

\* PRIMASK was 0 when the exception was taken
PendSVUnmask ==
  /\ pc = "exit" /\ nest = 0
  /\ mask' = FALSE /\ pc' = "return"
  /\ UNCHANGED <<current, request, pend, nest, frame, cpu, sp, own>>

\* the processor pops the kind of frame that lr names
PendSVReturn ==
  /\ pc = "return" /\ nest = 0
  /\ pc' = "thread" /\ cpu' = [cpu EXCEPT !.fpu = frame]
  /\ UNCHANGED <<current, request, pend, mask, nest, frame, sp, own>>

PendSV ==
  PendSVMask \/ PendSVTest \/ PendSVSave \/ PendSVLoad \/ PendSVUnmask \/ PendSVReturn

ContextNext ==
  \/ \E t \in Thread : Start(t) \/ ThreadSchedule(t) \/ IsrSchedule(t)
  \/ (\E fpu \in BOOLEAN : Work(fpu)) \/ (\E m \in BOOLEAN : SetMask(m))
  \/ IsrEnter \/ IsrLeave \/ PendSVEnter \/ PendSV

\* Handlers return, the outermost one too, sections with interrupts disabled end,
\* and interrupts leave the processor some time to the lowest priority.
ContextFair ==
  /\ WF_csVars(IsrLeave) /\ SF_csVars(nest = 1 /\ IsrLeave) /\ WF_csVars(SetMask(FALSE))
  /\ SF_csVars(PendSVEnter) /\ SF_csVars(PendSV)

ContextSpec == ContextInit /\ [][ContextNext]_csVars

FairContextSpec == ContextSpec /\ ContextFair

-----------------------------------------------------------------------------
(* However often the choice of a thread changes before PendSV comes, or      *)
(* while it comes, a thread goes on exactly where it stopped: a context is   *)
(* saved for the thread it belongs to and no other, none is lost, and the    *)
(* kind of frame goes with it.                                               *)
ContextsKept ==
  /\ \A t \in Thread : t # cpu.who => sp[t] = own[t]
  /\ cpu.who # NoThread => cpu = own[cpu.who]
  /\ pc = "return" => frame = cpu.fpu

(* Thread code that runs with interrupts enabled is that of rt_current_thread: *)
(* a kernel call acts for the thread that makes it.                            *)
CurrentRuns == InThread /\ ~mask => cpu.who = current

(* A switch that was asked for happens.                                      *)
SwitchHappens == request.flag = 1 ~> request.flag = 0

=============================================================================

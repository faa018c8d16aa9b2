---------------------------- MODULE Board_proofs ----------------------------
(***************************************************************************)
(* What runs beside the kernel on the board: the context switch of the core *)
(* (ContextSwitch), the software timers and the keys of the BSP under their *)
(* common tick (Board), the UART driver (Uart) and the line editor of the   *)
(* shell (Shell).  The four have no state in common.                        *)
(***************************************************************************)
EXTENDS Board, ContextSwitch, Uart, Shell, Lists_proofs

-----------------------------------------------------------------------------
(* ContextSwitch for every set of threads and every nesting of interrupts. *)
(* ContextsKept alone is not inductive: PendSV_Handler saves for           *)
(* request.from and loads request.to, so the request must name the thread  *)
(* in the processor and rt_current_thread from the time it is written down *)
(* until the handler has served it (Served), and nothing may interrupt the *)
(* handler meanwhile (Alone).                                              *)

\* the handler uses the request, with interrupts disabled
Serving == pc \in {"save", "load"}

Alone ==
  /\ nest > 0 => ~mask
  /\ pc \in {"test", "save", "load", "exit"} => mask /\ nest = 0
  /\ pc \in {"entry", "return"} => ~mask
  /\ current = NoThread => mask /\ pc = "thread" /\ nest = 0 /\ request.flag = 0

Served ==
  /\ request.flag = 1 => pend \/ pc \in {"entry", "test"}
  /\ Serving => request.flag = 0
  /\ request.flag = 1 \/ Serving => request.to = current /\ request.to \in Thread
  /\ request.flag = 1 \/ pc = "save" => request.from = cpu.who
  /\ request.flag = 0 /\ ~Serving => cpu.who = current

Parked ==
  /\ \A t \in Thread : t # cpu.who => sp[t] = own[t]
  /\ cpu.who # NoThread => cpu = own[cpu.who]
  /\ pc = "load" => \A t \in Thread : sp[t] = own[t]
  /\ \A t \in Thread : own[t].who = t

Framed == pc \in {"entry", "test", "save", "exit", "return"} => frame = cpu.fpu

CInv == ContextTypeOK /\ Alone /\ Served /\ Parked /\ Framed

-----------------------------------------------------------------------------
LEMMA ContextInitInv == ContextInit => CInv
<1> SUFFICES ASSUME ContextInit PROVE CInv
  OBVIOUS
<1>1. \A t \in Thread \cup {NoThread} : Fresh(t) \in Context /\ Fresh(t).who = t
  BY DEF Fresh, Context
<1>2. cpu \in Context /\ cpu.who = NoThread /\ sp \in [Thread -> Context] /\ own = sp
  BY <1>1 DEF ContextInit
<1>3. ContextTypeOK
  BY <1>2 DEF ContextInit, ContextTypeOK
<1>4. Alone /\ Served /\ Framed
  BY <1>2 DEF ContextInit, Alone, Served, Serving, Framed
<1>5. Parked
  BY <1>1, <1>2 DEF ContextInit, Parked
<1> QED
  BY <1>3, <1>4, <1>5 DEF CInv

LEMMA ScheduleInv ==
  ASSUME CInv, NEW t \in Thread, Schedule(t), mask => nest = 0,
         pc \in {"thread", "entry", "return"}, current # NoThread
  PROVE  CInv'
  BY ContextAssumption
  DEF CInv, ContextTypeOK, Context, Schedule, Request, Alone, Served, Serving, Parked, Framed

LEMMA TaskInv ==
  ASSUME CInv,
         \/ \E t \in Thread : Start(t) \/ ThreadSchedule(t) \/ IsrSchedule(t)
         \/ (\E m \in BOOLEAN : SetMask(m)) \/ IsrEnter \/ IsrLeave
  PROVE  CInv'
<1>1. ASSUME NEW t \in Thread, Start(t) PROVE CInv'
  BY <1>1, ContextAssumption
  DEF Start, CInv, ContextTypeOK, Context, Alone, Served, Serving, Parked, Framed
<1>2. ASSUME NEW t \in Thread, ThreadSchedule(t) PROVE CInv'
  BY <1>2, ScheduleInv, ContextAssumption DEF ThreadSchedule, InThread, CInv, Alone, Served, Serving
<1>3. ASSUME NEW t \in Thread, IsrSchedule(t) PROVE CInv'
  <2>1. nest > 0 /\ Schedule(t)
    BY <1>3 DEF IsrSchedule
  <2>2. nest # 0 /\ pc \in {"thread", "entry", "return"} /\ current # NoThread /\ ~mask
    BY <2>1 DEF CInv, ContextTypeOK, Alone
  <2> QED
    BY <2>1, <2>2, ScheduleInv
<1>4. ASSUME NEW m \in BOOLEAN, SetMask(m) PROVE CInv'
  BY <1>4, ContextAssumption
  DEF SetMask, InThread, CInv, ContextTypeOK, Context, Alone, Served, Serving, Parked, Framed
<1>5. CASE IsrEnter
  BY <1>5 DEF IsrEnter, CInv, ContextTypeOK, Alone, Served, Serving, Parked, Framed
<1>6. CASE IsrLeave
  BY <1>6 DEF IsrLeave, CInv, ContextTypeOK, Alone, Served, Serving, Parked, Framed
<1> QED
  BY <1>1, <1>2, <1>3, <1>4, <1>5, <1>6

LEMMA WorkInv ==
  ASSUME CInv, NEW fpu \in BOOLEAN, Work(fpu)
  PROVE  CInv'
<1>1. /\ InThread /\ cpu.who \in Thread /\ cpu' \in Context
      /\ cpu'.who = cpu.who /\ own' = [own EXCEPT ![cpu.who] = cpu']
      /\ UNCHANGED <<current, request, pend, mask, nest, pc, frame, sp>>
  <2>1. cpu \in Context /\ cpu.who # NoThread
    BY DEF Work, InThread, CInv, ContextTypeOK
  <2>2. PICK f \in BOOLEAN : f = (cpu.fpu \/ fpu)
    OBVIOUS
  <2>3. cpu' = [cpu EXCEPT !.step = cpu.step + 1, !.fpu = f]
    BY <2>2 DEF Work
  <2>4. /\ cpu = [who |-> cpu.who, step |-> cpu.step, fpu |-> cpu.fpu]
        /\ cpu.who \in Thread /\ cpu.step \in Nat
    BY <2>1 DEF Context
  <2>5. cpu' = [who |-> cpu.who, step |-> cpu.step + 1, fpu |-> f]
    BY <2>3, <2>4
  <2>6. cpu' \in Context /\ cpu'.who = cpu.who
    BY <2>2, <2>4, <2>5 DEF Context
  <2> QED
    BY <2>4, <2>6 DEF Work
<1>2. ContextTypeOK' /\ Alone' /\ Served' /\ Framed'
  BY <1>1 DEF CInv, ContextTypeOK, Alone, Served, Serving, Framed, InThread
<1>3. Parked'
  BY <1>1, ContextAssumption DEF CInv, ContextTypeOK, Parked, InThread
<1> QED
  BY <1>2, <1>3 DEF CInv

LEMMA HandlerInv ==
  ASSUME CInv, PendSVEnter \/ PendSV
  PROVE  CInv'
<1> USE DEF CInv, ContextTypeOK, Alone, Served, Serving, Parked, Framed
<1>1. CASE PendSVEnter
  <2>1. cpu.fpu \in BOOLEAN
    BY DEF Context
  <2>2. ContextTypeOK' /\ Framed'
    BY <1>1, <2>1 DEF PendSVEnter
  <2>3. Alone' /\ Served' /\ Parked'
    BY <1>1 DEF PendSVEnter
  <2> QED
    BY <2>2, <2>3
<1>2. CASE PendSVMask
  BY <1>2 DEF PendSVMask
<1>3. CASE PendSVTest
  BY <1>3 DEF PendSVTest
<1>4. CASE PendSVSave
  <2>1. cpu = [cpu EXCEPT !.fpu = frame]
    BY <1>4 DEF PendSVSave, Context
  <2>2. \A t \in Thread : sp'[t] = IF t = cpu.who THEN cpu ELSE sp[t]
    BY <1>4, <2>1 DEF PendSVSave
  <2> QED
    BY <1>4, <2>1, <2>2, ContextAssumption DEF PendSVSave
<1>5. CASE PendSVLoad
  <2>1. request.to \in Thread /\ request.to = current /\ sp[current] = own[current]
    BY <1>5 DEF PendSVLoad
  <2>2. cpu' = own[current] /\ cpu'.who = current /\ cpu' \in Context /\ frame' = cpu'.fpu
    BY <1>5, <2>1 DEF PendSVLoad
  <2> QED
    BY <1>5, <2>1, <2>2, ContextAssumption DEF PendSVLoad, Context
<1>6. CASE PendSVUnmask
  BY <1>6 DEF PendSVUnmask
<1>7. CASE PendSVReturn
  <2>1. cpu' = cpu
    BY <1>7 DEF PendSVReturn, Context
  <2> QED
    BY <1>7, <2>1 DEF PendSVReturn
<1> QED
  BY <1>1, <1>2, <1>3, <1>4, <1>5, <1>6, <1>7 DEF PendSV

LEMMA ContextStepInv == CInv /\ [ContextNext]_csVars => CInv'
<1>1. CASE ContextNext
  BY <1>1, TaskInv, WorkInv, HandlerInv DEF ContextNext
<1>2. CASE UNCHANGED csVars
  BY <1>2 DEF csVars, CInv, ContextTypeOK, Alone, Served, Serving, Parked, Framed
<1> QED
  BY <1>1, <1>2

-----------------------------------------------------------------------------
(* The inductive invariant holds in every behaviour of the port.            *)
THEOREM ContextInvariance == ContextSpec => []CInv
<1> QED
  BY ContextInitInv, ContextStepInv, PTL DEF ContextSpec

(* PendSV_Handler never loses, mixes up or repeats a context, however the    *)
(* request changes before it is served.                                      *)
THEOREM ContextsAreKept == ContextSpec => []ContextsKept
<1>1. CInv => ContextsKept
  BY DEF CInv, Parked, Framed, ContextsKept
<1> QED
  BY <1>1, ContextInvariance, PTL

(* With interrupts enabled the processor executes rt_current_thread: the     *)
(* switch at the end of rt_schedule, as RtKernel has it, is sound.           *)
THEOREM CurrentThreadRuns == ContextSpec => []CurrentRuns
<1>1. CInv => CurrentRuns
  BY ContextAssumption DEF CInv, ContextTypeOK, Served, Serving, CurrentRuns, InThread
<1> QED
  BY <1>1, ContextInvariance, PTL

-----------------------------------------------------------------------------
(* BoardTimer for every period, delay and number of timers.  TimeKept says *)
(* what a task may observe; to carry it over a tick, the counters must be  *)
(* tied to the history exactly: an idle counter is 0, a timer found over   *)
(* still has its flag, the rest of a delay and the ticks that have passed  *)
(* add up, and the running time is the one that was read plus the ticks.   *)

TimerInv(m, c, t) ==
  /\ TimerKept(m, c, t)
  /\ ~c.on[t] => m.count = 0
  /\ m.found => m.flag = 1

TimersInv == \A t \in Timer : TimerInv(tmr[t], clock, t)

DelayInv ==
  IF delay.busy
  THEN /\ clock.asked > 0
       /\ delay.over = 0 => delay.cnt > 0 /\ delay.cnt + clock.waited = Ticks(clock.asked)
       /\ delay.over = 1 => delay.cnt = 0 /\ clock.waited >= Ticks(clock.asked)
  ELSE delay.cnt = 0

RuntimeInv ==
  clock.since < RuntimeTop =>
    runtime \in {clock.mark + clock.since, clock.mark + clock.since - RuntimeTop}

TInv == BoardTypeOK /\ TimersInv /\ DelayInv /\ RuntimeInv

-----------------------------------------------------------------------------
LEMMA TimersInitInv == BoardInit => TInv
<1> SUFFICES ASSUME BoardInit PROVE TInv
  OBVIOUS
<1>1. BoardTypeOK
  BY BoardAssumption
  DEF BoardInit, BoardTypeOK, SoftTimer, Stopped, History, NoHistory
<1>2. TimersInv
  BY DEF BoardInit, TimersInv, TimerInv, TimerKept, Stopped, NoHistory
<1>3. DelayInv /\ RuntimeInv
  BY DEF BoardInit, DelayInv, RuntimeInv, NoHistory
<1> QED
  BY <1>1, <1>2, <1>3 DEF TInv

-----------------------------------------------------------------------------
(* Calls of the tasks *)

(* A call about the timer t that leaves it as m, with the history c of t.    *)
LEMMA OneTimer ==
  ASSUME TInv, NEW t \in Timer, NEW m \in SoftTimer, tmr' = [tmr EXCEPT ![t] = m],
         clock' \in History, TimerInv(m, clock', t),
         \A u \in Timer \ {t} : /\ clock'.on[u] = clock.on[u] /\ clock'.phase[u] = clock.phase[u]
                                /\ clock'.ended[u] = clock.ended[u] /\ clock'.told[u] = clock.told[u],
         clock'.asked = clock.asked, clock'.waited = clock.waited,
         clock'.mark = clock.mark, clock'.since = clock.since,
         UNCHANGED <<delay, runtime, slot>>
  PROVE  TInv'
<1>1. BoardTypeOK'
  BY DEF TInv, BoardTypeOK
<1>2. TimersInv'
  BY DEF TInv, BoardTypeOK, TimersInv, TimerInv, TimerKept
<1>3. DelayInv' /\ RuntimeInv'
  BY DEF TInv, DelayInv, RuntimeInv, Ticks
<1> QED
  BY <1>1, <1>2, <1>3 DEF TInv

(* The record of a timer that starts again or is stopped.                    *)
LEMMA RestartedIs ==
  ASSUME clock \in History, NEW t \in Timer, NEW on \in BOOLEAN, NEW c, c = Restarted(t, on)
  PROVE  /\ c \in History
         /\ c.on[t] = on /\ c.phase[t] = 0 /\ c.ended[t] = 0 /\ c.told[t] = 0
         /\ \A u \in Timer \ {t} : /\ c.on[u] = clock.on[u] /\ c.phase[u] = clock.phase[u]
                                    /\ c.ended[u] = clock.ended[u] /\ c.told[u] = clock.told[u]
         /\ c.asked = clock.asked /\ c.waited = clock.waited
         /\ c.mark = clock.mark /\ c.since = clock.since
<1>1. c \in History
  BY DEF Restarted, History
<1>2. /\ c.on = [clock.on EXCEPT ![t] = on] /\ c.phase = [clock.phase EXCEPT ![t] = 0]
      /\ c.ended = [clock.ended EXCEPT ![t] = 0] /\ c.told = [clock.told EXCEPT ![t] = 0]
      /\ c.asked = clock.asked /\ c.waited = clock.waited
      /\ c.mark = clock.mark /\ c.since = clock.since
  BY DEF Restarted, History
<1>3. /\ clock.on \in [Timer -> BOOLEAN] /\ clock.phase \in [Timer -> Nat]
      /\ clock.ended \in [Timer -> Nat] /\ clock.told \in [Timer -> Nat]
  BY DEF History
<1>4. /\ c.on[t] = on /\ c.phase[t] = 0 /\ c.ended[t] = 0 /\ c.told[t] = 0
      /\ \A u \in Timer \ {t} : /\ c.on[u] = clock.on[u] /\ c.phase[u] = clock.phase[u]
                                 /\ c.ended[u] = clock.ended[u] /\ c.told[u] = clock.told[u]
  BY <1>2, <1>3
<1> QED
  BY <1>1, <1>2, <1>4

LEMMA StartInv ==
  ASSUME TInv, NEW t \in Timer, NEW n \in Period, NEW auto \in BOOLEAN, StartTimer(t, n, auto)
  PROVE  TInv'
<1>1. n \in Nat /\ Started(n, auto) \in SoftTimer
  BY BoardAssumption DEF Started, SoftTimer
<1>2. PICK on \in BOOLEAN : on = (n > 0) /\ clock' = Restarted(t, on)
  <2>1. (n > 0) \in BOOLEAN
    BY <1>1
  <2> QED
    BY <2>1, Zenon DEF StartTimer
<1>3. clock \in History
  BY DEF TInv, BoardTypeOK
<1>4. /\ clock' \in History
      /\ clock'.on[t] = on /\ clock'.phase[t] = 0 /\ clock'.ended[t] = 0 /\ clock'.told[t] = 0
      /\ \A u \in Timer \ {t} : /\ clock'.on[u] = clock.on[u] /\ clock'.phase[u] = clock.phase[u]
                                 /\ clock'.ended[u] = clock.ended[u] /\ clock'.told[u] = clock.told[u]
      /\ clock'.asked = clock.asked /\ clock'.waited = clock.waited
      /\ clock'.mark = clock.mark /\ clock'.since = clock.since
  <2> DEFINE c == Restarted(t, on)
  <2>1. c = Restarted(t, on) /\ clock' = c
    BY <1>2, Zenon
  <2> HIDE DEF c
  <2> QED
    BY <1>3, <2>1, RestartedIs
<1>5. TimerInv(Started(n, auto), clock', t)
  <2>1. CASE n > 0
    <3>1. clock'.on[t]
      BY <1>2, <1>4, <2>1, Zenon
    <3> QED
      BY <1>1, <1>4, <2>1, <3>1 DEF TimerInv, TimerKept, Started
  <2>2. CASE ~(n > 0)
    <3>1. ~clock'.on[t]
      BY <1>2, <1>4, <2>2, Zenon
    <3> QED
      BY <1>1, <1>4, <2>2, <3>1 DEF TimerInv, TimerKept, Started
  <2> QED
    BY <2>1, <2>2
<1> QED
  BY <1>1, <1>4, <1>5, OneTimer DEF StartTimer

LEMMA StopInv ==
  ASSUME TInv, NEW t \in Timer, StopTimer(t)
  PROVE  TInv'
<1> DEFINE m == [tmr[t] EXCEPT !.count = 0, !.flag = 0, !.auto = FALSE]
<1>1. tmr' = [tmr EXCEPT ![t] = m] /\ m \in SoftTimer
  BY DEF StopTimer, TInv, BoardTypeOK, SoftTimer
<1>2. clock' = Restarted(t, FALSE) /\ clock \in History
  BY DEF StopTimer, TInv, BoardTypeOK
<1>3. m.flag = 0 /\ m.count = 0 /\ m.found = FALSE
  BY DEF StopTimer, TInv, BoardTypeOK, SoftTimer
<1> HIDE DEF m
<1>4. /\ clock' \in History
      /\ ~clock'.on[t] /\ clock'.phase[t] = 0 /\ clock'.ended[t] = 0 /\ clock'.told[t] = 0
      /\ \A u \in Timer \ {t} : /\ clock'.on[u] = clock.on[u] /\ clock'.phase[u] = clock.phase[u]
                                 /\ clock'.ended[u] = clock.ended[u] /\ clock'.told[u] = clock.told[u]
      /\ clock'.asked = clock.asked /\ clock'.waited = clock.waited
      /\ clock'.mark = clock.mark /\ clock'.since = clock.since
  <2>1. PICK on \in BOOLEAN : ~on /\ clock' = Restarted(t, on)
    BY <1>2, Zenon
  <2> DEFINE c == Restarted(t, on)
  <2>2. c = Restarted(t, on) /\ clock' = c
    BY <2>1, Zenon
  <2> HIDE DEF c
  <2>3. /\ clock' \in History
        /\ clock'.on[t] = on /\ clock'.phase[t] = 0 /\ clock'.ended[t] = 0 /\ clock'.told[t] = 0
        /\ \A u \in Timer \ {t} : /\ clock'.on[u] = clock.on[u] /\ clock'.phase[u] = clock.phase[u]
                                   /\ clock'.ended[u] = clock.ended[u] /\ clock'.told[u] = clock.told[u]
        /\ clock'.asked = clock.asked /\ clock'.waited = clock.waited
        /\ clock'.mark = clock.mark /\ clock'.since = clock.since
    <3>1. clock \in History
      BY <1>2, Zenon
    <3> QED
      BY <2>2, <3>1, RestartedIs
  <2>4. ~clock'.on[t]
    BY <2>1, <2>3, Zenon
  <2> QED
    BY <2>3, <2>4
<1>5. TimerInv(m, clock', t)
  BY <1>3, <1>4 DEF TimerInv, TimerKept
<1> QED
  BY <1>1, <1>4, <1>5, OneTimer DEF StopTimer

LEMMA CheckInv ==
  ASSUME TInv, NEW t \in Timer, CheckTimer(t)
  PROVE  TInv'
<1> DEFINE m == [tmr[t] EXCEPT !.found = TRUE]
<1>1. tmr' = [tmr EXCEPT ![t] = m] /\ m \in SoftTimer /\ tmr[t].flag = 1
  BY DEF CheckTimer, TInv, BoardTypeOK, SoftTimer
<1>2. TimerInv(m, clock, t)
  BY <1>1 DEF TInv, TimersInv, BoardTypeOK, SoftTimer, TimerInv, TimerKept
<1>3. clock' = clock /\ clock \in History
  BY DEF CheckTimer, TInv, BoardTypeOK
<1> HIDE DEF m
<1> QED
  BY <1>1, <1>2, <1>3, OneTimer DEF CheckTimer

LEMMA ClearInv ==
  ASSUME TInv, NEW t \in Timer, ClearTimer(t)
  PROVE  TInv'
<1> DEFINE m == [tmr[t] EXCEPT !.found = FALSE, !.flag = 0]
<1>1. tmr' = [tmr EXCEPT ![t] = m] /\ m \in SoftTimer
  BY DEF ClearTimer, TInv, BoardTypeOK, SoftTimer
<1>2. clock' \in History
  BY DEF ClearTimer, TInv, BoardTypeOK, History
<1>3. TimerInv(m, clock', t)
  <2>1. TimerInv(tmr[t], clock, t) /\ tmr[t].flag = 1 /\ tmr[t] \in SoftTimer
    BY DEF ClearTimer, TInv, TimersInv, TimerInv, BoardTypeOK
  <2>2. /\ clock'.on = clock.on /\ clock'.phase = clock.phase /\ clock'.ended = clock.ended
        /\ clock'.told[t] = clock.told[t] + 1
    BY DEF ClearTimer, TInv, BoardTypeOK, History
  <2>3. /\ m.flag = 0 /\ m.found = FALSE /\ m.count = tmr[t].count
        /\ m.preload = tmr[t].preload /\ m.auto = tmr[t].auto
    BY <2>1 DEF SoftTimer
  <2>4. clock.told[t] \in Nat /\ clock.ended[t] \in Nat
    BY DEF TInv, BoardTypeOK, History
  <2> HIDE DEF m
  <2> QED
    BY <2>1, <2>2, <2>3, <2>4 DEF TimerInv, TimerKept
<1>4. \A u \in Timer \ {t} : /\ clock'.on[u] = clock.on[u] /\ clock'.phase[u] = clock.phase[u]
                             /\ clock'.ended[u] = clock.ended[u] /\ clock'.told[u] = clock.told[u]
  BY DEF ClearTimer, TInv, BoardTypeOK, History
<1>5. /\ clock'.asked = clock.asked /\ clock'.waited = clock.waited
      /\ clock'.mark = clock.mark /\ clock'.since = clock.since
  BY DEF ClearTimer, TInv, BoardTypeOK, History
<1> HIDE DEF m
<1> QED
  BY <1>1, <1>2, <1>3, <1>4, <1>5, OneTimer DEF ClearTimer

LEMMA DelayBeginInv ==
  ASSUME TInv, NEW n \in Period, DelayBegin(n)
  PROVE  TInv'
<1>1. n \in Nat /\ n > 0 /\ Ticks(n) \in Nat /\ Ticks(n) > 0
  BY BoardAssumption DEF DelayBegin, Ticks
<1>2. clock \in History /\ clock' = [clock EXCEPT !.asked = n, !.waited = 0]
  BY DEF DelayBegin, TInv, BoardTypeOK
<1>3. clock' \in History
  BY <1>1, <1>2 DEF History
<1>4. /\ clock'.on = clock.on /\ clock'.phase = clock.phase /\ clock'.ended = clock.ended
      /\ clock'.told = clock.told /\ clock'.mark = clock.mark /\ clock'.since = clock.since
      /\ clock'.asked = n /\ clock'.waited = 0
  BY <1>2 DEF History
<1>5. delay' = [cnt |-> Ticks(n), over |-> 0, busy |-> TRUE] /\ UNCHANGED <<tmr, runtime, slot>>
  BY DEF DelayBegin
<1>6. BoardTypeOK'
  BY <1>1, <1>3, <1>5 DEF TInv, BoardTypeOK
<1>7. TimersInv'
  BY <1>4, <1>5 DEF TInv, TimersInv, TimerInv, TimerKept
<1>8. DelayInv'
  BY <1>1, <1>4, <1>5 DEF DelayInv
<1>9. RuntimeInv'
  BY <1>4, <1>5 DEF TInv, RuntimeInv
<1> QED
  BY <1>6, <1>7, <1>8, <1>9 DEF TInv

LEMMA DelayEndInv ==
  ASSUME TInv, DelayEnd
  PROVE  TInv'
<1>1. clock \in History /\ clock' = [clock EXCEPT !.asked = 0, !.waited = 0]
  BY DEF DelayEnd, TInv, BoardTypeOK
<1>2. clock' \in History
  BY <1>1 DEF History
<1>3. /\ clock'.on = clock.on /\ clock'.phase = clock.phase /\ clock'.ended = clock.ended
      /\ clock'.told = clock.told /\ clock'.mark = clock.mark /\ clock'.since = clock.since
  BY <1>1 DEF History
<1>4. /\ delay' = [delay EXCEPT !.busy = FALSE] /\ UNCHANGED <<tmr, runtime, slot>>
      /\ delay.over = 1 /\ delay.busy /\ delay \in [cnt : Nat, over : {0, 1}, busy : BOOLEAN]
  BY DEF DelayEnd, TInv, BoardTypeOK
<1>5. BoardTypeOK'
  BY <1>2, <1>4 DEF TInv, BoardTypeOK
<1>6. TimersInv'
  BY <1>3, <1>4 DEF TInv, TimersInv, TimerInv, TimerKept
<1>7. DelayInv'
  BY <1>4 DEF TInv, DelayInv
<1>8. RuntimeInv'
  BY <1>3, <1>4 DEF TInv, RuntimeInv
<1> QED
  BY <1>5, <1>6, <1>7, <1>8 DEF TInv

LEMMA ReadRuntimeInv ==
  ASSUME TInv, ReadRuntime
  PROVE  TInv'
<1>1. /\ clock \in History /\ runtime \in 0 .. RuntimeTop - 1 /\ RuntimeTop \in Nat \ {0}
      /\ clock' = [clock EXCEPT !.mark = runtime, !.since = 0]
      /\ UNCHANGED <<tmr, delay, runtime, slot>>
  BY BoardAssumption DEF ReadRuntime, TInv, BoardTypeOK
<1>2. clock' \in History
  <2> DEFINE zero == 0
  <2>1. zero \in 0 .. RuntimeTop
    BY <1>1
  <2>2. clock' = [clock EXCEPT !.mark = runtime, !.since = zero]
    BY <1>1
  <2> HIDE DEF zero
  <2> QED
    BY <1>1, <2>1, <2>2 DEF History
<1>3. /\ clock'.on = clock.on /\ clock'.phase = clock.phase /\ clock'.ended = clock.ended
      /\ clock'.told = clock.told /\ clock'.asked = clock.asked /\ clock'.waited = clock.waited
      /\ clock'.mark = runtime /\ clock'.since = 0
  BY <1>1 DEF History
<1>4. BoardTypeOK'
  BY <1>1, <1>2 DEF TInv, BoardTypeOK
<1>5. TimersInv'
  BY <1>1, <1>3 DEF TInv, TimersInv, TimerInv, TimerKept
<1>6. DelayInv'
  BY <1>1, <1>3 DEF TInv, DelayInv
<1>7. RuntimeInv'
  BY <1>1, <1>3 DEF RuntimeInv
<1> QED
  BY <1>4, <1>5, <1>6, <1>7 DEF TInv

-----------------------------------------------------------------------------
(* The tick *)

LEMMA TickTimer ==
  ASSUME TInv, SysTick, NEW t \in Timer
  PROVE  tmr'[t] \in SoftTimer /\ TimerInv(tmr'[t], clock', t)
<1> DEFINE m == tmr[t]
           on == clock.on[t]
           ph == clock.phase[t]
           en == clock.ended[t]
           to == clock.told[t]
<1>1. /\ m \in SoftTimer /\ on \in BOOLEAN /\ ph \in Nat /\ en \in Nat /\ to \in Nat
      /\ TimerInv(m, clock, t)
  BY DEF TInv, BoardTypeOK, History, TimersInv
<1>2. tmr'[t] = SoftTimerDec(m)
  BY DEF SysTick
<1>3. /\ clock'.on[t] = on /\ clock'.told[t] = to
      /\ clock'.phase[t] = (IF Ends(t) THEN 0 ELSE IF Counting(t) THEN ph + 1 ELSE ph)
      /\ clock'.ended[t] = (IF Ends(t) THEN en + 1 ELSE en)
  BY DEF SysTick, Older, TInv, BoardTypeOK, History
<1>4. /\ Counting(t) <=> on /\ (m.auto \/ en = 0)
      /\ Ends(t) <=> Counting(t) /\ ph + 1 = m.preload
  BY DEF Counting, Ends
<1>5. /\ m.count \in Nat /\ m.preload \in Nat /\ m.flag \in {0, 1}
      /\ m.auto \in BOOLEAN /\ m.found \in BOOLEAN
  BY <1>1 DEF SoftTimer
<1>6. Counting(t) => m.count = m.preload - ph /\ ph < m.preload
  BY <1>1, <1>4 DEF TimerInv, TimerKept
<1>7. ~Counting(t) => m.count = 0
  BY <1>1, <1>4 DEF TimerInv, TimerKept
<1>8. CASE ~Counting(t)
  <2>1. tmr'[t] = m
    BY <1>2, <1>7, <1>8 DEF SoftTimerDec
  <2>2. clock'.phase[t] = ph /\ clock'.ended[t] = en
    BY <1>3, <1>4, <1>8
  <2> QED
    BY <1>1, <1>3, <2>1, <2>2 DEF TimerInv, TimerKept
<1>9. CASE Counting(t) /\ ~Ends(t)
  <2>1. m.count > 1
    BY <1>4, <1>5, <1>6, <1>9, <1>1
  <2>2. tmr'[t] = [m EXCEPT !.count = m.count - 1]
    BY <1>2, <2>1, <1>5 DEF SoftTimerDec
  <2>3. clock'.phase[t] = ph + 1 /\ clock'.ended[t] = en
    BY <1>3, <1>9
  <2>4. tmr'[t] \in SoftTimer
    BY <1>1, <2>1, <2>2, <1>5 DEF SoftTimer
  <2>5. /\ tmr'[t].count = m.count - 1 /\ tmr'[t].preload = m.preload /\ tmr'[t].flag = m.flag
        /\ tmr'[t].auto = m.auto /\ tmr'[t].found = m.found
    BY <1>1, <2>2 DEF SoftTimer
  <2>6. ph + 1 < m.preload
    BY <1>1, <1>4, <1>5, <1>6, <1>9
  <2> QED
    BY <1>1, <1>3, <1>4, <1>5, <1>6, <1>9, <2>3, <2>4, <2>5, <2>6 DEF TimerInv, TimerKept
<1>10. CASE Ends(t)
  <2>1. m.count = 1 /\ on /\ (m.auto \/ en = 0)
    BY <1>1, <1>4, <1>5, <1>6, <1>10
  <2>2. tmr'[t] = [m EXCEPT !.count = IF m.auto THEN m.preload ELSE 0, !.flag = 1]
    BY <1>2, <2>1 DEF SoftTimerDec
  <2>3. clock'.phase[t] = 0 /\ clock'.ended[t] = en + 1
    BY <1>3, <1>10
  <2>4. tmr'[t] \in SoftTimer
    <3>1. (IF m.auto THEN m.preload ELSE 0) \in Nat
      BY <1>5
    <3> QED
      BY <1>1, <2>2, <3>1 DEF SoftTimer
  <2>5. /\ tmr'[t].count = (IF m.auto THEN m.preload ELSE 0) /\ tmr'[t].preload = m.preload
        /\ tmr'[t].flag = 1 /\ tmr'[t].auto = m.auto /\ tmr'[t].found = m.found
    BY <1>1, <2>2 DEF SoftTimer
  <2>6. to <= en /\ m.preload > 0
    BY <1>1, <1>5, <2>1 DEF TimerInv, TimerKept
  <2> QED
    BY <1>1, <1>3, <1>4, <1>5, <2>1, <2>3, <2>4, <2>5, <2>6 DEF TimerInv, TimerKept
<1> QED
  BY <1>4, <1>8, <1>9, <1>10

LEMMA TickInv ==
  ASSUME TInv, SysTick
  PROVE  TInv'
<1>1. TimersInv' /\ tmr' \in [Timer -> SoftTimer]
  BY TickTimer DEF TimersInv, SysTick
<1>2. clock' \in History
  <2> DEFINE phase == [t \in Timer |-> IF Ends(t) THEN 0
                                       ELSE IF Counting(t) THEN clock.phase[t] + 1
                                       ELSE clock.phase[t]]
             ended == [t \in Timer |-> IF Ends(t) THEN clock.ended[t] + 1 ELSE clock.ended[t]]
             waited == IF delay.busy THEN clock.waited + 1 ELSE clock.waited
             since == IF clock.since < RuntimeTop THEN clock.since + 1 ELSE clock.since
  <2>1. clock \in History
    BY DEF TInv, BoardTypeOK
  <2>2. /\ phase \in [Timer -> Nat] /\ ended \in [Timer -> Nat]
        /\ waited \in Nat /\ since \in 0 .. RuntimeTop
    BY <2>1, BoardAssumption DEF History
  <2>3. clock' = [clock EXCEPT !.phase = phase, !.ended = ended, !.waited = waited,
                               !.since = since]
    BY <2>1 DEF SysTick, Older, History
  <2> HIDE DEF phase, ended, waited, since
  <2> QED
    BY <2>1, <2>2, <2>3 DEF History
<1>3. runtime' \in 0 .. RuntimeTop - 1 /\ slot' \in 0 .. ScanEvery - 1
  BY BoardAssumption DEF SysTick, RuntimeNext, TInv, BoardTypeOK
<1>4. delay' \in [cnt : Nat, over : {0, 1}, busy : BOOLEAN]
  <2> DEFINE cnt == IF delay.cnt > 0 THEN delay.cnt - 1 ELSE 0
             over == IF delay.cnt = 1 THEN 1 ELSE delay.over
  <2>1. delay \in [cnt : Nat, over : {0, 1}, busy : BOOLEAN]
    BY DEF TInv, BoardTypeOK
  <2>2. cnt \in Nat /\ over \in {0, 1}
    BY <2>1
  <2>3. delay' = [delay EXCEPT !.cnt = cnt, !.over = over]
    BY <2>1 DEF SysTick, DelayDec
  <2> HIDE DEF cnt, over
  <2> QED
    BY <2>1, <2>2, <2>3
<1>5. /\ clock'.asked = clock.asked /\ clock'.mark = clock.mark
      /\ clock'.waited = (IF delay.busy THEN clock.waited + 1 ELSE clock.waited)
      /\ clock'.since = (IF clock.since < RuntimeTop THEN clock.since + 1 ELSE clock.since)
  BY DEF SysTick, Older, TInv, BoardTypeOK, History
<1>6. DelayInv'
  <2>1. /\ delay'.busy = delay.busy
        /\ delay'.cnt = (IF delay.cnt > 0 THEN delay.cnt - 1 ELSE 0)
        /\ delay'.over = (IF delay.cnt = 1 THEN 1 ELSE delay.over)
    BY DEF SysTick, DelayDec, TInv, BoardTypeOK
  <2>2. /\ delay.cnt \in Nat /\ delay.over \in {0, 1} /\ delay.busy \in BOOLEAN
        /\ clock.asked \in Nat /\ clock.waited \in Nat /\ Ticks(clock.asked) \in Nat
    BY DEF TInv, BoardTypeOK, History, Ticks
  <2> QED
    BY <1>5, <2>1, <2>2 DEF TInv, DelayInv
<1>7. RuntimeInv'
  <2>1. /\ clock.mark \in 0 .. RuntimeTop - 1 /\ clock.since \in 0 .. RuntimeTop
        /\ runtime \in 0 .. RuntimeTop - 1
        /\ runtime' = IF runtime + 1 = RuntimeTop THEN 0 ELSE runtime + 1
    BY DEF SysTick, RuntimeNext, TInv, BoardTypeOK, History
  <2> QED
    BY <1>5, <2>1, BoardAssumption DEF TInv, RuntimeInv
<1> QED
  BY <1>1, <1>2, <1>3, <1>4, <1>6, <1>7 DEF TInv, BoardTypeOK

LEMMA TimersStepInv == TInv /\ [TimerTask \/ SysTick]_boardVars => TInv'
<1>1. ASSUME TInv, TimerTask PROVE TInv'
  BY <1>1, StartInv, StopInv, CheckInv, ClearInv,
       DelayBeginInv, DelayEndInv, ReadRuntimeInv DEF TimerTask
<1>2. ASSUME TInv, SysTick PROVE TInv'
  BY <1>2, TickInv
<1>3. ASSUME TInv, UNCHANGED boardVars PROVE TInv'
  BY <1>3
  DEF boardVars, TInv, BoardTypeOK, TimersInv, TimerInv, TimerKept, DelayInv, RuntimeInv
<1> QED
  BY <1>1, <1>2, <1>3

LEMMA InvKeepsTime == TInv => TimeKept
<1> SUFFICES ASSUME TInv PROVE TimeKept
  OBVIOUS
<1>1. TimersKept
  BY DEF TInv, TimersInv, TimerInv, TimersKept
<1>2. DelayKept
  BY DEF TInv, BoardTypeOK, History, DelayInv, DelayKept, Ticks
<1>3. RuntimeKept
  BY BoardAssumption DEF TInv, BoardTypeOK, History, RuntimeInv, RuntimeKept, CheckRuntime
<1> QED
  BY <1>1, <1>2, <1>3 DEF TInv, TimeKept

(* Whatever tasks ask for, the timers, bsp_delayms and the running time      *)
(* agree with the ticks that have passed, across every wrap.                 *)
THEOREM TimeIsKept == BoardSpec => []TimeKept
<1>1. BoardInit => TInv
  BY TimersInitInv
<1>2. BoardNext => TimerTask \/ SysTick \/ UNCHANGED boardVars
  BY DEF BoardNext, SysTick_ISR
<1>3. TInv /\ [BoardNext]_<<boardVars, keyVars>> => TInv'
  BY <1>2, TimersStepInv
<1>4. TInv => TimeKept
  BY InvKeepsTime
<1> QED
  BY <1>1, <1>3, <1>4, PTL DEF BoardSpec

-----------------------------------------------------------------------------
(* The ring of key events, for every size.  The modulo of its indices is put *)
(* away first: Place says where an event lies.                               *)

\* the ring as bsp_putkey_fifo and the readers leave it
Fifo == [buf : [0 .. FifoSize - 1 -> Nat], write : 0 .. FifoSize - 1,
         at : [Reader -> 0 .. FifoSize - 1], found : [Reader -> BOOLEAN]]

\* what reader r has not read of the ring f, and how much that is
Unread(f, r) ==
  LET n == (f.write + FifoSize - f.at[r]) % FifoSize
  IN [m \in 1 .. n |-> f.buf[(f.at[r] + m - 1) % FifoSize]]

Behind(f, r) == IF f.write >= f.at[r] THEN f.write - f.at[r] ELSE f.write + FifoSize - f.at[r]

Place(f, r, m) == IF f.at[r] + m - 1 < FifoSize THEN f.at[r] + m - 1
                  ELSE f.at[r] + m - 1 - FifoSize

(* The modulo of a number below two rings.                                  *)
LEMMA AroundRing ==
  ASSUME NEW x \in 0 .. FifoSize + FifoSize - 1
  PROVE  x % FifoSize = IF x < FifoSize THEN x ELSE x - FifoSize
<1>1. FifoSize \in Nat \ {0}
  BY KeysAssumption
<1>2. CASE x < FifoSize
  BY <1>1, <1>2
<1>3. CASE ~(x < FifoSize)
  BY <1>1, <1>3
<1> QED
  BY <1>2, <1>3

(* What a reader has not read starts at its pointer.                         *)
LEMMA UnreadIs ==
  ASSUME NEW f \in Fifo, NEW r \in Reader
  PROVE  /\ Unread(f, r) \in Seq(Nat) /\ Len(Unread(f, r)) = Behind(f, r)
         /\ Behind(f, r) \in 0 .. FifoSize - 1
         /\ \A m \in 1 .. Behind(f, r) :
              /\ Place(f, r, m) \in 0 .. FifoSize - 1
              /\ Unread(f, r)[m] = f.buf[Place(f, r, m)]
PROOF
<1> DEFINE n == Behind(f, r)
           w == f.write
           a == f.at[r]
<1>1. FifoSize \in Nat \ {0}  BY KeysAssumption
<1>2. w \in 0 .. FifoSize - 1 /\ a \in 0 .. FifoSize - 1
      /\ f.buf \in [0 .. FifoSize - 1 -> Nat]
  BY DEF Fifo
<1>3. n = IF w >= a THEN w - a ELSE w + FifoSize - a  BY DEF Behind
<1>4. \A m : Place(f, r, m) = IF a + m - 1 < FifoSize THEN a + m - 1 ELSE a + m - 1 - FifoSize
  BY DEF Place
<1>5. Unread(f, r) = [m \in 1 .. (w + FifoSize - a) % FifoSize |-> f.buf[(a + m - 1) % FifoSize]]
  BY DEF Unread
<1> HIDE DEF n, w, a
<1>6. n \in 0 .. FifoSize - 1  BY <1>1, <1>2, <1>3
<1>7. (w + FifoSize - a) % FifoSize = n
  <2> DEFINE x == w + FifoSize - a
             y == x % FifoSize
  <2>1. x \in 0 .. FifoSize + FifoSize - 1  BY <1>1, <1>2
  <2>2. x < FifoSize <=> w < a  BY <1>1, <1>2
  <2>3. x - FifoSize = w - a  BY <1>1, <1>2
  <2> HIDE DEF x
  <2>4. y = IF x < FifoSize THEN x ELSE x - FifoSize  BY <2>1, AroundRing
  <2> HIDE DEF y
  <2>5. y = IF w < a THEN w + FifoSize - a ELSE w - a  BY <2>2, <2>3, <2>4 DEF x
  <2>6. y = n  BY <1>1, <1>2, <1>3, <2>5
  <2> QED BY <2>6 DEF x, y
<1>8. ASSUME NEW m \in 1 .. n
      PROVE  Place(f, r, m) \in 0 .. FifoSize - 1 /\ (a + m - 1) % FifoSize = Place(f, r, m)
  <2> DEFINE x == a + m - 1
  <2>1. x \in 0 .. FifoSize + FifoSize - 1  BY <1>1, <1>2, <1>6
  <2>2. Place(f, r, m) = IF x < FifoSize THEN x ELSE x - FifoSize  BY <1>1, <1>2, <1>4, <1>6
  <2> HIDE DEF x
  <2>3. x % FifoSize = IF x < FifoSize THEN x ELSE x - FifoSize  BY <2>1, AroundRing
  <2>4. Place(f, r, m) \in 0 .. FifoSize - 1  BY <1>1, <2>1, <2>2
  <2> QED BY <2>2, <2>3, <2>4 DEF x
<1>9. Unread(f, r) = [m \in 1 .. n |-> f.buf[(a + m - 1) % FifoSize]]
  BY <1>5, <1>7
<1>10. ASSUME NEW m \in 1 .. n
       PROVE  Unread(f, r)[m] = f.buf[Place(f, r, m)] /\ Unread(f, r)[m] \in Nat
  <2>1. Unread(f, r)[m] = f.buf[(a + m - 1) % FifoSize]  BY <1>9
  <2> QED BY <1>2, <1>8, <2>1
<1>11. Unread(f, r) \in Seq(Nat) /\ Len(Unread(f, r)) = n
  <2> DEFINE u == Unread(f, r)
  <2>1. DOMAIN u = 1 .. n /\ n \in Nat /\ u = [m \in 1 .. n |-> u[m]]  BY <1>6, <1>9
  <2>2. \A m \in 1 .. n : u[m] \in Nat  BY <1>10
  <2> HIDE DEF u
  <2>3. u \in [1 .. n -> Nat]  BY <2>1, <2>2
  <2>4. u \in Seq(Nat) /\ Len(u) = n  BY <2>1, <2>3
  <2> QED BY <2>4 DEF u
<1> QED BY <1>6, <1>8, <1>10, <1>11 DEF n

(* bsp_putkey_fifo: whoever has room gets one event more.                    *)
LEMMA PutIs ==
  ASSUME NEW f \in Fifo, NEW e \in Nat
  PROVE  /\ Put(f, e) \in Fifo /\ Put(f, e).at = f.at /\ Put(f, e).found = f.found
         /\ \A r \in Reader : Behind(f, r) < FifoSize - 1
              => Unread(Put(f, e), r) = Append(Unread(f, r), e)
PROOF
<1> DEFINE g == Put(f, e)
<1>1. FifoSize \in Nat \ {0} /\ f.write \in 0 .. FifoSize - 1
      /\ f.buf \in [0 .. FifoSize - 1 -> Nat] /\ f.at \in [Reader -> 0 .. FifoSize - 1]
  BY KeysAssumption DEF Fifo
<1>2. g.buf = [f.buf EXCEPT ![f.write] = e] /\ g.write = Following(f.write)
      /\ g.at = f.at /\ g.found = f.found
  BY DEF Put, Fifo
<1>3. Following(f.write) = IF f.write + 1 = FifoSize THEN 0 ELSE f.write + 1
  BY <1>1 DEF Following
<1>4. g \in Fifo
  <2>1. Following(f.write) \in 0 .. FifoSize - 1  BY <1>1, <1>3
  <2>2. [f.buf EXCEPT ![f.write] = e] \in [0 .. FifoSize - 1 -> Nat]  BY <1>1
  <2>3. g = [f EXCEPT !.buf = [f.buf EXCEPT ![f.write] = e], !.write = Following(f.write)]
    BY DEF Put
  <2> QED BY <2>1, <2>2, <2>3 DEF Fifo
<1> HIDE DEF g
<1>5. ASSUME NEW r \in Reader, Behind(f, r) < FifoSize - 1
      PROVE  Unread(g, r) = Append(Unread(f, r), e)
  <2> DEFINE n == Behind(f, r)
             w == f.write
             a == f.at[r]
  <2>1. w \in 0 .. FifoSize - 1 /\ a \in 0 .. FifoSize - 1 /\ n \in Nat
    BY <1>1, UnreadIs
  <2>2. n = IF w >= a THEN w - a ELSE w + FifoSize - a  BY DEF Behind
  <2>3. Behind(g, r) = IF Following(w) >= a THEN Following(w) - a ELSE Following(w) + FifoSize - a
    BY <1>2 DEF Behind
  <2>4. \A m : Place(f, r, m) = IF a + m - 1 < FifoSize THEN a + m - 1 ELSE a + m - 1 - FifoSize
    BY DEF Place
  <2>5. \A m : Place(g, r, m) = Place(f, r, m)  BY <1>2 DEF Place
  <2> HIDE DEF n, w, a
  <2>6. n < FifoSize - 1  BY <1>5 DEF n
  <2>7. Following(w) = IF w + 1 = FifoSize THEN 0 ELSE w + 1  BY <1>3 DEF w
  <2>8. Behind(g, r) = n + 1  BY <1>1, <2>1, <2>2, <2>3, <2>6, <2>7
  <2>9. ASSUME NEW m \in 1 .. n PROVE Place(f, r, m) # w
    BY <1>1, <2>1, <2>2, <2>4
  <2>10. Place(f, r, n + 1) = w  BY <1>1, <2>1, <2>2, <2>4
  <2>11. /\ Unread(g, r) \in Seq(Nat) /\ Len(Unread(g, r)) = n + 1
         /\ \A m \in 1 .. n + 1 : Unread(g, r)[m] = g.buf[Place(g, r, m)]
    BY <1>4, <2>8, UnreadIs
  <2>12. /\ Unread(f, r) \in Seq(Nat) /\ Len(Unread(f, r)) = n
         /\ \A m \in 1 .. n : Unread(f, r)[m] = f.buf[Place(f, r, m)]
                              /\ Place(f, r, m) \in 0 .. FifoSize - 1
    BY UnreadIs DEF n
  <2>13. \A i \in 0 .. FifoSize - 1 : g.buf[i] = IF i = w THEN e ELSE f.buf[i]
    BY <1>1, <1>2 DEF w
  <2>14. ASSUME NEW m \in 1 .. n PROVE Unread(g, r)[m] = Unread(f, r)[m]
    <3>1. m \in 1 .. n + 1  BY <2>1
    <3>2. Unread(g, r)[m] = g.buf[Place(f, r, m)]  BY <2>5, <2>11, <3>1
    <3> QED BY <2>9, <2>12, <2>13, <3>2
  <2>15. Unread(g, r)[n + 1] = e
    <3>1. n + 1 \in 1 .. n + 1  BY <2>1
    <3>2. Unread(g, r)[n + 1] = g.buf[w]  BY <2>5, <2>10, <2>11, <3>1
    <3> QED BY <2>1, <2>13, <3>2
  <2> HIDE DEF g
  <2> DEFINE u == Unread(f, r)
             v == Unread(g, r)
  <2>16. u \in Seq(Nat) /\ Len(u) = n /\ v \in Seq(Nat) /\ Len(v) = n + 1
         /\ (\A m \in 1 .. n : v[m] = u[m]) /\ v[n + 1] = e
    BY <2>11, <2>12, <2>14, <2>15
  <2> HIDE DEF u, v
  <2>17. v = Append(u, e)  BY <2>1, <2>16
  <2> QED BY <2>17 DEF u, v
<1> QED BY <1>2, <1>4, <1>5 DEF g

\* the list x is the list u with the first i elements of the list q behind it
Grown(u, q, x, i) ==
  /\ x \in Seq(Nat) /\ Len(x) = Len(u) + i
  /\ \A m \in 1 .. Len(u) : x[m] = u[m]
  /\ \A m \in 1 .. i : x[Len(u) + m] = q[m]

(* Such a list grows by the next element of q, until u \o q is reached.      *)
LEMMA GrownIs ==
  ASSUME NEW u \in Seq(Nat), NEW q \in Seq(Nat)
  PROVE  /\ Grown(u, q, u, 0)
         /\ \A x : \A i \in Nat : Grown(u, q, x, i) /\ i < Len(q)
                                => Grown(u, q, Append(x, q[i + 1]), i + 1)
         /\ \A x : Grown(u, q, x, Len(q)) => x = u \o q
PROOF
<1> DEFINE n == Len(u)
<1>1. n \in Nat /\ Len(q) \in Nat  OBVIOUS
<1>2. Grown(u, q, u, 0)  BY DEF Grown
<1>3. ASSUME NEW i \in Nat, NEW x, Grown(u, q, x, i), i < Len(q)
      PROVE  Grown(u, q, Append(x, q[i + 1]), i + 1)
  <2> DEFINE e == q[i + 1]
             y == Append(x, e)
  <2>1. x \in Seq(Nat) /\ Len(x) = n + i /\ e \in Nat
        /\ (\A m \in 1 .. n : x[m] = u[m]) /\ (\A m \in 1 .. i : x[n + m] = q[m])
    BY <1>3 DEF Grown
  <2> HIDE DEF n, e
  <2>2. y \in Seq(Nat) /\ Len(y) = n + i + 1 /\ y[n + i + 1] = e
        /\ \A m \in 1 .. n + i : y[m] = x[m]
    BY <1>1, <2>1
  <2> HIDE DEF y
  <2>3. \A m \in 1 .. n : y[m] = u[m]  BY <1>1, <2>1, <2>2
  <2>4. ASSUME NEW m \in 1 .. i + 1 PROVE y[n + m] = q[m]
    <3>1. CASE m = i + 1
      <4>1. n + m = n + i + 1  BY <1>1, <3>1
      <4> QED BY <2>2, <3>1, <4>1 DEF e
    <3>2. CASE m # i + 1
      <4>1. m \in 1 .. i /\ n + m \in 1 .. n + i  BY <1>1, <3>2
      <4> QED BY <2>1, <2>2, <4>1
    <3> QED BY <3>1, <3>2
  <2>5. n + i + 1 = n + (i + 1)  BY <1>1
  <2> QED BY <2>2, <2>3, <2>4, <2>5 DEF Grown, n, y, e
<1>4. ASSUME NEW x, Grown(u, q, x, Len(q)) PROVE x = u \o q
  <2> DEFINE y == u \o q
             k == Len(q)
  <2>1. x \in Seq(Nat) /\ Len(x) = n + k
        /\ (\A m \in 1 .. n : x[m] = u[m]) /\ (\A m \in 1 .. k : x[n + m] = q[m])
    BY <1>4 DEF Grown
  <2>2. y \in Seq(Nat) /\ Len(y) = n + k
        /\ (\A m \in 1 .. n : y[m] = u[m]) /\ (\A m \in 1 .. k : y[n + m] = q[m])
    OBVIOUS
  <2>3. n \in Nat /\ k \in Nat  BY <1>1
  <2> HIDE DEF n, k, y
  <2>4. x = y
    <3>1. x \in Seq(Nat) /\ y \in Seq(Nat) /\ Len(x) = n + k /\ Len(y) = n + k
      BY <2>1, <2>2
    <3>2. ASSUME NEW m \in 1 .. n + k PROVE x[m] = y[m]
      <4>1. m \in 1 .. n \/ (m - n \in 1 .. k /\ n + (m - n) = m)  BY <2>3
      <4>2. CASE m \in 1 .. n  BY <2>1, <2>2, <4>2
      <4>3. CASE m - n \in 1 .. k /\ n + (m - n) = m
        <5>1. x[n + (m - n)] = y[n + (m - n)]  BY <2>1, <2>2, <4>3
        <5> QED BY <4>3, <5>1
      <4> QED BY <4>1, <4>2, <4>3
    <3> QED BY <3>1, <3>2, SeqEqual
  <2> QED BY <2>4 DEF y
<1> QED BY <1>2, <1>3, <1>4

\* the fold of KeyScan
PutEach(f, es) == FoldLeft(Put, f, es)

(* The events of one scan, put in one after the other.                       *)
LEMMA PutAll ==
  ASSUME NEW f \in Fifo, NEW es \in Seq(Nat),
         \A r \in Reader : Len(Unread(f, r)) + Len(es) <= FifoSize - 1
  PROVE  LET g == PutEach(f, es)
         IN /\ g \in Fifo /\ g.at = f.at /\ g.found = f.found
            /\ \A r \in Reader : Unread(g, r) = Unread(f, r) \o es
PROOF
<1> DEFINE S == DOMAIN es
           E(h) == h = [s \in SUBSET S |-> IF s = {} THEN f
                          ELSE Put(h[s \ {Max(s)}], es[Max(s)])]
           F == CHOOSE h : E(h)
<1>1. PutEach(f, es) = F[S]
  BY DEF PutEach, FoldLeft, MapThenFoldSet
<1>2. S = 1 .. Len(es) /\ Len(es) \in Nat /\ \A i \in 1 .. Len(es) : es[i] \in Nat
  OBVIOUS
<1> DEFINE c == [s \in SUBSET S |-> Max(s)]
           G == [a \in S \X Fifo |-> Put(a[2], es[a[1]])]
<1>3. /\ IsFiniteSet(S)
      /\ \A s \in SUBSET S : s # {} => c[s] \in s
      /\ \A x \in S, v \in Fifo : G[<<x, v>>] \in Fifo
  <2>1. IsFiniteSet(S)  BY <1>2, FS_Interval
  <2>2. \A s \in SUBSET S : s # {} => c[s] \in s  BY <1>2, GreatestExists
  <2>3. \A x \in S, v \in Fifo : G[<<x, v>>] \in Fifo
    <3> TAKE x \in S, v \in Fifo
    <3>1. Put(v, es[x]) \in Fifo  BY <1>2, PutIs
    <3> QED BY <3>1
  <2> QED BY <2>1, <2>2, <2>3
<1>4. \E h : E(h)
  <2>1. PICK h \in [SUBSET S -> Fifo] : Folds(S, c, G, f, h)
    <3> HIDE DEF S, c, G
    <3> QED BY <1>3, FoldsExist
  <2>2. ASSUME NEW s \in SUBSET S, s # {}
        PROVE  G[<<c[s], h[s \ {c[s]}]>>] = Put(h[s \ {Max(s)}], es[Max(s)])
    <3>1. c[s] = Max(s) /\ c[s] \in S  BY <1>3, <2>2
    <3>2. h[s \ {c[s]}] \in Fifo  BY <2>1
    <3> HIDE DEF S, c
    <3> QED BY <3>1, <3>2
  <2>3. [s \in SUBSET S |-> IF s = {} THEN f ELSE G[<<c[s], h[s \ {c[s]}]>>]]
          = [s \in SUBSET S |-> IF s = {} THEN f ELSE Put(h[s \ {Max(s)}], es[Max(s)])]
    <3> HIDE DEF G, c, S
    <3> QED BY <2>2
  <2>4. E(h)
    <3> HIDE DEF G, c, S
    <3> QED BY <2>1, <2>3 DEF Folds
  <2> HIDE DEF E
  <2> QED BY <2>4
<1>5. E(F)
  <2> HIDE DEF E
  <2> QED BY <1>4
<1> HIDE DEF c, G, F
<1>6. /\ F[1 .. 0] = f
      /\ \A i \in 0 .. Len(es) : i < Len(es) => F[1 .. i + 1] = Put(F[1 .. i], es[i + 1])
  <2>1. F[1 .. 0] = f  BY <1>5
  <2>2. ASSUME NEW i \in 0 .. Len(es), i < Len(es)
        PROVE  F[1 .. i + 1] = Put(F[1 .. i], es[i + 1])
    <3> DEFINE s == 1 .. i + 1
    <3>1. s \in SUBSET S /\ s # {} /\ Max(s) = i + 1 /\ s \ {i + 1} = 1 .. i
      <4>1. s \in SUBSET S /\ i + 1 \in s  BY <1>2, <2>2
      <4>2. i \in Nat  BY <2>2
      <4> QED BY <4>1, <4>2, MaxUpTo
    <3> HIDE DEF s, S
    <3>2. F[s] = Put(F[s \ {Max(s)}], es[Max(s)])  BY <1>5, <3>1
    <3> QED BY <3>1, <3>2 DEF s
  <2> QED BY <2>1, <2>2
<1> HIDE DEF E
<1> DEFINE Done(i) == /\ F[1 .. i] \in Fifo /\ F[1 .. i].at = f.at /\ F[1 .. i].found = f.found
                      /\ \A r \in Reader : Grown(Unread(f, r), es, Unread(F[1 .. i], r), i)
           P == {i \in 0 .. Len(es) : Done(i)}
<1>7. Done(0)
  <2>1. \A r \in Reader : Unread(f, r) \in Seq(Nat)  BY UnreadIs
  <2>2. \A r \in Reader : Grown(Unread(f, r), es, Unread(f, r), 0)  BY <2>1, GrownIs
  <2> QED BY <1>6, <2>2
<1>8. ASSUME NEW i \in 0 .. Len(es), Done(i), i < Len(es) PROVE Done(i + 1)
  <2> DEFINE a == F[1 .. i]
             b == F[1 .. i + 1]
             e == es[i + 1]
  <2>1. a \in Fifo /\ a.at = f.at /\ a.found = f.found /\ e \in Nat /\ b = Put(a, e) /\ i \in Nat
    BY <1>2, <1>6, <1>8
  <2>2. \A r \in Reader : Grown(Unread(f, r), es, Unread(a, r), i)  BY <1>8
  <2> HIDE DEF a, b
  <2>3. b \in Fifo /\ b.at = f.at /\ b.found = f.found  BY <2>1, PutIs
  <2>4. ASSUME NEW r \in Reader
        PROVE  Grown(Unread(f, r), es, Unread(b, r), i + 1)
    <3> DEFINE u == Unread(f, r)
               x == Unread(a, r)
    <3>1. u \in Seq(Nat) /\ Grown(u, es, x, i)  BY <2>2, UnreadIs
    <3>2. Len(u) + Len(es) <= FifoSize - 1  OBVIOUS
    <3>3. Behind(a, r) = Len(x) /\ Behind(a, r) \in Nat  BY <2>1, UnreadIs
    <3> HIDE DEF u, x
    <3>4. Len(x) = Len(u) + i /\ Len(u) \in Nat  BY <3>1 DEF Grown
    <3>5. Behind(a, r) < FifoSize - 1  BY <1>2, <1>8, <2>1, <3>2, <3>3, <3>4, KeysAssumption
    <3>6. Unread(b, r) = Append(x, e)
      <4> HIDE DEF e
      <4>1. Unread(Put(a, e), r) = Append(Unread(a, r), e)  BY <2>1, <3>5, PutIs
      <4> QED BY <2>1, <4>1 DEF x
    <3>7. Grown(u, es, Append(x, e), i + 1)  BY <1>8, <2>1, <3>1, GrownIs
    <3> QED BY <3>6, <3>7 DEF u
  <2> QED BY <2>3, <2>4 DEF b
<1> HIDE DEF Done
<1>9. Len(es) \in P
  <2>1. \A i \in 0 .. Len(es) : i \in P /\ i < Len(es) => i + 1 \in P  BY <1>2, <1>8
  <2>2. 0 \in P /\ P \subseteq 0 .. Len(es)  BY <1>2, <1>7
  <2> HIDE DEF P
  <2> QED BY <1>2, <2>1, <2>2, InitialSegment
<1>10. ASSUME NEW r \in Reader PROVE Unread(F[S], r) = Unread(f, r) \o es
  <2>1. Unread(f, r) \in Seq(Nat)  BY UnreadIs
  <2>2. Grown(Unread(f, r), es, Unread(F[S], r), Len(es))  BY <1>2, <1>9 DEF Done
  <2> QED BY <2>1, <2>2, GrownIs
<1> QED BY <1>1, <1>2, <1>9, <1>10 DEF Done

(* What bsp_keyscan10ms reports are codes of keys.                           *)
LEMMA EventsAre ==
  ASSUME btn \in [Key -> Button], NEW pins
  PROVE  Events(pins) \in Seq(Nat)
PROOF
<1> DEFINE q == [n \in 1 .. 4 |-> Detected(btn[n - 1], n - 1, IsKeyDown(pins, n - 1))]
           E(h) == h = [i \in 1 .. Len(q) |-> IF i = 1 THEN q[i] ELSE h[i - 1] \o q[i]]
           F == CHOOSE h : E(h)
<1>1. Len(q) = 4  OBVIOUS
<1>2. Events(pins) = F[Len(q)]  BY <1>1 DEF Events, FlattenSeq
<1>3. \A n \in 1 .. 4 : q[n] \in Seq(Nat)
  <2>1. \A i \in Key : \A e \in {"down", "up", "long"} : Code(i, e) \in Nat  BY DEF Code, Key
  <2>2. \A i \in Key : UpEvents(btn[i], i) \in Seq(Nat)  BY <2>1 DEF UpEvents
  <2>3. \A i \in Key : DownEvents(btn[i], i) \in Seq(Nat)  BY <2>1 DEF DownEvents
  <2>4. \A n \in 1 .. 4 : n - 1 \in Key  BY DEF Key
  <2> QED BY <2>2, <2>3, <2>4 DEF Detected
<1> HIDE DEF q
<1>4. E([i \in 1 .. Len(q) |-> IF i = 1 THEN q[1] ELSE IF i = 2 THEN q[1] \o q[2]
          ELSE IF i = 3 THEN (q[1] \o q[2]) \o q[3] ELSE ((q[1] \o q[2]) \o q[3]) \o q[4]])
  BY <1>1
<1> HIDE DEF E
<1>5. E(F)  BY <1>4
<1> HIDE DEF F
<1>6. F = [i \in 1 .. 4 |-> IF i = 1 THEN q[i] ELSE F[i - 1] \o q[i]]  BY <1>1, <1>5 DEF E
<1>7. \A i \in 1 .. 4 : F[i] = IF i = 1 THEN q[i] ELSE F[i - 1] \o q[i]
  <2> DEFINE H(i) == IF i = 1 THEN q[i] ELSE F[i - 1] \o q[i]
  <2>1. F = [i \in 1 .. 4 |-> H(i)]  BY <1>6
  <2> HIDE DEF H
  <2>2. \A i \in 1 .. 4 : F[i] = H(i)  BY <2>1
  <2> QED BY <2>2 DEF H
<1>8. F[1] = q[1] /\ F[2] = F[1] \o q[2] /\ F[3] = F[2] \o q[3] /\ F[4] = F[3] \o q[4]
  <2>1. F[1] = q[1]  BY <1>7
  <2>2. 1 \in 1 .. 4 /\ 2 \in 1 .. 4 /\ 3 \in 1 .. 4 /\ 4 \in 1 .. 4
        /\ 2 # 1 /\ 3 # 1 /\ 4 # 1  OBVIOUS
  <2>3. F[2] = F[2 - 1] \o q[2] /\ F[3] = F[3 - 1] \o q[3] /\ F[4] = F[4 - 1] \o q[4]  BY <1>7, <2>2, Zenon
  <2>4. 2 - 1 = 1 /\ 3 - 1 = 2 /\ 4 - 1 = 3  OBVIOUS
  <2> QED BY <2>1, <2>3, <2>4
<1>9. F[1] \in Seq(Nat) /\ F[2] \in Seq(Nat)  BY <1>3, <1>8
<1>10. F[3] \in Seq(Nat)  BY <1>3, <1>8, <1>9
<1>11. F[4] \in Seq(Nat)  BY <1>3, <1>8, <1>10
<1> QED BY <1>1, <1>2, <1>11

-----------------------------------------------------------------------------
(* The filter of one key *)

\* the history of one key, and what its filter (s_tbtn) makes of it
Sampling == [down : BOOLEAN, scans : 0 .. LongTime + 2 * FilterTime]

Filtered(b, s) ==
  /\ s.scans = 0 => ~s.down /\ b.state = 0
  /\ s.down => /\ b.count >= FilterTime /\ b.count <= s.scans + FilterTime
               /\ b.count = 2 * FilterTime \/ b.count > s.scans
               /\ b.longcount = 0 \/ b.longcount + FilterTime <= s.scans
               /\ b.longcount = LongTime \/ b.longcount + FilterTime + 1 >= s.scans
  /\ ~s.down => /\ b.count <= FilterTime /\ b.longcount = 0
                /\ b.count = 0 \/ b.count + s.scans <= FilterTime + 1
                /\ b.state = 1 => b.count + s.scans >= FilterTime

(* One sample of one key: what it does to the filter and what it reports.    *)
LEMMA SampleIs ==
  ASSUME NEW i \in Key, NEW b \in Button, NEW s \in Sampling, NEW d \in BOOLEAN, Filtered(b, s)
  PROVE  LET c == Detect(b, d)
             n == Sampled(s, d)
         IN /\ c \in Button /\ n \in Sampling /\ Filtered(c, n) /\ n.down = d
            /\ c.state # b.state => n.scans > FilterTime /\ d = (c.state = 1)
            /\ n.scans >= 2 * FilterTime => d = (c.state = 1)
            /\ Contains(Detected(b, i, d), Code(i, "long"))
                 => d /\ n.scans >= LongTime + FilterTime
            /\ d /\ n.scans = LongTime + 2 * FilterTime => c.longcount = LongTime
PROOF
<1> DEFINE c == Detect(b, d)
           n == Sampled(s, d)
           L == LongTime
           Told == /\ c \in Button /\ n \in Sampling /\ Filtered(c, n) /\ n.down = d
                   /\ c.state # b.state => n.scans > 2 /\ d = (c.state = 1)
                   /\ n.scans >= 4 => d = (c.state = 1)
                   /\ Contains(Detected(b, i, d), Code(i, "long")) => d /\ n.scans >= L + 2
                   /\ d /\ n.scans = L + 4 => c.longcount = L
<1>1. L \in Nat /\ RepeatSpeed \subseteq Nat  BY KeysAssumption
<1>2. b.count \in 0 .. 4 /\ b.state \in {0, 1} /\ b.longcount \in 0 .. L
      /\ b.repeatspeed \in RepeatSpeed /\ b.repeatcount \in Nat
      /\ s.down \in BOOLEAN /\ s.scans \in 0 .. L + 4
  BY DEF Button, Sampling, FilterTime
<1>3. n \in Sampling /\ n.down = d
      /\ n.scans = IF s.scans = 0 \/ s.down # d THEN 1
                   ELSE IF s.scans < L + 4 THEN s.scans + 1 ELSE s.scans
  BY <1>1, <1>2 DEF Sampled, Sampling, FilterTime
<1>4. /\ s.scans = 0 => ~s.down /\ b.state = 0
      /\ s.down => /\ b.count >= 2 /\ b.count <= s.scans + 2
                   /\ b.count = 4 \/ b.count > s.scans
                   /\ b.longcount = 0 \/ b.longcount + 2 <= s.scans
                   /\ b.longcount = L \/ b.longcount + 3 >= s.scans
      /\ ~s.down => /\ b.count <= 2 /\ b.longcount = 0
                    /\ b.count = 0 \/ b.count + s.scans <= 3
                    /\ b.state = 1 => b.count + s.scans >= 2
  BY <1>1, <1>2 DEF Filtered, FilterTime
<1>5. ASSUME d = TRUE PROVE Told
  <2>1. c = Down(b) /\ d = TRUE  BY <1>5 DEF Detect
  <2>4. /\ n.down
        /\ s.scans = 0 \/ ~s.down => n.scans = 1
        /\ s.scans # 0 /\ s.down
             => n.scans = IF s.scans < L + 4 THEN s.scans + 1 ELSE s.scans
    BY <1>2, <1>3, <2>1
  <2>2. CASE ~Settled(b)
    <3>1. c = [b EXCEPT !.count = IF @ < 2 THEN 2 ELSE @ + 1] /\ b.count # 4
      BY <2>1, <2>2 DEF Down, Settled, FilterTime
    <3>2. c.count = (IF b.count < 2 THEN 2 ELSE b.count + 1) /\ c.state = b.state
          /\ c.longcount = b.longcount /\ c \in Button
      BY <1>2, <3>1 DEF Button, FilterTime
    <3> HIDE DEF c, n
    <3>3. Filtered(c, n)
      BY <1>1, <1>2, <1>4, <2>4, <3>1, <3>2 DEF Filtered, FilterTime
    <3>4. ~Contains(Detected(b, i, d), Code(i, "long"))
      BY <1>5, <2>2 DEF Detected, DownEvents, Contains
    <3>5. n.scans >= 4 => c.state = 1  BY <1>1, <1>2, <1>4, <2>4, <3>1, <3>2
    <3>6. n.scans = L + 4 => c.longcount = L  BY <1>1, <1>2, <1>4, <2>4, <3>1, <3>2
    <3> QED BY <1>3, <2>1, <3>2, <3>3, <3>4, <3>5, <3>6
  <2>3. CASE Settled(b)
    <3>1. b.count = 4  BY <2>3 DEF Settled, FilterTime
    <3>2. c.count = 4 /\ c.state = 1
          /\ c.longcount = (IF b.longcount < L THEN b.longcount + 1 ELSE b.longcount)
          /\ c.repeatspeed = b.repeatspeed /\ c.repeatcount \in Nat
      BY <1>2, <2>1, <2>3, <3>1 DEF Down, Button, Lengthens
    <3>3. c \in Button
      <4>1. c.longcount \in 0 .. L  BY <1>1, <1>2, <3>2
      <4> QED BY <1>2, <2>1, <2>3, <3>2, <4>1 DEF Down, Button, FilterTime
    <3>4. Contains(Detected(b, i, d), Code(i, "long")) => b.longcount + 1 = L
      <4>1. Code(i, "long") = 3 * i + 3 /\ Code(i, "down") = 3 * i + 1 /\ i \in Nat
        BY DEF Code, Key
      <4>2. Code(i, "long") # Code(i, "down")  BY <4>1
      <4> DEFINE u == IF b.state = 0 THEN <<Code(i, "down")>> ELSE << >>
                 v == IF RepeatsNow(b) THEN <<Code(i, "down")>> ELSE << >>
      <4>3. b.longcount + 1 # L => Detected(b, i, d) = (u \o << >>) \o v
        BY <1>5, <2>3 DEF Detected, DownEvents
      <4>4. ~Contains((u \o << >>) \o v, Code(i, "long"))
        BY <4>2 DEF Contains
      <4> QED BY <4>3, <4>4
    <3> HIDE DEF c, n
    <3>5. Filtered(c, n)
      BY <1>1, <1>2, <1>4, <2>4, <3>1, <3>2 DEF Filtered, FilterTime
    <3>6. c.state # b.state => n.scans > 2  BY <1>1, <1>2, <1>4, <2>4, <3>1, <3>2
    <3>7. b.longcount + 1 = L => n.scans >= L + 2  BY <1>1, <1>2, <1>4, <2>4, <3>1, <3>2
    <3>8. n.scans = L + 4 => c.longcount = L  BY <1>1, <1>2, <1>4, <2>4, <3>1, <3>2
    <3> QED BY <1>3, <2>1, <3>2, <3>3, <3>4, <3>5, <3>6, <3>7, <3>8
  <2> QED BY <2>2, <2>3
<1>6. ASSUME d = FALSE PROVE Told
  <2>1. c = Up(b) /\ d = FALSE  BY <1>6 DEF Detect
  <2>8. /\ ~n.down
        /\ s.scans = 0 \/ s.down => n.scans = 1
        /\ s.scans # 0 /\ ~s.down
             => n.scans = IF s.scans < L + 4 THEN s.scans + 1 ELSE s.scans
    BY <1>2, <1>3, <2>1
  <2>2. c.count = (IF b.count > 2 THEN 2 ELSE IF b.count # 0 THEN b.count - 1 ELSE 0)
        /\ c.state = (IF b.count = 0 THEN 0 ELSE b.state) /\ c.longcount = 0
        /\ c.repeatspeed = b.repeatspeed /\ c.repeatcount = 0
    BY <1>2, <2>1 DEF Up, Button, Released, FilterTime
  <2>3. c \in Button
    <3>1. c.count \in 0 .. 4  BY <1>2, <2>2
    <3>2. c.state \in {0, 1} /\ c.longcount \in 0 .. L  BY <1>1, <1>2, <2>2
    <3>3. c = [count |-> c.count, state |-> c.state, longcount |-> c.longcount,
               repeatspeed |-> c.repeatspeed, repeatcount |-> c.repeatcount]
      BY <2>1 DEF Up, Button
    <3> HIDE DEF c
    <3> QED BY <1>2, <2>2, <3>1, <3>2, <3>3 DEF Button, FilterTime
  <2>4. ~Contains(Detected(b, i, d), Code(i, "long"))
    <3>1. Code(i, "long") = 3 * i + 3 /\ Code(i, "up") = 3 * i + 2 /\ i \in Nat
      BY DEF Code, Key
    <3>2. Code(i, "long") # Code(i, "up")  BY <3>1
    <3> QED BY <1>6, <3>2 DEF Detected, UpEvents, Contains
  <2> HIDE DEF c, n
  <2>5. Filtered(c, n)
    BY <1>1, <1>2, <1>4, <2>2, <2>8 DEF Filtered, FilterTime
  <2>6. c.state # b.state => n.scans > 2 /\ c.state = 0
    BY <1>1, <1>2, <1>4, <2>2, <2>8
  <2>7. n.scans >= 4 => c.state # 1  BY <1>1, <1>2, <1>4, <2>2, <2>8
  <2> QED BY <1>3, <2>1, <2>3, <2>4, <2>5, <2>6, <2>7
<1>7. d = TRUE \/ d = FALSE  OBVIOUS
<1>8. Told  BY <1>5, <1>6, <1>7
<1>9. 2 * FilterTime = 4 /\ FilterTime = 2  BY DEF FilterTime
<1> HIDE DEF c, n
<1> QED BY <1>8, <1>9 DEF c, n

-----------------------------------------------------------------------------
(* Ring, readers and filters through the steps of the board *)

(* The inductive invariant of the keys: what a reader has not read is in the *)
(* ring and fits, who has found a key has one to read, and every filter      *)
(* agrees with the samples.                                                  *)
KeyInv ==
  /\ KeysTypeOK
  /\ seen \in [Key -> Sampling] /\ \A i \in Key : Filtered(btn[i], seen[i])
  /\ unread \in [Reader -> Seq(Nat)] /\ ReadersSeeAll
  /\ \A r \in Reader : /\ Len(unread[r]) <= MaxBehind
                       /\ fifo.found[r] => unread[r] # << >>

(* What the invariant says of the ring.                                      *)
LEMMA RingFacts ==
  ASSUME KeyInv
  PROVE  /\ fifo \in Fifo /\ btn \in [Key -> Button]
         /\ \A r \in Reader : /\ unread[r] \in Seq(Nat) /\ Unread(fifo, r) = unread[r]
                              /\ Len(unread[r]) = Behind(fifo, r)
PROOF
<1>1. fifo \in Fifo /\ btn \in [Key -> Button]  BY DEF KeyInv, KeysTypeOK, Fifo
<1>2. \A r \in Reader : Pending(r) = Unread(fifo, r)  BY DEF Pending, Unread
<1>3. \A r \in Reader : unread[r] \in Seq(Nat) /\ Unread(fifo, r) = unread[r]
  BY <1>2 DEF KeyInv, ReadersSeeAll
<1> QED BY <1>1, <1>3, UnreadIs

(* What has to be shown of a step that changes the ring alone.               *)
LEMMA RingStep ==
  ASSUME KeyInv, UNCHANGED <<btn, seen>>, fifo' \in Fifo, unread' \in [Reader -> Seq(Nat)],
         \A r \in Reader : /\ Unread(fifo', r) = unread'[r] /\ Len(unread'[r]) <= MaxBehind
                           /\ fifo'.found[r] => unread'[r] # << >>
  PROVE  KeyInv'
PROOF
<1>1. KeysTypeOK'  BY DEF KeyInv, KeysTypeOK, Fifo
<1>2. ReadersSeeAll'  BY DEF ReadersSeeAll, Pending, Unread
<1> QED BY <1>1, <1>2 DEF KeyInv

(* A step of one reader leaves what the other one has not read.              *)
LEMMA OtherReader ==
  ASSUME NEW f \in Fifo, NEW g \in Fifo, g.buf = f.buf, g.write = f.write,
         NEW r \in Reader, g.at[r] = f.at[r]
  PROVE  Unread(g, r) = Unread(f, r)
BY DEF Unread

(* A reader that reads.                                                      *)
LEMMA GetIs ==
  ASSUME NEW f \in Fifo, NEW r \in Reader, Behind(f, r) > 0,
         NEW g \in Fifo, g.buf = f.buf, g.write = f.write, g.at[r] = Following(f.at[r])
  PROVE  Unread(g, r) = Tail(Unread(f, r))
PROOF
<1> DEFINE n == Behind(f, r)
           w == f.write
           a == f.at[r]
<1>1. FifoSize \in Nat \ {0}  BY KeysAssumption
<1>2. w \in 0 .. FifoSize - 1 /\ a \in 0 .. FifoSize - 1  BY DEF Fifo
<1>3. n = IF w >= a THEN w - a ELSE w + FifoSize - a  BY DEF Behind
<1>4. Behind(g, r) = IF w >= Following(a) THEN w - Following(a) ELSE w + FifoSize - Following(a)
  BY DEF Behind
<1>5. Following(a) = IF a + 1 = FifoSize THEN 0 ELSE a + 1  BY <1>1, <1>2 DEF Following
<1>6. \A m : Place(f, r, m) = IF a + m - 1 < FifoSize THEN a + m - 1 ELSE a + m - 1 - FifoSize
  BY DEF Place
<1>7. \A m : Place(g, r, m) = IF Following(a) + m - 1 < FifoSize THEN Following(a) + m - 1
                              ELSE Following(a) + m - 1 - FifoSize
  BY DEF Place
<1>8. /\ Unread(g, r) \in Seq(Nat) /\ Len(Unread(g, r)) = Behind(g, r)
      /\ \A m \in 1 .. Behind(g, r) : Unread(g, r)[m] = f.buf[Place(g, r, m)]
  BY UnreadIs
<1>9. /\ Unread(f, r) \in Seq(Nat) /\ Len(Unread(f, r)) = n /\ n \in 0 .. FifoSize - 1 /\ n > 0
      /\ \A m \in 1 .. n : Unread(f, r)[m] = f.buf[Place(f, r, m)]
  BY UnreadIs
<1> HIDE DEF n, w, a
<1>10. Behind(g, r) = n - 1  BY <1>1, <1>2, <1>3, <1>4, <1>5, <1>9
<1>11. ASSUME NEW m \in 1 .. n - 1 PROVE Unread(g, r)[m] = Unread(f, r)[m + 1]
  <2>1. m \in Nat /\ m + 1 \in 1 .. n  BY <1>9
  <2>2. Place(g, r, m) = Place(f, r, m + 1)
    BY <1>1, <1>2, <1>5, <1>6, <1>7, <1>9, <2>1
  <2> QED BY <1>8, <1>9, <1>10, <2>1, <2>2
<1> DEFINE u == Unread(f, r)
           v == Unread(g, r)
<1>12. /\ u \in Seq(Nat) /\ v \in Seq(Nat) /\ Len(u) = n /\ Len(v) = n - 1 /\ n \in Nat \ {0}
       /\ \A m \in 1 .. n - 1 : v[m] = u[m + 1]
  BY <1>8, <1>9, <1>10, <1>11
<1> HIDE DEF u, v
<1>13. v = Tail(u)
  <2>1. Tail(u) \in Seq(Nat) /\ Len(Tail(u)) = n - 1 /\ \A m \in 1 .. n - 1 : Tail(u)[m] = u[m + 1]
    BY <1>12
  <2> DEFINE t == Tail(u)
  <2>2. t \in Seq(Nat) /\ Len(t) = n - 1 /\ \A m \in 1 .. n - 1 : t[m] = v[m]
    BY <1>12, <2>1
  <2> HIDE DEF t
  <2>3. v = t  BY <1>12, <2>2
  <2> QED BY <2>3 DEF t
<1> QED BY <1>13 DEF u, v

(* bsp_getkey: KEY_NONE, or the pointers differ.                             *)
LEMMA GetKeyTestInv ==
  ASSUME KeyInv, NEW r \in Reader, GetKeyTest(r)
  PROVE  KeyInv'
PROOF
<1>1. fifo' = [fifo EXCEPT !.found[r] = TRUE] /\ fifo.at[r] # fifo.write
      /\ UNCHANGED <<btn, seen, unread>>
  BY DEF GetKeyTest
<1>2. fifo' \in Fifo /\ fifo'.buf = fifo.buf /\ fifo'.write = fifo.write /\ fifo'.at = fifo.at
      /\ fifo'.found = [fifo.found EXCEPT ![r] = TRUE]
  BY <1>1, RingFacts DEF Fifo
<1>3. Behind(fifo, r) # 0  BY <1>1, RingFacts, KeysAssumption DEF Behind, Fifo
<1>4. \A x \in Reader : Unread(fifo', x) = unread'[x]  BY <1>1, <1>2, RingFacts, OtherReader
<1>5. \A x \in Reader : fifo'.found[x] => unread'[x] # << >>
  BY <1>1, <1>2, <1>3, RingFacts DEF Fifo, KeyInv
<1> QED BY <1>1, <1>2, <1>4, <1>5, RingStep DEF KeyInv

(* bsp_getkey reads it.                                                      *)
LEMMA GetKeyInv ==
  ASSUME KeyInv, NEW r \in Reader, GetKey(r)
  PROVE  KeyInv'
PROOF
<1>1. fifo' = [fifo EXCEPT !.found[r] = FALSE, !.at[r] = Following(@)] /\ fifo.found[r]
      /\ UNCHANGED <<btn, seen>>
      /\ unread' = [unread EXCEPT ![r] = IF @ = << >> THEN @ ELSE Tail(@)]
  BY DEF GetKey
<1>2. unread[r] # << >> /\ unread[r] \in Seq(Nat) /\ unread \in [Reader -> Seq(Nat)]
  BY <1>1 DEF KeyInv
<1>3. unread' = [unread EXCEPT ![r] = Tail(unread[r])]  BY <1>1, <1>2
<1>4. fifo.at[r] \in 0 .. FifoSize - 1 /\ Following(fifo.at[r]) \in 0 .. FifoSize - 1
  BY RingFacts, KeysAssumption DEF Fifo, Following
<1>5. fifo' \in Fifo /\ fifo'.buf = fifo.buf /\ fifo'.write = fifo.write
      /\ fifo'.at = [fifo.at EXCEPT ![r] = Following(fifo.at[r])]
      /\ fifo'.found = [fifo.found EXCEPT ![r] = FALSE]
  BY <1>1, <1>4, RingFacts DEF Fifo
<1>6. Tail(unread[r]) \in Seq(Nat) /\ Len(Tail(unread[r])) = Len(unread[r]) - 1
      /\ Len(unread[r]) > 0 /\ Len(unread[r]) \in Nat
  BY <1>2
<1>7. Unread(fifo', r) = Tail(unread[r])
  <2>1. Behind(fifo, r) > 0 /\ fifo'.at[r] = Following(fifo.at[r])
    BY <1>5, <1>6, RingFacts DEF Fifo
  <2> QED BY <1>5, <2>1, RingFacts, GetIs
<1>8. \A x \in Reader : x # r => Unread(fifo', x) = unread[x]
  <2> SUFFICES ASSUME NEW x \in Reader, x # r PROVE Unread(fifo', x) = unread[x]
    OBVIOUS
  <2>1. fifo'.at[x] = fifo.at[x]  BY <1>5, RingFacts DEF Fifo
  <2>2. Unread(fifo', x) = Unread(fifo, x)  BY <1>5, <2>1 DEF Unread
  <2> QED BY <2>2, RingFacts
<1>9. \A x \in Reader : Unread(fifo', x) = unread'[x] /\ Len(unread'[x]) <= MaxBehind
  <2>1. \A x \in Reader : unread'[x] = IF x = r THEN Tail(unread[r]) ELSE unread[x]
    BY <1>2, <1>3
  <2>2. MaxBehind \in Nat /\ \A x \in Reader : Len(unread[x]) <= MaxBehind
    BY KeysAssumption DEF KeyInv
  <2>4. Len(Tail(unread[r])) <= MaxBehind  BY <1>6, <2>2
  <2>3. Len(unread'[r]) <= MaxBehind  BY <2>1, <2>4
  <2> QED BY <1>7, <1>8, <2>1, <2>2, <2>3
<1>10. \A x \in Reader : fifo'.found[x] => unread'[x] # << >>
  <2>1. \A x \in Reader : fifo'.found[x] => x # r /\ fifo.found[x]
    BY <1>5, RingFacts DEF Fifo
  <2> QED BY <1>2, <1>3, <2>1 DEF KeyInv
<1>11. unread' \in [Reader -> Seq(Nat)]  BY <1>2, <1>3, <1>6
<1> QED BY <1>1, <1>5, <1>9, <1>10, <1>11, RingStep

(* bsp_clearkey.                                                             *)
LEMMA ClearKeyInv ==
  ASSUME KeyInv, ClearKey
  PROVE  KeyInv'
PROOF
<1> DEFINE r == "getkey"
<1>1. fifo' = [fifo EXCEPT !.at[r] = fifo.write] /\ ~fifo.found[r] /\ r \in Reader
      /\ UNCHANGED <<btn, seen>> /\ unread' = [unread EXCEPT ![r] = << >>]
  BY DEF ClearKey, Reader
<1> HIDE DEF r
<1>2. fifo' \in Fifo /\ fifo'.buf = fifo.buf /\ fifo'.write = fifo.write
      /\ fifo'.at = [fifo.at EXCEPT ![r] = fifo.write] /\ fifo'.found = fifo.found
  BY <1>1, RingFacts DEF Fifo
<1>3. unread' \in [Reader -> Seq(Nat)]
      /\ \A x \in Reader : unread'[x] = IF x = r THEN << >> ELSE unread[x]
  BY <1>1 DEF KeyInv
<1>4. Unread(fifo', r) = << >>
  <2>1. Behind(fifo', r) = 0  BY <1>1, <1>2, RingFacts, KeysAssumption DEF Behind, Fifo
  <2> QED BY <1>1, <1>2, <2>1, UnreadIs
<1>5. \A x \in Reader : x # r => Unread(fifo', x) = unread[x]
  <2> SUFFICES ASSUME NEW x \in Reader, x # r PROVE Unread(fifo', x) = unread[x]
    OBVIOUS
  <2>1. fifo'.at[x] = fifo.at[x]  BY <1>2, RingFacts DEF Fifo
  <2> QED BY <1>2, <2>1, RingFacts, OtherReader
<1>6. \A x \in Reader : /\ Unread(fifo', x) = unread'[x] /\ Len(unread'[x]) <= MaxBehind
                        /\ fifo'.found[x] => unread'[x] # << >>
  <2>1. Len(<< >>) <= MaxBehind  BY KeysAssumption
  <2>2. ~fifo'.found[r]  BY <1>1, <1>2
  <2> QED BY <1>2, <1>3, <1>4, <1>5, <2>1, <2>2 DEF KeyInv
<1> QED BY <1>1, <1>2, <1>3, <1>6, RingStep

(* bsp_keyscan10ms.                                                          *)
LEMMA KeyScanInv ==
  ASSUME KeyInv, NEW pins, KeyScan(pins)
  PROVE  KeyInv' /\ Debounced
PROOF
<1> DEFINE es == Events(pins)
           d(i) == IsKeyDown(pins, i)
<1>1. /\ \A r \in Reader : Len(unread[r]) + Len(es) <= MaxBehind
      /\ btn' = [i \in Key |-> Detect(btn[i], d(i))]
      /\ fifo' = PutEach(fifo, es)
      /\ seen' = [i \in Key |-> Sampled(seen[i], d(i))]
      /\ unread' = [r \in Reader |-> unread[r] \o es]
  BY DEF KeyScan, PutEach
<1>2. es \in Seq(Nat)  BY RingFacts, EventsAre
<1>3. \A i \in Key : d(i) \in BOOLEAN  BY DEF IsKeyDown, Key, HardKey
<1>4. FifoSize \in Nat \ {0} /\ MaxBehind \in Nat /\ MaxBehind <= FifoSize - 1
  BY KeysAssumption
<1> HIDE DEF es, d
<1>5. /\ fifo' \in Fifo /\ fifo'.found = fifo.found
      /\ \A r \in Reader : Unread(fifo', r) = unread[r] \o es
  <2>1. \A r \in Reader : Len(Unread(fifo, r)) + Len(es) <= FifoSize - 1
    <3> TAKE r \in Reader
    <3>1. Len(unread[r]) \in Nat /\ Len(es) \in Nat  BY <1>2, RingFacts
    <3> QED BY <1>1, <1>4, <3>1, RingFacts
  <2>2. fifo \in Fifo  BY RingFacts
  <2>3. /\ PutEach(fifo, es) \in Fifo /\ PutEach(fifo, es).found = fifo.found
        /\ \A r \in Reader : Unread(PutEach(fifo, es), r) = Unread(fifo, r) \o es
    BY <1>2, <2>1, <2>2, PutAll, Zenon
  <2> QED BY <1>1, <2>3, RingFacts
<1>6. \A r \in Reader : unread'[r] = unread[r] \o es /\ unread'[r] \in Seq(Nat)
                        /\ Len(unread'[r]) = Len(unread[r]) + Len(es)
                        /\ (unread[r] # << >> => unread'[r] # << >>)
  <2> TAKE r \in Reader
  <2>1. unread'[r] = unread[r] \o es  BY <1>1
  <2>2. unread[r] \in Seq(Nat)  BY RingFacts
  <2> QED BY <1>2, <2>1, <2>2
<1>7. ASSUME NEW i \in Key
      PROVE  /\ btn'[i] = Detect(btn[i], d(i)) /\ seen'[i] = Sampled(seen[i], d(i))
             /\ btn[i] \in Button /\ seen[i] \in Sampling /\ Filtered(btn[i], seen[i])
             /\ d(i) \in BOOLEAN
  BY <1>1, <1>3, RingFacts DEF KeyInv
<1>8. ASSUME NEW i \in Key
      PROVE  /\ btn'[i] \in Button /\ seen'[i] \in Sampling /\ Filtered(btn'[i], seen'[i])
             /\ seen'[i].down = d(i)
             /\ btn'[i].state # btn[i].state
                  => seen'[i].scans > FilterTime /\ d(i) = (btn'[i].state = 1)
             /\ seen'[i].scans >= 2 * FilterTime => d(i) = (btn'[i].state = 1)
             /\ Contains(Detected(btn[i], i, d(i)), Code(i, "long"))
                  => d(i) /\ seen'[i].scans >= LongTime + FilterTime
             /\ d(i) /\ seen'[i].scans = LongTime + 2 * FilterTime
                  => btn'[i].longcount = LongTime
  BY <1>7, SampleIs
<1>9. Debounced  BY <1>8 DEF Debounced
<1>10. KeysTypeOK'
  <2>1. btn' \in [Key -> Button]  BY <1>1, <1>8
  <2> QED BY <1>5, <2>1 DEF KeysTypeOK, Fifo
<1>11. seen' \in [Key -> Sampling] /\ \A i \in Key : Filtered(btn'[i], seen'[i])
  BY <1>1, <1>8
<1>12. ReadersSeeAll'  BY <1>5, <1>6 DEF ReadersSeeAll, Pending, Unread
<1>13. unread' \in [Reader -> Seq(Nat)]  BY <1>1, <1>6
<1>14. \A r \in Reader : /\ Len(unread'[r]) <= MaxBehind
                         /\ fifo'.found[r] => unread'[r] # << >>
  BY <1>1, <1>5, <1>6 DEF KeyInv
<1> QED BY <1>9, <1>10, <1>11, <1>12, <1>13, <1>14 DEF KeyInv, Filtered

(* bsp_initkeyvar                                                            *)
LEMMA KeysInitInv == ASSUME KeysInit PROVE KeyInv
PROOF
<1>1. LongTime \in Nat /\ RepeatSpeed \subseteq Nat /\ FifoSize \in Nat \ {0} /\ MaxBehind \in Nat
  BY KeysAssumption
<1>2. PICK speed \in RepeatSpeed :
        btn = [i \in Key |-> [count |-> FilterTime \div 2, state |-> 0, longcount |-> 0,
                              repeatspeed |-> speed, repeatcount |-> 0]]
  BY DEF KeysInit
<1>3. FilterTime \div 2 = 1 /\ 2 * FilterTime = 4 /\ FilterTime = 2  BY DEF FilterTime
<1>4. fifo \in Fifo /\ btn \in [Key -> Button]
      /\ fifo.write = 0 /\ \A r \in Reader : fifo.at[r] = 0 /\ ~fifo.found[r]
  <2>1. fifo \in Fifo /\ fifo.write = 0 /\ \A r \in Reader : fifo.at[r] = 0 /\ ~fifo.found[r]
    BY <1>1 DEF KeysInit, Fifo, KEY_NONE
  <2>2. btn \in [Key -> Button]  BY <1>1, <1>2, <1>3 DEF Button
  <2> QED BY <2>1, <2>2
<1>5. seen = [i \in Key |-> [down |-> FALSE, scans |-> 0]] /\ unread = [r \in Reader |-> << >>]
  BY DEF KeysInit
<1>6. seen \in [Key -> Sampling]  BY <1>1, <1>3, <1>5 DEF Sampling
<1>7. ASSUME NEW i \in Key PROVE Filtered(btn[i], seen[i])
  <2>1. btn[i].count = 1 /\ btn[i].state = 0 /\ btn[i].longcount = 0
        /\ seen[i].down = FALSE /\ seen[i].scans = 0
    BY <1>2, <1>3, <1>5
  <2> QED BY <1>3, <2>1 DEF Filtered
<1>8. \A r \in Reader : Unread(fifo, r) = << >>
  <2>1. \A r \in Reader : Behind(fifo, r) = 0  BY <1>4 DEF Behind
  <2> QED BY <1>4, <2>1, UnreadIs
<1>9. ReadersSeeAll  BY <1>5, <1>8 DEF ReadersSeeAll, Pending, Unread
<1>10. unread \in [Reader -> Seq(Nat)] /\ \A r \in Reader : Len(unread[r]) <= MaxBehind
  BY <1>1, <1>5
<1>11. KeysTypeOK  BY <1>4 DEF KeysTypeOK, Fifo
<1> QED BY <1>4, <1>6, <1>7, <1>9, <1>10, <1>11 DEF KeyInv

(* Every step of the board.                                                  *)
LEMMA KeysStepInv ==
  ASSUME KeyInv, BoardNext
  PROVE  KeyInv' /\ (UNCHANGED seen \/ Debounced)
PROOF
<1>1. ASSUME UNCHANGED keyVars PROVE KeyInv' /\ UNCHANGED seen
  BY <1>1 DEF keyVars, KeyInv, KeysTypeOK, ReadersSeeAll, Pending
<1>2. CASE KeyTask
  <2>1. UNCHANGED seen  BY <1>2 DEF KeyTask, GetKeyTest, GetKey, ClearKey
  <2> QED BY <1>2, <2>1, GetKeyTestInv, GetKeyInv, ClearKeyInv DEF KeyTask
<1>3. ASSUME NEW pins \in SUBSET HardKey, SysTick_ISR(pins)
      PROVE  KeyInv' /\ (UNCHANGED seen \/ Debounced)
  BY <1>1, <1>3, KeyScanInv DEF SysTick_ISR
<1> QED BY <1>1, <1>2, <1>3 DEF BoardNext

-----------------------------------------------------------------------------
LEMMA KeysInvariant == BoardSpec => []KeyInv
PROOF
<1>1. KeyInv /\ UNCHANGED <<boardVars, keyVars>> => KeyInv'
  BY DEF keyVars, KeyInv, KeysTypeOK, ReadersSeeAll, Pending
<1>2. KeyInv /\ [BoardNext]_<<boardVars, keyVars>> => KeyInv'  BY <1>1, KeysStepInv
<1> QED BY <1>2, KeysInitInv, PTL DEF BoardSpec

(* Each of the two readers gets every event, in order and once, although the *)
(* interrupt puts keys in between its test and its read (bsp_key.c), for     *)
(* every size of the ring that the readers do not let run full.              *)
THEOREM EveryKeyIsRead == BoardSpec => []ReadersSeeAll
PROOF
<1>1. KeyInv => ReadersSeeAll  BY DEF KeyInv
<1> QED BY <1>1, KeysInvariant, PTL

(* Keys are debounced, and reported as long when they are (bsp_detectkey),   *)
(* for every LongTime and every speed of repetition.                         *)
THEOREM KeysAreDebounced == BoardSpec => KeysDebounced
PROOF
<1>1. KeyInv => KeysTypeOK  BY DEF KeyInv
<1>2. UNCHANGED seen => Debounced  BY DEF Debounced
<1>3. KeyInv /\ [BoardNext]_<<boardVars, keyVars>> => [Debounced]_keyVars
  BY <1>2, KeysStepInv DEF keyVars
<1> QED BY <1>1, <1>3, KeysInvariant, PTL DEF BoardSpec, KeysDebounced

-----------------------------------------------------------------------------
(* The UART driver: the rings stay in step with the handler running between *)
(* any two steps of the threads, and the bytes leave in the order they were *)
(* sent in, for rings of any size and any bytes.                            *)

Places == {"idle", "test", "advance", "full", "enable", "set"}

\* the bytes a ring holds are bytes
Live(r) == \A i \in 0 .. r.count - 1 : r.buf[(r.read + i) % Size] \in Byte

\* the transmit side as the handler finds it: the line is busy as long as DR
\* is full, and TC is set only when both are empty
LineOK(u) ==
  /\ u \in Port /\ InStep(u.tx) /\ Live(u.tx)
  /\ u.shift = NoByte => u.tdr = NoByte
  /\ u.tc => u.shift = NoByte

\* between the two halves of a store there is room, and the byte is there
SenderOK ==
  /\ sender \in [at : Places, left : Seq(Byte), tcie : BOOLEAN]
  /\ sender.at \in {"test", "advance", "full"} => sender.left # << >>
  /\ sender.at = "advance" =>
       port.tx.count < Size /\ port.tx.buf[port.tx.write] = Head(sender.left)

ReaderOK ==
  /\ reader \in Byte \cup {NoByte} /\ overrun \in BOOLEAN
  /\ reader # NoByte => port.rx.count > 0
  /\ ~overrun => InStep(port.rx) /\ (reader # NoByte => reader = Oldest(port.rx))

UInv == LineOK(port) /\ SenderOK /\ ReaderOK /\ NothingWaits

-----------------------------------------------------------------------------
(* Rings *)

LEMMA ModSmall ==
  ASSUME NEW x \in 0 .. Size + Size - 1
  PROVE  x % Size = IF x < Size THEN x ELSE x - Size
<1>1. Size \in Nat \ {0}
  BY UartAssumption
<1>2. CASE x < Size
  BY <1>1, <1>2
<1>3. CASE ~(x < Size)
  BY <1>1, <1>3
<1> QED
  BY <1>2, <1>3

\* slot i of a ring, counted from its read index
Slot(r, i) == (r.read + i) % Size

(* The slots a ring may use are different places of its buffer.              *)
LEMMA Slots ==
  ASSUME NEW r \in Ring
  PROVE  /\ \A i \in 0 .. Size : Slot(r, i) \in 0 .. Size - 1
         /\ \A i \in 0 .. Size : Slot(r, i) = IF r.read + i < Size THEN r.read + i
                                               ELSE r.read + i - Size
         /\ Slot(r, 0) = r.read /\ Slot(r, 1) = After(r.read)
         /\ \A i, j \in 0 .. Size - 1 : Slot(r, i) = Slot(r, j) => i = j
         /\ \A i \in 0 .. Size - 1 : After(Slot(r, i)) = Slot(r, i + 1)
<1>1. Size \in Nat \ {0} /\ r.read \in 0 .. Size - 1
  BY UartAssumption DEF Ring
<1>2. \A i \in 0 .. Size : Slot(r, i) = IF r.read + i < Size THEN r.read + i
                                        ELSE r.read + i - Size
  BY <1>1, ModSmall DEF Slot
<1>3. \A i \in 0 .. Size : Slot(r, i) \in 0 .. Size - 1
  BY <1>1, <1>2
<1>4. Slot(r, 0) = r.read /\ Slot(r, 1) = After(r.read)
  <2>1. 0 \in 0 .. Size /\ 1 \in 0 .. Size
    BY <1>1
  <2>2. /\ Slot(r, 0) = IF r.read + 0 < Size THEN r.read + 0 ELSE r.read + 0 - Size
        /\ Slot(r, 1) = IF r.read + 1 < Size THEN r.read + 1 ELSE r.read + 1 - Size
    BY <1>2, <2>1
  <2> QED
    BY <1>1, <2>2 DEF After
<1>5. \A i, j \in 0 .. Size - 1 : Slot(r, i) = Slot(r, j) => i = j
  BY <1>1, <1>2
<1>6. \A i \in 0 .. Size - 1 : After(Slot(r, i)) = Slot(r, i + 1)
  BY <1>1, <1>2 DEF After
<1> QED
  BY <1>2, <1>3, <1>4, <1>5, <1>6

(* Taking the oldest byte out: the others move up by one.                    *)
LEMMA PoppedRing ==
  ASSUME NEW r \in Ring, r.count > 0
  PROVE  LET p == Popped(r) IN
         /\ p \in Ring /\ p.count = r.count - 1 /\ p.write = r.write
         /\ InStep(r) => InStep(p)
         /\ \A i \in 0 .. p.count : Slot(p, i) = Slot(r, i + 1)
         /\ \A i \in 0 .. p.count - 1 : p.buf[Slot(p, i)] = r.buf[Slot(r, i + 1)]
         /\ InStep(r) /\ r.count < Size => p.buf[p.write] = r.buf[r.write]
<1> DEFINE p == Popped(r)
<1>1. /\ Size \in Nat \ {0} /\ r.read \in 0 .. Size - 1 /\ r.count \in 1 .. Size
      /\ r.write \in 0 .. Size - 1 /\ r.buf \in [0 .. Size - 1 -> Byte \cup {NoByte}]
  BY UartAssumption DEF Ring
<1>2. /\ p.count = r.count - 1 /\ p.write = r.write /\ p.read = After(r.read)
      /\ p.buf = [r.buf EXCEPT ![r.read] = NoByte]
  BY DEF Popped, Ring
<1>3. After(r.read) \in 0 .. Size - 1 /\ r.count - 1 \in 0 .. Size
  BY <1>1 DEF After
<1>4. p \in Ring
  BY <1>3 DEF Popped, Ring
<1> HIDE DEF p
<1>5. p.read = Slot(r, 1)
  BY <1>1, <1>2, Slots
<1>6. \A i \in 0 .. p.count : Slot(p, i) = Slot(r, i + 1)
  <2> TAKE i \in 0 .. p.count
  <2>1. i \in 0 .. Size - 1 /\ i \in 0 .. Size /\ i + 1 \in 0 .. Size
    BY <1>1, <1>2
  <2>2. Slot(p, i) = IF p.read + i < Size THEN p.read + i ELSE p.read + i - Size
    BY <1>4, <2>1, Slots
  <2>3. Slot(r, i + 1) = IF r.read + (i + 1) < Size THEN r.read + (i + 1)
                         ELSE r.read + (i + 1) - Size
    BY <2>1, Slots
  <2>4. CASE r.read + 1 >= Size
    <3>1. p.read = 0 /\ r.read + 1 = Size
      BY <1>1, <1>2, <2>4 DEF After
    <3> QED
      BY <1>1, <2>1, <2>2, <2>3, <3>1
  <2>5. CASE ~(r.read + 1 >= Size)
    <3>1. p.read = r.read + 1
      BY <1>1, <1>2, <2>5 DEF After
    <3> QED
      BY <1>1, <2>1, <2>2, <2>3, <3>1
  <2> QED
    BY <2>4, <2>5
<1>7. \A i \in 0 .. p.count - 1 : p.buf[Slot(p, i)] = r.buf[Slot(r, i + 1)]
  <2> TAKE i \in 0 .. p.count - 1
  <2>1. i + 1 \in 0 .. Size - 1 /\ i + 1 # 0 /\ 0 \in 0 .. Size - 1
    BY <1>1, <1>2
  <2>2. Slot(r, i + 1) # Slot(r, 0)
    BY <2>1, Slots
  <2>3. Slot(r, i + 1) # r.read /\ Slot(r, i + 1) \in 0 .. Size - 1
    BY <1>1, <2>1, <2>2, Slots
  <2>4. Slot(p, i) = Slot(r, i + 1)
    BY <1>1, <1>2, <1>6
  <2> QED
    BY <1>1, <1>2, <2>3, <2>4
<1>8. ASSUME InStep(r) PROVE InStep(p)
  <2>1. r.count - 1 \in 0 .. p.count /\ (r.count - 1) + 1 = r.count
    BY <1>1, <1>2
  <2>2. Slot(p, p.count) = Slot(r, r.count)
    BY <1>2, <1>6, <2>1
  <2> QED
    BY <1>2, <1>8, <2>2 DEF InStep, Slot
<1>9. ASSUME InStep(r), r.count < Size PROVE p.buf[p.write] = r.buf[r.write]
  <2>1. r.write = Slot(r, r.count)
    BY <1>9 DEF InStep, Slot
  <2>2. r.count \in 0 .. Size - 1 /\ 0 \in 0 .. Size - 1 /\ r.count # 0
    BY <1>1, <1>9
  <2>3. Slot(r, r.count) # Slot(r, 0) /\ Slot(r, 0) = r.read
    BY <2>2, Slots
  <2> QED
    BY <1>1, <1>2, <2>1, <2>3
<1> QED
  BY <1>2, <1>4, <1>6, <1>7, <1>8, <1>9 DEF p

(* Counting in a byte that was stored: it is the youngest.                   *)
LEMMA PushedRing ==
  ASSUME NEW r \in Ring, InStep(r), r.count < Size
  PROVE  LET p == Pushed(r) IN
         /\ p \in Ring /\ p.count = r.count + 1 /\ p.read = r.read /\ p.buf = r.buf
         /\ InStep(p) /\ r.write = Slot(r, r.count)
<1> DEFINE p == Pushed(r)
<1>1. /\ Size \in Nat \ {0} /\ r.count \in 0 .. Size - 1
      /\ r.write \in 0 .. Size - 1
  BY UartAssumption DEF Ring
<1>2. /\ p.count = r.count + 1 /\ p.write = After(r.write) /\ p.read = r.read /\ p.buf = r.buf
  BY DEF Pushed, Ring
<1>3. After(r.write) \in 0 .. Size - 1 /\ r.count + 1 \in 0 .. Size
  BY <1>1 DEF After
<1>4. p \in Ring
  BY <1>3 DEF Pushed, Ring
<1> HIDE DEF p
<1>5. r.write = Slot(r, r.count)
  BY DEF InStep, Slot
<1>6. p.write = Slot(r, r.count + 1)
  BY <1>1, <1>2, <1>5, Slots
<1>7. InStep(p)
  BY <1>2, <1>6 DEF InStep, Slot
<1> QED
  BY <1>2, <1>4, <1>5, <1>7 DEF p

-----------------------------------------------------------------------------
(* What is on its way to the line *)

LEMMA ContentsSeq ==
  ASSUME NEW r \in Ring, Live(r)
  PROVE  /\ Contents(r) \in Seq(Byte) /\ Len(Contents(r)) = r.count
         /\ \A i \in 1 .. r.count : Contents(r)[i] = r.buf[Slot(r, i - 1)]
<1>1. r.count \in Nat /\ r.read \in Nat
  BY UartAssumption DEF Ring
<1>2. \A i \in 1 .. r.count : r.buf[Slot(r, i - 1)] \in Byte
  BY <1>1 DEF Live, Slot
<1>3. \A i \in 1 .. r.count : r.read + (i - 1) = r.read + i - 1
  BY <1>1
<1>4. Contents(r) = [i \in 1 .. r.count |-> r.buf[Slot(r, i - 1)]]
  BY <1>3 DEF Contents, Slot
<1> QED
  BY <1>1, <1>2, <1>4

(* The oldest byte is the head of the contents ...                           *)
LEMMA ContentsPopped ==
  ASSUME NEW r \in Ring, Live(r), r.count > 0
  PROVE  /\ Live(Popped(r)) /\ Oldest(r) \in Byte
         /\ Contents(r) = <<Oldest(r)>> \o Contents(Popped(r))
<1> DEFINE p == Popped(r)
<1>1. /\ p \in Ring /\ p.count = r.count - 1
      /\ \A i \in 0 .. p.count - 1 : p.buf[Slot(p, i)] = r.buf[Slot(r, i + 1)]
  BY PoppedRing
<1>2. r.count \in Nat /\ Size \in Nat \ {0}
  BY UartAssumption DEF Ring
<1> HIDE DEF p
<1>3. Live(p)
  <2> SUFFICES ASSUME NEW i \in 0 .. p.count - 1 PROVE p.buf[Slot(p, i)] \in Byte
    BY DEF Live, Slot
  <2>1. i + 1 \in 0 .. r.count - 1
    BY <1>1, <1>2
  <2>2. r.buf[Slot(r, i + 1)] \in Byte
    BY <2>1 DEF Live, Slot
  <2> QED
    BY <1>1, <2>2
<1>4. Oldest(r) = r.buf[Slot(r, 0)] /\ Oldest(r) \in Byte
  <2>1. Slot(r, 0) = r.read /\ 0 \in 0 .. r.count - 1
    BY <1>2, Slots
  <2> QED
    BY <2>1 DEF Oldest, Live, Slot
<1>5. /\ Contents(r) \in Seq(Byte) /\ Len(Contents(r)) = r.count
      /\ \A i \in 1 .. r.count : Contents(r)[i] = r.buf[Slot(r, i - 1)]
  BY ContentsSeq
<1>6. /\ Contents(p) \in Seq(Byte) /\ Len(Contents(p)) = p.count
      /\ \A i \in 1 .. p.count : Contents(p)[i] = p.buf[Slot(p, i - 1)]
  BY <1>1, <1>3, ContentsSeq
<1> DEFINE c == <<Oldest(r)>> \o Contents(p)
<1>7. /\ <<Oldest(r)>> \in Seq(Byte) /\ Len(<<Oldest(r)>>) = 1 /\ <<Oldest(r)>>[1] = Oldest(r)
  BY <1>4
<1>8. /\ c \in Seq(Byte) /\ Len(c) = 1 + p.count
      /\ \A i \in 1 .. 1 + p.count :
           c[i] = IF i <= 1 THEN <<Oldest(r)>>[i] ELSE Contents(p)[i - 1]
  BY <1>6, <1>7, ConcatProperties
<1> HIDE DEF c
<1>9. \A i \in 1 .. r.count : Contents(r)[i] = c[i]
  <2> TAKE i \in 1 .. r.count
  <2>1. CASE i = 1
    BY <1>1, <1>2, <1>4, <1>5, <1>7, <1>8, <2>1
  <2>2. CASE i # 1
    <3>1. /\ i - 1 \in 1 .. p.count /\ (i - 1) - 1 \in 0 .. p.count - 1
          /\ ((i - 1) - 1) + 1 = i - 1 /\ i \in 1 .. 1 + p.count /\ ~(i <= 1)
      BY <1>1, <1>2, <2>2
    <3>2. c[i] = p.buf[Slot(p, (i - 1) - 1)]
      BY <1>6, <1>8, <3>1
    <3>3. p.buf[Slot(p, (i - 1) - 1)] = r.buf[Slot(r, i - 1)]
      BY <1>1, <3>1
    <3> QED
      BY <1>5, <3>2, <3>3
  <2> QED
    BY <2>1, <2>2
<1>10. Contents(r) = c
  BY <1>1, <1>2, <1>5, <1>8, <1>9, SeqEqual
<1> QED
  BY <1>3, <1>4, <1>10 DEF p, c

(* ... and the one counted in its last.                                      *)
LEMMA ContentsPushed ==
  ASSUME NEW r \in Ring, Live(r), InStep(r), r.count < Size, r.buf[r.write] \in Byte
  PROVE  /\ Live(Pushed(r))
         /\ Contents(Pushed(r)) = Append(Contents(r), r.buf[r.write])
<1> DEFINE p == Pushed(r)
           b == r.buf[r.write]
<1>1. /\ p \in Ring /\ p.count = r.count + 1 /\ p.read = r.read /\ p.buf = r.buf
      /\ r.write = Slot(r, r.count)
  BY PushedRing
<1>2. r.count \in Nat
  BY DEF Ring
<1> HIDE DEF p
<1>3. \A i : Slot(p, i) = Slot(r, i)
  BY <1>1 DEF Slot
<1>4. Live(p)
  <2> SUFFICES ASSUME NEW i \in 0 .. p.count - 1 PROVE p.buf[Slot(p, i)] \in Byte
    BY DEF Live, Slot
  <2>1. CASE i = r.count
    BY <1>1, <1>3, <2>1
  <2>2. CASE i # r.count
    <3>1. i \in 0 .. r.count - 1
      BY <1>1, <1>2, <2>2
    <3> QED
      BY <1>1, <1>3, <3>1 DEF Live, Slot
  <2> QED
    BY <2>1, <2>2
<1>5. /\ Contents(r) \in Seq(Byte) /\ Len(Contents(r)) = r.count
      /\ \A i \in 1 .. r.count : Contents(r)[i] = r.buf[Slot(r, i - 1)]
  BY ContentsSeq
<1>6. /\ Contents(p) \in Seq(Byte) /\ Len(Contents(p)) = p.count
      /\ \A i \in 1 .. p.count : Contents(p)[i] = p.buf[Slot(p, i - 1)]
  BY <1>1, <1>4, ContentsSeq
<1> DEFINE c == Append(Contents(r), b)
<1>7. /\ c \in Seq(Byte) /\ Len(c) = r.count + 1 /\ c[r.count + 1] = b
      /\ \A i \in 1 .. r.count : c[i] = Contents(r)[i]
  BY <1>5, AppendProperties
<1> HIDE DEF c, b
<1>8. \A i \in 1 .. p.count : Contents(p)[i] = c[i]
  <2> TAKE i \in 1 .. p.count
  <2>1. CASE i = r.count + 1
    BY <1>1, <1>2, <1>3, <1>6, <1>7, <2>1 DEF b
  <2>2. CASE i # r.count + 1
    <3>1. i \in 1 .. r.count
      BY <1>1, <1>2, <2>2
    <3> QED
      BY <1>1, <1>3, <1>5, <1>6, <1>7, <3>1
  <2> QED
    BY <2>1, <2>2
<1>9. Contents(p) = c
  BY <1>1, <1>6, <1>7, <1>8, SeqEqual
<1> QED
  BY <1>4, <1>9 DEF p, c, b

-----------------------------------------------------------------------------
(* The handler *)

\* a register as a sequence, and what is between comsendbuf and the line
Held(b) == IF b = NoByte THEN << >> ELSE <<b>>
Transit(u) == Held(u.shift) \o Held(u.tdr) \o Contents(u.tx)

\* what the transmit half of the handler makes of a port: nothing gets lost or
\* out of order, the sender's side is left alone, and TXEIE goes off only when
\* the ring is empty
PassedOn(u, w) ==
  /\ LineOK(w) /\ Transit(w) = Transit(u)
  /\ w.rx = u.rx /\ w.tx.write = u.tx.write
  /\ w.tx.count <= u.tx.count
  /\ u.tx.count < Size => w.tx.buf[w.tx.write] = u.tx.buf[u.tx.write]
  /\ w.txeie \/ w.tx.count = 0 \/ ~u.txeie

LEMMA HeldSeq ==
  ASSUME NEW b \in Byte \cup {NoByte}
  PROVE  Held(b) \in Seq(Byte) /\ (b = NoByte => Held(b) = << >>)
  BY DEF Held

LEMMA PortFacts ==
  ASSUME NEW u \in Port
  PROVE  /\ u.tx \in Ring /\ u.rx \in Ring /\ u.txeie \in BOOLEAN /\ u.tcie \in BOOLEAN
         /\ u.tdr \in Byte \cup {NoByte} /\ u.shift \in Byte \cup {NoByte}
         /\ u.tc \in BOOLEAN /\ u.rdr \in Byte \cup {NoByte}
         /\ u.tx.count \in 0 .. Size /\ u.rx.count \in 0 .. Size /\ Size \in Nat \ {0}
         /\ u.tx.write \in 0 .. Size - 1 /\ u.rx.write \in 0 .. Size - 1
  BY UartAssumption DEF Port, Ring

\* flags are of no interest to the line
LEMMA FlagsPassed ==
  ASSUME NEW u, LineOK(u), NEW w \in Port,
         w.tx = u.tx, w.rx = u.rx, w.tdr = u.tdr, w.shift = u.shift, w.tc = u.tc,
         w.txeie \/ w.tx.count = 0 \/ ~u.txeie
  PROVE  PassedOn(u, w)
<1>1. u \in Port
  BY DEF LineOK
<1> QED
  BY <1>1, PortFacts DEF PassedOn, LineOK, Transit

(* One byte goes from the ring to DR, which is empty, or straight on to the  *)
(* shift register.                                                           *)
LEMMA TransmittedPassed ==
  ASSUME NEW u, LineOK(u), u.tx.count > 0, u.tdr = NoByte
  PROVE  LET w == Transmitted(u) IN
         /\ PassedOn(u, w) /\ w.txeie = u.txeie /\ w.tcie = u.tcie
         /\ w.tx.count = u.tx.count - 1
         /\ u.shift = NoByte => w.tdr = NoByte
<1> DEFINE r == u.tx
           q == Popped(r)
           b == Oldest(r)
           w == Transmitted(u)
           c == Contents(q)
<1>1. /\ u \in Port /\ r \in Ring /\ InStep(r) /\ Live(r) /\ r.count > 0
      /\ r.count \in 0 .. Size
  BY PortFacts DEF LineOK
<1>2. /\ q \in Ring /\ q.count = r.count - 1 /\ q.write = r.write /\ InStep(q)
      /\ r.count < Size => q.buf[q.write] = r.buf[r.write]
  BY <1>1, PoppedRing
<1>3. Live(q) /\ b \in Byte /\ Contents(r) = <<b>> \o c
  BY <1>1, ContentsPopped
<1>4. c \in Seq(Byte)
  BY <1>2, <1>3, ContentsSeq
<1>5. b # NoByte /\ NoByte \notin Byte
  BY <1>3, UartAssumption
<1>6. w = IF u.shift = NoByte THEN [u EXCEPT !.tx = q, !.tc = FALSE, !.shift = b]
          ELSE [u EXCEPT !.tx = q, !.tc = FALSE, !.tdr = b]
  BY DEF Transmitted, Port
<1> HIDE DEF q, b, c, w
<1>7. /\ w \in Port /\ w.tx = q /\ w.rx = u.rx /\ w.txeie = u.txeie /\ w.tcie = u.tcie
      /\ w.tc = FALSE
      /\ w.shift = IF u.shift = NoByte THEN b ELSE u.shift
      /\ w.tdr = IF u.shift = NoByte THEN u.tdr ELSE b
  BY <1>1, <1>2, <1>3, <1>6 DEF Port
<1>8. LineOK(w)
  BY <1>2, <1>3, <1>5, <1>7 DEF LineOK
<1>9. <<b>> \in Seq(Byte) /\ Contents(w.tx) = c /\ Held(u.tdr) = << >>
  BY <1>3, <1>7 DEF c, Held
<1>10. Transit(w) = Transit(u)
  <2>1. CASE u.shift = NoByte
    <3>1. /\ Transit(u) = (<< >> \o << >>) \o (<<b>> \o c)
          /\ Transit(w) = (<<b>> \o << >>) \o c
      BY <1>3, <1>5, <1>7, <1>9, <2>1 DEF Transit, Held
    <3>2. /\ << >> \o << >> = << >> /\ <<b>> \o << >> = <<b>>
          /\ << >> \o (<<b>> \o c) = <<b>> \o c
      <4>1. << >> \in Seq(Byte) /\ <<b>> \o c \in Seq(Byte)
        BY <1>4, <1>9, ConcatProperties
      <4> QED
        BY <1>9, <4>1, ConcatEmptySeq
    <3> QED
      BY <3>1, <3>2
  <2>2. CASE u.shift # NoByte
    <3> DEFINE h == <<u.shift>>
    <3>1. h \in Seq(Byte)
      BY <1>1, <2>2, PortFacts
    <3>2. /\ Transit(u) = (h \o << >>) \o (<<b>> \o c)
          /\ Transit(w) = (h \o <<b>>) \o c
      BY <1>3, <1>5, <1>7, <1>9, <2>2 DEF Transit, Held
    <3> HIDE DEF h
    <3>3. h \o << >> = h /\ (h \o <<b>>) \o c = h \o (<<b>> \o c)
      BY <1>4, <1>9, <3>1, ConcatEmptySeq, ConcatAssociative
    <3> QED
      BY <3>2, <3>3
  <2> QED
    BY <2>1, <2>2
<1>11. PassedOn(u, w)
  BY <1>1, <1>2, <1>7, <1>8, <1>10, PortFacts DEF PassedOn
<1> QED
  BY <1>2, <1>7, <1>11 DEF w

\* one thing the handler does after another
LEMMA PassedTwice ==
  ASSUME NEW u \in Port, NEW v, NEW w, PassedOn(u, v), PassedOn(v, w)
  PROVE  PassedOn(u, w)
<1>1. v \in Port /\ w \in Port
  BY DEF PassedOn, LineOK
<1> QED
  BY <1>1, PortFacts DEF PassedOn

(* DR is empty: TXE.                                                         *)
LEMMA DataEmptyServed ==
  ASSUME NEW u, LineOK(u), u.tdr = NoByte
  PROVE  /\ PassedOn(u, DataEmpty(u))
         /\ u.shift = NoByte => DataEmpty(u).tdr = NoByte
<1>1. u \in Port /\ u.tx.count \in 0 .. Size
  BY PortFacts DEF LineOK
<1>2. CASE u.tx.count = 0
  <2> DEFINE w == [u EXCEPT !.txeie = FALSE, !.tcie = TRUE]
  <2>1. /\ w \in Port /\ w.tx = u.tx /\ w.rx = u.rx /\ w.tdr = u.tdr
        /\ w.shift = u.shift /\ w.tc = u.tc
    BY <1>1 DEF Port
  <2>2. DataEmpty(u) = w
    BY <1>2 DEF DataEmpty
  <2> HIDE DEF w
  <2> QED
    BY <1>2, <2>1, <2>2, FlagsPassed
<1>3. CASE u.tx.count # 0
  <2> DEFINE v == Transmitted(u)
             w == [v EXCEPT !.sending = TRUE]
  <2>1. PassedOn(u, v) /\ (u.shift = NoByte => v.tdr = NoByte)
    BY <1>1, <1>3, TransmittedPassed
  <2>2. DataEmpty(u) = w
    BY <1>3 DEF DataEmpty
  <2> HIDE DEF v
  <2>3. LineOK(v) /\ v \in Port
    BY <2>1 DEF PassedOn, LineOK
  <2>4. /\ w \in Port /\ w.tx = v.tx /\ w.rx = v.rx /\ w.tdr = v.tdr
        /\ w.shift = v.shift /\ w.tc = v.tc /\ w.txeie = v.txeie /\ w.txeie \in BOOLEAN
    BY <2>3, PortFacts DEF Port
  <2> HIDE DEF w
  <2>5. PassedOn(v, w)
    BY <2>3, <2>4, FlagsPassed
  <2> QED
    BY <1>1, <2>1, <2>2, <2>4, <2>5, PassedTwice
<1> QED
  BY <1>2, <1>3

(* The line is idle: TC.                                                     *)
LEMMA CompleteServed ==
  ASSUME NEW u, LineOK(u), u.tdr = NoByte
  PROVE  PassedOn(u, Complete(u))
<1>1. u \in Port /\ u.tx.count \in 0 .. Size
  BY PortFacts DEF LineOK
<1>2. CASE u.tx.count = 0
  <2> DEFINE w == [u EXCEPT !.tcie = FALSE, !.sending = FALSE]
  <2>1. /\ w \in Port /\ w.tx = u.tx /\ w.rx = u.rx /\ w.tdr = u.tdr
        /\ w.shift = u.shift /\ w.tc = u.tc
    BY <1>1 DEF Port
  <2>2. Complete(u) = w
    BY <1>2 DEF Complete
  <2> HIDE DEF w
  <2> QED
    BY <1>2, <2>1, <2>2, FlagsPassed
<1>3. CASE u.tx.count # 0
  BY <1>1, <1>3, TransmittedPassed DEF Complete
<1> QED
  BY <1>2, <1>3

(* A byte is received: the transmit side does not notice.                    *)
LEMMA ReceivedEffect ==
  ASSUME NEW u \in Port, u.rdr # NoByte
  PROVE  LET w == Received(u) IN
         /\ w \in Port /\ w.tx = u.tx /\ w.tdr = u.tdr /\ w.shift = u.shift
         /\ w.tc = u.tc /\ w.txeie = u.txeie /\ w.tcie = u.tcie
         /\ u.rx.count > 0 => w.rx.count > 0
         /\ u.rx.count < Size /\ InStep(u.rx) =>
              InStep(w.rx) /\ (u.rx.count > 0 => Oldest(w.rx) = Oldest(u.rx))
<1> DEFINE r == u.rx
           q == [r EXCEPT !.buf[r.write] = u.rdr, !.write = After(@),
                          !.count = IF @ < Size THEN @ + 1 ELSE @]
           w == Received(u)
<1>1. /\ r \in Ring /\ r.count \in 0 .. Size /\ Size \in Nat \ {0}
      /\ r.write \in 0 .. Size - 1 /\ r.read \in 0 .. Size - 1
      /\ u.rdr \in Byte /\ r.buf \in [0 .. Size - 1 -> Byte \cup {NoByte}]
  BY PortFacts DEF Ring
<1>2. w = [u EXCEPT !.rdr = NoByte, !.rx = q]
  BY DEF Received, Port
<1>3. /\ q.write = After(r.write) /\ q.read = r.read /\ q.buf = [r.buf EXCEPT ![r.write] = u.rdr]
      /\ q.count = IF r.count < Size THEN r.count + 1 ELSE r.count
  BY <1>1 DEF Ring
<1>8. After(r.write) \in 0 .. Size - 1 /\ q.count \in 0 .. Size
  BY <1>1, <1>3 DEF After
<1>4. q \in Ring
  BY <1>1, <1>3, <1>8 DEF Ring
<1> HIDE DEF w, q
<1>5. /\ w \in Port /\ w.tx = u.tx /\ w.tdr = u.tdr /\ w.shift = u.shift
      /\ w.tc = u.tc /\ w.txeie = u.txeie /\ w.tcie = u.tcie /\ w.rx = q
  BY <1>2, <1>4 DEF Port
<1>6. ASSUME r.count < Size, InStep(r)
      PROVE  InStep(q) /\ (r.count > 0 => Oldest(q) = Oldest(r))
  <2>1. r.write = Slot(r, r.count) /\ r.count \in 0 .. Size - 1 /\ 0 \in 0 .. Size - 1
    BY <1>1, <1>6 DEF InStep, Slot
  <2>2. After(r.write) = Slot(r, r.count + 1)
    BY <1>1, <2>1, Slots
  <2>3. InStep(q)
    BY <1>3, <1>6, <2>2 DEF InStep, Slot
  <2>4. ASSUME r.count > 0 PROVE r.write # r.read
    <3>1. r.count # 0
      BY <1>1, <2>4
    <3>2. Slot(r, r.count) # Slot(r, 0)
      BY <1>1, <2>1, <3>1, Slots
    <3>3. Slot(r, 0) = r.read
      BY <1>1, Slots
    <3> QED
      BY <2>1, <3>2, <3>3
  <2> QED
    BY <1>1, <1>3, <2>3, <2>4 DEF Oldest
<1>7. r.count > 0 => q.count > 0
  BY <1>1, <1>3
<1> QED
  BY <1>5, <1>6, <1>7 DEF w

-----------------------------------------------------------------------------
(* The inductive invariant *)

LEMMA InitInv == UartInit => UInv
<1> SUFFICES ASSUME UartInit PROVE UInv
  OBVIOUS
<1> DEFINE r == EmptyRing
<1>1. Size \in Nat \ {0}
  BY UartAssumption
<1>2. /\ r \in Ring /\ r.count = 0 /\ r.write = 0 /\ r.read = 0
  BY <1>1 DEF EmptyRing, Ring
<1>3. InStep(r)
  BY <1>1, <1>2, ModSmall DEF InStep
<1> HIDE DEF r
<1>4. Live(r)
  BY <1>2 DEF Live
<1>5. /\ port.tx = r /\ port.rx = r /\ port.tdr = NoByte /\ port.shift = NoByte
      /\ port \in Port
  BY <1>2 DEF UartInit, Port, r
<1>6. LineOK(port)
  BY <1>3, <1>4, <1>5 DEF LineOK
<1>7. SenderOK
  BY DEF UartInit, NoCall, SenderOK, Places
<1>8. ReaderOK
  <2>1. overrun \in BOOLEAN /\ reader = NoByte
    BY DEF UartInit
  <2> QED
    BY <1>2, <1>3, <1>5, <2>1 DEF ReaderOK
<1>9. NothingWaits
  BY <1>2, <1>5 DEF NothingWaits
<1> QED
  BY <1>6, <1>7, <1>8, <1>9 DEF UInv

\* what a step of the sender leaves of the receive side
LEMMA SenderAlone ==
  ASSUME ReaderOK, port'.rx = port.rx, UNCHANGED <<reader, overrun>>
  PROVE  ReaderOK'
  BY DEF ReaderOK

\* flags and a slot nobody looks at do not disturb the line
LEMMA SameLine ==
  ASSUME NEW u, LineOK(u), NEW w \in Port,
         w.tx = u.tx, w.tdr = u.tdr, w.shift = u.shift, w.tc = u.tc
  PROVE  LineOK(w)
  BY DEF LineOK

(* The byte is stored in a slot that holds none of the bytes to be sent.     *)
LEMMA StoreKeeps ==
  ASSUME UInv, SendStore
  PROVE  UInv' /\ Contents(port.tx)' = Contents(port.tx)
<1> DEFINE r == port.tx
           b == Head(sender.left)
           q == [r EXCEPT !.buf[r.write] = b]
<1>1. /\ port \in Port /\ r \in Ring /\ InStep(r) /\ Live(r) /\ r.count \in 0 .. Size - 1
      /\ Size \in Nat \ {0} /\ r.write \in 0 .. Size - 1
  BY PortFacts DEF UInv, LineOK, SendStore
<1>2. b \in Byte /\ sender.left \in Seq(Byte)
  BY DEF UInv, SenderOK, SendStore
<1>3. port' = [port EXCEPT !.tx = q]
  BY <1>1 DEF SendStore, Port, Ring
<1>4. /\ q \in Ring /\ q.count = r.count /\ q.read = r.read /\ q.write = r.write
      /\ q.buf = [r.buf EXCEPT ![r.write] = b] /\ r.buf \in [0 .. Size - 1 -> Byte \cup {NoByte}]
  BY <1>1, <1>2 DEF Ring
<1> HIDE DEF q
<1>5. /\ port' \in Port /\ port'.tx = q /\ port'.rx = port.rx /\ port'.tdr = port.tdr
      /\ port'.shift = port.shift /\ port'.tc = port.tc /\ port'.txeie = port.txeie
  BY <1>1, <1>3, <1>4 DEF Port
<1>6. \A i \in 0 .. r.count - 1 : /\ Slot(q, i) = Slot(r, i)
                                  /\ q.buf[Slot(r, i)] = r.buf[Slot(r, i)]
  <2> TAKE i \in 0 .. r.count - 1
  <2>1. i \in 0 .. Size - 1 /\ i \in 0 .. Size /\ r.count \in 0 .. Size - 1 /\ i # r.count
    BY <1>1
  <2>2. Slot(r, i) # Slot(r, r.count) /\ Slot(r, i) \in 0 .. Size - 1
    BY <1>1, <2>1, Slots
  <2>3. r.write = Slot(r, r.count)
    BY <1>1 DEF InStep, Slot
  <2> QED
    BY <1>4, <2>2, <2>3 DEF Slot
<1>7. InStep(q) /\ Live(q)
  <2>1. InStep(q)
    BY <1>1, <1>4 DEF InStep
  <2>2. \A i \in 0 .. q.count - 1 : q.buf[Slot(q, i)] \in Byte
    BY <1>1, <1>4, <1>6 DEF Live, Slot
  <2> QED
    BY <2>1, <2>2 DEF Live, Slot
<1>8. LineOK(port')
  BY <1>5, <1>7 DEF UInv, LineOK
<1>9. SenderOK'
  <2>1. q.buf[q.write] = b
    BY <1>1, <1>4
  <2>2. sender' = [sender EXCEPT !.at = "advance"] /\ sender.left # << >>
    BY DEF SendStore, UInv, SenderOK
  <2> QED
    BY <1>1, <1>4, <1>5, <2>1, <2>2 DEF UInv, SenderOK, Places
<1>10. ReaderOK'
  BY <1>5, SenderAlone DEF UInv, SendStore
<1>11. NothingWaits'
  BY DEF SendStore, NothingWaits, UInv, SenderOK
<1>12. Contents(q) = Contents(r)
  <2>1. /\ Contents(q) \in Seq(Byte) /\ Len(Contents(q)) = q.count
        /\ \A i \in 1 .. q.count : Contents(q)[i] = q.buf[Slot(q, i - 1)]
    BY <1>4, <1>7, ContentsSeq
  <2>2. /\ Contents(r) \in Seq(Byte) /\ Len(Contents(r)) = r.count
        /\ \A i \in 1 .. r.count : Contents(r)[i] = r.buf[Slot(r, i - 1)]
    BY <1>1, ContentsSeq
  <2>3. \A i \in 1 .. r.count : i - 1 \in 0 .. r.count - 1
    BY <1>1
  <2>4. ASSUME NEW i \in 1 .. r.count PROVE Contents(q)[i] = Contents(r)[i]
    <3>1. Slot(q, i - 1) = Slot(r, i - 1) /\ q.buf[Slot(r, i - 1)] = r.buf[Slot(r, i - 1)]
      BY <1>6, <2>3
    <3>2. Contents(q)[i] = q.buf[Slot(q, i - 1)]  BY <1>4, <2>1
    <3>3. Contents(r)[i] = r.buf[Slot(r, i - 1)]  BY <2>2
    <3> QED BY <3>1, <3>2, <3>3
  <2> DEFINE c == Contents(q)
             d == Contents(r)
             n == r.count
  <2>5. /\ c \in Seq(Byte) /\ d \in Seq(Byte) /\ Len(c) = n /\ Len(d) = n
        /\ \A i \in 1 .. n : c[i] = d[i]
    BY <1>4, <2>1, <2>2, <2>4
  <2> HIDE DEF c, d, n
  <2>6. c = d  BY <2>5, SeqEqual
  <2> QED BY <2>6 DEF c, d
<1> QED
  BY <1>5, <1>8, <1>9, <1>10, <1>11, <1>12 DEF UInv

(* The byte stored becomes the youngest one in transit.                      *)
LEMMA AdvanceAppends ==
  ASSUME UInv, SendAdvance
  PROVE  /\ UInv' /\ Head(sender.left) \in Byte
         /\ Contents(port.tx)' = Append(Contents(port.tx), Head(sender.left))
         /\ UNCHANGED <<port.shift, port.tdr>>
<1> DEFINE r == port.tx
           q == Pushed(r)
<1>1. /\ port \in Port /\ r \in Ring /\ InStep(r) /\ Live(r) /\ r.count < Size
      /\ r.buf[r.write] = Head(sender.left)
      /\ sender.left \in Seq(Byte) /\ sender.left # << >>
  BY PortFacts DEF UInv, LineOK, SenderOK, SendAdvance
<1>2. Head(sender.left) \in Byte /\ Tail(sender.left) \in Seq(Byte)
  BY <1>1
<1>3. q \in Ring /\ InStep(q)
  BY <1>1, PushedRing
<1>4. Live(q) /\ Contents(q) = Append(Contents(r), Head(sender.left))
  BY <1>1, <1>2, ContentsPushed
<1> HIDE DEF q
<1>5. /\ port' \in Port /\ port'.tx = q /\ port'.rx = port.rx /\ port'.tdr = port.tdr
      /\ port'.shift = port.shift /\ port'.tc = port.tc
  BY <1>1, <1>3 DEF SendAdvance, Port, q
<1>6. LineOK(port')
  BY <1>3, <1>4, <1>5 DEF UInv, LineOK
<1>7. /\ sender' = [sender EXCEPT !.left = Tail(sender.left),
                    !.at = IF Tail(sender.left) = << >> THEN "enable" ELSE "test"]
      /\ sender \in [at : Places, left : Seq(Byte), tcie : BOOLEAN]
  BY DEF SendAdvance, UInv, SenderOK
<1>8. SenderOK' /\ NothingWaits'
  BY <1>2, <1>7 DEF SenderOK, NothingWaits, Places
<1>9. ReaderOK'
  BY <1>5, SenderAlone DEF UInv, SendAdvance
<1> QED
  BY <1>2, <1>4, <1>5, <1>6, <1>8, <1>9 DEF UInv

(* The other steps of the sender change flags only.                          *)
LEMMA SenderKeeps ==
  ASSUME UInv, \/ \E b \in Buffer : SendBegin(b)
               \/ SendFull \/ SendCheck \/ SendReadCR1 \/ SendWriteCR1
  PROVE  UInv' /\ port'.tx = port.tx /\ UNCHANGED <<port.shift, port.tdr>>
<1>1. /\ port \in Port /\ port.tcie \in BOOLEAN
      /\ sender \in [at : Places, left : Seq(Byte), tcie : BOOLEAN]
  BY PortFacts DEF UInv, LineOK, SenderOK
<1>2. ASSUME UNCHANGED <<port, reader, overrun>>, SenderOK', sender'.at # "idle"
      PROVE  UInv' /\ port'.tx = port.tx /\ UNCHANGED <<port.shift, port.tdr>>
  BY <1>2 DEF UInv, ReaderOK, NothingWaits
<1>3. ASSUME NEW b \in Buffer, SendBegin(b)
      PROVE  UInv' /\ port'.tx = port.tx /\ UNCHANGED <<port.shift, port.tdr>>
  <2>1. b \in Seq(Byte) /\ b # << >>
    BY UartAssumption
  <2>2. SenderOK' /\ sender'.at # "idle"
    BY <1>1, <1>3, <2>1 DEF SendBegin, SenderOK, Places
  <2> QED
    BY <1>2, <1>3, <2>2 DEF SendBegin
<1>4. CASE SendFull \/ SendCheck \/ SendReadCR1
  <2>1. SenderOK' /\ sender'.at # "idle"
    BY <1>1, <1>4 DEF SendFull, SendCheck, SendReadCR1, UInv, SenderOK, Places
  <2> QED
    BY <1>2, <1>4, <2>1 DEF SendFull, SendCheck, SendReadCR1
<1>5. CASE SendWriteCR1
  <2>1. /\ port' \in Port /\ port'.tx = port.tx /\ port'.rx = port.rx
        /\ port'.tdr = port.tdr /\ port'.shift = port.shift /\ port'.tc = port.tc
        /\ port'.txeie = TRUE
    BY <1>1, <1>5 DEF SendWriteCR1, Port
  <2>2. LineOK(port') /\ ReaderOK'
    BY <1>5, <2>1, SameLine, SenderAlone DEF SendWriteCR1, UInv
  <2>3. SenderOK'
    BY <1>1, <1>5 DEF SendWriteCR1, NoCall, SenderOK, Places
  <2>4. NothingWaits'
    BY <2>1 DEF NothingWaits
  <2> QED
    BY <2>1, <2>2, <2>3, <2>4 DEF UInv
<1> QED
  BY <1>3, <1>4, <1>5

(* The reader: the byte it has read is still there when it moves the index.  *)
LEMMA ReaderKeeps ==
  ASSUME UInv, GetChar \/ GetAdvance
  PROVE  UInv' /\ port'.tx = port.tx /\ UNCHANGED <<port.shift, port.tdr>>
<1>1. port \in Port /\ port.rx \in Ring
  BY PortFacts DEF UInv, LineOK
<1>2. CASE GetChar
  <2>1. Oldest(port.rx) \in Byte \cup {NoByte}
    BY <1>1 DEF Oldest, Ring
  <2> QED
    BY <1>2, <2>1 DEF GetChar, UInv, LineOK, SenderOK, ReaderOK, NothingWaits
<1>3. CASE GetAdvance
  <2> DEFINE q == Popped(port.rx)
  <2>1. port.rx.count > 0
    BY <1>3 DEF GetAdvance, UInv, ReaderOK
  <2>2. q \in Ring /\ (InStep(port.rx) => InStep(q))
    BY <1>1, <2>1, PoppedRing
  <2> HIDE DEF q
  <2>3. /\ port' \in Port /\ port'.tx = port.tx /\ port'.rx = q /\ port'.tdr = port.tdr
        /\ port'.shift = port.shift /\ port'.tc = port.tc /\ port'.txeie = port.txeie
    BY <1>1, <1>3, <2>2 DEF GetAdvance, Port, q
  <2>4. LineOK(port') /\ SenderOK' /\ NothingWaits'
    BY <1>3, <2>3, SameLine DEF GetAdvance, UInv, SenderOK, NothingWaits
  <2>5. ReaderOK'
    BY <1>3, <2>2, <2>3 DEF GetAdvance, UInv, ReaderOK
  <2> QED
    BY <2>3, <2>4, <2>5 DEF UInv
<1> QED
  BY <1>2, <1>3

(* The handler: what it takes out of the transmit ring goes to the line in   *)
(* order, although it may write to DR twice, once for TXE and once for TC.   *)
LEMMA HandlerKeeps ==
  ASSUME UInv, UartIRQ
  PROVE  UInv' /\ Transit(port)' = Transit(port)
<1> DEFINE rxne == port.rdr # NoByte
           txe == port.tdr = NoByte /\ port.txeie
           tc == port.tc /\ port.tcie
           u == IF rxne THEN Received(port) ELSE port
           v == IF txe THEN DataEmpty(u) ELSE u
           w == IF tc THEN Complete(v) ELSE v
<1>1. /\ port \in Port /\ LineOK(port) /\ port.rx \in Ring /\ port.rx.count \in 0 .. Size
      /\ Size \in Nat /\ port.tx.count \in 0 .. Size
  BY PortFacts DEF UInv, LineOK
<1>2. /\ u \in Port /\ u.tx = port.tx /\ u.tdr = port.tdr /\ u.shift = port.shift
      /\ u.tc = port.tc /\ u.txeie = port.txeie
      /\ port.rx.count > 0 => u.rx.count > 0
      /\ (rxne => port.rx.count < Size) /\ InStep(port.rx) =>
           InStep(u.rx) /\ (port.rx.count > 0 => Oldest(u.rx) = Oldest(port.rx))
  BY <1>1, ReceivedEffect
<1> HIDE DEF u
<1>3. LineOK(u) /\ Transit(u) = Transit(port)
  BY <1>1, <1>2, SameLine DEF Transit
<1>4. PassedOn(u, u)
  BY <1>2, <1>3, PortFacts DEF PassedOn
<1>5. PassedOn(u, v) /\ (tc => v.tdr = NoByte)
  <2>1. tc => u.shift = NoByte /\ u.tdr = NoByte
    BY <1>2, <1>3 DEF LineOK
  <2>2. CASE txe
    BY <1>2, <1>3, <2>1, <2>2, DataEmptyServed
  <2>3. CASE ~txe
    BY <1>4, <2>1, <2>3
  <2> QED
    BY <2>2, <2>3
<1> HIDE DEF v
<1>6. LineOK(v)
  BY <1>5 DEF PassedOn
<1>7. PassedOn(u, w)
  <2>1. CASE tc
    BY <1>2, <1>5, <1>6, <2>1, CompleteServed, PassedTwice
  <2>2. CASE ~tc
    BY <1>5, <2>2
  <2> QED
    BY <2>1, <2>2
<1> HIDE DEF w
<1>8. port' = w
  BY DEF UartIRQ, u, v, w
<1>9. /\ overrun' = (overrun \/ (rxne /\ port.rx.count = Size))
      /\ UNCHANGED <<sender, reader>>
  BY DEF UartIRQ
<1>10. LineOK(port') /\ Transit(port)' = Transit(port)
  BY <1>3, <1>7, <1>8 DEF PassedOn, Transit
<1>11. SenderOK'
  <2>1. port'.tx.count \in 0 .. Size
    BY <1>10, PortFacts DEF LineOK
  <2> QED
    BY <1>1, <1>2, <1>7, <1>8, <1>9, <2>1 DEF PassedOn, UInv, SenderOK
<1>12. ReaderOK'
  <2>1. reader' \in Byte \cup {NoByte} /\ overrun' \in BOOLEAN
    BY <1>9 DEF UInv, ReaderOK
  <2>2. reader' # NoByte => port'.rx.count > 0
    BY <1>2, <1>7, <1>8, <1>9 DEF PassedOn, UInv, ReaderOK
  <2>3. ASSUME ~overrun'
        PROVE  InStep(port'.rx) /\ (reader' # NoByte => reader' = Oldest(port'.rx))
    <3>1. ~overrun /\ (rxne => port.rx.count # Size)
      BY <1>9, <2>3
    <3>2. InStep(port.rx) /\ (rxne => port.rx.count < Size)
      BY <1>1, <3>1 DEF UInv, ReaderOK
    <3>3. InStep(u.rx) /\ (port.rx.count > 0 => Oldest(u.rx) = Oldest(port.rx))
      BY <1>2, <3>2
    <3>4. port'.rx = u.rx
      BY <1>7, <1>8 DEF PassedOn
    <3> QED
      BY <1>9, <3>1, <3>3, <3>4 DEF UInv, ReaderOK
  <2> QED
    BY <2>1, <2>2, <2>3 DEF ReaderOK
<1>13. NothingWaits'
  <2>1. port'.tx.count \in 0 .. Size
    BY <1>10, PortFacts DEF LineOK
  <2> QED
    BY <1>1, <1>2, <1>7, <1>8, <1>9, <2>1 DEF PassedOn, UInv, NothingWaits
<1> QED
  BY <1>10, <1>11, <1>12, <1>13 DEF UInv

(* The line: what leaves is the head of what is in transit.                  *)
LEMMA ShiftKeeps ==
  ASSUME UInv, ShiftedOut
  PROVE  UInv' /\ Transit(port) # << >> /\ Transit(port)' = Tail(Transit(port))
<1> DEFINE c == Contents(port.tx)
           b == port.shift
           d == Held(port.tdr)
<1>1. /\ port \in Port /\ port.tx \in Ring /\ port.tdr \in Byte \cup {NoByte}
      /\ b \in Byte /\ b # NoByte
  BY PortFacts DEF UInv, LineOK, ShiftedOut
<1>2. /\ port' \in Port /\ port'.tx = port.tx /\ port'.rx = port.rx /\ port'.tdr = NoByte
      /\ port'.shift = port.tdr /\ port'.txeie = port.txeie
      /\ port'.tc = (port.tc \/ port.tdr = NoByte)
  BY <1>1 DEF ShiftedOut, Port
<1>3. LineOK(port')
  BY <1>1, <1>2 DEF UInv, LineOK
<1>4. SenderOK' /\ ReaderOK' /\ NothingWaits'
  BY <1>2 DEF ShiftedOut, UInv, SenderOK, ReaderOK, NothingWaits
<1>5. c \in Seq(Byte) /\ d \in Seq(Byte) /\ <<b>> \in Seq(Byte) /\ << >> \in Seq(Byte)
  BY <1>1, ContentsSeq, HeldSeq DEF UInv, LineOK
<1>6. Transit(port) = (<<b>> \o d) \o c
  BY <1>1 DEF Transit, Held
<1>7. Transit(port)' = (d \o << >>) \o c
  BY <1>2 DEF Transit, Held
<1> HIDE DEF b, c, d
<1>8. (<<b>> \o d) \o c = <<b>> \o (d \o c) /\ d \o << >> = d
  BY <1>5, ConcatAssociative, ConcatEmptySeq
<1>9. d \o c \in Seq(Byte)
  BY <1>5, ConcatProperties
<1>10. <<b>> \o (d \o c) # << >> /\ Tail(<<b>> \o (d \o c)) = d \o c
  BY <1>5, <1>9
<1> QED
  BY <1>3, <1>4, <1>6, <1>7, <1>8, <1>10 DEF UInv

LEMMA ArrivalKeeps ==
  ASSUME UInv, NEW b \in Byte, Arrives(b)
  PROVE  UInv' /\ port'.tx = port.tx /\ UNCHANGED <<port.shift, port.tdr>>
<1>1. port \in Port
  BY DEF UInv, LineOK
<1>2. /\ port' \in Port /\ port'.tx = port.tx /\ port'.rx = port.rx
      /\ port'.tdr = port.tdr /\ port'.shift = port.shift /\ port'.tc = port.tc
      /\ port'.txeie = port.txeie
  BY <1>1 DEF Arrives, Port
<1>3. LineOK(port') /\ SenderOK' /\ ReaderOK' /\ NothingWaits'
  BY <1>2, SameLine DEF Arrives, UInv, SenderOK, ReaderOK, NothingWaits
<1> QED
  BY <1>2, <1>3 DEF UInv

(* Every step keeps the invariant.                                           *)
LEMMA StepInv == UInv /\ [UartNext]_uartVars => UInv'
<1> SUFFICES ASSUME UInv, [UartNext]_uartVars PROVE UInv'
  OBVIOUS
<1>1. CASE UNCHANGED uartVars
  BY <1>1 DEF uartVars, UInv, LineOK, SenderOK, ReaderOK, NothingWaits
<1>2. CASE UartNext
  BY <1>2, StoreKeeps, AdvanceAppends, SenderKeeps, ReaderKeeps, HandlerKeeps,
     ShiftKeeps, ArrivalKeeps
     DEF UartNext, SendStep
<1> QED
  BY <1>1, <1>2

LEMMA UartInvariance == UartSpec => []UInv
  BY InitInv, StepInv, PTL DEF UartSpec

(* The indices and the count of both rings agree at every moment, and the    *)
(* byte a reader holds is the oldest one when it moves the index.            *)
THEOREM RingsAgree == UartSpec => []RingsInStep
<1>1. UInv => RingsInStep
  BY DEF UInv, LineOK, ReaderOK, RingsInStep
<1> QED
  BY <1>1, UartInvariance, PTL

(* No byte is left in the ring with the interrupt off that would send it.    *)
THEOREM SomebodySends == UartSpec => []NothingWaits
<1>1. UInv => NothingWaits
  BY DEF UInv
<1> QED
  BY <1>1, UartInvariance, PTL

-----------------------------------------------------------------------------
(* The port is a channel: SendAdvance posts, ShiftedOut collects, and every  *)
(* other step, the handler's among them, changes nothing that the channel    *)
(* can see.                                                                  *)

LEMMA TransitSeq ==
  ASSUME UInv
  PROVE  /\ InTransit = Transit(port) /\ InTransit \in Seq(Byte)
         /\ Contents(port.tx) \in Seq(Byte)
         /\ Held(port.shift) \o Held(port.tdr) \in Seq(Byte)
         /\ Len(InTransit) <= 2 + port.tx.count
<1>1. /\ port.tx \in Ring /\ Live(port.tx) /\ port.tx.count \in Nat
      /\ port.shift \in Byte \cup {NoByte} /\ port.tdr \in Byte \cup {NoByte}
  BY PortFacts DEF UInv, LineOK
<1> DEFINE c == Contents(port.tx)
           a == Held(port.shift)
           d == Held(port.tdr)
<1>2. /\ a \in Seq(Byte) /\ d \in Seq(Byte) /\ Len(a) <= 1 /\ Len(d) <= 1
      /\ c \in Seq(Byte) /\ Len(c) = port.tx.count
  BY <1>1, HeldSeq, ContentsSeq DEF Held
<1>3. InTransit = (a \o d) \o c /\ Transit(port) = (a \o d) \o c
  BY DEF InTransit, Transit, Held
<1> HIDE DEF a, d, c
<1>4. a \o d \in Seq(Byte) /\ Len(a \o d) = Len(a) + Len(d)
  BY <1>2, ConcatProperties
<1>5. (a \o d) \o c \in Seq(Byte) /\ Len((a \o d) \o c) = Len(a \o d) + Len(c)
  BY <1>2, <1>4, ConcatProperties
<1>6. Len((a \o d) \o c) <= 2 + port.tx.count
  BY <1>1, <1>2, <1>4, <1>5
<1> QED
  BY <1>2, <1>3, <1>4, <1>5, <1>6 DEF a, d, c

\* the registers are as they were and so are the contents of the ring
LEMMA SameTransit ==
  ASSUME Contents(port.tx)' = Contents(port.tx), UNCHANGED <<port.shift, port.tdr>>
  PROVE  InTransit' = InTransit
  BY DEF InTransit

LEMMA PostStep ==
  ASSUME UInv, SendAdvance
  PROVE  /\ Head(sender.left) \in Byte /\ Len(InTransit) < Size + 2
         /\ InTransit' = Append(InTransit, Head(sender.left))
<1> DEFINE b == Head(sender.left)
           c == Contents(port.tx)
           a == Held(port.shift) \o Held(port.tdr)
<1>1. b \in Byte /\ c' = Append(c, b) /\ UNCHANGED <<port.shift, port.tdr>>
  BY AdvanceAppends
<1>2. a \in Seq(Byte) /\ c \in Seq(Byte) /\ InTransit = a \o c
  BY TransitSeq DEF Transit
<1>3. InTransit' = a \o Append(c, b)
  BY <1>1 DEF InTransit, Held
<1> HIDE DEF a, b, c
<1>4. a \o Append(c, b) = Append(a \o c, b)
  <2>1. /\ <<b>> \in Seq(Byte) /\ Append(c, b) = c \o <<b>>
        /\ a \o c \in Seq(Byte) /\ Append(a \o c, b) = (a \o c) \o <<b>>
    BY <1>1, <1>2, ConcatProperties, AppendIsConcat
  <2> QED
    BY <1>2, <2>1, ConcatAssociative
<1>5. Len(InTransit) < Size + 2
  <2>1. /\ port.tx.count < Size /\ port.tx.count \in Nat /\ Size \in Nat
        /\ Len(InTransit) <= 2 + port.tx.count /\ Len(InTransit) \in Nat
    BY PortFacts, TransitSeq DEF UInv, LineOK, SenderOK, SendAdvance
  <2> QED
    BY <2>1
<1> QED
  BY <1>1, <1>2, <1>3, <1>4, <1>5 DEF b

LEMMA QuietStep ==
  ASSUME UInv, [UartNext]_uartVars, ~SendAdvance, ~ShiftedOut
  PROVE  InTransit' = InTransit
<1>1. CASE UNCHANGED uartVars
  BY <1>1 DEF uartVars, InTransit
<1>2. CASE SendStore
  BY <1>2, StoreKeeps, SameTransit DEF SendStore, LineOK
<1>3. CASE UartIRQ
  BY <1>3, HandlerKeeps, TransitSeq DEF InTransit, Transit, Held
<1>4. CASE UartNext /\ ~SendStore /\ ~UartIRQ
  <2>1. port'.tx = port.tx /\ UNCHANGED <<port.shift, port.tdr>>
    BY <1>4, SenderKeeps, ReaderKeeps, ArrivalKeeps DEF UartNext, SendStep
  <2> QED
    BY <2>1, SameTransit DEF Contents
<1> QED
  BY <1>1, <1>2, <1>3, <1>4

(* The refinement: bytes leave in the order they were sent in, each once.    *)
THEOREM PortIsChannel == UartSpec => TransmitsInOrder
<1>1. UartInit => TxChannel!ChannelInit
  <2> SUFFICES ASSUME UartInit PROVE InTransit = << >>
    BY DEF TxChannel!ChannelInit
  <2>1. UInv /\ port.shift = NoByte /\ port.tdr = NoByte /\ port.tx.count = 0
    BY InitInv DEF UartInit, EmptyRing
  <2> QED
    BY <2>1, TransitSeq DEF InTransit, Contents
<1>2. UInv /\ UInv' /\ [UartNext]_uartVars =>
        [TxChannel!ChannelNext]_(TxChannel!channelVars)
  <2> SUFFICES ASSUME UInv, UInv', [UartNext]_uartVars
               PROVE  [TxChannel!ChannelNext]_(TxChannel!channelVars)
    OBVIOUS
  <2>1. CASE SendAdvance
    <3>1. TxChannel!Post(Head(sender.left)) /\ Head(sender.left) \in Byte
      BY <2>1, PostStep DEF TxChannel!Post
    <3> QED
      BY <3>1 DEF TxChannel!ChannelNext
  <2>2. CASE ShiftedOut
    <3>1. InTransit # << >> /\ InTransit' = Tail(InTransit)
      BY <2>2, ShiftKeeps, TransitSeq DEF InTransit, Transit, Held
    <3>2. TxChannel!Collect("line")
      BY <3>1 DEF TxChannel!Collect
    <3> QED
      BY <3>2 DEF TxChannel!ChannelNext
  <2>3. CASE ~SendAdvance /\ ~ShiftedOut
    BY <2>3, QuietStep DEF TxChannel!channelVars
  <2> QED
    BY <2>1, <2>2, <2>3
<1> QED
  BY <1>1, <1>2, UartInvariance, PTL DEF UartSpec, TransmitsInOrder, TxChannel!ChannelSpec


-----------------------------------------------------------------------------
(* Shell implements LineEditor for every size of the buffer and of the     *)
(* history, every set of characters and every set of names of commands.    *)
(* ShellInv says what the loops of finsh_thread_entry keep and the         *)
(* refinement needs: the cursor is inside the line, every character before *)
(* line_position was typed and, unless the line filled the buffer and was  *)
(* discarded, every one from there on is a zero; the lines of the history  *)
(* are terminated in this way too, which makes the comparison of buffers   *)
(* in shell_push_history one of lines.                                     *)

\* the contents of a buffer of finsh_cmd_size characters
LineBuffer == [Line -> Printable \cup {NUL}]

\* buffer l holds a text of n characters and nothing behind it
Clean(l, n) ==
  /\ n \in Line
  /\ \A i \in Line : (i < n => l[i] \in Printable) /\ (i >= n => l[i] = NUL)

(* strlen goes to the first zero.                                           *)
LEMMA StrLenIs ==
  ASSUME NEW l \in LineBuffer, Terminated(l)
  PROVE  /\ StrLen(l) \in Line /\ l[StrLen(l)] = NUL
         /\ \A i \in Line : i < StrLen(l) => l[i] \in Printable
PROOF
<1> DEFINE S == {i \in Line : l[i] = NUL}
<1>1. S \in SUBSET Nat /\ S # {}  BY DEF Terminated, Line
<1>2. PICK n \in S : \A i \in S : n <= i  BY <1>1, LeastExists
<1>3. n \in Line /\ l[n] = NUL /\ \A i \in Line : i < n => l[i] # NUL
  BY <1>2, ShellAssumption DEF Line
<1>4. StrLen(l) \in Line /\ l[StrLen(l)] = NUL /\ \A i \in Line : i < StrLen(l) => l[i] # NUL
  BY <1>3 DEF StrLen
<1> QED BY <1>4 DEF LineBuffer

(* The text of a buffer.                                                    *)
LEMMA CStringIs ==
  ASSUME NEW l \in LineBuffer, Terminated(l)
  PROVE  /\ CString(l) \in Seq(Printable) /\ Len(CString(l)) = StrLen(l)
         /\ \A i \in 1 .. StrLen(l) : CString(l)[i] = l[i - 1]
PROOF
<1>1. StrLen(l) \in Nat /\ StrLen(l) < CmdSize
  BY StrLenIs, ShellAssumption DEF Line
<1>2. \A i \in 1 .. StrLen(l) : i - 1 \in Line /\ i - 1 < StrLen(l)  BY <1>1, ShellAssumption DEF Line
<1>3. \A i \in 1 .. StrLen(l) : l[i - 1] \in Printable  BY <1>2, StrLenIs
<1> QED BY <1>1, <1>3 DEF CString

(* A clean buffer holds what it is said to hold.                            *)
LEMMA CleanIs ==
  ASSUME NEW l \in LineBuffer, NEW n, Clean(l, n)
  PROVE  /\ Terminated(l) /\ StrLen(l) = n /\ n \in Nat /\ n < CmdSize
         /\ CString(l) \in Seq(Printable) /\ Len(CString(l)) = n
         /\ \A i \in 1 .. n : CString(l)[i] = l[i - 1]
PROOF
<1>1. n \in Nat /\ n < CmdSize /\ n \in Line /\ l[n] = NUL
  BY ShellAssumption DEF Clean, Line
<1>2. Terminated(l)  BY <1>1 DEF Terminated
<1>3. StrLen(l) = n
  <2>1. StrLen(l) \in Nat  BY <1>2, StrLenIs, ShellAssumption DEF Line
  <2>2. ~(StrLen(l) < n)  BY <1>2, StrLenIs, ShellAssumption DEF Clean
  <2>3. ~(n < StrLen(l))  BY <1>1, <1>2, StrLenIs, ShellAssumption
  <2> QED BY <1>1, <2>1, <2>2, <2>3
<1> QED BY <1>1, <1>2, <1>3, CStringIs

(* A buffer with the characters of a text, and nothing behind them, holds   *)
(* that text.                                                               *)
LEMMA Holding ==
  ASSUME NEW l \in LineBuffer, NEW s \in Seq(Printable), Len(s) \in Line,
         \A i \in Line : l[i] = IF i < Len(s) THEN s[i + 1] ELSE NUL
  PROVE  Clean(l, Len(s)) /\ CString(l) = s /\ StrLen(l) = Len(s)
PROOF
<1>1. Len(s) \in Nat /\ CmdSize \in Nat  BY ShellAssumption
<1>2. Clean(l, Len(s))
  <2>1. ASSUME NEW i \in Line, i < Len(s) PROVE l[i] \in Printable
    <3>1. i + 1 \in 1 .. Len(s)  BY <1>1, <2>1 DEF Line
    <3> QED BY <2>1, <3>1
  <2>2. ASSUME NEW i \in Line, i >= Len(s) PROVE l[i] = NUL  BY <1>1, <2>2 DEF Line
  <2> QED BY <2>1, <2>2 DEF Clean
<1>3. ASSUME NEW i \in 1 .. Len(s) PROVE CString(l)[i] = s[i]
  <2>1. i - 1 \in Line /\ i - 1 < Len(s) /\ (i - 1) + 1 = i  BY <1>1 DEF Line
  <2> QED BY <1>2, <2>1, CleanIs
<1> QED BY <1>1, <1>2, <1>3, CleanIs

(* Two clean buffers with the same text are the same.                       *)
LEMMA SameBuffer ==
  ASSUME NEW l \in LineBuffer, NEW k \in LineBuffer, NEW n, NEW m, Clean(l, n), Clean(k, m)
  PROVE  (l = k) <=> (CString(l) = CString(k))
PROOF
<1>1. ASSUME CString(l) = CString(k) PROVE l = k
  <2>1. n = m /\ n \in Nat  BY <1>1, CleanIs
  <2>2. ASSUME NEW i \in Line PROVE l[i] = k[i]
    <3>1. CASE i < n
      <4>1. i + 1 \in 1 .. n /\ (i + 1) - 1 = i  BY <2>1, <3>1 DEF Line
      <4>2. l[i] = CString(l)[i + 1] /\ k[i] = CString(k)[i + 1]  BY <2>1, <4>1, CleanIs
      <4> QED BY <1>1, <4>2
    <3>2. CASE i >= n  BY <2>1, <3>2 DEF Clean
    <3> QED BY <2>1, <3>1, <3>2 DEF Line
  <2> QED BY <2>2 DEF LineBuffer
<1> QED BY <1>1

-----------------------------------------------------------------------------
(* Editing in place *)

(* The loops that make room for a character insert it in the text.          *)
LEMMA TypedIs ==
  ASSUME NEW l \in LineBuffer, NEW p, Clean(l, p), p + 1 < CmdSize, NEW k \in 0 .. p,
         NEW c \in Printable
  PROVE  /\ Typed(l, k, p, c) \in LineBuffer /\ Clean(Typed(l, k, p, c), p + 1)
         /\ CString(Typed(l, k, p, c)) = InsertAt(CString(l), k + 1, c)
PROOF
<1> DEFINE m == Typed(l, k, p, c)
           s == CString(l)
           r == InsertAt(s, k + 1, c)
<1>1. p \in Nat /\ k \in Nat /\ k <= p /\ CmdSize \in Nat  BY CleanIs, ShellAssumption
<1>2. s \in Seq(Printable) /\ Len(s) = p /\ \A i \in 1 .. p : s[i] = l[i - 1]  BY CleanIs
<1>3. /\ r \in Seq(Printable) /\ Len(r) = p + 1
      /\ \A j \in 1 .. p + 1 : r[j] = IF j < k + 1 THEN s[j] ELSE IF j = k + 1 THEN c ELSE s[j - 1]
  <2>1. k + 1 \in 1 .. Len(s) + 1  BY <1>1, <1>2
  <2> HIDE DEF s
  <2> QED BY <1>2, <2>1, InsertAtProperties
<1>4. m = [i \in Line |-> IF i = k THEN c ELSE IF k < i /\ i <= p THEN l[i - 1] ELSE l[i]]
  BY DEF Typed
<1>5. m \in LineBuffer
  <2>1. \A i \in Line : k < i => i - 1 \in Line  BY <1>1 DEF Line
  <2> QED BY <1>4, <2>1 DEF LineBuffer
<1> HIDE DEF m, r, s
<1>6. ASSUME NEW i \in Line PROVE m[i] = IF i < p + 1 THEN r[i + 1] ELSE NUL
  <2>1. i \in Nat  BY <1>1 DEF Line
  <2>2. CASE i < k
    <3>1. i + 1 \in 1 .. p /\ (i + 1) - 1 = i /\ i + 1 < k + 1 /\ i + 1 \in 1 .. p + 1
      BY <1>1, <2>1, <2>2
    <3>2. r[i + 1] = s[i + 1]  BY <1>3, <3>1
    <3>3. s[i + 1] = l[i]  BY <1>2, <3>1
    <3> QED BY <1>1, <1>4, <2>1, <2>2, <3>2, <3>3
  <2>3. CASE i = k
    <3>1. i + 1 \in 1 .. p + 1  BY <1>1, <2>3
    <3> QED BY <1>1, <1>3, <1>4, <2>3, <3>1
  <2>4. CASE k < i /\ i <= p
    <3>1. i \in 1 .. p /\ i + 1 \in 1 .. p + 1 /\ (i + 1) - 1 = i /\ ~(i + 1 < k + 1) /\ i + 1 # k + 1
      BY <1>1, <2>1, <2>4
    <3>2. r[i + 1] = s[i]  BY <1>3, <3>1
    <3>3. s[i] = l[i - 1]  BY <1>2, <3>1
    <3> QED BY <1>1, <1>4, <2>1, <2>4, <3>2, <3>3
  <2>5. CASE i > p
    <3>1. l[i] = NUL  BY <1>1, <2>1, <2>5 DEF Clean
    <3> QED BY <1>1, <1>4, <2>1, <2>5, <3>1
  <2> QED BY <1>1, <2>1, <2>2, <2>3, <2>4, <2>5
<1>7. p + 1 \in Line  BY <1>1 DEF Line
<1> QED BY <1>3, <1>5, <1>6, <1>7, Holding DEF m, r, s

(* The loops that close the gap remove a character from the text.           *)
LEMMA ErasedIs ==
  ASSUME NEW l \in LineBuffer, NEW p, Clean(l, p), NEW k \in 1 .. p
  PROVE  /\ Erased(l, k - 1, p - 1) \in LineBuffer /\ Clean(Erased(l, k - 1, p - 1), p - 1)
         /\ CString(Erased(l, k - 1, p - 1)) = RemoveAt(CString(l), k)
PROOF
<1> DEFINE m == Erased(l, k - 1, p - 1)
           s == CString(l)
           r == RemoveAt(s, k)
<1>1. p \in Nat /\ k \in Nat /\ 1 <= k /\ k <= p /\ p < CmdSize /\ CmdSize \in Nat
  BY CleanIs, ShellAssumption
<1>2. s \in Seq(Printable) /\ Len(s) = p /\ \A i \in 1 .. p : s[i] = l[i - 1]  BY CleanIs
<1>3. /\ r \in Seq(Printable) /\ Len(r) = p - 1
      /\ \A j \in 1 .. p - 1 : r[j] = IF j < k THEN s[j] ELSE s[j + 1]
  BY <1>1, <1>2, RemoveAtProperties
<1>4. m = [i \in Line |-> IF i = p - 1 THEN NUL ELSE IF k - 1 <= i /\ i < p - 1 THEN l[i + 1] ELSE l[i]]
  BY DEF Erased
<1>5. m \in LineBuffer
  <2>1. \A i \in Line : i < p - 1 => i + 1 \in Line  BY <1>1 DEF Line
  <2> QED BY <1>4, <2>1 DEF LineBuffer
<1> HIDE DEF m, r, s
<1>6. ASSUME NEW i \in Line PROVE m[i] = IF i < p - 1 THEN r[i + 1] ELSE NUL
  <2>1. i \in Nat  BY <1>1 DEF Line
  <2>2. CASE i < k - 1
    <3>1. i + 1 \in 1 .. p /\ (i + 1) - 1 = i /\ i + 1 < k /\ i + 1 \in 1 .. p - 1 /\ i < p - 1
      BY <1>1, <2>1, <2>2
    <3>2. r[i + 1] = s[i + 1]  BY <1>3, <3>1
    <3>3. s[i + 1] = l[i]  BY <1>2, <3>1
    <3> QED BY <1>1, <1>4, <2>1, <2>2, <3>1, <3>2, <3>3
  <2>3. CASE k - 1 <= i /\ i < p - 1
    <3>1. /\ i + 1 \in 1 .. p - 1 /\ ~(i + 1 < k) /\ (i + 1) + 1 \in 1 .. p
          /\ ((i + 1) + 1) - 1 = i + 1 /\ i # p - 1
      BY <1>1, <2>1, <2>3
    <3>2. r[i + 1] = s[(i + 1) + 1]  BY <1>3, <3>1
    <3>3. s[(i + 1) + 1] = l[i + 1]  BY <1>2, <3>1
    <3> QED BY <1>4, <2>3, <3>1, <3>2, <3>3
  <2>4. CASE i = p - 1  BY <1>1, <1>4, <2>4
  <2>5. CASE i > p - 1
    <3>1. l[i] = NUL  BY <1>1, <2>1, <2>5 DEF Clean
    <3> QED BY <1>1, <1>4, <2>1, <2>5, <3>1
  <2> QED BY <1>1, <2>1, <2>2, <2>3, <2>4, <2>5
<1>7. p - 1 \in Line  BY <1>1 DEF Line
<1> QED BY <1>3, <1>5, <1>6, <1>7, Holding DEF m, r, s

(* A prefix of a sequence is its beginning.                                 *)
LEMMA PrefixIs ==
  ASSUME NEW S, NEW s \in Seq(S), NEW t \in Seq(S)
  PROVE  /\ IsPrefix(s, t) => Len(s) <= Len(t) /\ \A i \in 1 .. Len(s) : s[i] = t[i]
         /\ IsPrefix(s, t) => s \in Prefixes(t)
         /\ \A u \in Prefixes(t) : u \in Seq(S) /\ Len(u) <= Len(t)
PROOF
<1>1. /\ Len(s) \in Nat /\ Len(t) \in Nat
      /\ \A n \in 0 .. Len(t) : SubSeq(t, 1, n) \in Seq(S) /\ Len(SubSeq(t, 1, n)) = n
  OBVIOUS
<1>2. ASSUME IsPrefix(s, t)
      PROVE  Len(s) <= Len(t) /\ s = SubSeq(t, 1, Len(s)) /\ \A i \in 1 .. Len(s) : s[i] = t[i]
  <2>1. Len(s) <= Len(t) /\ SubSeq(s, 1, Len(s)) = SubSeq(t, 1, Len(s))  BY <1>2 DEF IsPrefix
  <2>2. SubSeq(s, 1, Len(s)) = s  OBVIOUS
  <2>3. s = SubSeq(t, 1, Len(s))  BY <2>1, <2>2
  <2>4. \A i \in 1 .. Len(s) : SubSeq(t, 1, Len(s))[i] = t[i]  BY <1>1, <2>1
  <2> QED BY <2>1, <2>3, <2>4
<1>3. ASSUME IsPrefix(s, t) PROVE s \in Prefixes(t)
  <2>1. Len(s) \in 0 .. Len(t) /\ s = SubSeq(t, 1, Len(s))  BY <1>1, <1>2, <1>3
  <2> QED BY <2>1 DEF Prefixes
<1>4. \A u \in Prefixes(t) : u \in Seq(S) /\ Len(u) <= Len(t)  BY <1>1 DEF Prefixes
<1> QED BY <1>2, <1>3, <1>4

(* What all names have in common goes on with what they all begin with.     *)
LEMMA LongestPrefix ==
  ASSUME NEW S, NEW C \in SUBSET Seq(S), C # {}, NEW t \in Seq(S), \A n \in C : IsPrefix(t, n)
  PROVE  LET p == LongestCommonPrefix(C) IN
         /\ p \in Seq(S) /\ Len(t) <= Len(p) /\ \A i \in 1 .. Len(t) : p[i] = t[i]
         /\ \A n \in C : Len(p) <= Len(n)
PROOF
<1> DEFINE P == CommonPrefixes(C)
<1>1. PICK n \in C : TRUE  OBVIOUS
<1>2. /\ t \in P
      /\ \A u \in P : u \in Seq(S) /\ \A m \in C : IsPrefix(u, m)
  <2>1. \A m \in C : t \in Prefixes(m) /\ \A u \in Prefixes(m) : u \in Seq(S)  BY PrefixIs
  <2> QED BY <1>1, <2>1 DEF CommonPrefixes
<1>3. \A u \in P : Len(u) \in Nat /\ Len(n) \in Nat /\ Len(u) <= Len(n)
  BY <1>1, <1>2, PrefixIs
<1> HIDE DEF P
<1> DEFINE D == {Len(n) - Len(u) : u \in P}
<1>4. D \in SUBSET Nat /\ D # {}
  <2>1. \A u \in P : Len(n) - Len(u) \in Nat  BY <1>3
  <2> QED BY <1>2, <2>1
<1>5. PICK d \in D : \A e \in D : d <= e
  <2> HIDE DEF D
  <2> QED BY <1>4, LeastExists
<1>6. PICK u \in P : d = Len(n) - Len(u)  BY <1>5
<1>7. ASSUME NEW v \in P PROVE Len(v) <= Len(u)
  <2>1. Len(n) - Len(u) <= Len(n) - Len(v)  BY <1>5, <1>6
  <2>2. Len(n) \in Nat /\ Len(u) \in Nat /\ Len(v) \in Nat  BY <1>3
  <2> QED BY <2>1, <2>2
<1> DEFINE p == LongestCommonPrefix(C)
<1>8. p \in P /\ \A v \in P : Len(v) <= Len(p)
  BY <1>7 DEF LongestCommonPrefix, P
<1> HIDE DEF p
<1>9. p \in Seq(S) /\ Len(t) <= Len(p) /\ \A m \in C : IsPrefix(p, m)  BY <1>2, <1>8
<1>10. ASSUME NEW i \in 1 .. Len(t) PROVE p[i] = t[i]
  <2>1. i \in 1 .. Len(p)  BY <1>9
  <2>2. p[i] = n[i] /\ t[i] = n[i]  BY <1>1, <1>9, <2>1, PrefixIs
  <2> QED BY <2>2
<1>11. \A m \in C : Len(p) <= Len(m)  BY <1>9, PrefixIs
<1> QED BY <1>9, <1>10, <1>11 DEF p

\* the names that begin like text s, and what Tab makes of it
Names(s) == {n \in Command : IsPrefix(s, n)}
Tabbed(s) == IF s = << >> \/ Names(s) = {} THEN s ELSE LongestCommonPrefix(Names(s))

(* Completion writes the rest of what the names have in common.             *)
LEMMA CompletedIs ==
  ASSUME NEW l \in LineBuffer, Terminated(l)
  PROVE  /\ Completed(l) \in LineBuffer
         /\ \A n : Clean(l, n) => /\ CString(Completed(l)) = Tabbed(CString(l))
                                  /\ Clean(Completed(l), Len(Tabbed(CString(l))))
PROOF
<1> DEFINE s == CString(l)
           p == LongestCommonPrefix(Names(s))
<1>1. s \in Seq(Printable) /\ Len(s) = StrLen(l) /\ Len(s) \in Nat
  BY CStringIs
<1>2. s = << >> <=> StrLen(l) = 0  BY <1>1
<1>3. CASE s = << >> \/ Names(s) = {}
  <2>1. Completed(l) = l  BY <1>2, <1>3 DEF Completed, Names
  <2>2. Tabbed(s) = s  BY <1>3 DEF Tabbed
  <2> QED BY <2>1, <2>2, CleanIs
<1>4. CASE ~(s = << >> \/ Names(s) = {})
  <2> DEFINE m == Completed(l)
  <2>1. m = [i \in Line |-> IF i < Len(p) THEN p[i + 1] ELSE l[i]] /\ Tabbed(s) = p
    BY <1>2, <1>4 DEF Completed, Names, Tabbed
  <2>2. /\ p \in Seq(Printable) /\ Len(s) <= Len(p) /\ \A i \in 1 .. Len(s) : p[i] = s[i]
        /\ \A n \in Names(s) : Len(p) <= Len(n)
    <3>1. Names(s) \in SUBSET Seq(Printable) /\ Names(s) # {} /\ \A n \in Names(s) : IsPrefix(s, n)
      BY <1>4, ShellAssumption DEF Names
    <3> HIDE DEF s
    <3> QED BY <1>1, <3>1, LongestPrefix
  <2> HIDE DEF p, s, m
  <2>3. Len(p) \in Nat /\ Len(p) < CmdSize
    <3>1. PICK n \in Names(s) : TRUE  BY <1>4
    <3>2. n \in Command /\ Len(n) \in Nat /\ Len(n) < CmdSize  BY <3>1, ShellAssumption DEF Names
    <3> QED BY <2>2, <3>1, <3>2, ShellAssumption
  <2>4. m \in LineBuffer
    <3>1. \A i \in Line : i < Len(p) => p[i + 1] \in Printable
      <4>1. \A i \in Line : i < Len(p) => i + 1 \in 1 .. Len(p)  BY <2>3 DEF Line
      <4> QED BY <2>2, <4>1
    <3> QED BY <2>1, <3>1 DEF LineBuffer
  <2>5. ASSUME NEW n, Clean(l, n) PROVE CString(m) = p /\ Clean(m, Len(p))
    <3>1. n = Len(s)  BY <1>1, <2>5, CleanIs
    <3>2. ASSUME NEW i \in Line, ~(i < Len(p)) PROVE l[i] = NUL
      BY <1>1, <2>2, <2>3, <2>5, <3>1, <3>2 DEF Clean, Line
    <3>3. \A i \in Line : m[i] = IF i < Len(p) THEN p[i + 1] ELSE NUL  BY <2>1, <3>2
    <3>4. Len(p) \in Line  BY <2>3, ShellAssumption DEF Line
    <3> QED BY <2>2, <2>4, <3>3, <3>4, Holding
  <2> QED BY <2>1, <2>4, <2>5 DEF m, s
<1> QED BY <1>3, <1>4

Lines == [0 .. HistoryLines - 1 -> LineBuffer]

ShellState ==
  [stat : {"normal", "spec", "func"}, line : LineBuffer, position : Line, curpos : Line,
   history : Lines, count : 0 .. HistoryLines, current : 0 .. HistoryLines]

\* the characters up to line_position are typed ones, also in a buffer that was
\* filled; in one that was not, nothing is behind them
Edited(s, f) ==
  /\ s.curpos <= s.position
  /\ \A i \in Line : i < s.position => s.line[i] \in Printable
  /\ ~f => Clean(s.line, s.position)

\* the lines remembered are clean, and one of them or the end is shown
Remembers(s) ==
  /\ s.current <= s.count
  /\ \A n \in 0 .. s.count - 1 : \E k : Clean(s.history[n], k)

ShellInv ==
  /\ shell \in ShellState /\ filled \in BOOLEAN
  /\ Edited(shell, filled) /\ Remembers(shell)

\* the lines a history holds
Past(s) == [n \in 1 .. s.count |-> CString(s.history[n - 1])]

\* the text and the cursor its user sees
Text(s, f) == IF f THEN << >> ELSE CString(s.line)
Cursor(s, f) == IF f THEN 0 ELSE s.curpos

(* The fields of the shell.                                                 *)
LEMMA ShellIs ==
  ASSUME NEW s \in ShellState
  PROVE  /\ s.line \in LineBuffer /\ s.position \in Line /\ s.curpos \in Line /\ s.history \in Lines
         /\ s.count \in 0 .. HistoryLines /\ s.current \in 0 .. HistoryLines
         /\ s.position \in Nat /\ s.curpos \in Nat /\ s.count \in Nat /\ s.current \in Nat
         /\ s.position < CmdSize /\ CmdSize \in Nat \ {0} /\ HistoryLines \in Nat \ {0}
         /\ s.count <= HistoryLines
BY ShellAssumption DEF ShellState, Line

(* The history as its user sees it.                                         *)
LEMMA PastIs ==
  ASSUME NEW s \in ShellState, Remembers(s)
  PROVE  /\ Past(s) \in Seq(Seq(Printable)) /\ Len(Past(s)) = s.count
         /\ \A n \in 1 .. s.count : /\ n - 1 \in 0 .. s.count - 1
                                    /\ s.history[n - 1] \in LineBuffer
                                    /\ \E k : Clean(s.history[n - 1], k)
                                    /\ Past(s)[n] = CString(s.history[n - 1])
PROOF
<1>1. s.count \in Nat /\ s.count <= HistoryLines /\ s.history \in Lines /\ HistoryLines \in Nat
  BY ShellIs
<1>2. ASSUME NEW n \in 1 .. s.count
      PROVE  /\ n - 1 \in 0 .. s.count - 1 /\ s.history[n - 1] \in LineBuffer
             /\ \E k : Clean(s.history[n - 1], k)
             /\ CString(s.history[n - 1]) \in Seq(Printable)
  <2>1. n - 1 \in 0 .. s.count - 1 /\ n - 1 \in 0 .. HistoryLines - 1  BY <1>1
  <2>2. s.history[n - 1] \in LineBuffer  BY <1>1, <2>1 DEF Lines
  <2>3. PICK k : Clean(s.history[n - 1], k)  BY <2>1 DEF Remembers
  <2> QED BY <2>1, <2>2, <2>3, CleanIs
<1> DEFINE F(n) == CString(s.history[n - 1])
           c == s.count
<1>3. Past(s) = [n \in 1 .. c |-> F(n)]  BY DEF Past
<1>4. \A n \in 1 .. c : F(n) \in Seq(Printable)  BY <1>2
<1>5. c \in Nat  BY <1>1
<1> HIDE DEF F, c
<1>6. /\ Past(s) \in Seq(Seq(Printable)) /\ Len(Past(s)) = c
      /\ \A n \in 1 .. c : Past(s)[n] = F(n)
  BY <1>3, <1>4, <1>5
<1> QED BY <1>2, <1>6 DEF F, c

(* A key that was handled leaves the shell s.                               *)
LEMMA HandledIs ==
  ASSUME NEW s \in ShellState, NEW f, Handled(s, f)
  PROVE  /\ shell' \in ShellState /\ filled' = f
         /\ shell'.line = s.line /\ shell'.position = s.position /\ shell'.curpos = s.curpos
         /\ shell'.history = s.history /\ shell'.count = s.count /\ shell'.current = s.current
BY DEF Handled, ShellState

\* a step of the abstract editor, or nothing to it
Follows == [Editor!LineNext]_(Editor!lineVars)

\* shells r and s remember the same
Alike(r, s) == r.history = s.history /\ r.count = s.count /\ r.current = s.current

(* A step that changes neither text, cursor nor history.                    *)
LEMMA StillFollows ==
  ASSUME Alike(shell', shell), filled' = filled,
         filled \/ (shell'.line = shell.line /\ shell'.curpos = shell.curpos)
  PROVE  UNCHANGED Editor!lineVars
BY DEF Alike, Editor!lineVars

(* One that edits the line.                                                 *)
LEMMA EditFollows ==
  ASSUME Alike(shell', shell), ~filled, filled' = FALSE, filled = FALSE
  PROVE  Editor!Edits(CString(shell'.line), shell'.curpos)
BY DEF Alike, Editor!Edits

(* What remains of the invariant when the line is edited.                   *)
LEMMA EditInv ==
  ASSUME ShellInv, shell' \in ShellState, filled' \in BOOLEAN, Alike(shell', shell),
         Edited(shell', filled')
  PROVE  ShellInv'
BY DEF ShellInv, Alike, Remembers, Edited

(* A key that edits nothing.                                                *)
LEMMA NothingStep ==
  ASSUME ShellInv, NEW x \in {"normal", "spec", "func"}, shell' = [shell EXCEPT !.stat = x],
         filled' = filled
  PROVE  ShellInv' /\ Follows
PROOF
<1>1. /\ shell' \in ShellState /\ Alike(shell', shell) /\ filled' \in BOOLEAN
      /\ shell'.line = shell.line /\ shell'.position = shell.position
      /\ shell'.curpos = shell.curpos
  BY DEF ShellInv, ShellState, Alike
<1>2. Edited(shell', filled')  BY <1>1 DEF ShellInv, Edited
<1> QED BY <1>1, <1>2, EditInv, StillFollows DEF Follows

\* a key that changes the buffer and the positions
Writes(l, p, k, f) ==
  Handled([shell EXCEPT !.line = l, !.position = p, !.curpos = k], f)

(* Such a key keeps the rest.                                               *)
LEMMA EditKey ==
  ASSUME ShellInv, NEW l \in LineBuffer, NEW p \in Line, NEW k \in Line, NEW f \in BOOLEAN,
         Writes(l, p, k, f),
         k <= p, \A i \in Line : i < p => l[i] \in Printable, ~f => Clean(l, p)
  PROVE  /\ ShellInv' /\ Alike(shell', shell) /\ filled' = f
         /\ shell'.line = l /\ shell'.position = p /\ shell'.curpos = k
PROOF
<1> DEFINE s == [shell EXCEPT !.line = l, !.position = p, !.curpos = k]
<1>1. s \in ShellState /\ s.line = l /\ s.position = p /\ s.curpos = k /\ Alike(s, shell)
  BY DEF ShellInv, ShellState, Alike
<1>2. Handled(s, f)  BY DEF Writes
<1> HIDE DEF s
<1>3. /\ shell' \in ShellState /\ filled' = f /\ Alike(shell', shell)
      /\ shell'.line = l /\ shell'.position = p /\ shell'.curpos = k
  BY <1>1, <1>2, HandledIs DEF Alike
<1>4. Edited(shell', filled')  BY <1>3 DEF Edited
<1> QED BY <1>3, <1>4, EditInv

(* What the abstract editor does in terms of text and cursor.               *)
LEMMA EditorIs ==
  LET s == Text(shell, filled)
      k == Cursor(shell, filled)
  IN /\ \A c : /\ Len(s) + 1 < CmdSize /\ Editor!Edits(InsertAt(s, k + 1, c), k + 1)
               => Editor!Type(c)
     /\ k > 0 /\ Editor!Edits(RemoveAt(s, k), k - 1) => Editor!Erase
     /\ \A n \in 0 .. Len(s) : n \in {k - 1, k + 1} /\ Editor!Edits(s, n) => Editor!Move
     /\ Editor!Edits(Tabbed(s), Len(Tabbed(s))) => Editor!Complete
PROOF
<1>1. \A c : /\ Len(Text(shell, filled)) + 1 < CmdSize
             /\ Editor!Edits(InsertAt(Text(shell, filled), Cursor(shell, filled) + 1, c),
                             Cursor(shell, filled) + 1)
             => Editor!Type(c)
  BY DEF Text, Cursor, Editor!Type, InsertAt, Editor!InsertAt
<1>2. Cursor(shell, filled) > 0 /\ Editor!Edits(RemoveAt(Text(shell, filled), Cursor(shell, filled)),
                                                Cursor(shell, filled) - 1)
      => Editor!Erase
  BY DEF Text, Cursor, Editor!Erase, RemoveAt, Editor!RemoveAt
<1>3. \A n \in 0 .. Len(Text(shell, filled)) :
        n \in {Cursor(shell, filled) - 1, Cursor(shell, filled) + 1}
          /\ Editor!Edits(Text(shell, filled), n) => Editor!Move
  BY DEF Text, Cursor, Editor!Move
<1>4. Editor!Edits(Tabbed(Text(shell, filled)), Len(Tabbed(Text(shell, filled)))) => Editor!Complete
  BY DEF Text, Tabbed, Names, Editor!Complete, IsPrefix, Editor!IsPrefix, Prefixes,
     Editor!Prefixes, CommonPrefixes, Editor!CommonPrefixes, LongestCommonPrefix,
     Editor!LongestCommonPrefix
<1> QED BY <1>1, <1>2, <1>3, <1>4

(* A line that was not filled is what its user sees.                        *)
LEMMA TextIs ==
  ASSUME ~filled
  PROVE  Text(shell, filled) = CString(shell.line) /\ Cursor(shell, filled) = shell.curpos
BY DEF Text, Cursor

(* The two loops also move typed characters only, in a buffer that was      *)
(* filled.                                                                  *)
LEMMA TypedFills ==
  ASSUME NEW l \in LineBuffer, NEW p \in Line, \A i \in Line : i < p => l[i] \in Printable,
         NEW k \in 0 .. p, NEW c \in Printable
  PROVE  /\ Typed(l, k, p, c) \in LineBuffer
         /\ \A i \in Line : i < p + 1 => Typed(l, k, p, c)[i] \in Printable
PROOF
<1>1. p \in Nat /\ k \in Nat /\ CmdSize \in Nat /\ k <= p  BY ShellAssumption DEF Line
<1>2. \A i \in Line : i \in Nat /\ (k < i => i - 1 \in Line /\ (i <= p => i - 1 < p))
  BY <1>1 DEF Line
<1>3. \A i \in Line : l[i] \in Printable \cup {NUL}  BY DEF LineBuffer
<1>4. ASSUME NEW i \in Line
      PROVE  /\ Typed(l, k, p, c)[i] \in Printable \cup {NUL}
             /\ i < p + 1 => Typed(l, k, p, c)[i] \in Printable
  <2>1. Typed(l, k, p, c)[i] = IF i = k THEN c ELSE IF k < i /\ i <= p THEN l[i - 1] ELSE l[i]
    BY DEF Typed
  <2>2. CASE i = k  BY <2>1, <2>2
  <2>3. CASE k < i /\ i <= p  BY <1>2, <1>3, <2>1, <2>3
  <2>4. CASE i # k /\ ~(k < i /\ i <= p)
    <3>1. i < p + 1 => i < p  BY <1>1, <1>2, <2>4
    <3> QED BY <1>3, <2>1, <2>4, <3>1
  <2> QED BY <2>2, <2>3, <2>4
<1>5. Typed(l, k, p, c) \in LineBuffer  BY <1>4 DEF Typed, LineBuffer
<1> QED BY <1>4, <1>5

(* The same when one is erased.                                             *)
LEMMA ErasedFills ==
  ASSUME NEW l \in LineBuffer, NEW p \in Line, \A i \in Line : i < p => l[i] \in Printable,
         NEW k \in 1 .. p
  PROVE  /\ Erased(l, k - 1, p - 1) \in LineBuffer
         /\ \A i \in Line : i < p - 1 => Erased(l, k - 1, p - 1)[i] \in Printable
PROOF
<1>1. p \in Nat /\ k \in Nat /\ CmdSize \in Nat /\ k <= p /\ 1 <= k /\ p < CmdSize
  BY ShellAssumption DEF Line
<1>2. \A i \in Line : i \in Nat /\ (i < p - 1 => i + 1 \in Line /\ i + 1 < p /\ i < p /\ i # p - 1)
  BY <1>1 DEF Line
<1>3. \A i \in Line : l[i] \in Printable \cup {NUL}  BY DEF LineBuffer
<1>4. ASSUME NEW i \in Line
      PROVE  /\ Erased(l, k - 1, p - 1)[i] \in Printable \cup {NUL}
             /\ i < p - 1 => Erased(l, k - 1, p - 1)[i] \in Printable
  <2>1. Erased(l, k - 1, p - 1)[i]
          = IF i = p - 1 THEN NUL ELSE IF k - 1 <= i /\ i < p - 1 THEN l[i + 1] ELSE l[i]
    BY DEF Erased
  <2>2. CASE i = p - 1  BY <1>2, <2>1, <2>2
  <2>3. CASE k - 1 <= i /\ i < p - 1  BY <1>2, <1>3, <2>1, <2>3
  <2>4. CASE i # p - 1 /\ ~(k - 1 <= i /\ i < p - 1)  BY <1>2, <1>3, <2>1, <2>4
  <2> QED BY <2>2, <2>3, <2>4
<1>5. Erased(l, k - 1, p - 1) \in LineBuffer  BY <1>4 DEF Erased, LineBuffer
<1> QED BY <1>4, <1>5

(* What the invariant says of the line.                                     *)
LEMMA LineIs ==
  ASSUME ShellInv
  PROVE  /\ shell.line \in LineBuffer /\ shell.position \in Line /\ shell.curpos \in 0 .. shell.position
         /\ shell.position \in Nat /\ shell.curpos \in Nat /\ shell.position < CmdSize
         /\ \A i \in Line : i < shell.position => shell.line[i] \in Printable
         /\ ~filled => Clean(shell.line, shell.position)
         /\ filled \in BOOLEAN /\ CmdSize \in Nat
BY ShellIs DEF ShellInv, Edited

(* A character is typed.                                                    *)
LEMMA TypeStep ==
  ASSUME ShellInv, NEW c \in Printable, TypeKey(c)
  PROVE  ShellInv' /\ Follows
PROOF
<1> DEFINE p == shell.position
           k == shell.curpos
           l == Typed(shell.line, k, p, c)
<1>1. /\ p \in Line /\ k \in 0 .. p /\ p \in Nat /\ k \in Nat /\ p < CmdSize /\ CmdSize \in Nat
      /\ shell.line \in LineBuffer /\ filled \in BOOLEAN
  BY LineIs
<1>2. l \in LineBuffer /\ \A i \in Line : i < p + 1 => l[i] \in Printable
  BY LineIs, TypedFills
<1>3. CASE p + 1 >= CmdSize
  <2> DEFINE z == 0
             f == TRUE
  <2>1. Writes(l, z, z, f)  BY <1>1, <1>3 DEF TypeKey, Writes
  <2>2. /\ z \in Line /\ z <= z /\ (\A i \in Line : i < z => l[i] \in Printable)
        /\ f \in BOOLEAN /\ (~f => Clean(l, z))
    BY <1>1 DEF Line
  <2> HIDE DEF l, z, f
  <2>3. ShellInv' /\ Alike(shell', shell) /\ filled' = TRUE
    <3>1. ShellInv' /\ Alike(shell', shell) /\ filled' = f
      BY <1>2, <2>1, <2>2, EditKey
    <3> QED BY <3>1 DEF f
  <2>4. CASE filled  BY <2>3, <2>4, StillFollows DEF Follows
  <2>5. CASE ~filled
    <3>1. Len(CString(shell.line)) + 1 = CmdSize  BY <1>1, <1>3, <2>5, LineIs, CleanIs
    <3>2. Editor!Discard  BY <1>1, <2>3, <2>5, <3>1 DEF Alike, Editor!Discard
    <3> QED BY <2>3, <3>2 DEF Follows, Editor!LineNext
  <2> QED BY <2>4, <2>5
<1>4. CASE ~(p + 1 >= CmdSize)
  <2>1. Writes(l, p + 1, k + 1, filled)
    BY <1>1, <1>4 DEF TypeKey, Writes
  <2>2. p + 1 \in Line /\ k + 1 \in Line /\ k + 1 <= p + 1  BY <1>1, <1>4 DEF Line
  <2>3. ~filled => /\ Clean(l, p + 1)
                   /\ CString(l) = InsertAt(CString(shell.line), k + 1, c)
                   /\ Len(CString(shell.line)) = p
    BY <1>1, <1>4, LineIs, TypedIs, CleanIs
  <2> HIDE DEF l
  <2>4. /\ ShellInv' /\ Alike(shell', shell) /\ filled' = filled
        /\ shell'.line = l /\ shell'.curpos = k + 1
    BY <1>1, <1>2, <2>1, <2>2, <2>3, EditKey
  <2>5. CASE filled  BY <2>4, <2>5, StillFollows DEF Follows
  <2>6. CASE ~filled
    <3>1. Editor!Edits(CString(l), k + 1)  BY <1>1, <2>4, <2>6, EditFollows
    <3>2. Editor!Type(c)  BY <1>1, <1>4, <2>3, <2>6, <3>1, TextIs, EditorIs
    <3> QED BY <2>4, <3>2 DEF Follows, Editor!LineNext
  <2> QED BY <2>5, <2>6
<1> QED BY <1>3, <1>4

(* A character is erased.                                                   *)
LEMMA BackspaceStep ==
  ASSUME ShellInv, BackspaceKey
  PROVE  ShellInv' /\ Follows
PROOF
<1> DEFINE p == shell.position
           k == shell.curpos
           l == Erased(shell.line, k - 1, p - 1)
<1>1. /\ p \in Line /\ k \in 0 .. p /\ p \in Nat /\ k \in Nat /\ p < CmdSize /\ CmdSize \in Nat
      /\ shell.line \in LineBuffer /\ filled \in BOOLEAN
  BY LineIs
<1>2. CASE k = 0
  <2>1. Handled(shell, filled)  BY <1>2 DEF BackspaceKey
  <2> QED BY <2>1, NothingStep DEF Handled
<1>3. CASE k # 0
  <2>1. Writes(l, p - 1, k - 1, filled)
    BY <1>3 DEF BackspaceKey, Writes
  <2>2. k \in 1 .. p /\ p - 1 \in Line /\ k - 1 \in Line /\ k - 1 <= p - 1 /\ k > 0
    BY <1>1, <1>3 DEF Line
  <2>3. l \in LineBuffer /\ \A i \in Line : i < p - 1 => l[i] \in Printable
    BY <2>2, LineIs, ErasedFills
  <2>4. ~filled => Clean(l, p - 1) /\ CString(l) = RemoveAt(CString(shell.line), k)
    BY <1>1, <2>2, LineIs, ErasedIs
  <2> HIDE DEF l
  <2>5. /\ ShellInv' /\ Alike(shell', shell) /\ filled' = filled
        /\ shell'.line = l /\ shell'.curpos = k - 1
    BY <1>1, <2>1, <2>2, <2>3, <2>4, EditKey
  <2>6. CASE filled  BY <2>5, <2>6, StillFollows DEF Follows
  <2>7. CASE ~filled
    <3>1. Editor!Edits(CString(l), k - 1)  BY <1>1, <2>5, <2>7, EditFollows
    <3>2. Editor!Erase  BY <2>2, <2>4, <2>7, <3>1, TextIs, EditorIs
    <3> QED BY <2>5, <3>2 DEF Follows, Editor!LineNext
  <2> QED BY <2>6, <2>7
<1> QED BY <1>2, <1>3

(* The cursor moves.                                                        *)
LEMMA MoveStep ==
  ASSUME ShellInv, LeftKey \/ RightKey
  PROVE  ShellInv' /\ Follows
PROOF
<1> DEFINE p == shell.position
           k == shell.curpos
<1>1. /\ p \in Line /\ k \in 0 .. p /\ p \in Nat /\ k \in Nat /\ p < CmdSize /\ CmdSize \in Nat
      /\ shell.line \in LineBuffer /\ filled \in BOOLEAN /\ shell \in ShellState
  BY LineIs DEF ShellInv
<1>2. PICK n : /\ Handled([shell EXCEPT !.curpos = n], filled)
               /\ n \in 0 .. p /\ (n = k \/ n \in {k - 1, k + 1})
  <2>1. CASE LeftKey
    <3> DEFINE n == IF k > 0 THEN k - 1 ELSE 0
    <3>1. Handled([shell EXCEPT !.curpos = n], filled)  BY <2>1 DEF LeftKey
    <3>2. n \in 0 .. p /\ (n = k \/ n \in {k - 1, k + 1})  BY <1>1
    <3> HIDE DEF n
    <3> QED BY <3>1, <3>2
  <2>2. CASE RightKey
    <3> DEFINE n == IF k < p THEN k + 1 ELSE k
    <3>1. Handled([shell EXCEPT !.curpos = n], filled)  BY <2>2 DEF RightKey
    <3>2. n \in 0 .. p /\ (n = k \/ n \in {k - 1, k + 1})  BY <1>1
    <3> HIDE DEF n
    <3> QED BY <3>1, <3>2
  <2> QED BY <2>1, <2>2
<1>3. Writes(shell.line, p, n, filled)
  <2>1. [shell EXCEPT !.curpos = n]
          = [shell EXCEPT !.line = shell.line, !.position = p, !.curpos = n]
    BY <1>1 DEF ShellState
  <2> QED BY <1>2, <2>1 DEF Writes
<1>4. n \in Line /\ n <= p  BY <1>1, <1>2 DEF Line
<1>5. /\ ShellInv' /\ Alike(shell', shell) /\ filled' = filled
      /\ shell'.line = shell.line /\ shell'.curpos = n
  BY <1>1, <1>2, <1>3, <1>4, LineIs, EditKey
<1>6. CASE filled \/ n = k  BY <1>5, <1>6, StillFollows DEF Follows
<1>7. CASE ~filled /\ n # k
  <2>1. Editor!Edits(CString(shell.line), n)  BY <1>1, <1>5, <1>7, EditFollows
  <2>2. Len(CString(shell.line)) = p  BY <1>1, <1>7, LineIs, CleanIs
  <2>3. Editor!Move  BY <1>2, <1>7, <2>1, <2>2, TextIs, EditorIs
  <2> QED BY <1>5, <2>3 DEF Follows, Editor!LineNext
<1> QED BY <1>6, <1>7

(* A name is completed.                                                     *)
LEMMA TabStep ==
  ASSUME ShellInv, TabKey
  PROVE  ShellInv' /\ Follows
PROOF
<1> DEFINE l == Completed(shell.line)
           p == StrLen(l)
<1>1. /\ Terminated(shell.line) /\ Terminated(l) /\ shell.line \in LineBuffer /\ filled \in BOOLEAN
      /\ Writes(l, p, p, filled)
  BY LineIs DEF TabKey, Writes
<1>2. l \in LineBuffer  BY <1>1, CompletedIs
<1>3. ~filled => /\ CString(l) = Tabbed(CString(shell.line)) /\ Clean(l, p)
                 /\ Len(CString(l)) = p
  <2>1. ~filled => /\ CString(l) = Tabbed(CString(shell.line))
                   /\ Clean(l, Len(Tabbed(CString(shell.line))))
    BY <1>1, LineIs, CompletedIs
  <2> HIDE DEF l
  <2> QED BY <1>2, <2>1, CleanIs
<1> HIDE DEF l
<1>4. p \in Line /\ p <= p /\ \A i \in Line : i < p => l[i] \in Printable
  BY <1>1, <1>2, StrLenIs, ShellAssumption DEF Line
<1>5. /\ ShellInv' /\ Alike(shell', shell) /\ filled' = filled
      /\ shell'.line = l /\ shell'.curpos = p
  BY <1>1, <1>2, <1>3, <1>4, EditKey
<1>6. CASE filled  BY <1>5, <1>6, StillFollows DEF Follows
<1>7. CASE ~filled
  <2>1. Editor!Edits(CString(l), p)  BY <1>1, <1>5, <1>7, EditFollows
  <2>2. Editor!Complete
    BY <1>3, <1>7, <2>1, TextIs, EditorIs
  <2> QED BY <1>5, <2>2 DEF Follows, Editor!LineNext
<1> QED BY <1>6, <1>7

-----------------------------------------------------------------------------
(* Recalling and entering lines *)

(* A line of the history is copied to the buffer.                           *)
LEMMA RecallStep ==
  ASSUME ShellInv, NEW n \in 0 .. shell.count - 1, Handled(Recalled(n), FALSE)
  PROVE  /\ ShellInv'
         /\ Editor!Shows(Past(shell)[n + 1], n)
PROOF
<1> DEFINE h == shell.history[n]
           s == Recalled(n)
<1>1. shell \in ShellState /\ Remembers(shell)  BY DEF ShellInv
<1>2. n + 1 \in 1 .. shell.count /\ (n + 1) - 1 = n /\ n \in 0 .. HistoryLines
      /\ n <= shell.count /\ n \in Nat
  BY <1>1, ShellIs
<1>3. PICK k : h \in LineBuffer /\ Clean(h, k) /\ Past(shell)[n + 1] = CString(h)
  BY <1>1, <1>2, PastIs
<1>4. StrLen(h) = k /\ k \in Line /\ k \in Nat /\ Len(CString(h)) = k
      /\ \A i \in Line : i < k => h[i] \in Printable
  BY <1>3, CleanIs DEF Clean
<1> HIDE DEF h
<1>5. s = [shell EXCEPT !.line = h, !.current = n, !.position = k, !.curpos = k]
  BY <1>4 DEF Recalled, h
<1>6. /\ s \in ShellState /\ s.line = h /\ s.position = k /\ s.curpos = k
      /\ s.current = n /\ s.history = shell.history /\ s.count = shell.count
  BY <1>1, <1>2, <1>3, <1>4, <1>5 DEF ShellState
<1>7. Handled(s, FALSE)  OBVIOUS
<1> HIDE DEF s
<1>8. /\ shell' \in ShellState /\ filled' = FALSE
      /\ shell'.line = h /\ shell'.position = k /\ shell'.curpos = k
      /\ shell'.current = n /\ shell'.history = shell.history /\ shell'.count = shell.count
  BY <1>6, <1>7, HandledIs
<1>9. ShellInv'
  <2>1. Edited(shell', filled')  BY <1>3, <1>4, <1>8 DEF Edited
  <2>2. Remembers(shell')  BY <1>1, <1>2, <1>8 DEF Remembers
  <2> QED BY <1>8, <2>1, <2>2 DEF ShellInv
<1>10. Editor!Shows(Past(shell)[n + 1], n)
  BY <1>3, <1>4, <1>8 DEF Editor!Shows, Past
<1> QED BY <1>9, <1>10

(* The line before the one that is shown, if there is one.                  *)
LEMMA UpStep ==
  ASSUME ShellInv, UpKey
  PROVE  ShellInv' /\ Follows
PROOF
<1>1. /\ shell \in ShellState /\ Remembers(shell) /\ shell.current \in Nat /\ shell.count \in Nat
      /\ shell.current <= shell.count
  BY ShellIs DEF ShellInv, Remembers
<1>2. CASE shell.current > 0
  <2> DEFINE n == shell.current - 1
  <2>1. n \in 0 .. shell.count - 1 /\ n + 1 = shell.current  BY <1>1, <1>2
  <2>2. Handled(Recalled(n), FALSE)  BY <1>2 DEF UpKey
  <2> HIDE DEF n
  <2>3. ShellInv' /\ Editor!Shows(Past(shell)[shell.current], n)  BY <2>1, <2>2, RecallStep
  <2>4. Editor!Older  BY <1>2, <2>3 DEF Editor!Older, Past, n
  <2> QED BY <2>3, <2>4 DEF Follows, Editor!LineNext
<1>3. CASE ~(shell.current > 0)
  <2>1. Handled(shell, filled)  BY <1>3 DEF UpKey
  <2> QED BY <2>1, NothingStep DEF Handled
<1> QED BY <1>2, <1>3

(* The line after it, or the last one.                                      *)
LEMMA DownStep ==
  ASSUME ShellInv, DownKey
  PROVE  ShellInv' /\ Follows
PROOF
<1>1. /\ shell \in ShellState /\ Remembers(shell) /\ shell.current \in Nat /\ shell.count \in Nat
      /\ shell.current <= shell.count
  BY ShellIs DEF ShellInv, Remembers
<1>2. CASE shell.count # 0
  <2> DEFINE n == IF shell.current + 1 < shell.count THEN shell.current + 1 ELSE shell.count - 1
  <2>1. /\ n \in 0 .. shell.count - 1
        /\ n + 1 = IF shell.current + 1 < shell.count THEN shell.current + 2 ELSE shell.count
        /\ (n + 1) - 1 = n
    BY <1>1, <1>2
  <2>2. Handled(Recalled(n), FALSE)  BY <1>2 DEF DownKey
  <2> HIDE DEF n
  <2>3. ShellInv' /\ Editor!Shows(Past(shell)[n + 1], n)  BY <2>1, <2>2, RecallStep
  <2>4. Past(shell) # << >> /\ Len(Past(shell)) = shell.count  BY <1>1, <1>2, PastIs
  <2>5. Editor!Newer  BY <2>1, <2>3, <2>4 DEF Editor!Newer, Past
  <2> QED BY <2>3, <2>5 DEF Follows, Editor!LineNext
<1>3. CASE shell.count = 0
  <2>1. Handled(shell, filled)  BY <1>3 DEF DownKey
  <2> QED BY <2>1, NothingStep DEF Handled
<1> QED BY <1>2, <1>3

(* What is remembered of a line.                                            *)
LEMMA KeptIs ==
  ASSUME NEW l \in LineBuffer, NEW p \in Line, \A i \in Line : i < p => l[i] \in Printable
  PROVE  /\ Kept(l, p) \in LineBuffer /\ Clean(Kept(l, p), p)
         /\ Clean(l, p) => Kept(l, p) = l
PROOF
<1>1. p \in Nat /\ \A i \in Line : i \in Nat  BY ShellAssumption DEF Line
<1>2. Kept(l, p) \in LineBuffer  BY DEF Kept, LineBuffer
<1>3. Clean(Kept(l, p), p)  BY <1>1 DEF Kept, Clean
<1>4. ASSUME Clean(l, p) PROVE Kept(l, p) = l
  <2>1. \A i \in Line : (IF i < p THEN l[i] ELSE NUL) = l[i]  BY <1>1, <1>4 DEF Clean
  <2>2. l = [i \in Line |-> l[i]]  BY DEF LineBuffer
  <2> QED BY <2>1, <2>2 DEF Kept
<1> QED BY <1>2, <1>3, <1>4

\* the last HistoryLines of q and t
LastLines(q, t) ==
  LET r == Append(q, t)
  IN SubSeq(r, IF Len(r) > HistoryLines THEN Len(r) - HistoryLines + 1 ELSE 1, Len(r))

\* shell s with a line b more in its history
Longer(s, b) ==
  [s EXCEPT !.history = IF s.count < HistoryLines THEN [s.history EXCEPT ![s.count] = b]
                        ELSE [n \in 0 .. HistoryLines - 1 |->
                                IF n = HistoryLines - 1 THEN b ELSE s.history[n + 1]],
            !.count = IF s.count < HistoryLines THEN s.count + 1 ELSE s.count,
            !.current = IF s.count < HistoryLines THEN s.count + 1 ELSE s.count]

(* The end of a sequence, from its element f on.                            *)
LEMMA EndIs ==
  ASSUME NEW S, NEW q \in Seq(S), NEW c \in Nat, Len(q) = c, NEW f \in 1 .. c
  PROVE  /\ SubSeq(q, f, c) \in Seq(S) /\ Len(SubSeq(q, f, c)) = c - f + 1
         /\ \A n \in 1 .. c - f + 1 : SubSeq(q, f, c)[n] = q[f + n - 1]
OBVIOUS

(* The oldest line makes room for the new one.                              *)
LEMMA LongerIs ==
  ASSUME NEW s \in ShellState, Remembers(s), NEW b \in LineBuffer, NEW k, Clean(b, k)
  PROVE  LET r == Longer(s, b) IN
         /\ r \in ShellState /\ Remembers(r) /\ r.current = r.count
         /\ Past(r) = LastLines(Past(s), CString(b))
PROOF
<1> DEFINE r == Longer(s, b)
           h == s.history
           c == s.count
           g == IF c < HistoryLines THEN [h EXCEPT ![c] = b]
                ELSE [n \in 0 .. HistoryLines - 1 |-> IF n = HistoryLines - 1 THEN b ELSE h[n + 1]]
           d == IF c < HistoryLines THEN c + 1 ELSE c
<1>1. h \in Lines /\ c \in 0 .. HistoryLines /\ HistoryLines \in Nat \ {0} /\ c \in Nat
  BY ShellIs
<1>2. g \in Lines
  <2>1. \A n \in 0 .. HistoryLines - 1 : n # HistoryLines - 1 => n + 1 \in 0 .. HistoryLines - 1
    BY <1>1
  <2> QED BY <1>1, <2>1 DEF Lines
<1>3. d \in 1 .. HistoryLines /\ d \in 0 .. HistoryLines  BY <1>1
<1>4. r = [s EXCEPT !.history = g, !.count = d, !.current = d]  BY DEF Longer
<1> HIDE DEF r, g, d
<1>5. r \in ShellState /\ r.history = g /\ r.count = d /\ r.current = d
  BY <1>2, <1>3, <1>4 DEF ShellState
<1>6. ASSUME NEW n \in 0 .. d - 1
      PROVE  g[n] = IF n = d - 1 THEN b ELSE IF c < HistoryLines THEN h[n] ELSE h[n + 1]
  BY <1>1, <1>3 DEF g, d, Lines
<1>7. Remembers(r)
  <2>1. ASSUME NEW n \in 0 .. d - 1 PROVE \E i : Clean(g[n], i)
    <3>1. CASE n = d - 1  BY <1>6, <3>1
    <3>2. CASE n # d - 1 /\ c < HistoryLines
      <4>1. n \in 0 .. c - 1  BY <1>1, <3>2 DEF d
      <4> QED BY <1>6, <3>2, <4>1 DEF Remembers
    <3>3. CASE n # d - 1 /\ ~(c < HistoryLines)
      <4>1. n + 1 \in 0 .. c - 1  BY <1>1, <3>3 DEF d
      <4> QED BY <1>6, <3>3, <4>1 DEF Remembers
    <3> QED BY <3>1, <3>2, <3>3
  <2> QED BY <1>3, <1>5, <2>1 DEF Remembers
<1>8. Past(r) = LastLines(Past(s), CString(b))
  <2> DEFINE q == Past(s)
             t == CString(b)
             a == Append(q, t)
             f == IF c < HistoryLines THEN 1 ELSE 2
             z == LastLines(q, t)
  <2>1. /\ q \in Seq(Seq(Printable)) /\ Len(q) = c
        /\ \A n \in 1 .. c : q[n] = CString(h[n - 1])
    BY PastIs
  <2>2. t \in Seq(Printable)  BY CleanIs
  <2> HIDE DEF q, t
  <2>3. /\ a \in Seq(Seq(Printable)) /\ Len(a) = c + 1 /\ a[c + 1] = t
        /\ \A n \in 1 .. c : a[n] = q[n]
    BY <2>1, <2>2
  <2>4. z = SubSeq(a, f, c + 1)
    <3> DEFINE n == c + 1
               m == HistoryLines
    <3>1. z = SubSeq(a, IF Len(a) > m THEN Len(a) - m + 1 ELSE 1, Len(a))
      BY DEF LastLines, a, z
    <3>2. Len(a) = n  BY <2>3
    <3>3. (IF n > m THEN n - m + 1 ELSE 1) = f  BY <1>1
    <3> HIDE DEF n, m, f, a, z
    <3>4. z = SubSeq(a, IF n > m THEN n - m + 1 ELSE 1, n)  BY <3>1, <3>2
    <3>5. z = SubSeq(a, f, n)  BY <3>3, <3>4
    <3> QED BY <3>5 DEF n
  <2> HIDE DEF a, z
  <2>5. z \in Seq(Seq(Printable)) /\ Len(z) = d /\ \A n \in 1 .. d : z[n] = a[f + n - 1]
    <3>1. f \in 1 .. c + 1 /\ d = c + 1 - f + 1 /\ d \in Nat /\ f \in Nat  BY <1>1 DEF d
    <3> DEFINE e == c + 1
    <3>2. /\ SubSeq(a, f, e) \in Seq(Seq(Printable)) /\ Len(SubSeq(a, f, e)) = e - f + 1
          /\ \A n \in 1 .. e - f + 1 : SubSeq(a, f, e)[n] = a[f + n - 1]
      <4>1. e \in Nat /\ Len(a) = e /\ f \in 1 .. e  BY <1>1, <2>3, <3>1
      <4> HIDE DEF e, f
      <4> QED BY <2>3, <4>1, EndIs
    <3>3. z = SubSeq(a, f, e)  BY <2>4
    <3>4. e - f + 1 = d
      <4> HIDE DEF f
      <4> QED BY <1>1, <3>1
    <3> HIDE DEF e, f
    <3> QED BY <3>2, <3>3, <3>4
  <2>6. Past(r) \in Seq(Seq(Printable)) /\ Len(Past(r)) = d
        /\ \A n \in 1 .. d : Past(r)[n] = CString(g[n - 1])
    BY <1>5, <1>7, PastIs
  <2>7. ASSUME NEW n \in 1 .. d PROVE Past(r)[n] = z[n]
    <3>1. n - 1 \in 0 .. d - 1 /\ (n - 1 = d - 1 <=> n = d)  BY <1>3
    <3>2. CASE n = d
      <4>1. f + n - 1 = c + 1  BY <1>1, <3>2 DEF d
      <4> QED BY <1>6, <2>3, <2>5, <2>6, <3>1, <3>2, <4>1 DEF t
    <3>3. CASE n # d /\ c < HistoryLines
      <4>1. f + n - 1 = n /\ n \in 1 .. c  BY <1>1, <3>3 DEF d
      <4>2. g[n - 1] = h[n - 1]  BY <1>6, <3>1, <3>3
      <4> QED BY <2>1, <2>3, <2>5, <2>6, <4>1, <4>2
    <3>4. CASE n # d /\ ~(c < HistoryLines)
      <4>1. f + n - 1 = n + 1 /\ n + 1 \in 1 .. c /\ (n + 1) - 1 = n /\ (n - 1) + 1 = n
        BY <1>1, <3>4 DEF d
      <4>2. g[n - 1] = h[n]  BY <1>6, <3>1, <3>4, <4>1
      <4> QED BY <2>1, <2>3, <2>5, <2>6, <4>1, <4>2
    <3> QED BY <3>2, <3>3, <3>4
  <2> QED BY <2>5, <2>6, <2>7 DEF q, t, z
<1> QED BY <1>5, <1>7, <1>8 DEF r

\* the line is not remembered again
Forgets(s) == s.position = 0 \/ (s.count > 0 /\ s.history[s.count - 1] = s.line)

(* shell_push_history either only sets the line that is shown to the end or *)
(* remembers the line.                                                      *)
LEMMA PushIs ==
  ASSUME NEW s \in ShellState, NEW f, Edited(s, f), Remembers(s)
  PROVE  LET r == PushHistory(s)
             b == Kept(s.line, s.position) IN
         /\ r \in ShellState /\ Remembers(r) /\ r.current = r.count
         /\ Clean(b, s.position) /\ b \in LineBuffer
         /\ Past(r) = IF Forgets(s) THEN Past(s) ELSE LastLines(Past(s), CString(b))
PROOF
<1> DEFINE r == PushHistory(s)
           b == Kept(s.line, s.position)
<1>1. /\ s.count \in 0 .. HistoryLines /\ s.count \in Nat /\ HistoryLines \in Nat \ {0}
      /\ s.line \in LineBuffer /\ s.position \in Line
  BY ShellIs
<1>2. b \in LineBuffer /\ Clean(b, s.position)  BY <1>1, KeptIs DEF Edited
<1>3. (IF s.count < HistoryLines THEN s.count - 1 ELSE HistoryLines - 1) = s.count - 1  BY <1>1
<1>4. CASE Forgets(s)
  <2>1. r = [s EXCEPT !.current = s.count]  BY <1>3, <1>4 DEF PushHistory, Forgets
  <2> HIDE DEF r
  <2>2. /\ r \in ShellState /\ r.current = s.count /\ r.count = s.count /\ r.history = s.history
    BY <1>1, <2>1 DEF ShellState
  <2>3. Remembers(r)  BY <1>1, <2>2 DEF Remembers
  <2>4. Past(r) = Past(s)  BY <2>2 DEF Past
  <2> QED BY <1>2, <1>4, <2>2, <2>3, <2>4 DEF r
<1>5. CASE ~Forgets(s)
  <2>1. r = Longer(s, b)  BY <1>3, <1>5 DEF PushHistory, Forgets, Longer
  <2> HIDE DEF b, r
  <2>2. r \in ShellState /\ Remembers(r) /\ r.current = r.count /\ Past(r) = LastLines(Past(s), CString(b))
    BY <1>2, <2>1, LongerIs
  <2> QED BY <1>2, <1>5, <2>2 DEF b, r
<1> QED BY <1>4, <1>5

(* The buffer is empty at first and after a line was entered.               *)
LEMMA BlankIs ==
  Blank \in LineBuffer /\ Clean(Blank, 0) /\ CString(Blank) = << >>
PROOF
<1>1. 0 \in Line /\ \A i \in Line : i \in Nat  BY ShellAssumption DEF Line
<1>2. Blank \in LineBuffer  BY DEF Blank, LineBuffer
<1>3. Clean(Blank, 0)  BY <1>1 DEF Blank, Clean
<1> DEFINE t == CString(Blank)
<1>4. t \in Seq(Printable) /\ Len(t) = 0  BY <1>2, <1>3, CleanIs
<1> HIDE DEF t
<1>5. t = << >>  BY <1>4
<1> QED BY <1>2, <1>3, <1>5 DEF t

(* What the abstract editor does when a line is entered.                    *)
LEMMA EnterIs ==
  ASSUME filled' = FALSE, CString(shell'.line) = << >>, shell'.curpos = 0,
         shell'.current = Len(Past(shell'))
  PROVE  /\ /\ ~filled
            /\ Past(shell') =
                 IF CString(shell.line) = << >>
                    \/ (Past(shell) # << >> /\ Past(shell)[Len(Past(shell))] = CString(shell.line))
                 THEN Past(shell) ELSE LastLines(Past(shell), CString(shell.line))
            => Editor!Enter
         /\ filled /\ Past(shell') = Past(shell) => Editor!EnterSpoilt
         /\ filled => \A n \in 1 .. CmdSize - 1 : \A t \in [1 .. n -> Printable] :
              Past(shell') = LastLines(Past(shell), t) => Editor!EnterSpoilt
PROOF
<1>1. ASSUME ~filled,
             Past(shell') =
               IF CString(shell.line) = << >>
                  \/ (Past(shell) # << >> /\ Past(shell)[Len(Past(shell))] = CString(shell.line))
               THEN Past(shell) ELSE LastLines(Past(shell), CString(shell.line))
      PROVE  Editor!Enter
  BY <1>1 DEF Past, LastLines, Editor!Enter, Editor!Remembered, Editor!LastOf
<1>2. ASSUME filled, Past(shell') = Past(shell)
      PROVE  Editor!EnterSpoilt
  BY <1>2 DEF Past, Editor!EnterSpoilt
<1>3. ASSUME filled, NEW n \in 1 .. CmdSize - 1, NEW t \in [1 .. n -> Printable],
             Past(shell') = LastLines(Past(shell), t)
      PROVE  Editor!EnterSpoilt
  BY <1>3 DEF Past, LastLines, Editor!EnterSpoilt, Editor!LastOf
<1> QED BY <1>1, <1>2, <1>3

(* A line is entered: what the push does to the history and the cleared     *)
(* buffer to the line are one step of the abstract editor.                  *)
LEMMA EnterStep ==
  ASSUME ShellInv, EnterKey
  PROVE  ShellInv' /\ Follows
PROOF
<1> DEFINE r == PushHistory(shell)
           p == shell.position
           b == Kept(shell.line, p)
           s == [r EXCEPT !.line = Blank, !.position = 0, !.curpos = 0]
           q == Past(shell)
           t == CString(shell.line)
<1>1. /\ shell \in ShellState /\ Edited(shell, filled) /\ Remembers(shell) /\ filled \in BOOLEAN
      /\ shell.line \in LineBuffer /\ p \in Line /\ p \in Nat /\ shell.count \in Nat
      /\ p < CmdSize /\ CmdSize \in Nat
  BY ShellIs DEF ShellInv
<1>2. /\ r \in ShellState /\ Remembers(r) /\ r.current = r.count /\ b \in LineBuffer /\ Clean(b, p)
      /\ Past(r) = IF Forgets(shell) THEN q ELSE LastLines(q, CString(b))
  BY <1>1, PushIs
<1>3. Handled(s, FALSE)  BY DEF EnterKey
<1> HIDE DEF r, b
<1>4. 0 \in Line /\ Blank \in LineBuffer /\ Clean(Blank, 0) /\ CString(Blank) = << >>
  BY BlankIs, ShellAssumption DEF Line
<1>5. /\ s \in ShellState /\ s.line = Blank /\ s.position = 0 /\ s.curpos = 0
      /\ s.history = r.history /\ s.count = r.count /\ s.current = r.current
  BY <1>2, <1>4 DEF ShellState
<1> HIDE DEF s
<1>6. /\ shell' \in ShellState /\ filled' = FALSE
      /\ shell'.line = Blank /\ shell'.position = 0 /\ shell'.curpos = 0
      /\ shell'.history = r.history /\ shell'.count = r.count /\ shell'.current = r.current
  BY <1>3, <1>5, HandledIs
<1>7. Remembers(shell') /\ Past(shell') = Past(r)  BY <1>2, <1>6 DEF Remembers, Past
<1>8. Edited(shell', FALSE)  BY <1>4, <1>6 DEF Edited, Clean
<1>9. ShellInv'  BY <1>6, <1>7, <1>8 DEF ShellInv
<1>10. shell'.current = Len(Past(shell')) /\ CString(shell'.line) = << >>
  BY <1>2, <1>4, <1>6, <1>7, PastIs
<1>11. CASE ~filled
  <2>1. Clean(shell.line, p) /\ CString(b) = t  BY <1>1, <1>11, KeptIs DEF Edited, b
  <2>2. t \in Seq(Printable) /\ Len(t) = p  BY <1>1, <2>1, CleanIs
  <2>3. t = << >> <=> p = 0
    <3> HIDE DEF t
    <3> QED BY <1>1, <2>2
  <2>4. q \in Seq(Seq(Printable)) /\ Len(q) = shell.count  BY <1>1, PastIs
  <2>5. q # << >> <=> shell.count > 0
    <3> HIDE DEF q
    <3> QED BY <1>1, <2>4
  <2>6. ASSUME shell.count > 0
        PROVE  q[Len(q)] = t <=> shell.history[shell.count - 1] = shell.line
    <3> DEFINE l == shell.history[shell.count - 1]
    <3>1. shell.count \in 1 .. shell.count  BY <1>1, <2>6
    <3>2. PICK k : l \in LineBuffer /\ Clean(l, k) /\ q[shell.count] = CString(l)
      BY <1>1, <3>1, PastIs
    <3> HIDE DEF l, q
    <3>3. l = shell.line <=> CString(l) = t  BY <1>1, <2>1, <3>2, SameBuffer
    <3> QED BY <2>4, <3>2, <3>3 DEF l
  <2>7. Forgets(shell) <=> t = << >> \/ (q # << >> /\ q[Len(q)] = t)
    BY <1>1, <2>3, <2>5, <2>6 DEF Forgets
  <2>8. Editor!Enter  BY <1>2, <1>6, <1>7, <1>10, <1>11, <2>1, <2>7, EnterIs
  <2> QED BY <1>9, <2>8 DEF Follows, Editor!LineNext
<1>12. CASE filled
  <2>1. CASE Forgets(shell)
    <3>1. Editor!EnterSpoilt  BY <1>2, <1>6, <1>7, <1>10, <1>12, <2>1, EnterIs
    <3> QED BY <1>9, <3>1 DEF Follows, Editor!LineNext
  <2>2. CASE ~Forgets(shell)
    <3>1. p \in 1 .. CmdSize - 1  BY <1>1, <2>2 DEF Forgets
    <3>2. CString(b) \in [1 .. p -> Printable]
      <4> DEFINE u == CString(b)
      <4>1. u \in Seq(Printable) /\ Len(u) = p  BY <1>2, CleanIs
      <4> HIDE DEF u
      <4> QED BY <4>1 DEF u
    <3>3. Editor!EnterSpoilt  BY <1>2, <1>6, <1>7, <1>10, <1>12, <2>2, <3>1, <3>2, EnterIs
    <3> QED BY <1>9, <3>3 DEF Follows, Editor!LineNext
  <2> QED BY <2>1, <2>2
<1> QED BY <1>1, <1>11, <1>12

(* The editor of the shell starts with an empty line and an empty history.  *)
LEMMA ShellStarts ==
  ASSUME ShellInit
  PROVE  ShellInv /\ Editor!LineInit
PROOF
<1>1. 0 \in Line /\ CmdSize \in Nat /\ HistoryLines \in Nat  BY ShellAssumption DEF Line
<1>2. Blank \in LineBuffer /\ Clean(Blank, 0) /\ CString(Blank) = << >>  BY BlankIs
<1>3. shell \in ShellState /\ filled = FALSE
  BY <1>1, <1>2 DEF ShellInit, ShellState, Lines
<1>4. /\ shell.line = Blank /\ shell.position = 0 /\ shell.curpos = 0
      /\ shell.count = 0 /\ shell.current = 0
  BY DEF ShellInit
<1>5. Edited(shell, filled)  BY <1>2, <1>3, <1>4 DEF Edited, Clean
<1>6. Remembers(shell)  BY <1>4 DEF Remembers
<1>7. Past(shell) = << >>
  <2> DEFINE q == Past(shell)
  <2>1. q \in Seq(Seq(Printable)) /\ Len(q) = 0  BY <1>3, <1>4, <1>6, PastIs
  <2> HIDE DEF q
  <2>2. q = << >>  BY <2>1
  <2> QED BY <2>2 DEF q
<1>8. Editor!LineInit  BY <1>2, <1>3, <1>4, <1>7 DEF Editor!LineInit, Past
<1> QED BY <1>3, <1>5, <1>6, <1>8 DEF ShellInv

(* Every key keeps the invariant and is an edit of the abstract line.       *)
LEMMA ShellStep ==
  ASSUME ShellInv, [ShellNext]_shellVars
  PROVE  ShellInv' /\ Follows
PROOF
<1>1. CASE KeyEscape  BY <1>1, NothingStep DEF KeyEscape
<1>2. CASE KeyBracket  BY <1>2, NothingStep DEF KeyBracket
<1>3. CASE UpKey  BY <1>3, UpStep
<1>4. CASE DownKey  BY <1>4, DownStep
<1>5. CASE LeftKey \/ RightKey  BY <1>5, MoveStep
<1>6. CASE TabKey  BY <1>6, TabStep
<1>7. CASE BackspaceKey  BY <1>7, BackspaceStep
<1>8. CASE EnterKey  BY <1>8, EnterStep
<1>9. CASE OtherKey  BY <1>9, NothingStep DEF OtherKey, Handled
<1>10. ASSUME NEW c \in Printable, TypeKey(c) PROVE ShellInv' /\ Follows
  BY <1>10, TypeStep
<1>11. CASE UNCHANGED shellVars
  <2>1. shell' = shell /\ filled' = filled  BY <1>11 DEF shellVars
  <2>2. ShellInv'  BY <2>1 DEF ShellInv
  <2>3. UNCHANGED Editor!lineVars  BY <2>1, StillFollows DEF Alike
  <2> QED BY <2>2, <2>3 DEF Follows
<1> QED BY <1>1, <1>2, <1>3, <1>4, <1>5, <1>6, <1>7, <1>8, <1>9, <1>10, <1>11 DEF ShellNext

(* The buffer of finsh_thread_entry, edited in place, is the line its user  *)
(* sees, and its history the last lines that were entered.                  *)
THEOREM ShellIsEditor == ShellSpec => ShellEdits
PROOF
<1>1. ShellInit => ShellInv /\ Editor!LineInit  BY ShellStarts
<1>2. ShellInv /\ [ShellNext]_shellVars => ShellInv' /\ [Editor!LineNext]_(Editor!lineVars)
  BY ShellStep DEF Follows
<1> QED BY <1>1, <1>2, PTL DEF ShellSpec, ShellEdits, Editor!LineSpec

=============================================================================

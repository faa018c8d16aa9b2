----------------------------- MODULE BoardTimer -----------------------------
(***************************************************************************)
(* Time on the board (src/BSP/TIMER/bsp_timer.c): the software timers, the *)
(* delay and the running time that the SysTick interrupt counts.  A timer  *)
(* has one owner ("the user looks after the ids"); bsp_checktimer tests    *)
(* and clears the flag of a timer with interrupts enabled.                 *)
(***************************************************************************)
EXTENDS Naturals

CONSTANTS
  Timer,        \* the ids 0 .. TMR_CNT - 1
  Period,       \* the periods and delays tasks ask for, in ticks
  RuntimeTop,   \* 0x7FFFFFFF, where getruntime starts again from 0
  ScanEvery,    \* the keys are scanned on every 10th tick
  MaxWait       \* bound: periods of a timer, ticks of a delay, before it is looked at

ASSUME BoardAssumption ==
  /\ Period \subseteq Nat
  /\ RuntimeTop \in Nat \ {0} /\ ScanEvery \in Nat \ {0} /\ MaxWait \in Nat

VARIABLES
  tmr,       \* s_tmr
  delay,     \* delaycnt and timeoutflag, and whether bsp_delayms waits
  runtime,   \* getruntime
  slot,      \* s_count
  clock      \* history: what happened since a timer or a delay was started

boardVars == <<tmr, delay, runtime, slot, clock>>

SoftTimer == [count : Nat, preload : Nat, flag : {0, 1}, auto : BOOLEAN,
              found : BOOLEAN]      \* bsp_checktimer has found the flag set

Stopped == [count |-> 0, preload |-> 0, flag |-> 0, auto |-> FALSE, found |-> FALSE]

\* of a timer that runs: the ticks into its period, the periods that ended and
\* how often it was found over; of bsp_delayms: what was asked for and the ticks
\* since; of the running time: a value that was read and the ticks since
History ==
  [on : [Timer -> BOOLEAN], phase : [Timer -> Nat], ended : [Timer -> Nat],
   told : [Timer -> Nat], asked : Nat, waited : Nat, mark : 0 .. RuntimeTop - 1,
   since : 0 .. RuntimeTop]

NoHistory ==
  [on |-> [t \in Timer |-> FALSE], phase |-> [t \in Timer |-> 0],
   ended |-> [t \in Timer |-> 0], told |-> [t \in Timer |-> 0],
   asked |-> 0, waited |-> 0, mark |-> 0, since |-> 0]

BoardTypeOK ==
  /\ tmr \in [Timer -> SoftTimer]
  /\ delay \in [cnt : Nat, over : {0, 1}, busy : BOOLEAN]
  /\ runtime \in 0 .. RuntimeTop - 1 /\ slot \in 0 .. ScanEvery - 1
  /\ clock \in History

BoardInit ==
  /\ tmr = [t \in Timer |-> Stopped]
  /\ delay = [cnt |-> 0, over |-> 0, busy |-> FALSE]
  /\ runtime = 0 /\ slot = 0 /\ clock = NoHistory

-----------------------------------------------------------------------------
(* Calls of the tasks *)

Started(n, auto) ==
  [count |-> n, preload |-> n, flag |-> 0, auto |-> auto, found |-> FALSE]

Restarted(t, on) ==
  [clock EXCEPT !.on[t] = on, !.phase[t] = 0, !.ended[t] = 0, !.told[t] = 0]

\* bsp_start_timer, bsp_start_autotimer
StartTimer(t, n, auto) ==
  /\ ~tmr[t].found
  /\ tmr' = [tmr EXCEPT ![t] = Started(n, auto)]
  /\ clock' = Restarted(t, n > 0)
  /\ UNCHANGED <<delay, runtime, slot>>

StopTimer(t) ==
  /\ ~tmr[t].found
  /\ tmr' = [tmr EXCEPT ![t].count = 0, ![t].flag = 0, ![t].auto = FALSE]
  /\ clock' = Restarted(t, FALSE)
  /\ UNCHANGED <<delay, runtime, slot>>

\* bsp_checktimer: the flag is tested ...
CheckTimer(t) ==
  /\ ~tmr[t].found /\ tmr[t].flag = 1
  /\ tmr' = [tmr EXCEPT ![t].found = TRUE]
  /\ UNCHANGED <<delay, runtime, slot, clock>>

\* ... and cleared
ClearTimer(t) ==
  /\ tmr[t].found
  /\ tmr' = [tmr EXCEPT ![t].found = FALSE, ![t].flag = 0]
  /\ clock' = [clock EXCEPT !.told[t] = @ + 1]
  /\ UNCHANGED <<delay, runtime, slot>>

Ticks_asGiven(n) == n

\* a delay of 1 tick could end at once
Ticks(n) == IF n = 1 THEN 2 ELSE n

\* bsp_delayms, called by one task at a time; 0 returns at once
DelayBegin(n) ==
  /\ ~delay.busy /\ n > 0
  /\ delay' = [cnt |-> Ticks(n), over |-> 0, busy |-> TRUE]
  /\ clock' = [clock EXCEPT !.asked = n, !.waited = 0]
  /\ UNCHANGED <<tmr, runtime, slot>>

DelayEnd ==
  /\ delay.busy /\ delay.over = 1
  /\ delay' = [delay EXCEPT !.busy = FALSE]
  /\ clock' = [clock EXCEPT !.asked = 0, !.waited = 0]
  /\ UNCHANGED <<tmr, runtime, slot>>

\* bsp_getruntime
ReadRuntime ==
  /\ clock' = [clock EXCEPT !.mark = runtime, !.since = 0]
  /\ UNCHANGED <<tmr, delay, runtime, slot>>

\* bsp_checkruntime
CheckRuntime(last) ==
  IF runtime >= last THEN runtime - last ELSE RuntimeTop - last + runtime

-----------------------------------------------------------------------------
(* SysTick_ISR *)

SoftTimerDec_reloadsLate(m) ==
  IF m.count = 0 THEN [m EXCEPT !.count = IF m.auto THEN m.preload ELSE 0]
  ELSE [m EXCEPT !.count = @ - 1, !.flag = IF m.count = 1 THEN 1 ELSE @]

SoftTimerDec(m) ==
  IF m.count = 0 THEN m
  ELSE IF m.count > 1 THEN [m EXCEPT !.count = @ - 1]
  ELSE [m EXCEPT !.count = IF m.auto THEN m.preload ELSE 0, !.flag = 1]

DelayDec(d) ==
  [d EXCEPT !.cnt = IF @ > 0 THEN @ - 1 ELSE 0, !.over = IF d.cnt = 1 THEN 1 ELSE @]

RuntimeNext(r) == IF r + 1 = RuntimeTop THEN 0 ELSE r + 1

\* the period of t ends with this tick; that of a timer that runs once, once
Counting(t) == clock.on[t] /\ (tmr[t].auto \/ clock.ended[t] = 0)
Ends(t) == Counting(t) /\ clock.phase[t] + 1 = tmr[t].preload

Older ==
  [clock EXCEPT
     !.phase = [t \in Timer |-> IF Ends(t) THEN 0
                                ELSE IF Counting(t) THEN clock.phase[t] + 1 ELSE clock.phase[t]],
     !.ended = [t \in Timer |-> IF Ends(t) THEN clock.ended[t] + 1 ELSE clock.ended[t]],
     !.waited = IF delay.busy THEN @ + 1 ELSE @,
     !.since = IF @ < RuntimeTop THEN @ + 1 ELSE @]

SysTick ==
  /\ \A t \in Timer : clock.ended[t] < MaxWait
  /\ delay.busy => clock.waited < MaxWait
  /\ tmr' = [t \in Timer |-> SoftTimerDec(tmr[t])]
  /\ delay' = DelayDec(delay)
  /\ runtime' = RuntimeNext(runtime)
  /\ slot' = IF slot + 1 >= ScanEvery THEN 0 ELSE slot + 1
  /\ clock' = Older

TimerTask ==
  \/ \E t \in Timer : \/ \E n \in Period, auto \in BOOLEAN : StartTimer(t, n, auto)
                      \/ StopTimer(t) \/ CheckTimer(t) \/ ClearTimer(t)
  \/ (\E n \in Period : DelayBegin(n)) \/ DelayEnd
  \/ ReadRuntime

-----------------------------------------------------------------------------
(* A timer is never found over before its period has passed, never more      *)
(* often than it ended, and a period that ended is not forgotten although    *)
(* the flag is cleared some time after it was tested; an automatic timer     *)
(* keeps its phase however late it is looked at.                             *)
TimerKept(m, c, t) ==
  LET pending == IF m.flag = 1 THEN 1 ELSE 0 IN
  IF c.on[t]
  THEN /\ c.phase[t] < m.preload
       /\ c.told[t] + pending <= c.ended[t]
       /\ c.ended[t] > 0 => c.told[t] + pending > 0
       /\ ~m.auto => c.ended[t] <= 1
       /\ m.count = IF m.auto \/ c.ended[t] = 0 THEN m.preload - c.phase[t] ELSE 0
  ELSE m.flag = 0 /\ c.told[t] = 0

TimersKept == \A t \in Timer : TimerKept(tmr[t], clock, t)

\* "precise to plus or minus 1 ms", and at least one whole tick long
DelayKept ==
  delay.busy =>
    /\ delay.over = 1 => clock.waited > 1 /\ clock.waited >= clock.asked
    /\ clock.waited > clock.asked => delay.over = 1

\* bsp_checkruntime is right across the wrap
RuntimeKept == clock.since < RuntimeTop => CheckRuntime(clock.mark) = clock.since

(* The board's time is kept: timers, delays and differences of running times *)
(* agree with the ticks that have passed.  The period of every timer counts  *)
(* single ticks of 1 ms: the code does not follow the comment at             *)
(* bsp_timer.c:86, which gives that of bsp_start_autotimer in 10 ms.         *)
TimeKept == BoardTypeOK /\ TimersKept /\ DelayKept /\ RuntimeKept

=============================================================================

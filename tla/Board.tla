------------------------------- MODULE Board -------------------------------
(***************************************************************************)
(* What SysTick_Handler (src/rt-thread/bsp/board.c) does for the board on  *)
(* every tick: it counts the software timers, and every ScanEvery ticks it *)
(* scans the keys.  The tasks (TimerTask, KeyTask) run in between; the     *)
(* tick of the kernel, rt_tick_increase, which follows, is in RtThread.    *)
(***************************************************************************)
EXTENDS BoardTimer, Keys

\* SysTick_ISR, with the pins as they are at this tick
SysTick_ISR(pins) ==
  /\ SysTick
  /\ IF slot' = 0 THEN KeyScan(pins) ELSE UNCHANGED keyVars

BoardNext ==
  \/ \E pins \in SUBSET HardKey : SysTick_ISR(pins)
  \/ TimerTask /\ UNCHANGED keyVars
  \/ KeyTask /\ UNCHANGED boardVars

BoardSpec == BoardInit /\ KeysInit /\ [][BoardNext]_<<boardVars, keyVars>>

=============================================================================

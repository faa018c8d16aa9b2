------------------------------ MODULE MCBoard ------------------------------
(***************************************************************************)
(* The board under the kernel: its tick with timers and keys, the shell,   *)
(* and the processor changing threads, each in behaviours of its own.      *)
(* Where the keys are looked at, no timer runs, the pins change between    *)
(* two positions, and all keys have the same repeatspeed.                  *)
(***************************************************************************)
EXTENDS Board, Shell, ContextSwitch

CONSTANTS t1, t2, t3

VARIABLE world    \* what this behaviour is about

allVars == <<world, boardVars, keyVars, shellVars, csVars>>

World ==
  {[part |-> p, pins |-> {{}}, speed |-> 0] : p \in {"timers", "shell", "threads"}}
  \cup {[part |-> "keys", pins |-> p, speed |-> s] :
          p \in {{{}, {0}}, {{0}, {0, 1}}}, s \in RepeatSpeed}

\* names that agree in their first character
Commands == {<<"A", "[">>, <<"A", "A">>}

Init ==
  /\ world \in World
  /\ BoardInit /\ KeysInit /\ ShellInit /\ ContextInit
  /\ \A i \in Key : btn[i].repeatspeed = world.speed

Next ==
  \/ /\ \/ world.part \in {"timers", "keys"} /\ \E pins \in world.pins : SysTick_ISR(pins)
        \/ world.part = "timers" /\ TimerTask /\ UNCHANGED keyVars
        \/ world.part = "keys" /\ KeyTask /\ UNCHANGED boardVars
     /\ UNCHANGED <<world, shellVars, csVars>>
  \/ world.part = "shell" /\ ShellNext /\ UNCHANGED <<world, boardVars, keyVars, csVars>>
  \/ world.part = "threads" /\ ContextNext /\ UNCHANGED <<world, boardVars, keyVars, shellVars>>

Spec == Init /\ [][Next]_allVars /\ ContextFair
=============================================================================

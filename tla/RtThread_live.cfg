\* Liveness while priorities change: sleepers wake, equals take turns, the dead
\* are reaped.
SPECIFICATION FairSpec
CONSTANTS
  main = main
  idle = idle
  a = a
  b = b
  Thread <- ThreeThreads
  Idle = idle
  Main = main
  PrioMax = 3
  InitPrio <- ThreeLevels3
  InitTick <- OneTick
  WaitList = {}
  MaxDelay = 1
  MaxNest = 0
  Static = {idle, a}
  Cleanup = {a}
  NewPrio = {0}
  Rules = {"claims", "timers", "unlocked"}
PROPERTIES
  SleepEnds
  RoundRobin
  DeadAreReaped

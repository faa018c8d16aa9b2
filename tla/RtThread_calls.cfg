\* Every call of thread.c from every thread, the application disciplined.
SPECIFICATION Spec
CONSTANTS
  main = main
  idle = idle
  a = a
  b = b
  Thread <- FourThreads
  Idle = idle
  Main = main
  PrioMax = 3
  InitPrio <- ThreeLevels
  InitTick <- Slices
  WaitList = {}
  MaxDelay = 1
  MaxNest = 1
  Static = {idle, b}
  Cleanup = {}
  NewPrio = {}
  Rules = {"claims", "timers", "unlocked"}
INVARIANTS
  TypeOK
  OneList
  
  
  
PROPERTIES
  NoOvertaking
  HighestRuns

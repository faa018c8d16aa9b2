\* A thread that sleeps is detached while its timer may fire.
SPECIFICATION Spec
CONSTANTS
  main = main
  idle = idle
  a = a
  b = b
  Thread <- ThreeThreads
  Idle = idle
  Main = main
  PrioMax = 3
  InitPrio <- ThreeLevels3
  InitTick <- Slices
  WaitList = {}
  MaxDelay = 1
  MaxNest = 1
  Static = {idle, a}
  Cleanup = {}
  NewPrio = {}
  Rules = {"claims", "unlocked"}
INVARIANTS
  ClosedIsOffQueue

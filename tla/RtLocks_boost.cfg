\* A thread holds two mutexes at once.
SPECIFICATION ObjectsSpec
CONSTANTS
  idle = idle
  low = low
  mid = mid
  mid2 = mid2
  high = high
  sem = sem
  m1 = m1
  m2 = m2
  mb = mb
  sndq = sndq
  msgq = msgq
  ev = ev
  Worlds = {{m1, m2}}
  Users <- Started
  Thread <- Threads
  Idle = idle
  Main = high
  PrioMax = 4
  InitPrio <- Priorities
  InitTick <- OneTick
  WaitList = {m1, m2}
  MaxDelay = 1
  MaxNest = 0
  Static = {idle}
  Cleanup = {}
  NewPrio = {}
  Rules = {}
  Object = {m1, m2}
  Private <- Senders
  None = None
  Flag <- Flags
  WaitTime = {2}
  Deletable = {}
  Semaphore = {}
  Value0 <- OnePermit
  Modulus = 8
  MaxSupply = 0
  Mutex = {m1, m2}
  MaxHold = 1
  Mailbox = {}
  Queue = {}
  Mail = {v1, v2}
  UrgentMail = {v2}
  Size = 2
  EventSet = {}
  Event = {e1, e2}
INVARIANTS
  PriorityRestored

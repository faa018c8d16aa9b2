\* A semaphore or a mutex, three threads, timeouts, interrupts, deletion.
SPECIFICATION ObjectsSpec
CONSTANTS
  idle = idle
  low = low
  mid = mid
  mid2 = mid2
  high = high
  sem = sem
  m1 = m1
  m2 = m2
  mb = mb
  sndq = sndq
  msgq = msgq
  ev = ev
  Worlds = {{sem}, {m1}}
  Users <- Started
  Thread <- Threads
  Idle = idle
  Main = high
  PrioMax = 4
  InitPrio <- Priorities
  InitTick <- OneTick
  WaitList = {sem, m1}
  MaxDelay = 1
  MaxNest = 0
  Static = {idle}
  Cleanup = {}
  NewPrio = {}
  Rules = {}
  Object = {sem, m1}
  Private <- Senders
  None = None
  Flag <- Flags
  WaitTime = {0, 1, 2}
  Deletable = {sem, m1}
  Semaphore = {sem}
  Value0 <- OnePermit
  Modulus = 8
  MaxSupply = 1
  Mutex = {m1}
  MaxHold = 2
  Mailbox = {}
  Queue = {}
  Mail = {v1, v2}
  UrgentMail = {v2}
  Size = 2
  EventSet = {}
  Event = {e1, e2}
INVARIANTS
  PermitsConserved
  OneOwner
  OwnerInherits
  PriorityRestored
PROPERTIES
  FifoServed
  ImplementsPermit

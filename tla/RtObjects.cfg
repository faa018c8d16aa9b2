\* A mailbox, a message queue or an event object, two threads and interrupts.
SPECIFICATION ObjectsSpec
CONSTANTS
  idle = idle
  low = low
  mid = mid
  mid2 = mid2
  high = high
  sem = sem
  m1 = m1
  m2 = m2
  mb = mb
  sndq = sndq
  msgq = msgq
  ev = ev
  Worlds = {{mb}, {msgq}, {ev}}
  Users <- Started
  Thread <- TwoThreads
  Idle = idle
  Main = high
  PrioMax = 3
  InitPrio <- Priorities
  InitTick <- OneTick
  WaitList = {mb, sndq, msgq, ev}
  MaxDelay = 1
  MaxNest = 0
  Static = {idle}
  Cleanup = {}
  NewPrio = {}
  Rules = {}
  Object = {mb, msgq, ev}
  Private <- Senders
  None = None
  Flag <- Flags
  WaitTime = {0, 1, 2}
  Deletable = {mb, msgq, ev}
  Semaphore = {}
  Value0 <- OnePermit
  Modulus = 8
  MaxSupply = 0
  Mutex = {}
  MaxHold = 0
  Mailbox = {mb}
  Queue = {msgq}
  Mail = {v1, v2}
  UrgentMail = {v2}
  Size = 2
  EventSet = {ev}
  Event = {e1, e2}
INVARIANTS
  DeletedHasNoWaiter
  BlocksConserved
  NoSleepBesideMail
  NobodySleepsOverEvents
PROPERTIES
  ConsumedOnce
  ChannelsDeliver

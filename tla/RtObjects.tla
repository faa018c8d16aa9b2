------------------------------ MODULE RtObjects ------------------------------
(***************************************************************************)
(* The IPC objects of RT-Thread together (src/rt-thread/src/ipc.c): an     *)
(* application that has created the objects of one of Worlds and started   *)
(* the threads that use them, under the scheduler, the tick and the        *)
(* interrupt handlers.                                                     *)
(***************************************************************************)
EXTENDS RtSemaphore, RtMutex, RtMail, RtEvent

CONSTANTS
  Worlds,     \* the sets of objects an application may have
  Users       \* Users[w]: the threads it has started then

ASSUME ObjectsAssumption ==
  /\ Worlds \subseteq SUBSET Object
  /\ \A w \in Worlds : Users[w] \subseteq Thread /\ Idle \in Users[w]
  /\ IsFiniteSet(Thread)

\* an object is of one kind
ASSUME KindAssumption ==
  /\ Semaphore \cap Mutex = {} /\ EventSet \cap (Semaphore \cup Mutex) = {}
  /\ (Mailbox \cup Queue) \cap (Semaphore \cup Mutex \cup EventSet) = {}

objectVars == <<ipcVars, semVars, mutex, mailVars, eventVars>>

ObjectsInit ==
  /\ alive \in Worlds /\ IpcIdle(Users[alive])
  /\ SemInit /\ MutexInit /\ MailEmpty /\ NoEvents

SemStep ==
  /\ (\E t \in Thread : SemCall(t) \/ SemTakeReturn(t)) \/ SemHandler
  /\ UNCHANGED <<mutex, mailVars, eventVars>>

MutexStep ==
  /\ \E t \in Thread : MutexCall(t) \/ MutexTakeReturn(t)
  /\ UNCHANGED <<semVars, mailVars, eventVars>>

MailStep ==
  /\ (\E t \in Thread : MailCall(t) \/ MailInside(t)) \/ MailHandler \/ MailTick
  /\ UNCHANGED <<semVars, mutex, eventVars>>

EventStep ==
  /\ (\E t \in Thread : EventCall(t) \/ EventReturn(t)) \/ EventHandler
  /\ UNCHANGED <<semVars, mutex, mailVars>>

ThreadsStep ==
  /\ \E t \in Thread : InIpc(t) \/ Delays(t)
  /\ UNCHANGED <<semVars, mutex, mailVars, eventVars>>

ObjectsNext == SemStep \/ MutexStep \/ MailStep \/ EventStep \/ ThreadsStep

ObjectsSpec == ObjectsInit /\ [][ObjectsNext]_objectVars

-----------------------------------------------------------------------------
(* First come, first served.  A waiter is not passed by one behind him,      *)
(* unless that one gives up (rt_event_send is free to resume any waiter      *)
(* whose events have come).  Waiters keep their order, and a newcomer stands *)
(* behind them all; with RT_IPC_FLAG_PRIO he goes past the last ones, from   *)
(* one on that is less urgent than he.                                       *)
FifoServed ==
  [][\A q \in WaitList :
       LET w == kern.list[Wait(q)]
           r == kern'.list[Wait(q)]
       IN r # w => \A x, y \in Thread :
            /\ q \notin EventSet /\ Before(w, x, y) /\ Contains(r, x) /\ ~Contains(r, y)
                 => kern'.error[y] # "ok"
            /\ Before(r, x, y) /\ Contains(w, y)
                 => \/ Before(w, x, y)
                    \/ /\ Flag[q] = "prio" /\ ~Contains(w, x)
                       /\ \E z \in Thread : /\ Before(r, x, z) /\ (z = y \/ Before(r, z, y))
                                           /\ kern'.prio[x] < kern'.prio[z]]_objectVars

=============================================================================

------------------------------- MODULE RtMutex -------------------------------
(***************************************************************************)
(* Mutexes of RT-Thread with priority inheritance (src/rt-thread/src:      *)
(* ipc.c), under the scheduler: nested takes, timeouts of waiters,         *)
(* hand-over to a waiter, several mutexes held at once, and the deletion   *)
(* of a mutex that threads wait on.                                        *)
(***************************************************************************)
EXTENDS RtIpc

CONSTANTS
  Mutex,      \* the mutexes
  MaxHold     \* bound: the depth of nested takes

ASSUME MutexAssumption ==
  Mutex \subseteq Object /\ MaxHold \in Nat /\ None \notin Thread

VARIABLE mutex      \* mutex[m]: the fields of a mutex object

mutexVars == <<ipcVars, mutex>>

NoPrio == PrioMax   \* 0xFF, the priority of no thread

MutexState ==
  [ value : {0, 1},
    owner : Thread \cup {None},
    original : Prio \cup {NoPrio},    \* original_priority
    hold  : Nat ]

MutexTypeOK == IpcTypeOK /\ mutex \in [Mutex -> MutexState]

Unowned == [value |-> 1, owner |-> None, original |-> NoPrio, hold |-> 0]

MutexInit == mutex = [m \in Mutex |-> Unowned]

\* t becomes the owner; its priority now is the one it gets back
Owned(t, depth) ==
  [value |-> 0, owner |-> t, original |-> kern.prio[t], hold |-> depth]

-----------------------------------------------------------------------------
(* rt_mutex_take *)

ClearError(t) == [kern EXCEPT !.error[t] = "ok"]

MutexTakeAgain(t, m) ==
  /\ Uses(t, m)
  /\ mutex[m].owner = t /\ mutex[m].hold < MaxHold
  /\ mutex' = [mutex EXCEPT ![m].hold = @ + 1]
  /\ kern' = ClearError(t)
  /\ UNCHANGED <<call, isr, waitVars>>

MutexTakeFree(t, m) ==
  /\ Uses(t, m)
  /\ mutex[m].owner # t /\ mutex[m].value > 0
  /\ mutex' = [mutex EXCEPT ![m] = Owned(t, mutex[m].hold + 1)]
  /\ kern' = ClearError(t)
  /\ UNCHANGED <<call, isr, waitVars>>

Busy(t, m) == mutex[m].owner # t /\ mutex[m].value = 0

MutexTakeRefused(t, m) ==
  /\ Uses(t, m) /\ Busy(t, m) /\ 0 \in WaitTime
  /\ kern' = [kern EXCEPT !.error[t] = "timeout"]
  /\ UNCHANGED <<call, isr, waitVars, mutex>>

\* the owner inherits the priority of a more urgent waiter
Inherit_never(t, m) == ClearError(t)

Inherit(t, m) ==
  LET owner == mutex[m].owner IN
  IF kern.prio[t] < kern.prio[owner]
  THEN ChangePriority(ClearError(t), owner, kern.prio[t])
  ELSE ClearError(t)

MutexTakeWait(t, m, n) ==
  /\ Uses(t, m) /\ Busy(t, m)
  /\ WaitOn(Inherit(t, m), t, m, n)
  /\ UNCHANGED mutex

\* the owner was set in rt_mutex_release; an error ends the wait without it
MutexTakeReturn(t) ==
  /\ Woken(t) /\ want[t] \in Mutex /\ WaitOver(t)
  /\ UNCHANGED <<kern, mutex>>

(* rt_mutex_release *)

MutexReleaseRefused(t, m) ==
  /\ Uses(t, m)
  /\ mutex[m].owner # t
  /\ kern' = [kern EXCEPT !.error[t] = "error"]
  /\ UNCHANGED <<call, isr, waitVars, mutex>>

MutexReleaseInner(t, m) ==
  /\ Uses(t, m)
  /\ mutex[m].owner = t /\ mutex[m].hold > 1
  /\ mutex' = [mutex EXCEPT ![m].hold = @ - 1]
  /\ UNCHANGED ipcVars

Disinherit_never(t, m) == kern

Disinherit(t, m) ==
  IF mutex[m].original # kern.prio[t]
  THEN ChangePriority(kern, t, mutex[m].original) ELSE kern

NextOwner_notSet(t, m) == mutex[m]

\* the first waiter, or nobody
NextOwner(t, m) ==
  IF Waiting(kern, m) THEN Owned(Head(kern.list[Wait(m)]), 1) ELSE Unowned

MutexRelease(t, m) ==
  /\ Uses(t, m)
  /\ mutex[m].owner = t /\ mutex[m].hold = 1
  /\ LET k == Disinherit(t, m) IN
     ThenSchedule(t, Woke(k, m), Waiting(kern, m))
  /\ mutex' = [mutex EXCEPT ![m] = NextOwner(t, m)]

-----------------------------------------------------------------------------
MutexCall(t) ==
  \E m \in Mutex :
    \/ MutexTakeAgain(t, m) \/ MutexTakeFree(t, m) \/ MutexTakeRefused(t, m)
    \/ (\E n \in WaitTime : MutexTakeWait(t, m, n))
    \/ MutexReleaseRefused(t, m) \/ MutexReleaseInner(t, m) \/ MutexRelease(t, m)
    \/ (DeleteBegin(t, m) /\ UNCHANGED mutex)

-----------------------------------------------------------------------------
(* The fields of a mutex agree: it is free, unowned and not held, or owned   *)
(* and held; only an owned mutex has waiters, the owner not among them.  A   *)
(* thread that was resumed without an error owns the mutex it was waiting    *)
(* for, even if it has not run since: nobody can slip in between, and a      *)
(* timeout that comes late does not take the mutex away.                     *)
OneOwner ==
  /\ MutexTypeOK
  /\ \A t \in Thread, m \in Mutex \cap alive : Served(t, m) => mutex[m].owner = t
  /\ \A m \in Mutex :
       /\ mutex[m].value = 1 <=> mutex[m].owner = None
       /\ mutex[m].value = 1 <=> mutex[m].hold = 0
       /\ mutex[m].value = 1 <=> mutex[m].original = NoPrio
       /\ m \in alive /\ Waiting(kern, m) =>
            mutex[m].owner # None /\ ~Contains(kern.list[Wait(m)], mutex[m].owner)

(* Priority inheritance: the owner of a mutex is at least as urgent as every *)
(* thread that waits for it.                                                 *)
OwnerInherits ==
  \A m \in Mutex \cap alive : \A t \in Thread :
    Contains(kern.list[Wait(m)], t) => kern.prio[mutex[m].owner] <= kern.prio[t]

(* "change the owner thread to original priority" (ipc.c:815): a thread that *)
(* has released every mutex has the priority it was created with (one whose  *)
(* mutex was deleted under it has not released it, and keeps what it has).   *)
PriorityRestored ==
  \A t \in Thread :
    (\A m \in Mutex : mutex[m].owner # t) => kern.prio[t] = InitPrio[t]

=============================================================================

----------------------------- MODULE RtSemaphore -----------------------------
(***************************************************************************)
(* Counting semaphores of RT-Thread (src/rt-thread/src/ipc.c) under the    *)
(* scheduler: takers of all priorities, with and without a timeout,        *)
(* releases from threads and from interrupt handlers, reset and deletion   *)
(* of a semaphore that threads wait on.                                    *)
(***************************************************************************)
EXTENDS RtIpc, FiniteSets

CONSTANTS
  Semaphore,    \* the semaphores
  Value0,       \* the initial value of each semaphore
  Modulus,      \* the value field is 16 bits wide: 2^16, or a small bound
  MaxSupply     \* bound: the permits of a semaphore

ASSUME SemAssumption ==
  /\ Semaphore \subseteq Object
  /\ Modulus \in Nat \ {0} /\ Value0 \in [Semaphore -> 0 .. Modulus - 1]
  /\ MaxSupply \in Nat

VARIABLES
  value,    \* sem->value
  held,     \* held[t][s]: permits t has taken and not released
  supply    \* the permits there should be

semVars == <<value, held, supply>>
allSemVars == <<ipcVars, semVars>>

SemTypeOK ==
  /\ IpcTypeOK
  /\ value \in [Semaphore -> 0 .. Modulus - 1]
  /\ held \in [Thread -> [Semaphore -> Nat]]
  /\ supply \in [Semaphore -> Nat]

SemInit ==
  /\ value = Value0 /\ supply = Value0
  /\ held = [t \in Thread |-> [s \in Semaphore |-> 0]]

-----------------------------------------------------------------------------
(* rt_sem_take; with a time of 0 and no permit it changes nothing *)

SemTakeNow(t, s) ==
  /\ Uses(t, s)
  /\ value[s] > 0
  /\ value' = [value EXCEPT ![s] = @ - 1]
  /\ held' = [held EXCEPT ![t][s] = @ + 1]
  /\ UNCHANGED <<ipcVars, supply>>

SemTakeWait(t, s, n) ==
  /\ Uses(t, s)
  /\ value[s] = 0
  /\ WaitOn(kern, t, s, n)
  /\ UNCHANGED semVars

SemTakeReturn_ignoresError(t) ==
  /\ Woken(t) /\ want[t] \in Semaphore /\ WaitOver(t)
  /\ held' = [held EXCEPT ![t][want[t]] = @ + 1]
  /\ UNCHANGED <<kern, value, supply>>

\* thread->error says how the wait ended
SemTakeReturn(t) ==
  /\ Woken(t) /\ want[t] \in Semaphore /\ WaitOver(t)
  /\ held' = IF kern.error[t] = "ok"
             THEN [held EXCEPT ![t][want[t]] = @ + 1] ELSE held
  /\ UNCHANGED <<kern, value, supply>>

(* rt_sem_release: hand the permit to the first waiter, or count it *)

SemCounted_always(s) == [value EXCEPT ![s] = (@ + 1) % Modulus]

\* sem->value ++ on 16 bits
SemCounted(s) == IF Waiting(kern, s) THEN value ELSE [value EXCEPT ![s] = (@ + 1) % Modulus]

\* by a thread: of a permit it has taken, or of a new one
SemRelease(t, s) ==
  /\ Uses(t, s)
  /\ \/ /\ held[t][s] > 0
        /\ held' = [held EXCEPT ![t][s] = @ - 1] /\ UNCHANGED supply
     \/ /\ supply[s] < MaxSupply
        /\ supply' = [supply EXCEPT ![s] = @ + 1] /\ UNCHANGED held
  /\ value' = SemCounted(s)
  /\ ThenSchedule(t, Woke(kern, s), Waiting(kern, s))

\* by an interrupt handler: a new permit
SemSignal(s) ==
  /\ InHandler(s, s)
  /\ supply[s] < MaxSupply
  /\ supply' = [supply EXCEPT ![s] = @ + 1]
  /\ value' = SemCounted(s)
  /\ UNCHANGED held

(* rt_sem_control(s, RT_IPC_CMD_RESET, v) *)
SemReset(t, s, v) ==
  /\ Uses(t, s) /\ s \in Deletable
  /\ supply[s] + v <= MaxSupply + value[s]
  /\ value' = [value EXCEPT ![s] = v]
  /\ supply' = [supply EXCEPT ![s] = @ + v - value[s]]
  /\ ThenSchedule(t, ResumeAll(kern, s), TRUE)
  /\ UNCHANGED held

-----------------------------------------------------------------------------
SemCall(t) ==
  \E s \in Semaphore :
    \/ SemTakeNow(t, s) \/ SemRelease(t, s)
    \/ (\E n \in WaitTime : SemTakeWait(t, s, n))
    \/ (\E v \in 0 .. Value0[s] : SemReset(t, s, v))
    \/ (DeleteBegin(t, s) /\ UNCHANGED semVars)

SemHandler == \E s \in Semaphore : SemSignal(s)

-----------------------------------------------------------------------------
(* Permits are neither lost nor made up: what the semaphore counts, what     *)
(* threads hold and what is on its way to a woken thread add up to what was  *)
(* put in, whatever timeouts, priorities and interrupts do in between.       *)
PermitsConserved ==
  /\ SemTypeOK
  /\ \A s \in Semaphore \cap alive :
    value[s] + Cardinality({t \in Thread : Served(t, s)})
             + FoldFunction(+, 0, [t \in Thread |-> held[t][s]]) = supply[s]

-----------------------------------------------------------------------------
(* The abstract state of a semaphore (see Permit): a permit belongs to a     *)
(* waiter as soon as rt_sem_release has handed it over.                      *)

Has(s) == [t \in Thread \ {Idle} |-> held[t][s] + (IF Served(t, s) THEN 1 ELSE 0)]

Waiters(s) == {t \in Thread : Contains(kern.list[Wait(s)], t)}

SemPermit(s) == INSTANCE Permit WITH
  Client <- Thread \ {Idle}, free <- value[s], has <- Has(s), waiting <- Waiters(s)

(* Every step of the kernel is a step of the abstract semaphore: a permit    *)
(* handed over in rt_sem_release belongs to the woken thread at once, and a  *)
(* timeout or a deletion only ever takes a waiter away.  (This says          *)
(* SemPermit(s)!PermitSpec of every s, in a form that TLC checks.)           *)
ImplementsPermit ==
  /\ \A s \in Semaphore : SemPermit(s)!PermitInit
  /\ [][\A s \in Semaphore : [SemPermit(s)!PermitNext]_(SemPermit(s)!permitVars)]_allSemVars

=============================================================================

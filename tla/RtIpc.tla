-------------------------------- MODULE RtIpc --------------------------------
(***************************************************************************)
(* What the IPC objects of RT-Thread have in common (src/rt-thread/src:    *)
(* ipc.c): threads that wait on an object with or without a timeout while  *)
(* the tick goes on, and the deletion of an object that threads wait on.   *)
(*                                                                         *)
(* A call that waits goes through the places of a sleeping thread,         *)
(* "block" before rt_schedule and "woken" after it, and want[t] names the  *)
(* object.  The modules of the objects EXTEND this one.                    *)
(***************************************************************************)
EXTENDS RtThread

CONSTANTS
  Object,       \* the IPC objects, each with a suspend list of its own name
  Private,      \* the second suspend list of a mailbox, suspend_sender_thread
  None,         \* no object, no list
  Flag,         \* the order of each suspend list, "fifo" or "prio"
  WaitTime,     \* the timeouts calls ask for, in ticks; Forever may be one
  Deletable     \* objects the application detaches, deletes or resets

ASSUME IpcAssumption ==
  /\ Object \subseteq WaitList /\ None \notin WaitList
  /\ Private \in [Object -> (WaitList \ Object) \cup {None}]
  /\ \A o, p \in Object : Private[o] = Private[p] /\ Private[o] # None => o = p
  /\ Flag \in [WaitList -> {"fifo", "prio"}]
  /\ WaitTime \subseteq 0 .. Forever
  /\ Deletable \subseteq Object

VARIABLES
  want,     \* the suspend list a thread waits on, or is emptying
  alive,    \* the objects that exist
  wild      \* rt_ipc_list_resume_all took the list head for a thread

waitVars == <<want, alive, wild>>
ipcVars == <<kern, call, isr, waitVars>>

IpcPlace == Place \cup {"resume_all", "resume_one", "fill", "copy"}

IpcTypeOK ==
  /\ kern \in KernelState
  /\ call \in [Thread -> [at : IpcPlace, on : Thread]]
  /\ isr \in {"none", "timers"}
  /\ want \in [Thread -> WaitList \cup {None}]
  /\ alive \subseteq Object
  /\ wild \in BOOLEAN

IpcIdle(S) ==
  /\ kern = Up(S) /\ isr = "none"
  /\ call = [t \in Thread |-> InApp]
  /\ want = [t \in Thread |-> None]
  /\ wild = FALSE

-----------------------------------------------------------------------------
\* t is in application code and calls about o
Uses(t, o) == Runs(t, "app") /\ t # Idle /\ o \in alive

\* t waits on the list q for at most n ticks, in kernel state k
WaitOn(k, t, q, n) ==
  /\ n > 0 /\ MayBlock
  /\ kern' = Block(k, q, t, Flag[q], n)
  /\ Goto(t, "block", Idle)
  /\ want' = [want EXCEPT ![t] = q]
  /\ UNCHANGED <<isr, alive, wild>>

\* t is back from rt_schedule in a call that waits
Woken(t) == Runs(t, "woken") /\ want[t] # None

WaitOver(t) ==
  /\ want' = [want EXCEPT ![t] = None]
  /\ Return(t)
  /\ UNCHANGED <<isr, alive, wild>>

\* kern' is k, and the call ends with rt_schedule if somebody was resumed
ThenSchedule(t, k, resumed) ==
  /\ kern' = k
  /\ IF resumed THEN Goto(t, "schedule", Idle) ELSE Return(t)
  /\ want' = [want EXCEPT ![t] = None]
  /\ UNCHANGED <<isr, alive, wild>>

\* the first waiter on q, if there is one, is resumed
Woke(k, q) == IF Waiting(k, q) THEN IpcResume(k, q) ELSE k

\* an interrupt handler calls: rt_schedule is part of the handler
InHandler(o, q) ==
  /\ isr = "none" /\ o \in alive
  /\ kern' = IF Waiting(kern, q) THEN Schedule(IpcResume(kern, q)) ELSE kern
  /\ UNCHANGED <<call, isr, waitVars>>

(* rt_..._detach, rt_..._delete: the emptiness test of the loop of           *)
(* rt_ipc_list_resume_all runs with interrupts enabled.  The application     *)
(* makes no new call about the object by then.                               *)
DeleteBegin(t, o) ==
  /\ Uses(t, o) /\ o \in Deletable
  /\ alive' = alive \ {o}
  /\ want' = [want EXCEPT ![t] = o]
  /\ Goto(t, "resume_all", Idle)
  /\ UNCHANGED <<kern, isr, wild>>

ResumeAllTest_never(t) ==
  /\ Runs(t, "resume_all")
  /\ Return(t) /\ want' = [want EXCEPT ![t] = None]
  /\ UNCHANGED <<kern, isr, alive, wild>>

NextList_one(q) == None

\* a mailbox has two lists to empty
NextList(q) == IF q \in Object THEN Private[q] ELSE None

ResumeAllTest(t) ==
  /\ Runs(t, "resume_all")
  /\ \/ /\ Waiting(kern, want[t])
        /\ Goto(t, "resume_one", Idle) /\ UNCHANGED want
     \/ /\ ~Waiting(kern, want[t])
        /\ want' = [want EXCEPT ![t] = NextList(want[t])]
        /\ IF NextList(want[t]) = None THEN Return(t) ELSE UNCHANGED call
  /\ UNCHANGED <<kern, isr, alive, wild>>

\* with the list empty the list head is taken for a thread: wild.  The error
\* code and the links that are then written through it, into memory behind the
\* object, are not modelled
ResumeAllOne(t) ==
  /\ Runs(t, "resume_one")
  /\ IF Waiting(kern, want[t])
     THEN kern' = ResumeWithError(kern, want[t]) /\ UNCHANGED wild
     ELSE wild' = TRUE /\ UNCHANGED kern
  /\ Goto(t, "resume_all", Idle)
  /\ UNCHANGED <<isr, want, alive>>

Delays(t) ==
  /\ (\E n \in 0 .. MaxDelay : Sleep(t, n)) \/ (want[t] = None /\ Slept(t))
  /\ UNCHANGED waitVars

InIpc(t) ==
  \/ (Reschedule(t) /\ UNCHANGED waitVars)
  \/ (SleepSchedule(t) /\ UNCHANGED waitVars)
  \/ ResumeAllTest(t) \/ ResumeAllOne(t)

IpcTick == Interrupt /\ UNCHANGED waitVars

-----------------------------------------------------------------------------
\* t was resumed from the list q, and its call has not gone on yet
Served(t, q) ==
  /\ want[t] = q /\ call[t].at \in {"block", "woken"}
  /\ ~Contains(kern.list[Wait(q)], t) /\ kern.error[t] = "ok"

(* "wakeup all suspend threads" (ipc.c:174): rt_ipc_list_resume_all resumes  *)
(* threads, never the list head.                                             *)
NoWildResume == ~wild

(* Nobody is left behind on a list of an object that was deleted.            *)
DeletedHasNoWaiter ==
  \A o \in Object \ alive : \A q \in {o, Private[o]} \ {None} : Waiting(kern, q) =>
    \E t \in Thread : want[t] \in {o, q} /\ call[t].at \in {"resume_all", "resume_one"}

=============================================================================

------------------------------- MODULE RtEvent -------------------------------
(***************************************************************************)
(* Event sets of RT-Thread (src/rt-thread/src/ipc.c).  A thread waits for  *)
(* all or for one of a set of events; one rt_event_send looks at every     *)
(* waiter, in the order of the suspend list, and a waiter it resumes may   *)
(* clear the events it got.                                                *)
(***************************************************************************)
EXTENDS RtIpc

CONSTANTS
  EventSet,    \* the event objects
  Event        \* the bits of rt_uint32_t set

ASSUME EventAssumption == EventSet \subseteq Object

VARIABLES
  events,      \* events[e]: event->set
  interest     \* interest[t]: event_set and event_info of the thread

eventVars == <<events, interest>>
allEventVars == <<ipcVars, eventVars>>

Interest == [set : SUBSET Event, all : BOOLEAN, clear : BOOLEAN]

EventTypeOK ==
  /\ IpcTypeOK
  /\ events \in [EventSet -> SUBSET Event] /\ interest \in [Thread -> Interest]

NoInterest == [set |-> {}, all |-> FALSE, clear |-> FALSE]

NoEvents ==
  /\ events = [e \in EventSet |-> {}]
  /\ interest = [t \in Thread |-> NoInterest]

-----------------------------------------------------------------------------
\* RT_EVENT_FLAG_AND wins over RT_EVENT_FLAG_OR
Satisfied(s, w) == IF w.all THEN w.set \subseteq s ELSE w.set \cap s # {}

Matched(s, w) == w.set \cap s

Told_clearsLater(a, t) ==
  LET w == a.info[t] IN
  IF Satisfied(a.set, w)
  THEN [k |-> Resume(a.k, t), set |-> a.set, info |-> [a.info EXCEPT ![t].set = Matched(a.set, w)]]
  ELSE a

\* rt_event_send looks at the waiter t: a holds the kernel state, the events
\* that are left and the fields of the threads
Told(a, t) ==
  LET w == a.info[t]
      r == Matched(a.set, w)
  IN IF Satisfied(a.set, w)
     THEN [ k |-> Resume(a.k, t),
            set |-> IF w.clear THEN a.set \ r ELSE a.set,
            info |-> [a.info EXCEPT ![t].set = r] ]
     ELSE a

Delivered_firstOnly(e, s) ==
  LET a == [k |-> kern, set |-> events[e] \cup s, info |-> interest]
  IN IF Waiting(kern, e) THEN Told(a, Head(kern.list[Wait(e)])) ELSE a

Delivered(e, s) ==
  FoldLeft(Told, [k |-> kern, set |-> events[e] \cup s, info |-> interest], kern.list[Wait(e)])

EventSend(t, e, s) ==
  LET d == Delivered(e, s) IN
  /\ Uses(t, e)
  /\ ThenSchedule(t, d.k, d.k # kern)
  /\ events' = [events EXCEPT ![e] = d.set]
  /\ interest' = d.info

\* by an interrupt handler
EventPost(e, s) ==
  LET d == Delivered(e, s) IN
  /\ isr = "none" /\ e \in alive
  /\ kern' = IF d.k # kern THEN Schedule(d.k) ELSE kern
  /\ events' = [events EXCEPT ![e] = d.set]
  /\ interest' = d.info
  /\ UNCHANGED <<call, isr, waitVars>>

(* rt_event_recv; a call that would wait and has no time reports a timeout  *)

EventNow(t, e, w) ==
  /\ Uses(t, e)
  /\ Satisfied(events[e], w)
  /\ events' = IF w.clear THEN [events EXCEPT ![e] = @ \ w.set] ELSE events
  /\ kern' = [kern EXCEPT !.error[t] = "ok"]
  /\ UNCHANGED <<call, isr, waitVars, interest>>

EventRefused(t, e, w) ==
  /\ Uses(t, e)
  /\ ~Satisfied(events[e], w) /\ 0 \in WaitTime
  /\ kern' = [kern EXCEPT !.error[t] = "timeout"]
  /\ UNCHANGED <<call, isr, waitVars, eventVars>>

EventWait(t, e, w, n) ==
  /\ Uses(t, e)
  /\ ~Satisfied(events[e], w)
  /\ WaitOn(kern, t, e, n)
  /\ interest' = [interest EXCEPT ![t] = w]
  /\ UNCHANGED events

\* event_set now holds what was received, if the wait did not fail
EventReturn(t) ==
  /\ Woken(t) /\ want[t] \in EventSet
  /\ WaitOver(t)
  /\ interest' = [interest EXCEPT ![t] = NoInterest]
  /\ UNCHANGED <<kern, events>>

\* rt_event_control(e, RT_IPC_CMD_RESET)
EventReset(t, e) ==
  /\ Uses(t, e) /\ e \in Deletable
  /\ ThenSchedule(t, ResumeAll(kern, e), TRUE)
  /\ events' = [events EXCEPT ![e] = {}]
  /\ UNCHANGED interest

-----------------------------------------------------------------------------
EventCall(t) ==
  \E e \in EventSet :
    \/ \E s \in SUBSET Event \ {{}} : EventSend(t, e, s)
    \/ \E w \in {i \in Interest : i.set # {}} :
         \/ EventNow(t, e, w) \/ EventRefused(t, e, w)
         \/ \E n \in WaitTime : EventWait(t, e, w, n)
    \/ EventReset(t, e)
    \/ (DeleteBegin(t, e) /\ UNCHANGED eventVars)

EventHandler ==
  \E e \in EventSet : \E s \in SUBSET Event \ {{}} : EventPost(e, s)

-----------------------------------------------------------------------------
(* Nobody sleeps over its events: a thread on the suspend list of an event   *)
(* object waits for something that has not happened, whoever cleared what in *)
(* between.                                                                  *)
NobodySleepsOverEvents ==
  /\ EventTypeOK
  /\ \A e \in EventSet, t \in Thread :
       Contains(kern.list[Wait(e)], t) => ~Satisfied(events[e], interest[t])

(* An event is consumed once: of the threads one rt_event_send resumes, two  *)
(* that clear what they get never get the same event.                        *)
ConsumedOnce ==
  [][\A e \in EventSet : \A t, u \in Thread :
       LET resumed(x) == /\ Contains(kern.list[Wait(e)], x) /\ interest[x].clear
                         /\ ~Contains(kern'.list[Wait(e)], x) /\ kern'.error[x] = "ok"
       IN t # u /\ resumed(t) /\ resumed(u)
            => interest'[t].set \cap interest'[u].set = {}]_allEventVars

=============================================================================

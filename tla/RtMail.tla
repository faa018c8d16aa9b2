------------------------------- MODULE RtMail -------------------------------
(***************************************************************************)
(* Mailboxes and message queues of RT-Thread (src/rt-thread/src/ipc.c).    *)
(*                                                                         *)
(* A call that has to wait is only told that something has changed: when   *)
(* it runs again it tests again, waits again for the rest of its time, or  *)
(* gives up.  A mailbox is a ring and has a second suspend list for its    *)
(* senders; a message queue hands out blocks, which are filled and read    *)
(* with interrupts enabled.                                                *)
(***************************************************************************)
EXTENDS RtIpc, FiniteSets

CONSTANTS
  Mailbox, Queue,   \* the mailboxes and the message queues
  Mail,             \* what is sent
  UrgentMail,       \* the mails sent by rt_mq_urgent
  Size              \* the mails a mailbox holds, the blocks a queue has

ASSUME MailAssumption ==
  /\ Mailbox \cup Queue \subseteq Object /\ Mailbox \cap Queue = {}
  /\ \A m \in Mailbox : Private[m] # None
  /\ Size \in Nat \ {0} /\ None \notin Mail /\ UrgentMail \subseteq Mail

Message == 1 .. Size
NoMessage == 0

VARIABLES
  box,    \* box[m]: the fields of a mailbox
  mq,     \* mq[q]: the fields of a message queue
  job     \* job[t]: the local variables of an unfinished call of t

mailVars == <<box, mq, job>>
allMailVars == <<ipcVars, mailVars>>

BoxState ==
  [ pool : [0 .. Size - 1 -> Mail \cup {None}],   \* None once the mail is read
    in : 0 .. Size - 1, out : 0 .. Size - 1, entry : 0 .. Size ]

QueueState ==
  [ free : Seq(Message), queue : Seq(Message), entry : 0 .. Size,
    text : [Message -> Mail \cup {None}] ]

Job == [ mail : Mail \cup {None}, time : 0 .. Forever, waited : 0 .. MaxDelay,
         block : Message \cup {NoMessage} ]

MailTypeOK ==
  /\ IpcTypeOK
  /\ box \in [Mailbox -> BoxState] /\ mq \in [Queue -> QueueState]
  /\ job \in [Thread -> Job]

NoJob == [mail |-> None, time |-> 0, waited |-> 0, block |-> NoMessage]

EmptyBox == [pool |-> [i \in 0 .. Size - 1 |-> None], in |-> 0, out |-> 0, entry |-> 0]

\* rt_mq_init puts every block at the head of the free list
EmptyQueue ==
  [free |-> [i \in Message |-> Size + 1 - i], queue |-> << >>, entry |-> 0,
   text |-> [b \in Message |-> None]]

MailEmpty ==
  /\ box = [m \in Mailbox |-> EmptyBox] /\ mq = [q \in Queue |-> EmptyQueue]
  /\ job = [t \in Thread |-> NoJob]

-----------------------------------------------------------------------------
(* Waiting, and testing again *)

Starts(t, j) == job' = [job EXCEPT ![t] = j]

Ends(t) == job' = [job EXCEPT ![t] = NoJob]

\* t waits on the list w for n ticks, counted anew
WaitMail(t, w, n, j) ==
  /\ WaitOn(kern, t, w, n)
  /\ Starts(t, [j EXCEPT !.time = n, !.waited = 0])
  /\ UNCHANGED <<box, mq>>

\* timeout - (rt_tick_get() - tick_delta), not below 0
Remaining(t) ==
  IF job[t].time = Forever THEN Forever
  ELSE IF job[t].waited > job[t].time THEN 0 ELSE job[t].time - job[t].waited

\* t is back from rt_schedule and was not told to give up
Tries(t, w) == Woken(t) /\ want[t] = w /\ kern.error[t] = "ok"

MailList == Mailbox \cup Queue \cup {Private[m] : m \in Mailbox}

\* the wait ended with a timeout or with an error
WaitFailed(t) ==
  /\ Woken(t) /\ want[t] \in MailList /\ kern.error[t] # "ok"
  /\ WaitOver(t) /\ Ends(t)
  /\ UNCHANGED <<kern, box, mq>>

\* the time is over and there is still nothing to do; a receiver says timeout
Exhausted(t, error) ==
  /\ Remaining(t) = 0
  /\ kern' = [kern EXCEPT !.error[t] = error]
  /\ WaitOver(t) /\ Ends(t)
  /\ UNCHANGED <<box, mq>>

-----------------------------------------------------------------------------
(* Mailboxes *)

Full(m) == box[m].entry = Size

After(i) == IF i + 1 >= Size THEN 0 ELSE i + 1

Put_keepsIn(b, v) == [b EXCEPT !.pool[b.in] = v, !.entry = @ + 1]

Put(b, v) == [b EXCEPT !.pool[b.in] = v, !.in = After(@), !.entry = @ + 1]

Got(b) == [b EXCEPT !.pool[b.out] = None, !.out = After(@), !.entry = @ - 1]

Sent(t, m, v) ==
  /\ ~Full(m)
  /\ box' = [box EXCEPT ![m] = Put(@, v)]
  /\ ThenSchedule(t, Woke(kern, m), Waiting(kern, m))
  /\ Ends(t) /\ UNCHANGED mq

Received_wakesNobody(t, m) ==
  /\ box[m].entry > 0
  /\ box' = [box EXCEPT ![m] = Got(@)]
  /\ ThenSchedule(t, kern, FALSE)
  /\ Ends(t) /\ UNCHANGED mq

Received(t, m) ==
  /\ box[m].entry > 0
  /\ box' = [box EXCEPT ![m] = Got(@)]
  /\ ThenSchedule(t, Woke(kern, Private[m]), Waiting(kern, Private[m]))
  /\ Ends(t) /\ UNCHANGED mq

\* rt_mb_send, rt_mb_send_wait; a full mailbox and no time: nothing changes
BoxSend(t, m, v, n) ==
  /\ Uses(t, m)
  /\ \/ Sent(t, m, v)
     \/ Full(m) /\ WaitMail(t, Private[m], n, [NoJob EXCEPT !.mail = v])

BoxSendAgain(t, m) ==
  /\ Tries(t, Private[m])
  /\ \/ Sent(t, m, job[t].mail)
     \/ Full(m) /\ Exhausted(t, "ok")
     \/ Full(m) /\ WaitMail(t, Private[m], Remaining(t), job[t])

\* rt_mb_recv
BoxReceive(t, m, n) ==
  /\ Uses(t, m)
  /\ \/ Received(t, m)
     \/ box[m].entry = 0 /\ WaitMail(t, m, n, NoJob)

BoxReceiveAgain(t, m) ==
  /\ Tries(t, m)
  /\ \/ Received(t, m)
     \/ box[m].entry = 0 /\ Exhausted(t, "timeout")
     \/ box[m].entry = 0 /\ WaitMail(t, m, Remaining(t), job[t])

\* rt_mb_send by an interrupt handler
BoxPost(m, v) ==
  /\ ~Full(m) /\ InHandler(m, m)
  /\ box' = [box EXCEPT ![m] = Put(@, v)]
  /\ UNCHANGED <<mq, job>>

\* rt_mb_control(m, RT_IPC_CMD_RESET)
BoxReset(t, m) ==
  /\ Uses(t, m) /\ m \in Deletable
  /\ ThenSchedule(t, ResumeAll(ResumeAll(kern, m), Private[m]), TRUE)
  /\ box' = [box EXCEPT ![m] = EmptyBox]
  /\ UNCHANGED <<mq, job>>

-----------------------------------------------------------------------------
(* Message queues *)

Allocated(q) == [q EXCEPT !.free = Tail(@)]

LinkedIn_atTail(q, b, v) ==
  [q EXCEPT !.text[b] = v, !.entry = @ + 1, !.queue = Append(@, b)]

\* filled with v and linked; an urgent message goes first
LinkedIn(q, b, v) ==
  [q EXCEPT !.text[b] = v, !.entry = @ + 1,
            !.queue = IF v \in UrgentMail THEN <<b>> \o @ ELSE Append(@, b)]

\* rt_mq_send, rt_mq_urgent: take a block, if there is one ...
QueueSend(t, q, v) ==
  /\ Uses(t, q) /\ mq[q].free # << >>
  /\ mq' = [mq EXCEPT ![q] = Allocated(@)]
  /\ Starts(t, [NoJob EXCEPT !.mail = v, !.block = Head(mq[q].free)])
  /\ want' = [want EXCEPT ![t] = q] /\ Goto(t, "fill", Idle)
  /\ UNCHANGED <<kern, isr, alive, wild, box>>

\* ... fill it with interrupts enabled, and link it
QueueLink(t, q) ==
  /\ Runs(t, "fill") /\ want[t] = q
  /\ mq' = [mq EXCEPT ![q] = LinkedIn(@, job[t].block, job[t].mail)]
  /\ ThenSchedule(t, Woke(kern, q), Waiting(kern, q))
  /\ Ends(t) /\ UNCHANGED box

\* both by an interrupt handler
QueuePost(q, v) ==
  /\ mq[q].free # << >> /\ InHandler(q, q)
  /\ mq' = [mq EXCEPT ![q] = LinkedIn(Allocated(@), Head(@.free), v)]
  /\ UNCHANGED <<box, job>>

Unlinked_freed(q) ==
  [q EXCEPT !.queue = Tail(@), !.entry = @ - 1, !.free = <<Head(q.queue)>> \o @]

Unlinked(q) == [q EXCEPT !.queue = Tail(@), !.entry = @ - 1]

\* rt_mq_recv: take the first message out ...
Fetch(t, q) ==
  /\ mq[q].entry > 0
  /\ mq' = [mq EXCEPT ![q] = Unlinked(@)]
  /\ Starts(t, [NoJob EXCEPT !.block = Head(mq[q].queue)])
  /\ want' = [want EXCEPT ![t] = q] /\ Goto(t, "copy", Idle)
  /\ UNCHANGED <<kern, isr, alive, wild, box>>

QueueReceive(t, q, n) ==
  /\ Uses(t, q)
  /\ \/ Fetch(t, q)
     \/ mq[q].entry = 0 /\ WaitMail(t, q, n, NoJob)

QueueReceiveAgain(t, q) ==
  /\ Tries(t, q)
  /\ \/ Fetch(t, q)
     \/ mq[q].entry = 0 /\ Exhausted(t, "timeout")
     \/ mq[q].entry = 0 /\ WaitMail(t, q, Remaining(t), job[t])

\* ... copy it with interrupts enabled, and free its block
QueueRead(t, q) ==
  /\ Runs(t, "copy") /\ want[t] = q
  /\ mq' = [mq EXCEPT ![q].text[job[t].block] = None, ![q].free = <<job[t].block>> \o @]
  /\ Return(t) /\ want' = [want EXCEPT ![t] = None] /\ Ends(t)
  /\ UNCHANGED <<kern, isr, alive, wild, box>>

\* rt_mq_control(q, RT_IPC_CMD_RESET)
QueueReset(t, q) ==
  /\ Uses(t, q) /\ q \in Deletable
  /\ ThenSchedule(t, ResumeAll(kern, q), TRUE)
  /\ mq' = [mq EXCEPT ![q].free = Reverse(mq[q].queue) \o @, ![q].queue = << >>,
                      ![q].entry = 0,
                      ![q].text = [b \in Message |-> IF Contains(mq[q].queue, b)
                                                   THEN None ELSE @[b]]]
  /\ UNCHANGED <<box, job>>

-----------------------------------------------------------------------------
\* an object is deleted only while its callers all wait (its memory goes away)
AllWait(o) ==
  \A t \in Thread : want[t] \in {o, NextList(o)} \ {None} =>
    \E l \in {o, NextList(o)} \ {None} : Contains(kern.list[Wait(l)], t)

MailDelete(t, o) ==
  /\ AllWait(o) /\ DeleteBegin(t, o)
  /\ UNCHANGED mailVars

MailTick ==
  /\ IpcTick
  /\ job' = IF isr = "none"
            THEN [t \in Thread |-> IF want[t] # None /\ job[t].time \in 1 .. MaxDelay
                                      /\ job[t].waited < MaxDelay
                                   THEN [job[t] EXCEPT !.waited = @ + 1] ELSE job[t]]
            ELSE job
  /\ UNCHANGED <<box, mq>>

MailCall(t) ==
  \/ \E m \in Mailbox : \/ \E n \in WaitTime : (\E v \in Mail : BoxSend(t, m, v, n))
                                               \/ BoxReceive(t, m, n)
                        \/ BoxReset(t, m)
  \/ \E q \in Queue : \/ \E v \in Mail : QueueSend(t, q, v)
                      \/ \E n \in WaitTime : QueueReceive(t, q, n)
                      \/ QueueReset(t, q)
  \/ \E o \in Mailbox \cup Queue : MailDelete(t, o)

MailInside(t) ==
  \/ \E m \in Mailbox : BoxSendAgain(t, m) \/ BoxReceiveAgain(t, m)
  \/ \E q \in Queue : QueueLink(t, q) \/ QueueRead(t, q) \/ QueueReceiveAgain(t, q)
  \/ WaitFailed(t)

MailHandler ==
  \E v \in Mail : (\E m \in Mailbox : BoxPost(m, v)) \/ (\E q \in Queue : QueuePost(q, v))

-----------------------------------------------------------------------------
(* The rings and the lists stay within their bounds, and every block of a    *)
(* queue is in one place: free, in the queue, or in the hands of one call    *)
(* between its two masked sections; and the entry counter that says whether  *)
(* there is a message agrees with the list.                                  *)
BlocksConserved ==
  /\ MailTypeOK
  /\ \A q \in Queue :
       LET holders == {t \in Thread : want[t] = q /\ job[t].block # NoMessage}
           all == mq[q].free \o mq[q].queue
       IN /\ IsInjective(all) /\ mq[q].entry = Len(mq[q].queue)
          /\ \A t \in holders : ~Contains(all, job[t].block)
          /\ Len(all) + Cardinality(holders) = Size

(* No lost wake-up: when mails lie in a mailbox or queue that receivers wait *)
(* for, as many receivers are on their way to them; when a mailbox has room  *)
(* that senders wait for, as many senders are.                               *)
NoSleepBesideMail ==
  LET coming(w) == Cardinality({t \in Thread : Served(t, w)}) IN
  /\ \A m \in Mailbox :
       /\ Waiting(kern, m) => box[m].entry <= coming(m)
       /\ Waiting(kern, Private[m]) => Size - box[m].entry <= coming(Private[m])
  /\ \A q \in Queue : Waiting(kern, q) => mq[q].entry <= coming(q)

-----------------------------------------------------------------------------
(* The abstract channel (see Channel) of a mailbox and of a queue *)

BoxMails(m) ==
  [i \in 1 .. box[m].entry |-> box[m].pool[(box[m].out + i - 1) % Size]]

QueueMails(q) == [i \in 1 .. Len(mq[q].queue) |-> mq[q].text[mq[q].queue[i]]]

Taken(q) ==
  [t \in Thread |-> IF call[t].at = "copy" /\ want[t] = q
                    THEN mq[q].text[job[t].block] ELSE None]

BoxChannel(m) == INSTANCE Channel WITH
  Client <- Thread, NoMail <- None, Room <- Size, Losable <- TRUE, UrgentMail <- {},
  queue <- BoxMails(m), inHand <- [t \in Thread |-> None]

QueueChannel(q) == INSTANCE Channel WITH
  Client <- Thread, NoMail <- None, Room <- Size, Losable <- TRUE,
  queue <- QueueMails(q), inHand <- Taken(q)

BoxDelivers(m) == [BoxChannel(m)!ChannelNext]_(BoxChannel(m)!channelVars)
QueueDelivers(q) == [QueueChannel(q)!ChannelNext]_(QueueChannel(q)!channelVars)

(* Mailboxes and message queues are channels: the ring and the list of       *)
(* blocks deliver what was sent in order, urgent messages first, each once,  *)
(* and nobody overwrites a block that is being read.  (This says             *)
(* ChannelSpec of each of them, in a form that TLC checks.)                  *)
ChannelsDeliver ==
  /\ \A m \in Mailbox : BoxChannel(m)!ChannelInit
  /\ \A q \in Queue : QueueChannel(q)!ChannelInit
  /\ [][/\ \A m \in Mailbox : BoxDelivers(m)
        /\ \A q \in Queue : QueueDelivers(q)]_allMailVars

=============================================================================

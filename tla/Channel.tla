------------------------------- MODULE Channel -------------------------------
(***************************************************************************)
(* What a mailbox or a message queue promises: mails come out in the order *)
(* they went in, each once and unchanged, except that an urgent mail goes  *)
(* first; there is room for so many.  A receiver may take a mail first and *)
(* read it later.                                                          *)
(***************************************************************************)
EXTENDS Sequences, Naturals

CONSTANTS Client, Mail, UrgentMail, NoMail, Room,
  Losable    \* whether all mails may be thrown away at once

VARIABLES
  queue,    \* the mails, the oldest first
  inHand    \* inHand[c]: the mail client c has taken and not read yet

channelVars == <<queue, inHand>>

ChannelInit == queue = << >> /\ inHand = [c \in Client |-> NoMail]

Post(v) ==
  /\ Len(queue) < Room
  /\ queue' = IF v \in UrgentMail THEN <<v>> \o queue ELSE Append(queue, v)
  /\ UNCHANGED inHand

Collect(c) ==
  /\ queue # << >> /\ inHand[c] = NoMail
  /\ queue' = Tail(queue)
  /\ UNCHANGED inHand \/ inHand' = [inHand EXCEPT ![c] = Head(queue)]

Read(c) ==
  /\ inHand[c] # NoMail
  /\ inHand' = [inHand EXCEPT ![c] = NoMail]
  /\ UNCHANGED queue

Clear == Losable /\ queue' = << >> /\ UNCHANGED inHand

ChannelNext ==
  \/ \E v \in Mail : Post(v)
  \/ \E c \in Client : Collect(c) \/ Read(c)
  \/ Clear

ChannelSpec == ChannelInit /\ [][ChannelNext]_channelVars

=============================================================================

--------------------------- MODULE RtMail_proofs ---------------------------
(***************************************************************************)
(* Mailboxes and message queues among the other objects of ipc.c implement *)
(* the abstract channel, for every number of threads, objects and blocks.  *)
(* ChanInv adds to ObjInv what their order rests on: the indices of a ring *)
(* agree with its count, and whoever is about to send has his mail.        *)
(***************************************************************************)
EXTENDS RtObjects_proofs

-----------------------------------------------------------------------------
(* The ring of a mailbox *)

\* i slots behind slot o of a ring
Behind(o, i) == IF o + i < Size THEN o + i ELSE o + i - Size

(* The slots of a ring, one behind the other.                               *)
LEMMA BehindIs ==
  ASSUME NEW o \in 0 .. Size - 1
  PROVE  /\ \A i \in 0 .. Size : Behind(o, i) \in 0 .. Size - 1
         /\ \A i \in 1 .. Size : (o + i - 1) % Size = Behind(o, i - 1)
         /\ \A i \in 0 .. Size - 1 : After(Behind(o, i)) = Behind(o, i + 1)
         /\ \A i \in 0 .. Size - 1 : Behind(After(o), i) = Behind(o, i + 1)
         /\ \A i, j \in 0 .. Size - 1 : Behind(o, i) = Behind(o, j) => i = j
         /\ Behind(o, 0) = o
PROOF
<1>1. Size \in Nat \ {0} /\ o \in Nat /\ o < Size  BY MailAssumption
<1>2. ASSUME NEW i \in 1 .. Size PROVE (o + i - 1) % Size = Behind(o, i - 1)
  <2>1. CASE o + i - 1 < Size  BY <1>1, <2>1 DEF Behind
  <2>2. CASE ~(o + i - 1 < Size)  BY <1>1, <2>2 DEF Behind
  <2> QED BY <2>1, <2>2
<1>3. /\ \A i \in 0 .. Size : Behind(o, i) \in 0 .. Size - 1
      /\ \A i, j \in 0 .. Size - 1 : Behind(o, i) = Behind(o, j) => i = j
      /\ Behind(o, 0) = o
  BY <1>1 DEF Behind
<1>4. /\ \A i \in 0 .. Size - 1 : After(Behind(o, i)) = Behind(o, i + 1)
      /\ \A i \in 0 .. Size - 1 : Behind(After(o), i) = Behind(o, i + 1)
  BY <1>1 DEF Behind, After
<1> QED BY <1>2, <1>3, <1>4

\* the offsets of a mailbox agree with its count
Ring(b) == b.in = Behind(b.out, b.entry)

\* the mails in a mailbox, the oldest first
Mails(b) == [i \in 1 .. b.entry |-> b.pool[Behind(b.out, i - 1)]]

(* The fields of a mailbox and its mails.                                   *)
LEMMA MailsIs ==
  ASSUME NEW b \in BoxState
  PROVE  /\ Mails(b) \in Seq(Mail \cup {None}) /\ Len(Mails(b)) = b.entry
         /\ b.entry \in 0 .. Size /\ b.entry \in Nat /\ Size \in Nat \ {0}
         /\ b.pool \in [0 .. Size - 1 -> Mail \cup {None}]
         /\ b.out \in 0 .. Size - 1 /\ b.in \in 0 .. Size - 1
         /\ \A i \in 1 .. b.entry : /\ Mails(b)[i] = b.pool[Behind(b.out, i - 1)]
                                    /\ Mails(b)[i] = b.pool[(b.out + i - 1) % Size]
PROOF
<1>1. /\ b.pool \in [0 .. Size - 1 -> Mail \cup {None}] /\ b.out \in 0 .. Size - 1
      /\ b.in \in 0 .. Size - 1 /\ b.entry \in 0 .. Size /\ Size \in Nat \ {0} /\ b.entry \in Nat
  BY MailAssumption DEF BoxState
<1>2. \A i \in 1 .. b.entry : i \in 1 .. Size /\ i - 1 \in 0 .. Size  BY <1>1
<1>3. \A i \in 1 .. b.entry : b.pool[Behind(b.out, i - 1)] \in Mail \cup {None}
  BY <1>1, <1>2, BehindIs
<1>4. \A i \in 1 .. b.entry : (b.out + i - 1) % Size = Behind(b.out, i - 1)
  BY <1>1, <1>2, BehindIs
<1>5. /\ Mails(b) \in Seq(Mail \cup {None}) /\ Len(Mails(b)) = b.entry
      /\ \A i \in 1 .. b.entry : Mails(b)[i] = b.pool[Behind(b.out, i - 1)]
  BY <1>1, <1>3 DEF Mails
<1> QED BY <1>1, <1>4, <1>5

(* A mail that is sent comes behind the others.                             *)
LEMMA MailsPut ==
  ASSUME NEW b \in BoxState, Ring(b), b.entry # Size, NEW v \in Mail
  PROVE  Ring(Put(b, v)) /\ Mails(Put(b, v)) = Append(Mails(b), v)
PROOF
<1> DEFINE s == Put(b, v)
           c == Append(Mails(b), v)
<1>1. s \in BoxState /\ s.entry = b.entry + 1  BY PutIs
<1>2. /\ s.out = b.out /\ s.in = After(b.in) /\ s.pool = [b.pool EXCEPT ![b.in] = v]
  BY DEF Put, BoxState
<1> HIDE DEF s
<1>3. /\ Mails(b) \in Seq(Mail \cup {None}) /\ Len(Mails(b)) = b.entry
      /\ b.entry \in 0 .. Size - 1 /\ b.entry \in Nat /\ Size \in Nat \ {0}
      /\ b.pool \in [0 .. Size - 1 -> Mail \cup {None}] /\ b.in \in 0 .. Size - 1
      /\ b.out \in 0 .. Size - 1
      /\ \A i \in 1 .. b.entry : Mails(b)[i] = b.pool[Behind(b.out, i - 1)]
  BY MailsIs
<1>4. /\ Mails(s) \in Seq(Mail \cup {None}) /\ Len(Mails(s)) = b.entry + 1
      /\ \A i \in 1 .. b.entry + 1 : Mails(s)[i] = s.pool[Behind(b.out, i - 1)]
  <2>1. /\ Mails(s) \in Seq(Mail \cup {None}) /\ Len(Mails(s)) = s.entry
        /\ \A i \in 1 .. s.entry : Mails(s)[i] = s.pool[Behind(s.out, i - 1)]
    BY <1>1, MailsIs
  <2> QED BY <1>1, <1>2, <2>1
<1>5. b.in = Behind(b.out, b.entry)  BY DEF Ring
<1>6. Ring(s)
  <2>1. After(Behind(b.out, b.entry)) = Behind(b.out, b.entry + 1)  BY <1>3, BehindIs
  <2> QED BY <1>1, <1>2, <1>5, <2>1 DEF Ring
<1>7. /\ c \in Seq(Mail \cup {None}) /\ Len(c) = b.entry + 1 /\ c[b.entry + 1] = v
      /\ \A i \in 1 .. b.entry : c[i] = Mails(b)[i]
  BY <1>3, AppendProperties
<1> HIDE DEF c
<1>8. \A i \in 1 .. b.entry + 1 : Mails(s)[i] = c[i]
  <2> TAKE i \in 1 .. b.entry + 1
  <2>1. CASE i = b.entry + 1
    <3>1. i - 1 = b.entry  BY <1>3, <2>1
    <3> QED BY <1>2, <1>3, <1>4, <1>5, <1>7, <2>1, <3>1
  <2>2. CASE i # b.entry + 1
    <3>1. i \in 1 .. b.entry /\ i - 1 \in 0 .. Size - 1 /\ i - 1 # b.entry
      BY <1>3, <2>2
    <3>2. Behind(b.out, i - 1) # b.in /\ Behind(b.out, i - 1) \in 0 .. Size - 1
      <4>1. b.entry \in 0 .. Size - 1 /\ i - 1 \in 0 .. Size  BY <1>3, <3>1
      <4>2. Behind(b.out, i - 1) \in 0 .. Size - 1  BY <1>3, <4>1, BehindIs
      <4>3. Behind(b.out, i - 1) = Behind(b.out, b.entry) => i - 1 = b.entry
        BY <1>3, <3>1, <4>1, BehindIs
      <4> QED BY <1>5, <3>1, <4>2, <4>3
    <3>3. s.pool[Behind(b.out, i - 1)] = b.pool[Behind(b.out, i - 1)]  BY <1>2, <1>3, <3>2
    <3>4. c[i] = b.pool[Behind(b.out, i - 1)]  BY <1>3, <1>7, <3>1
    <3> QED BY <1>4, <3>3, <3>4
  <2> QED BY <2>1, <2>2
<1>9. Mails(s) = c  BY <1>4, <1>7, <1>8, SeqEqual
<1> QED BY <1>6, <1>9 DEF s, c

(* The mail that is received is the oldest one.                             *)
LEMMA MailsGot ==
  ASSUME NEW b \in BoxState, Ring(b), b.entry > 0
  PROVE  Ring(Got(b)) /\ Mails(Got(b)) = Tail(Mails(b)) /\ Mails(b) # << >>
PROOF
<1> DEFINE s == Got(b)
           c == Tail(Mails(b))
<1>1. s \in BoxState /\ s.entry = b.entry - 1  BY GotIs
<1>2. /\ s.out = After(b.out) /\ s.in = b.in /\ s.pool = [b.pool EXCEPT ![b.out] = None]
  BY DEF Got, BoxState
<1> HIDE DEF s
<1>3. /\ Mails(b) \in Seq(Mail \cup {None}) /\ Len(Mails(b)) = b.entry
      /\ b.entry \in 1 .. Size /\ b.entry \in Nat /\ Size \in Nat \ {0}
      /\ b.pool \in [0 .. Size - 1 -> Mail \cup {None}] /\ b.in \in 0 .. Size - 1
      /\ b.out \in 0 .. Size - 1 /\ b.entry - 1 \in 0 .. Size - 1 /\ (b.entry - 1) + 1 = b.entry
      /\ \A i \in 1 .. b.entry : Mails(b)[i] = b.pool[Behind(b.out, i - 1)]
  BY MailsIs
<1>4. /\ Mails(s) \in Seq(Mail \cup {None}) /\ Len(Mails(s)) = b.entry - 1
      /\ \A i \in 1 .. b.entry - 1 : Mails(s)[i] = s.pool[Behind(After(b.out), i - 1)]
  <2>1. /\ Mails(s) \in Seq(Mail \cup {None}) /\ Len(Mails(s)) = s.entry
        /\ \A i \in 1 .. s.entry : Mails(s)[i] = s.pool[Behind(s.out, i - 1)]
    BY <1>1, MailsIs
  <2> QED BY <1>1, <1>2, <2>1
<1>5. b.in = Behind(b.out, b.entry)  BY DEF Ring
<1>6. Ring(s)
  <2>1. Behind(After(b.out), b.entry - 1) = Behind(b.out, (b.entry - 1) + 1)  BY <1>3, BehindIs
  <2> QED BY <1>1, <1>2, <1>3, <1>5, <2>1 DEF Ring
<1>7. /\ c \in Seq(Mail \cup {None}) /\ Len(c) = b.entry - 1 /\ Mails(b) # << >>
      /\ \A i \in 1 .. b.entry - 1 : c[i] = Mails(b)[i + 1]
  BY <1>3
<1> HIDE DEF c
<1>8. \A i \in 1 .. b.entry - 1 : Mails(s)[i] = c[i]
  <2> TAKE i \in 1 .. b.entry - 1
  <2>1. /\ i - 1 \in 0 .. Size - 1 /\ (i - 1) + 1 = i /\ i \in 0 .. Size - 1 /\ i # 0
        /\ i + 1 \in 1 .. b.entry /\ (i + 1) - 1 = i /\ 0 \in 0 .. Size - 1
    BY <1>3
  <2>2. Behind(After(b.out), i - 1) = Behind(b.out, i)
    <3>1. Behind(After(b.out), i - 1) = Behind(b.out, (i - 1) + 1)  BY <1>3, <2>1, BehindIs
    <3> QED BY <2>1, <3>1
  <2>3. Behind(b.out, i) # b.out /\ Behind(b.out, i) \in 0 .. Size - 1
    <3>1. Behind(b.out, 0) = b.out /\ (Behind(b.out, i) = Behind(b.out, 0) => i = 0)
      BY <1>3, <2>1, BehindIs
    <3>2. i \in 0 .. Size  BY <1>3, <2>1
    <3> QED BY <1>3, <2>1, <3>1, <3>2, BehindIs
  <2>4. Mails(b)[i + 1] = b.pool[Behind(b.out, i)]  BY <1>3, <2>1
  <2> QED BY <1>2, <1>3, <1>4, <1>7, <2>1, <2>2, <2>3, <2>4
<1>9. Mails(s) = c  BY <1>3, <1>4, <1>7, <1>8, SeqEqual
<1> QED BY <1>6, <1>7, <1>9 DEF s, c

(* A mailbox is empty at first and after rt_mb_control(RESET).              *)
LEMMA MailsNone == Ring(EmptyBox) /\ Mails(EmptyBox) = << >>
PROOF
<1>1. EmptyBox.out = 0 /\ EmptyBox.in = 0 /\ EmptyBox.entry = 0  BY DEF EmptyBox
<1>2. Size \in Nat \ {0}  BY MailAssumption
<1>3. Ring(EmptyBox)  BY <1>1, <1>2 DEF Ring, Behind
<1>4. Len(Mails(EmptyBox)) = 0 /\ Mails(EmptyBox) \in Seq(Mail \cup {None})
  BY <1>1, EmptyBoxIs, MailsIs
<1> QED BY <1>3, <1>4

-----------------------------------------------------------------------------
(* The messages of a queue *)

\* what stands in the blocks of a queue, the oldest first
Texts(r) == [i \in 1 .. Len(r.queue) |-> r.text[r.queue[i]]]

(* The fields of a queue and its messages.                                  *)
LEMMA TextsAre ==
  ASSUME NEW r \in QueueRec
  PROVE  /\ Texts(r) \in Seq(Mail \cup {None}) /\ Len(Texts(r)) = Len(r.queue)
         /\ r.queue \in Seq(Message) /\ Len(r.queue) \in Nat
         /\ r.text \in [Message -> Mail \cup {None}]
         /\ \A i \in 1 .. Len(r.queue) : /\ Texts(r)[i] = r.text[r.queue[i]]
                                         /\ r.queue[i] \in Message
PROOF
<1>1. /\ r.queue \in Seq(Message) /\ r.text \in [Message -> Mail \cup {None}]
      /\ Len(r.queue) \in Nat
  BY QueueFields
<1>2. \A i \in 1 .. Len(r.queue) : r.queue[i] \in Message /\ r.text[r.queue[i]] \in Mail \cup {None}
  BY <1>1
<1> QED BY <1>1, <1>2 DEF Texts

(* The blocks in the queue decide what the messages are.                    *)
LEMMA TextsSame ==
  ASSUME NEW r \in QueueRec, NEW s \in QueueRec, s.queue = r.queue,
         \A b \in Message : Contains(r.queue, b) => s.text[b] = r.text[b]
  PROVE  Texts(s) = Texts(r)
PROOF
<1>1. /\ \A i \in 1 .. Len(r.queue) : Texts(r)[i] = r.text[r.queue[i]] /\ r.queue[i] \in Message
      /\ \A i \in 1 .. Len(s.queue) : Texts(s)[i] = s.text[s.queue[i]]
      /\ Texts(r) \in Seq(Mail \cup {None}) /\ Len(Texts(r)) = Len(r.queue)
      /\ Texts(s) \in Seq(Mail \cup {None}) /\ Len(Texts(s)) = Len(s.queue)
  BY TextsAre
<1>2. \A i \in 1 .. Len(r.queue) : Contains(r.queue, r.queue[i])  BY DEF Contains
<1>3. \A i \in 1 .. Len(r.queue) : Texts(s)[i] = Texts(r)[i]  BY <1>1, <1>2
<1> QED BY <1>1, <1>3, SeqEqual

(* A message that is linked comes behind the others, an urgent one before   *)
(* them.                                                                    *)
LEMMA TextsLinked ==
  ASSUME NEW r \in QueueRec, NEW s \in QueueRec, NEW b \in Message, ~Contains(r.queue, b),
         NEW v \in Mail, s.queue = With(r, b, v), Puts(r.text, b, v, s.text)
  PROVE  Texts(s) = IF v \in UrgentMail THEN <<v>> \o Texts(r) ELSE Append(Texts(r), v)
PROOF
<1> DEFINE n == Len(r.queue)
           S == Mail \cup {None}
<1>1. /\ Texts(r) \in Seq(S) /\ Len(Texts(r)) = n /\ r.queue \in Seq(Message) /\ n \in Nat
      /\ r.text \in [Message -> S] /\ v \in S
      /\ \A i \in 1 .. n : Texts(r)[i] = r.text[r.queue[i]] /\ r.queue[i] \in Message
  BY TextsAre
<1>2. \A i \in 1 .. n : r.queue[i] # b  BY DEF Contains
<1>3. s.text[b] = v /\ \A i \in 1 .. n : s.text[r.queue[i]] = Texts(r)[i]
  BY <1>1, <1>2 DEF Puts
<1>4. /\ Texts(s) \in Seq(S) /\ Len(Texts(s)) = Len(s.queue)
      /\ \A i \in 1 .. Len(s.queue) : Texts(s)[i] = s.text[s.queue[i]]
  BY TextsAre
<1> HIDE DEF S
<1>5. CASE v \notin UrgentMail
  <2> DEFINE c == Append(Texts(r), v)
  <2>1. s.queue = Append(r.queue, b)  BY <1>5 DEF With
  <2>2. /\ Len(s.queue) = n + 1 /\ s.queue[n + 1] = b
        /\ \A i \in 1 .. n : s.queue[i] = r.queue[i]
    BY <1>1, <2>1, AppendProperties
  <2>3. /\ c \in Seq(S) /\ Len(c) = n + 1 /\ c[n + 1] = v
        /\ \A i \in 1 .. n : c[i] = Texts(r)[i]
    BY <1>1, AppendProperties
  <2> HIDE DEF c, n
  <2>4. ASSUME NEW i \in 1 .. n + 1 PROVE Texts(s)[i] = c[i]
    <3>1. CASE i = n + 1
      <4>1. i \in 1 .. Len(s.queue)  BY <2>2
      <4> QED BY <1>3, <1>4, <2>2, <2>3, <3>1, <4>1
    <3>2. CASE i # n + 1
      <4>1. i \in 1 .. n /\ i \in 1 .. Len(s.queue)  BY <1>1, <2>2, <3>2
      <4> QED BY <1>3, <1>4, <2>2, <2>3, <4>1
    <3> QED BY <3>1, <3>2
  <2>5. Texts(s) = c  BY <1>4, <2>2, <2>3, <2>4, SeqEqual
  <2> QED BY <1>5, <2>5 DEF c
<1>6. CASE v \in UrgentMail
  <2> DEFINE c == <<v>> \o Texts(r)
  <2>1. s.queue = <<b>> \o r.queue  BY <1>6 DEF With
  <2>2. /\ <<b>> \in Seq(Message) /\ Len(<<b>>) = 1 /\ <<b>>[1] = b
        /\ <<v>> \in Seq(S) /\ Len(<<v>>) = 1 /\ <<v>>[1] = v
    BY <1>1
  <2>3. /\ Len(s.queue) = 1 + n
        /\ \A i \in 1 .. 1 + n : s.queue[i] = IF i <= 1 THEN <<b>>[i] ELSE r.queue[i - 1]
    BY <1>1, <2>1, <2>2, ConcatProperties
  <2>4. /\ c \in Seq(S) /\ Len(c) = 1 + n
        /\ \A i \in 1 .. 1 + n : c[i] = IF i <= 1 THEN <<v>>[i] ELSE Texts(r)[i - 1]
    BY <1>1, <2>2, ConcatProperties
  <2> HIDE DEF c, n
  <2>5. ASSUME NEW i \in 1 .. 1 + n PROVE Texts(s)[i] = c[i]
    <3>0. Texts(s)[i] = s.text[s.queue[i]]  BY <1>4, <2>3
    <3>1. CASE i = 1
      BY <1>3, <2>2, <2>3, <2>4, <3>0, <3>1
    <3>2. CASE i # 1
      <4>1. i - 1 \in 1 .. n /\ ~(i <= 1)  BY <1>1, <3>2
      <4> QED BY <1>3, <2>3, <2>4, <3>0, <4>1
    <3> QED BY <3>1, <3>2
  <2>6. Texts(s) = c  BY <1>4, <2>3, <2>4, <2>5, SeqEqual
  <2> QED BY <1>6, <2>6 DEF c
<1> QED BY <1>5, <1>6

(* The message that is taken out is the first one.                          *)
LEMMA TextsUnlinked ==
  ASSUME NEW r \in QueueRec, NEW s \in QueueRec, r.queue # << >>,
         s.queue = Tail(r.queue), s.text = r.text
  PROVE  /\ Texts(r) # << >> /\ Texts(s) = Tail(Texts(r))
         /\ Head(Texts(r)) = r.text[Head(r.queue)]
PROOF
<1> DEFINE n == Len(r.queue)
           S == Mail \cup {None}
           c == Tail(Texts(r))
<1>1. /\ Texts(r) \in Seq(S) /\ Len(Texts(r)) = n /\ r.queue \in Seq(Message) /\ n \in Nat
      /\ \A i \in 1 .. n : Texts(r)[i] = r.text[r.queue[i]]
  BY TextsAre
<1>2. /\ Texts(s) \in Seq(S) /\ Len(Texts(s)) = Len(s.queue)
      /\ \A i \in 1 .. Len(s.queue) : Texts(s)[i] = s.text[s.queue[i]]
  BY TextsAre
<1> HIDE DEF S
<1>3. /\ n # 0 /\ Head(r.queue) = r.queue[1] /\ Len(s.queue) = n - 1
      /\ \A i \in 1 .. n - 1 : s.queue[i] = r.queue[i + 1]
  BY <1>1
<1> HIDE DEF n
<1>4. /\ Texts(r) # << >> /\ Head(Texts(r)) = Texts(r)[1]
      /\ c \in Seq(S) /\ Len(c) = n - 1 /\ \A i \in 1 .. n - 1 : c[i] = Texts(r)[i + 1]
  BY <1>1, <1>3
<1>5. 1 \in 1 .. n  BY <1>1, <1>3
<1> HIDE DEF c
<1>6. ASSUME NEW i \in 1 .. n - 1 PROVE Texts(s)[i] = c[i]
  <2>1. i + 1 \in 1 .. n  BY <1>1
  <2> QED BY <1>1, <1>2, <1>3, <1>4, <2>1
<1>7. Texts(s) = c  BY <1>2, <1>3, <1>4, <1>6, SeqEqual
<1> QED BY <1>1, <1>3, <1>4, <1>5, <1>7 DEF c

(* A queue without blocks has no messages.                                  *)
LEMMA TextsNone ==
  ASSUME NEW r \in QueueRec, r.queue = << >>
  PROVE  Texts(r) = << >>
PROOF
<1>1. Texts(r) \in Seq(Mail \cup {None}) /\ Len(Texts(r)) = Len(r.queue)  BY TextsAre
<1> QED BY <1>1

(* What the calls of a queue make of the fields of its blocks.              *)
LEMMA QueueTexts ==
  ASSUME NEW r \in QueueRec, NEW b, NEW v
  PROVE  /\ Allocated(r).queue = r.queue /\ Allocated(r).text = r.text
         /\ Unlinked(r).queue = Tail(r.queue) /\ Unlinked(r).text = r.text
         /\ LinkedIn(r, b, v).queue = With(r, b, v)
         /\ Puts(r.text, b, v, LinkedIn(r, b, v).text)
         /\ Freed(r, b).queue = r.queue /\ Puts(r.text, b, None, Freed(r, b).text)
PROOF
<1>1. Allocated(r).queue = r.queue /\ Allocated(r).text = r.text  BY DEF Allocated, QueueRec
<1>2. Unlinked(r).queue = Tail(r.queue) /\ Unlinked(r).text = r.text  BY DEF Unlinked, QueueRec
<1>3. /\ LinkedIn(r, b, v).queue = With(r, b, v)
      /\ Puts(r.text, b, v, LinkedIn(r, b, v).text)
  BY DEF LinkedIn, With, QueueRec, Puts
<1>4. Freed(r, b).queue = r.queue /\ Puts(r.text, b, None, Freed(r, b).text)
  BY DEF Freed, QueueRec, Puts
<1> QED BY <1>1, <1>2, <1>3, <1>4

(* What a reset makes of them.                                              *)
LEMMA ResetTexts ==
  ASSUME NEW r \in QueueRec
  PROVE  /\ Emptied(r).queue = << >>
         /\ \A b \in Message : ~Contains(r.queue, b) => Emptied(r).text[b] = r.text[b]
PROOF
<1>1. /\ Emptied(r).queue = << >>
      /\ Emptied(r).text
           = [b \in Message |-> IF Contains(r.queue, b) THEN None ELSE r.text[b]]
  BY DEF Emptied, QueueRec
<1> QED BY <1>1

-----------------------------------------------------------------------------
(* The mails calls are about to send *)

\* the lists of those who wait for room in a mailbox
SenderLists == {Private[m] : m \in Mailbox}

\* thread t has a mail to send, in the block it fills or to a full mailbox
Sends(t) == call[t].at = "fill" \/ (call[t].at \in Asleep /\ want[t] \in SenderLists)

LettersInv == \A t \in Thread : Sends(t) => job[t].mail \in Mail

\* no thread begins to send
SendersKept == \A t \in Thread : Sends(t)' => Sends(t)

(* The lists of senders are those of no other object.                       *)
LEMMA SenderListsApart == \A v \in Object \cup {None} : v \notin SenderLists
BY MailLists DEF SenderLists

(* A step that makes nobody a sender keeps the senders' mails.              *)
LEMMA LettersStay ==
  ASSUME LettersInv, SendersKept, \A t \in Thread : job'[t].mail = job[t].mail
  PROVE  LettersInv'
BY DEF LettersInv, SendersKept, Sends

(* A turn makes nobody a sender that does not end in the list of senders.   *)
LEMMA TurnSenders ==
  ASSUME IpcInv, NEW t \in Thread, NEW pl, NEW v, Turn(t, pl, v), pl # "fill",
         \/ pl \notin Asleep \/ v \in Object \cup {None}
         \/ call[t].at \in Asleep /\ want[t] = v
  PROVE  SendersKept
PROOF
<1>1. /\ call'[t].at = pl /\ want'[t] = v
      /\ \A x \in Thread \ {t} : call'[x] = call[x] /\ want'[x] = want[x]
  BY TurnIs
<1>2. v \in Object \cup {None} => v \notin SenderLists  BY SenderListsApart
<1>3. SenderLists' = SenderLists  BY DEF SenderLists
<1>4. Sends(t)' => Sends(t)  BY <1>1, <1>2, <1>3 DEF Sends
<1>5. \A x \in Thread \ {t} : Sends(x)' => Sends(x)  BY <1>1, <1>3 DEF Sends
<1> QED BY <1>4, <1>5 DEF SendersKept

(* Nor does a step that moves no thread.                                    *)
LEMMA StillSenders ==
  ASSUME UNCHANGED <<call, want>> PROVE SendersKept
BY DEF SendersKept, Sends, SenderLists

(* Nor does a call about another object.                                    *)
LEMMA CallSenders ==
  ASSUME IpcInv, NEW t \in Thread,
         \/ \E k, n : \E q \in Object : WaitOn(k, t, q, n)
         \/ \E k, b : ThenSchedule(t, k, b)
         \/ WaitOver(t)
         \/ \E o : DeleteBegin(t, o)
  PROVE  SendersKept
PROOF
<1>1. \E pl, v : Turn(t, pl, v) /\ pl # "fill" /\ (pl \notin Asleep \/ v \in Object \cup {None})
  <2>1. CASE \E k, n : \E q \in Object : WaitOn(k, t, q, n)  BY <2>1, WaitOnTurn
  <2>2. CASE \E k, b : ThenSchedule(t, k, b)  BY <2>2, ThenScheduleTurn
  <2>3. CASE WaitOver(t)  BY <2>3, WaitOverTurn
  <2>4. CASE \E o : DeleteBegin(t, o)  BY <2>4, DeleteTurn DEF Asleep
  <2> QED BY <2>1, <2>2, <2>3, <2>4
<1> QED BY <1>1, TurnSenders

(* Semaphores, mutexes and event sets have no senders.                      *)
LEMMA SemSenders ==
  ASSUME IpcInv, SemStep PROVE SendersKept
PROOF
<1>0. Semaphore \subseteq Object  BY SemAssumption
<1>1. ASSUME NEW t \in Thread, NEW s \in Semaphore, SemTakeNow(t, s) PROVE SendersKept
  BY <1>1, StillSenders DEF SemTakeNow, ipcVars, waitVars
<1>2. ASSUME NEW t \in Thread, NEW s \in Semaphore, SemRelease(t, s) PROVE SendersKept
  BY <1>2, CallSenders DEF SemRelease
<1>3. ASSUME NEW t \in Thread, NEW s \in Semaphore, NEW n \in WaitTime, SemTakeWait(t, s, n)
      PROVE  SendersKept
  BY <1>0, <1>3, CallSenders DEF SemTakeWait
<1>4. ASSUME NEW t \in Thread, NEW s \in Semaphore, NEW v, SemReset(t, s, v) PROVE SendersKept
  BY <1>4, CallSenders DEF SemReset
<1>5. ASSUME NEW t \in Thread, SemTakeReturn(t) PROVE SendersKept
  BY <1>5, CallSenders DEF SemTakeReturn
<1>6. ASSUME NEW s \in Semaphore, SemSignal(s) PROVE SendersKept
  BY <1>6, StillSenders DEF SemSignal, InHandler, waitVars
<1>7. ASSUME NEW t \in Thread, NEW s, DeleteBegin(t, s) PROVE SendersKept
  BY <1>7, CallSenders
<1> QED BY <1>1, <1>2, <1>3, <1>4, <1>5, <1>6, <1>7 DEF SemStep, SemCall, SemHandler

(* A step of a mutex makes nobody a sender.                                 *)
LEMMA MutexSenders ==
  ASSUME IpcInv, MutexStep PROVE SendersKept
PROOF
<1>0. Mutex \subseteq Object  BY MutexAssumption
<1>1. PICK t \in Thread : MutexCall(t) \/ MutexTakeReturn(t)  BY DEF MutexStep
<1>2. CASE MutexTakeReturn(t)  BY <1>2, CallSenders DEF MutexTakeReturn
<1>3. ASSUME NEW m \in Mutex, \/ MutexTakeAgain(t, m) \/ MutexTakeFree(t, m)
                              \/ MutexTakeRefused(t, m) \/ MutexReleaseInner(t, m)
                              \/ MutexReleaseRefused(t, m)
      PROVE  SendersKept
  BY <1>3, StillSenders DEF MutexTakeAgain, MutexTakeFree, MutexTakeRefused, MutexReleaseInner,
     MutexReleaseRefused, waitVars, ipcVars
<1>4. ASSUME NEW m \in Mutex, NEW n, MutexTakeWait(t, m, n) PROVE SendersKept
  BY <1>0, <1>4, CallSenders DEF MutexTakeWait
<1>5. ASSUME NEW m \in Mutex, MutexRelease(t, m) PROVE SendersKept
  BY <1>5, CallSenders DEF MutexRelease
<1>6. ASSUME NEW m, DeleteBegin(t, m) PROVE SendersKept  BY <1>6, CallSenders
<1> QED BY <1>1, <1>2, <1>3, <1>4, <1>5, <1>6 DEF MutexCall

(* Nor does a step of an event set.                                         *)
LEMMA EventSenders ==
  ASSUME IpcInv, EventStep PROVE SendersKept
PROOF
<1>0. EventSet \subseteq Object  BY EventAssumption
<1>1. ASSUME NEW t \in Thread, NEW e \in EventSet, NEW s, EventSend(t, e, s) PROVE SendersKept
  BY <1>1, CallSenders DEF EventSend
<1>2. ASSUME NEW t \in Thread, NEW e \in EventSet, NEW w, EventNow(t, e, w) \/ EventRefused(t, e, w)
      PROVE  SendersKept
  BY <1>2, StillSenders DEF EventNow, EventRefused, waitVars
<1>3. ASSUME NEW t \in Thread, NEW e \in EventSet, NEW w, NEW n, EventWait(t, e, w, n)
      PROVE  SendersKept
  BY <1>0, <1>3, CallSenders DEF EventWait
<1>4. ASSUME NEW t \in Thread, NEW e \in EventSet, EventReset(t, e) PROVE SendersKept
  BY <1>4, CallSenders DEF EventReset
<1>5. ASSUME NEW t \in Thread, EventReturn(t) PROVE SendersKept
  BY <1>5, CallSenders DEF EventReturn
<1>6. ASSUME NEW e \in EventSet, NEW s, EventPost(e, s) PROVE SendersKept
  BY <1>6, StillSenders DEF EventPost, waitVars
<1>7. ASSUME NEW t \in Thread, NEW e, DeleteBegin(t, e) PROVE SendersKept
  BY <1>7, CallSenders
<1> QED BY <1>1, <1>2, <1>3, <1>4, <1>5, <1>6, <1>7 DEF EventStep, EventCall, EventHandler

(* Nor do the scheduler and the loop of rt_ipc_list_resume_all make anybody *)
(* a sender: who wakes up in its wait was one before.                       *)
LEMMA ThreadsSenders ==
  ASSUME IpcInv, ThreadsStep PROVE SendersKept
PROOF
<1>1. PICK t \in Thread : InIpc(t) \/ Delays(t)  BY DEF ThreadsStep
<1>2. /\ Puts(want, t, want[t], want) /\ Puts(call, t, To(call[t].at, Idle), call)
      /\ call[t].at \in {"app", "schedule"} => want[t] = None
  BY CallIs DEF IpcInv, Ipc, Stands
<1>3. \E pl, v : /\ Turn(t, pl, v) /\ pl # "fill"
                 /\ \/ pl \notin Asleep \/ v \in Object \cup {None}
                    \/ call[t].at \in Asleep /\ want[t] = v
  <2>1. CASE Reschedule(t) /\ UNCHANGED waitVars
    <3>1. Turn(t, "app", want[t])
      BY <1>2, <2>1 DEF Reschedule, Return, InApp, To, Turn, Puts, waitVars
    <3> QED BY <3>1 DEF Asleep
  <2>2. CASE SleepSchedule(t) /\ UNCHANGED waitVars
    <3>1. Turn(t, "woken", want[t]) /\ call[t].at \in Asleep
      BY <1>2, <2>2 DEF SleepSchedule, Runs, Goto, Turn, Puts, waitVars, Asleep
    <3> QED BY <3>1
  <2>3. CASE ResumeAllTest(t)
    <3>1. call[t].at = "resume_all"  BY <2>3 DEF ResumeAllTest, Runs
    <3>2. CASE Waiting(kern, want[t])
      <4>1. Turn(t, "resume_one", want[t])
        BY <1>2, <2>3, <3>2 DEF ResumeAllTest, Goto, Turn, Puts
      <4> QED BY <4>1 DEF Asleep
    <3>3. CASE ~Waiting(kern, want[t]) /\ NextList(want[t]) = None
      <4>1. \E v : Turn(t, "app", v)
        BY <2>3, <3>3 DEF ResumeAllTest, Return, InApp, To, Turn, Puts
      <4> QED BY <4>1 DEF Asleep
    <3>4. CASE ~Waiting(kern, want[t]) /\ NextList(want[t]) # None
      <4>1. \E v : Turn(t, "resume_all", v)
        BY <1>2, <2>3, <3>1, <3>4 DEF ResumeAllTest, Turn, Puts
      <4> QED BY <4>1 DEF Asleep
    <3> QED BY <3>2, <3>3, <3>4
  <2>4. CASE ResumeAllOne(t)
    <3>1. Turn(t, "resume_all", want[t])
      BY <1>2, <2>4 DEF ResumeAllOne, Goto, Turn, Puts
    <3> QED BY <3>1 DEF Asleep
  <2>5. CASE Slept(t) /\ UNCHANGED waitVars
    <3>1. Turn(t, "app", want[t])
      BY <1>2, <2>5 DEF Slept, Return, InApp, To, Turn, Puts, waitVars
    <3> QED BY <3>1 DEF Asleep
  <2>6. CASE (\E n : Sleep(t, n)) /\ UNCHANGED waitVars
    <3>1. Turn(t, "block", want[t]) /\ call[t].at = "app"
      BY <1>2, <2>6 DEF Sleep, Runs, Goto, Turn, Puts, waitVars
    <3> QED BY <1>2, <3>1
  <2> QED BY <1>1, <2>1, <2>2, <2>3, <2>4, <2>5, <2>6 DEF InIpc, Delays
<1> QED BY <1>3, TurnSenders

-----------------------------------------------------------------------------
(* A mailbox delivers *)

\* a step of mailbox m: nothing, a reset, a mail more or the oldest less
BoxGoes(m) ==
  \/ box'[m] = box[m] \/ box'[m] = EmptyBox
  \/ box[m].entry # Size /\ \E v \in Mail : box'[m] = Put(box[m], v)
  \/ box[m].entry > 0 /\ box'[m] = Got(box[m])

(* What a mailbox holds, before and after a step.                           *)
LEMMA BoxMailsAre ==
  ASSUME BoxInv, BoxInv', NEW m \in Mailbox
  PROVE  BoxMails(m) = Mails(box[m]) /\ BoxMails(m)' = Mails(box'[m])
PROOF
<1>1. ASSUME NEW b \in BoxState
      PROVE  Mails(b) = [i \in 1 .. b.entry |-> b.pool[(b.out + i - 1) % Size]]
  <2>1. \A i \in 1 .. b.entry : b.pool[Behind(b.out, i - 1)] = b.pool[(b.out + i - 1) % Size]
    BY MailsIs
  <2> QED BY <2>1 DEF Mails
<1>2. box[m] \in BoxState /\ box'[m] \in BoxState  BY DEF BoxInv
<1> QED BY <1>1, <1>2 DEF BoxMails

(* Each such step is one of the abstract channel.                           *)
LEMMA BoxIsChannel ==
  ASSUME BoxInv, BoxInv', NEW m \in Mailbox, Ring(box[m]), BoxGoes(m)
  PROVE  Ring(box'[m]) /\ BoxDelivers(m)
PROOF
<1> DEFINE b == box[m]
           c == box'[m]
<1>1. b \in BoxState /\ c \in BoxState /\ b.entry \in 0 .. Size /\ Size \in Nat
  BY BoxIs DEF BoxInv
<1>2. BoxMails(m) = Mails(b) /\ BoxMails(m)' = Mails(c)  BY BoxMailsAre
<1>3. CASE c = b
  BY <1>2, <1>3 DEF BoxDelivers, BoxChannel!channelVars
<1>4. CASE c = EmptyBox
  <2>1. BoxChannel(m)!Clear  BY <1>2, <1>4, MailsNone DEF BoxChannel!Clear
  <2> QED BY <1>4, <2>1, MailsNone DEF BoxDelivers, BoxChannel!ChannelNext
<1>5. ASSUME NEW v \in Mail, b.entry # Size, c = Put(b, v)
      PROVE  Ring(c) /\ BoxDelivers(m)
  <2>1. Ring(c) /\ Mails(c) = Append(Mails(b), v)  BY <1>1, <1>5, MailsPut
  <2>2. Len(Mails(b)) = b.entry /\ b.entry < Size  BY <1>1, <1>5, MailsIs
  <2>3. BoxChannel(m)!Post(v)  BY <1>2, <2>1, <2>2 DEF BoxChannel!Post
  <2> QED BY <2>1, <2>3 DEF BoxDelivers, BoxChannel!ChannelNext
<1>6. CASE b.entry > 0 /\ c = Got(b)
  <2>1. Ring(c) /\ Mails(c) = Tail(Mails(b)) /\ Mails(b) # << >>  BY <1>1, <1>6, MailsGot
  <2>2. BoxChannel(m)!Collect(Idle)  BY <1>2, <2>1, ThreadAssumption DEF BoxChannel!Collect
  <2> QED BY <2>1, <2>2, ThreadAssumption DEF BoxDelivers, BoxChannel!ChannelNext
<1> QED BY <1>3, <1>4, <1>5, <1>6 DEF BoxGoes

-----------------------------------------------------------------------------
(* A message queue delivers *)

\* the threads that copy a message of queue q
Reads(q) == {t \in Thread : call[t].at = "copy" /\ want[t] = q}

(* What a queue holds and what its readers have, before and after a step.   *)
LEMMA QueueMailsAre ==
  ASSUME NEW q
  PROVE  /\ QueueMails(q) = Texts(mq[q]) /\ QueueMails(q)' = Texts(mq'[q])
         /\ Taken(q) = [t \in Thread |-> IF t \in Reads(q) THEN mq[q].text[InHand[t]] ELSE None]
         /\ Taken(q)' = [t \in Thread |-> IF t \in Reads(q)' THEN mq'[q].text[InHand'[t]]
                                          ELSE None]
BY DEF QueueMails, Texts, Taken, Reads, InHand

(* The readers have blocks that are not in the queue, each his own.         *)
LEMMA ReadersHave ==
  ASSUME QueueInv, NEW q \in Queue
  PROVE  /\ Reads(q) \subseteq Holders(q)
         /\ \A t \in Holders(q) : InHand[t] \in Message /\ ~Contains(mq[q].queue, InHand[t])
         /\ \A t, u \in Holders(q) : InHand[t] = InHand[u] => t = u
PROOF
<1>1. Reads(q) \subseteq Holders(q)  BY DEF Reads, Holders, InHands, Hands
<1> QED BY <1>1 DEF QueueInv, Blocks

(* Whose blocks and what stands in them stays the same is all the readers   *)
(* see.                                                                     *)
LEMMA TakenStays ==
  ASSUME NEW q, Reads(q)' = Reads(q), Agree(Reads(q), InHand, InHand'),
         \A t \in Reads(q) : mq'[q].text[InHand[t]] = mq[q].text[InHand[t]]
  PROVE  Taken(q)' = Taken(q)
PROOF
<1>1. \A t \in Reads(q) : InHand'[t] = InHand[t]  BY DEF Agree
<1> QED BY <1>1, QueueMailsAre

(* A step that keeps the list, the blocks and the readers of a queue.       *)
LEMMA QueueStill ==
  ASSUME NEW q, mq'[q].queue = mq[q].queue, mq'[q].text = mq[q].text,
         Reads(q)' = Reads(q), Agree(Reads(q), InHand, InHand')
  PROVE  QueueDelivers(q)
PROOF
<1>1. Taken(q)' = Taken(q)  BY TakenStays
<1>2. QueueMails(q)' = QueueMails(q)  BY DEF QueueMails
<1> QED BY <1>1, <1>2 DEF QueueDelivers, QueueChannel!channelVars

(* No reader comes or goes.                                                 *)
LEMMA ReadsStay ==
  ASSUME HandsKept, \A t \in Thread : job'[t].block = job[t].block
  PROVE  \A q : Reads(q)' = Reads(q) /\ Agree(Reads(q), InHand, InHand')
PROOF
<1>1. \A t \in Thread : /\ call'[t].at = "copy" <=> call[t].at = "copy"
                        /\ call[t].at = "copy" => want'[t] = want[t]
  BY DEF HandsKept, Hands
<1>2. \A t \in Thread : InHand'[t] = InHand[t]  BY DEF InHand
<1> QED BY <1>1, <1>2 DEF Reads, Agree

(* The reader that comes or goes is the thread whose turn it is.            *)
LEMMA ReadsTurn ==
  ASSUME IpcInv, JobInv, NEW t \in Thread, NEW pl, NEW v, Turn(t, pl, v), NEW j,
         job' = [job EXCEPT ![t] = j]
  PROVE  /\ InHand'[t] = j.block
         /\ \A q : /\ Reads(q)' = IF pl = "copy" /\ v = q THEN Reads(q) \cup {t}
                                  ELSE Reads(q) \ {t}
                   /\ Agree(Reads(q) \ {t}, InHand, InHand')
PROOF
<1>1. /\ call'[t].at = pl /\ want'[t] = v
      /\ \A x \in Thread \ {t} : call'[x] = call[x] /\ want'[x] = want[x]
  BY TurnIs
<1>2. InHand'[t] = j.block /\ \A x \in Thread \ {t} : InHand'[x] = InHand[x]
  BY DEF InHand, JobInv
<1>3. ASSUME NEW q
      PROVE  /\ Reads(q)' = IF pl = "copy" /\ v = q THEN Reads(q) \cup {t} ELSE Reads(q) \ {t}
             /\ Agree(Reads(q) \ {t}, InHand, InHand')
  <2>1. \A x \in Thread \ {t} : x \in Reads(q)' <=> x \in Reads(q)  BY <1>1 DEF Reads
  <2>2. t \in Reads(q)' <=> pl = "copy" /\ v = q  BY <1>1 DEF Reads
  <2>3. Reads(q) \subseteq Thread /\ Reads(q)' \subseteq Thread  BY DEF Reads
  <2>4. Agree(Reads(q) \ {t}, InHand, InHand')  BY <1>2 DEF Agree, Reads
  <2> QED BY <2>1, <2>2, <2>3, <2>4
<1> QED BY <1>2, <1>3

(* A turn of a thread is nothing to the queues it does not read.            *)
LEMMA TurnStill ==
  ASSUME IpcInv, JobInv, NEW t \in Thread, NEW pl, NEW v, Turn(t, pl, v), NEW j,
         job' = [job EXCEPT ![t] = j],
         NEW q, t \notin Reads(q), ~(pl = "copy" /\ v = q),
         mq'[q].queue = mq[q].queue, mq'[q].text = mq[q].text
  PROVE  QueueDelivers(q)
PROOF
<1>1. Reads(q)' = Reads(q) \ {t} /\ Agree(Reads(q) \ {t}, InHand, InHand')  BY ReadsTurn
<1>2. Reads(q) \ {t} = Reads(q)  OBVIOUS
<1> QED BY <1>1, <1>2, QueueStill

(* A block that nobody reads, filled and linked, is a message posted.       *)
LEMMA QueueGrows ==
  ASSUME QueueInv, QueueInv', NEW q \in Queue, NEW b \in Message, NEW v \in Mail,
         ~Contains(mq[q].queue, b), \A t \in Reads(q) : InHand[t] # b,
         mq'[q].queue = With(mq[q], b, v), Puts(mq[q].text, b, v, mq'[q].text),
         Len(mq[q].queue) < Size,
         Reads(q)' = Reads(q), Agree(Reads(q), InHand, InHand')
  PROVE  QueueDelivers(q)
PROOF
<1>1. mq[q] \in QueueRec /\ mq'[q] \in QueueRec  BY DEF QueueInv
<1>2. mq[q].text \in [Message -> Mail \cup {None}]  BY <1>1, QueueFields
<1>3. \A t \in Reads(q) : mq'[q].text[InHand[t]] = mq[q].text[InHand[t]]
  BY <1>2, ReadersHave DEF Puts
<1>4. Taken(q)' = Taken(q)  BY <1>3, TakenStays
<1>5. /\ QueueMails(q) = Texts(mq[q])
      /\ QueueMails(q)' = IF v \in UrgentMail THEN <<v>> \o Texts(mq[q])
                          ELSE Append(Texts(mq[q]), v)
  BY <1>1, TextsLinked, QueueMailsAre
<1>6. Len(QueueMails(q)) < Size  BY <1>1, <1>5, TextsAre
<1>7. QueueChannel(q)!Post(v)  BY <1>4, <1>5, <1>6 DEF QueueChannel!Post
<1> QED BY <1>7 DEF QueueDelivers, QueueChannel!ChannelNext

(* There is room for a message as long as a block is free or being filled.  *)
LEMMA RoomFor ==
  ASSUME NEW r, NEW H, NEW f, Blocks(r, H, f), r.free # << >> \/ H # {}
  PROVE  Len(r.queue) < Size
PROOF
<1> DEFINE a == Len(r.free)
           e == Len(r.queue)
           c == Cardinality(H)
<1>1. /\ a + e + c = Size /\ a \in Nat /\ e \in Nat /\ c \in Nat /\ Size \in Nat
      /\ r.free \in Seq(Message) /\ IsFiniteSet(H)
  BY MailAssumption, QueueFields DEF Blocks
<1>2. r.free # << >> => a # 0  BY <1>1
<1>3. H # {} => c # 0  BY <1>1, FS_EmptySet
<1> HIDE DEF a, e, c
<1>4. a # 0 \/ c # 0  BY <1>2, <1>3
<1>5. e < Size  BY <1>1, <1>4
<1> QED BY <1>5 DEF e

-----------------------------------------------------------------------------
(* Every step delivers *)

\* what a step has to be for the channels
Delivers ==
  /\ LettersInv'
  /\ \A m \in Mailbox : BoxGoes(m)
  /\ \A q \in Queue : QueueDelivers(q)

(* A turn of a thread keeps the senders' mails.                             *)
LEMMA TurnLetters ==
  ASSUME IpcInv, JobInv, LettersInv, NEW t \in Thread, NEW pl, NEW v, Turn(t, pl, v), NEW j,
         job' = [job EXCEPT ![t] = j],
         pl = "fill" \/ (pl \in Asleep /\ v \in SenderLists) => j.mail \in Mail
  PROVE  LettersInv'
PROOF
<1>1. /\ call'[t].at = pl /\ want'[t] = v
      /\ \A x \in Thread \ {t} : call'[x] = call[x] /\ want'[x] = want[x]
  BY TurnIs
<1>2. job'[t] = j /\ \A x \in Thread \ {t} : job'[x] = job[x]  BY DEF JobInv
<1>3. SenderLists' = SenderLists  BY DEF SenderLists
<1>4. Sends(t)' => job'[t].mail \in Mail  BY <1>1, <1>2, <1>3 DEF Sends
<1>5. \A x \in Thread \ {t} : Sends(x)' => job'[x].mail \in Mail
  BY <1>1, <1>2, <1>3 DEF Sends, LettersInv
<1> QED BY <1>4, <1>5 DEF LettersInv

(* A step about no mailbox.                                                 *)
LEMMA BoxesStill ==
  ASSUME UNCHANGED box PROVE \A m \in Mailbox : BoxGoes(m)
BY DEF BoxGoes

(* A mailbox that changes leaves the others as they are.                    *)
LEMMA BoxesOne ==
  ASSUME BoxInv, NEW m \in Mailbox, NEW b, box' = [box EXCEPT ![m] = b],
         \/ b = EmptyBox
         \/ box[m].entry # Size /\ \E v \in Mail : b = Put(box[m], v)
         \/ box[m].entry > 0 /\ b = Got(box[m])
  PROVE  \A p \in Mailbox : BoxGoes(p)
PROOF
<1>1. box'[m] = b /\ \A p \in Mailbox \ {m} : box'[p] = box[p]  BY DEF BoxInv
<1> QED BY <1>1 DEF BoxGoes

(* A turn that moves no block and touches no queue.                         *)
LEMMA TurnDelivers ==
  ASSUME IpcInv, MailInv, LettersInv, NEW t \in Thread, call[t].at \notin Hands,
         NEW pl, pl \notin Hands, NEW v, Turn(t, pl, v), NEW j, job' = [job EXCEPT ![t] = j],
         pl \in Asleep /\ v \in SenderLists => j.mail \in Mail,
         UNCHANGED mq, \A m \in Mailbox : BoxGoes(m)
  PROVE  Delivers
PROOF
<1>1. JobInv /\ pl # "fill" /\ pl # "copy" /\ call[t].at # "copy"  BY DEF MailInv, Hands
<1>2. LettersInv'  BY <1>1, TurnLetters
<1>3. \A q : t \notin Reads(q)  BY <1>1 DEF Reads
<1>4. \A q : QueueDelivers(q)  BY <1>1, <1>3, TurnStill
<1> QED BY <1>2, <1>4 DEF Delivers

(* A step that moves no block, makes nobody a sender and touches no queue.  *)
LEMMA StepDelivers ==
  ASSUME LettersInv, HandsKept, SendersKept,
         \A t \in Thread : job'[t].block = job[t].block /\ job'[t].mail = job[t].mail,
         UNCHANGED mq, \A m \in Mailbox : BoxGoes(m)
  PROVE  Delivers
PROOF
<1>1. LettersInv'  BY LettersStay
<1>2. \A q : Reads(q)' = Reads(q) /\ Agree(Reads(q), InHand, InHand')  BY ReadsStay
<1>3. \A q : QueueDelivers(q)  BY <1>2, QueueStill
<1> QED BY <1>1, <1>3 DEF Delivers

\* a send or a receive, or its end
LEMMA SentDelivers ==
  ASSUME IpcInv, MailInv, LettersInv, NEW t \in Thread, call[t].at \notin Hands,
         NEW m \in Mailbox, (\E v \in Mail : Sent(t, m, v)) \/ Received(t, m)
  PROVE  Delivers
PROOF
<1>1. PICK pl : pl \notin Hands /\ Turn(t, pl, None)  BY MailTurns
<1>2. job' = [job EXCEPT ![t] = NoJob] /\ UNCHANGED mq  BY DEF Sent, Received, Ends
<1>3. None \notin SenderLists  BY SenderListsApart
<1>4. box[m] \in BoxState /\ BoxInv  BY DEF MailInv, BoxInv
<1>5. \A p \in Mailbox : BoxGoes(p)
  <2>1. CASE \E v \in Mail : Sent(t, m, v)
    <3>1. PICK v \in Mail : Sent(t, m, v)  BY <2>1
    <3>2. box' = [box EXCEPT ![m] = Put(box[m], v)] /\ box[m].entry # Size
      BY <1>4, <3>1 DEF Sent, Full, BoxInv
    <3> QED BY <1>4, <3>2, BoxesOne
  <2>2. CASE Received(t, m)
    <3>1. box' = [box EXCEPT ![m] = Got(box[m])] /\ box[m].entry > 0
      BY <1>4, <2>2 DEF Received, BoxInv
    <3> QED BY <1>4, <3>1, BoxesOne
  <2> QED BY <2>1, <2>2
<1> QED BY <1>1, <1>2, <1>3, <1>5, TurnDelivers

\* a call that goes to sleep; a sender remembers its mail
LEMMA WaitDelivers ==
  ASSUME IpcInv, MailInv, LettersInv, NEW t \in Thread, call[t].at \notin Hands,
         NEW w, NEW n, NEW j \in Job, WaitMail(t, w, n, j), w \in SenderLists => j.mail \in Mail
  PROVE  Delivers
PROOF
<1> DEFINE i == [j EXCEPT !.time = n, !.waited = 0]
<1>1. Turn(t, "block", w) /\ "block" \notin Hands  BY MailTurns, Elsewhere
<1>2. job' = [job EXCEPT ![t] = i] /\ UNCHANGED <<box, mq>>  BY DEF WaitMail, Starts
<1>3. i.mail = j.mail  BY DEF Job
<1> HIDE DEF i
<1>4. \A m \in Mailbox : BoxGoes(m)  BY <1>2, BoxesStill
<1> QED BY <1>1, <1>2, <1>3, <1>4, TurnDelivers

\* a call that gives up
LEMMA EndDelivers ==
  ASSUME IpcInv, MailInv, LettersInv, NEW t \in Thread, call[t].at \notin Hands,
         (\E e : Exhausted(t, e)) \/ WaitFailed(t)
  PROVE  Delivers
PROOF
<1>1. Turn(t, "app", None) /\ "app" \notin Hands  BY WaitOverTurn, Elsewhere DEF Exhausted, WaitFailed
<1>2. job' = [job EXCEPT ![t] = NoJob] /\ UNCHANGED <<box, mq>>
  BY DEF Exhausted, WaitFailed, Ends
<1>3. None \notin SenderLists  BY SenderListsApart
<1>4. \A m \in Mailbox : BoxGoes(m)  BY <1>2, BoxesStill
<1> QED BY <1>1, <1>2, <1>3, <1>4, TurnDelivers

(* The calls of a mailbox.                                                  *)
LEMMA BoxCallDelivers ==
  ASSUME IpcInv, MailInv, LettersInv, NEW t, NEW m \in Mailbox,
         \/ \E n \in WaitTime, v \in Mail : BoxSend(t, m, v, n)
         \/ \E n \in WaitTime : BoxReceive(t, m, n)
         \/ BoxSendAgain(t, m) \/ BoxReceiveAgain(t, m)
  PROVE  Delivers
PROOF
<1>1. m \notin SenderLists /\ Private[m] \in SenderLists
  BY MailLists, SenderListsApart DEF SenderLists
<1>2. t \in Thread /\ call[t].at \notin Hands
  <2>1. Uses(t, m) \/ Tries(t, m) \/ Tries(t, Private[m])
    BY DEF BoxSend, BoxReceive, BoxSendAgain, BoxReceiveAgain
  <2>2. t \in Thread /\ call[t].at \in {"app", "woken"}  BY <2>1, UsesFacts, TriesComing
  <2> QED BY <2>2 DEF Hands
<1>3. job[t] \in Job  BY <1>2 DEF MailInv, JobInv
<1>4. ASSUME NEW n \in WaitTime, NEW v \in Mail, BoxSend(t, m, v, n) PROVE Delivers
  <2>1. [NoJob EXCEPT !.mail = v] \in Job /\ [NoJob EXCEPT !.mail = v].mail = v
    BY JobWith DEF NoJob
  <2> QED BY <1>2, <1>4, <2>1, SentDelivers, WaitDelivers DEF BoxSend
<1>5. ASSUME NEW n \in WaitTime, BoxReceive(t, m, n) PROVE Delivers
  BY <1>1, <1>2, <1>5, NoJobIs, SentDelivers, WaitDelivers DEF BoxReceive
<1>6. CASE BoxSendAgain(t, m)
  <2>1. want[t] = Private[m] /\ call[t].at \in Asleep
    BY <1>6, TriesComing DEF BoxSendAgain, Tries, Asleep
  <2>2. job[t].mail \in Mail  BY <1>1, <1>2, <2>1 DEF LettersInv, Sends
  <2> QED
    BY <1>2, <1>3, <1>6, <2>2, SentDelivers, WaitDelivers, EndDelivers DEF BoxSendAgain
<1>7. CASE BoxReceiveAgain(t, m)
  BY <1>1, <1>2, <1>3, <1>7, SentDelivers, WaitDelivers, EndDelivers DEF BoxReceiveAgain
<1> QED BY <1>4, <1>5, <1>6, <1>7

(* An interrupt handler's rt_mb_send.                                       *)
LEMMA BoxPostDelivers ==
  ASSUME IpcInv, MailInv, LettersInv, NEW m \in Mailbox, NEW v \in Mail, BoxPost(m, v)
  PROVE  Delivers
PROOF
<1>1. /\ box[m].entry # Size /\ box' = [box EXCEPT ![m] = Put(box[m], v)]
      /\ UNCHANGED <<mq, job, call, want>> /\ BoxInv
  BY DEF BoxPost, Full, InHandler, waitVars, MailInv, BoxInv
<1>2. HandsKept /\ SendersKept  BY <1>1, StillKeeps, InsideHands, StillSenders
<1>3. \A p \in Mailbox : BoxGoes(p)  BY <1>1, BoxesOne
<1> QED BY <1>1, <1>2, <1>3, StepDelivers

(* rt_mb_control(RESET) throws the mails of the mailbox away.               *)
LEMMA BoxResetDelivers ==
  ASSUME IpcInv, MailInv, LettersInv, NEW t, NEW m \in Mailbox, BoxReset(t, m)
  PROVE  Delivers
PROOF
<1>1. /\ Uses(t, m) /\ (\E k, b : ThenSchedule(t, k, b)) /\ t \in Thread
      /\ box' = [box EXCEPT ![m] = EmptyBox] /\ UNCHANGED <<mq, job>> /\ BoxInv
  BY UsesFacts DEF BoxReset, MailInv
<1>2. HandsKept /\ SendersKept  BY <1>1, UsesHands, CallSenders
<1>3. \A p \in Mailbox : BoxGoes(p)  BY <1>1, BoxesOne
<1> QED BY <1>1, <1>2, <1>3, StepDelivers

\* a linked block, in the queue and in its text
LEMMA LinkedTexts ==
  ASSUME NEW r \in QueueRec, NEW b, NEW v, NEW s, s = LinkedIn(r, b, v)
  PROVE  s.queue = With(r, b, v) /\ Puts(r.text, b, v, s.text)
BY QueueTexts

\* what a queue step changes
LEMMA OneQueue ==
  ASSUME QueueInv, NEW q \in Queue, NEW s, mq' = [mq EXCEPT ![q] = s]
  PROVE  mq'[q] = s /\ \A p \in Queue \ {q} : mq'[p] = mq[p]
BY DEF QueueInv

(* The first part of rt_mq_send and rt_mq_urgent is nothing to the channel: *)
(* the message is not in the queue yet.                                     *)
LEMMA QueueSendDelivers ==
  ASSUME IpcInv, MailInv, LettersInv, NEW t, NEW q \in Queue, NEW v \in Mail, QueueSend(t, q, v)
  PROVE  Delivers
PROOF
<1> DEFINE j == [NoJob EXCEPT !.mail = v, !.block = Head(mq[q].free)]
<1>1. /\ Uses(t, q) /\ Turn(t, "fill", q) /\ job' = [job EXCEPT ![t] = j] /\ UNCHANGED box
      /\ mq' = [mq EXCEPT ![q] = Allocated(mq[q])]
  BY DEF QueueSend, Starts, Goto, Turn, Puts, MailInv, QueueInv
<1>2. j.mail = v  BY DEF NoJob
<1> HIDE DEF j
<1>3. t \in Thread /\ call[t].at = "app" /\ JobInv /\ QueueInv  BY <1>1, UsesFacts DEF MailInv
<1>4. LettersInv'  BY <1>1, <1>2, <1>3, TurnLetters
<1>5. ASSUME NEW p \in Queue PROVE QueueDelivers(p)
  <2>1. mq[q] \in QueueRec  BY <1>3 DEF QueueInv
  <2>2. mq'[p].queue = mq[p].queue /\ mq'[p].text = mq[p].text
    <3>1. Allocated(mq[q]).queue = mq[q].queue /\ Allocated(mq[q]).text = mq[q].text
      BY <2>1, QueueTexts
    <3>2. mq'[q] = Allocated(mq[q]) /\ \A x \in Queue \ {q} : mq'[x] = mq[x]
      BY <1>1, <1>3, OneQueue
    <3> QED BY <3>1, <3>2
  <2>3. t \notin Reads(p)  BY <1>3 DEF Reads
  <2>4. ~("fill" = "copy" /\ q = p)  OBVIOUS
  <2> QED BY <1>1, <1>3, <2>2, <2>3, <2>4, TurnStill
<1>6. \A m \in Mailbox : BoxGoes(m)  BY <1>1, BoxesStill
<1> QED BY <1>4, <1>5, <1>6 DEF Delivers

(* The second part posts it.                                                *)
LEMMA QueueLinkDelivers ==
  ASSUME IpcInv, MailInv, MailInv', LettersInv, NEW t, NEW q \in Queue, QueueLink(t, q)
  PROVE  Delivers
PROOF
<1> DEFINE r == mq[q]
           b == job[t].block
           v == job[t].mail
<1>1. /\ Runs(t, "fill") /\ want[t] = q /\ mq' = [mq EXCEPT ![q] = LinkedIn(r, b, v)]
      /\ ThenSchedule(t, Woke(kern, q), Waiting(kern, q))
      /\ job' = [job EXCEPT ![t] = NoJob] /\ UNCHANGED box
  BY DEF QueueLink, Ends, MailInv, QueueInv
<1>2. /\ t \in Thread /\ call[t].at = "fill" /\ JobInv /\ QueueInv /\ QueueInv'
      /\ r \in QueueRec /\ Blocks(r, Holders(q), InHand)
  BY <1>1, RunsFacts DEF MailInv, QueueInv
<1>3. PICK pl : pl \notin Hands /\ Turn(t, pl, None)  BY <1>1, ScheduleTurn
<1>4. pl # "fill" /\ pl # "copy" /\ None \notin SenderLists
  BY <1>3, SenderListsApart DEF Hands
<1>5. LettersInv'  BY <1>1, <1>2, <1>3, <1>4, TurnLetters
<1>6. \A p : t \notin Reads(p)  BY <1>2 DEF Reads
<1>7. v \in Mail  BY <1>2 DEF LettersInv, Sends
<1>8. t \in Holders(q) /\ InHand[t] = b  BY <1>1, <1>2 DEF Holders, InHands, Hands, InHand
<1>9. b \in Message /\ ~Contains(r.queue, b) /\ \A x \in Reads(q) : InHand[x] # b
  BY <1>2, <1>6, <1>8, ReadersHave
<1>10. Len(r.queue) < Size  BY <1>2, <1>8, RoomFor
<1>11. QueueDelivers(q)
  <2>1. mq'[q].queue = With(r, b, v) /\ Puts(r.text, b, v, mq'[q].text)
    <3>1. mq'[q] = LinkedIn(r, b, v)  BY <1>1, <1>2, OneQueue
    <3> QED BY <1>2, <3>1, LinkedTexts
  <2>2. Reads(q)' = Reads(q) \ {t} /\ Agree(Reads(q) \ {t}, InHand, InHand')
    BY <1>1, <1>2, <1>3, <1>4, ReadsTurn
  <2>3. Reads(q) \ {t} = Reads(q)  BY <1>6
  <2> HIDE DEF r, b, v
  <2>4. /\ Reads(q)' = Reads(q) /\ Agree(Reads(q), InHand, InHand')  BY <2>2, <2>3
  <2> QED BY <1>2, <1>7, <1>9, <1>10, <2>1, <2>4, QueueGrows DEF r
<1>12. ASSUME NEW p \in Queue \ {q} PROVE QueueDelivers(p)
  <2>1. mq'[p] = mq[p]  BY <1>1, <1>2, OneQueue
  <2> QED BY <1>1, <1>2, <1>3, <1>4, <1>6, <2>1, TurnStill
<1>13. \A m \in Mailbox : BoxGoes(m)  BY <1>1, BoxesStill
<1> QED BY <1>5, <1>11, <1>12, <1>13 DEF Delivers

(* An interrupt handler's rt_mq_send posts a message at once.               *)
LEMMA QueuePostDelivers ==
  ASSUME IpcInv, MailInv, MailInv', LettersInv, NEW q \in Queue, NEW v \in Mail, QueuePost(q, v)
  PROVE  Delivers
PROOF
<1> DEFINE r == mq[q]
           b == Head(r.free)
<1>1. /\ r.free # << >> /\ mq' = [mq EXCEPT ![q] = LinkedIn(Allocated(r), b, v)]
      /\ UNCHANGED <<box, job, call, want>>
  BY DEF QueuePost, InHandler, waitVars, MailInv, QueueInv
<1>2. QueueInv /\ QueueInv' /\ r \in QueueRec /\ Blocks(r, Holders(q), InHand)
  BY DEF MailInv, QueueInv
<1>3. HandsKept /\ SendersKept  BY <1>1, StillKeeps, InsideHands, StillSenders
<1>4. LettersInv'  BY <1>1, <1>3, LettersStay
<1>5. \A p : Reads(p)' = Reads(p) /\ Agree(Reads(p), InHand, InHand')
  BY <1>1, <1>3, ReadsStay
<1>6. b \in Message /\ ~Contains(r.queue, b) /\ \A x \in Reads(q) : InHand[x] # b
  <2>1. r.free \in Seq(Message) /\ IsInjective(r.free)  BY <1>2, QueueFields DEF Blocks
  <2>2. b \in Message /\ Contains(r.free, b)  BY <1>1, <2>1, TailMember
  <2> HIDE DEF b, r
  <2>3. \A x \in Holders(q) : ~Contains(r.free, InHand[x])  BY <1>2 DEF Blocks
  <2>4. ~Contains(r.queue, b)  BY <1>2, <2>2 DEF Blocks
  <2> QED BY <1>2, <2>2, <2>3, <2>4, ReadersHave
<1>7. Len(r.queue) < Size  BY <1>1, <1>2, RoomFor
<1>8. QueueDelivers(q)
  <2>1. Allocated(r) \in QueueRec /\ Allocated(r).queue = r.queue /\ Allocated(r).text = r.text
    <3>1. Tail(r.free) \in Seq(Message)
      <4>1. r.free \in Seq(Message)  BY <1>2, QueueFields
      <4> QED BY <1>1, <4>1
    <3> QED BY <1>2, <3>1, QueueTexts DEF Allocated, QueueRec
  <2>2. /\ mq'[q].queue = With(Allocated(r), b, v)
        /\ Puts(Allocated(r).text, b, v, mq'[q].text)
    <3>1. mq'[q] = LinkedIn(Allocated(r), b, v)  BY <1>1, <1>2, OneQueue
    <3> QED BY <2>1, <3>1, LinkedTexts
  <2>3. With(Allocated(r), b, v) = With(r, b, v)  BY <2>1 DEF With
  <2> HIDE DEF b
  <2>4. mq'[q].queue = With(r, b, v) /\ Puts(r.text, b, v, mq'[q].text)
    BY <2>1, <2>2, <2>3
  <2> QED BY <1>2, <1>5, <1>6, <1>7, <2>4, QueueGrows
<1>9. ASSUME NEW p \in Queue \ {q} PROVE QueueDelivers(p)
  <2>1. mq'[p] = mq[p]  BY <1>1, <1>2, OneQueue
  <2> QED BY <1>5, <2>1, QueueStill
<1>10. \A m \in Mailbox : BoxGoes(m)  BY <1>1, BoxesStill
<1> QED BY <1>4, <1>8, <1>9, <1>10 DEF Delivers

(* rt_mq_recv collects the first message ...                                *)
LEMMA FetchDelivers ==
  ASSUME IpcInv, MailInv, LettersInv, NEW t \in Thread, call[t].at \notin Hands,
         NEW q \in Queue, Fetch(t, q)
  PROVE  Delivers
PROOF
<1> DEFINE r == mq[q]
           b == Head(r.queue)
           j == [NoJob EXCEPT !.block = b]
<1>1. /\ r.entry > 0 /\ mq' = [mq EXCEPT ![q] = Unlinked(r)] /\ UNCHANGED box
      /\ job' = [job EXCEPT ![t] = j] /\ Turn(t, "copy", q)
  BY MailTurns DEF Fetch, Starts, MailInv, QueueInv
<1>2. JobInv /\ QueueInv /\ r \in QueueRec /\ Blocks(r, Holders(q), InHand)
  BY DEF MailInv, QueueInv
<1>3. j.block = b  BY DEF NoJob
<1> HIDE DEF j
<1>4. "copy" \notin Asleep /\ "copy" # "fill"  BY DEF Asleep
<1>5. LettersInv'  BY <1>1, <1>2, <1>4, TurnLetters
<1>6. \A p : t \notin Reads(p)  BY DEF Reads, Hands
<1>7. r.queue # << >> /\ r.queue \in Seq(Message)
  BY <1>1, <1>2, QueueFields DEF Blocks
<1>8. Unlinked(r) \in QueueRec /\ Unlinked(r).queue = Tail(r.queue) /\ Unlinked(r).text = r.text
  <2>1. r.entry - 1 \in Nat /\ Tail(r.queue) \in Seq(Message)
    <3>1. r.entry \in Nat  BY <1>2, QueueFields
    <3> QED BY <1>1, <1>7, <3>1
  <2> QED BY <1>2, <2>1, UnlinkedIs, QueueTexts
<1>9. mq'[q] = Unlinked(r) /\ \A p \in Queue \ {q} : mq'[p] = mq[p]  BY <1>1, <1>2, OneQueue
<1>10. QueueDelivers(q)
  <2>1. /\ QueueMails(q) # << >> /\ QueueMails(q)' = Tail(QueueMails(q))
        /\ Head(QueueMails(q)) = r.text[b]
    BY <1>2, <1>7, <1>8, <1>9, TextsUnlinked, QueueMailsAre
  <2>2. /\ InHand'[t] = b /\ Reads(q)' = Reads(q) \cup {t}
        /\ Agree(Reads(q) \ {t}, InHand, InHand')
    BY <1>1, <1>2, <1>3, ReadsTurn
  <2>3. Taken(q)[t] = None  BY <1>6, QueueMailsAre
  <2> HIDE DEF b
  <2>4. Taken(q)' = [Taken(q) EXCEPT ![t] = r.text[b]]
    <3>1. \A x \in Reads(q) : InHand'[x] = InHand[x]  BY <1>6, <2>2 DEF Agree
    <3>2. \A x \in Thread \ {t} : x \in Reads(q)' <=> x \in Reads(q)  BY <2>2
    <3>3. mq'[q].text = r.text  BY <1>8, <1>9
    <3> QED BY <2>2, <3>1, <3>2, <3>3, QueueMailsAre
  <2>5. QueueChannel(q)!Collect(t)  BY <2>1, <2>3, <2>4 DEF QueueChannel!Collect
  <2> QED BY <2>5 DEF QueueDelivers, QueueChannel!ChannelNext
<1>11. ASSUME NEW p \in Queue \ {q} PROVE QueueDelivers(p)
  BY <1>1, <1>2, <1>6, <1>9, TurnStill
<1>12. \A m \in Mailbox : BoxGoes(m)  BY <1>1, BoxesStill
<1> QED BY <1>5, <1>10, <1>11, <1>12 DEF Delivers

(* The reader that comes back to its caller reads nothing any more.         *)
LEMMA ReadsEnd ==
  ASSUME IpcInv, JobInv, NEW t \in Thread, Turn(t, "app", None),
         job' = [job EXCEPT ![t] = NoJob]
  PROVE  \A q : Reads(q)' = Reads(q) \ {t} /\ Agree(Reads(q) \ {t}, InHand, InHand')
PROOF
<1> DEFINE pl == "app"
<1>1. pl # "copy"  OBVIOUS
<1>2. Turn(t, pl, None)  OBVIOUS
<1> HIDE DEF pl
<1> QED BY <1>1, <1>2, ReadsTurn

(* ... and reads it.                                                        *)
LEMMA QueueReadDelivers ==
  ASSUME IpcInv, MailInv, MailInv', LettersInv, NEW t, NEW q \in Queue, QueueRead(t, q)
  PROVE  Delivers
PROOF
<1> DEFINE r == mq[q]
           b == job[t].block
<1>1. /\ Runs(t, "copy") /\ want[t] = q /\ UNCHANGED box
      /\ job' = [job EXCEPT ![t] = NoJob] /\ Turn(t, "app", None)
  BY DEF QueueRead, Ends, Return, InApp, To, Turn, Puts
<1>2. /\ t \in Thread /\ call[t].at = "copy" /\ JobInv /\ QueueInv /\ QueueInv'
      /\ r \in QueueRec /\ mq \in [Queue -> QueueRec]
  BY <1>1, RunsFacts DEF MailInv, QueueInv
<1>3. mq' = [mq EXCEPT ![q] = Freed(r, b)]
  BY <1>2, Zenon DEF QueueRead, Freed
<1>4. mq'[q] = Freed(r, b) /\ \A p \in Queue \ {q} : mq'[p] = mq[p]  BY <1>2, <1>3, OneQueue
<1>5. "app" \notin Asleep /\ "app" # "fill"  BY DEF Asleep
<1>6. LettersInv'  BY <1>1, <1>2, <1>5, TurnLetters
<1>7. t \in Reads(q) /\ \A p : p # q => t \notin Reads(p)  BY <1>1, <1>2 DEF Reads
<1>8. t \in Holders(q) /\ InHand[t] = b  BY <1>2, <1>7, ReadersHave DEF InHand
<1>9. b \in Message /\ ~Contains(r.queue, b) /\ \A x \in Reads(q) \ {t} : InHand[x] # b
  BY <1>2, <1>8, ReadersHave
<1>10. Freed(r, b).queue = r.queue /\ Puts(r.text, b, None, Freed(r, b).text)
  BY <1>2, QueueTexts
<1>11. r.text \in [Message -> Mail \cup {None}]  BY <1>2, QueueFields
<1> HIDE DEF b
<1>12. QueueDelivers(q)
  <2>1. QueueMails(q)' = QueueMails(q)
    <3>1. mq'[q] \in QueueRec  BY <1>2 DEF QueueInv
    <3>2. \A x \in Message : Contains(r.queue, x) => mq'[q].text[x] = r.text[x]
      BY <1>4, <1>9, <1>10, <1>11 DEF Puts
    <3>3. mq'[q].queue = r.queue  BY <1>4, <1>10
    <3>4. Texts(mq'[q]) = Texts(r)  BY <1>2, <3>1, <3>2, <3>3, TextsSame
    <3> QED BY <3>4, QueueMailsAre
  <2>2. Reads(q)' = Reads(q) \ {t} /\ Agree(Reads(q) \ {t}, InHand, InHand')
    BY <1>1, <1>2, ReadsEnd
  <2>3. Taken(q)' = [Taken(q) EXCEPT ![t] = None]
    <3>1. \A x \in Reads(q) \ {t} : InHand'[x] = InHand[x]  BY <2>2 DEF Agree
    <3>2. \A x \in Reads(q) \ {t} : mq'[q].text[InHand[x]] = r.text[InHand[x]]
      BY <1>2, <1>4, <1>9, <1>10, <1>11, ReadersHave DEF Puts
    <3> QED BY <2>2, <3>1, <3>2, QueueMailsAre
  <2>4. CASE Taken(q)[t] # None
    <3>1. QueueChannel(q)!Read(t)  BY <2>1, <2>3, <2>4 DEF QueueChannel!Read
    <3> QED BY <1>2, <3>1 DEF QueueDelivers, QueueChannel!ChannelNext
  <2>5. CASE Taken(q)[t] = None
    <3>1. Taken(q)' = Taken(q)  BY <2>3, <2>5, QueueMailsAre
    <3> QED BY <2>1, <3>1 DEF QueueDelivers, QueueChannel!channelVars
  <2> QED BY <2>4, <2>5
<1>13. ASSUME NEW p \in Queue \ {q} PROVE QueueDelivers(p)
  BY <1>1, <1>2, <1>4, <1>7, TurnStill
<1>14. \A m \in Mailbox : BoxGoes(m)  BY <1>1, BoxesStill
<1> QED BY <1>6, <1>12, <1>13, <1>14 DEF Delivers

(* rt_mq_control(RESET) throws away what nobody has collected yet.          *)
LEMMA QueueResetDelivers ==
  ASSUME IpcInv, MailInv, MailInv', LettersInv, NEW t, NEW q \in Queue, QueueReset(t, q)
  PROVE  Delivers
PROOF
<1> DEFINE r == mq[q]
<1>1. /\ Uses(t, q) /\ (\E k, b : ThenSchedule(t, k, b)) /\ UNCHANGED <<box, job>>
      /\ t \in Thread
  BY UsesFacts DEF QueueReset
<1>2. QueueInv /\ QueueInv' /\ r \in QueueRec /\ mq \in [Queue -> QueueRec]
  BY DEF MailInv, QueueInv
<1>3. mq' = [mq EXCEPT ![q] = Emptied(r)]  BY <1>2, Zenon DEF QueueReset, Emptied
<1>4. mq'[q] = Emptied(r) /\ \A p \in Queue \ {q} : mq'[p] = mq[p]  BY <1>2, <1>3, OneQueue
<1>5. HandsKept /\ SendersKept  BY <1>1, UsesHands, CallSenders
<1>6. LettersInv'  BY <1>1, <1>5, LettersStay
<1>7. \A p : Reads(p)' = Reads(p) /\ Agree(Reads(p), InHand, InHand')
  BY <1>1, <1>5, ReadsStay
<1>8. QueueDelivers(q)
  <2>1. mq'[q] \in QueueRec /\ mq'[q].queue = << >>  BY <1>2, <1>4, ResetTexts DEF QueueInv
  <2>2. QueueMails(q)' = << >>  BY <2>1, TextsNone, QueueMailsAre
  <2>3. \A x \in Reads(q) : mq'[q].text[InHand[x]] = r.text[InHand[x]]
    BY <1>2, <1>4, ResetTexts, ReadersHave
  <2>4. Taken(q)' = Taken(q)  BY <1>7, <2>3, TakenStays
  <2>5. QueueChannel(q)!Clear  BY <2>2, <2>4 DEF QueueChannel!Clear
  <2> QED BY <2>5 DEF QueueDelivers, QueueChannel!ChannelNext
<1>9. ASSUME NEW p \in Queue \ {q} PROVE QueueDelivers(p)
  BY <1>4, <1>7, QueueStill
<1>10. \A m \in Mailbox : BoxGoes(m)  BY <1>1, BoxesStill
<1> QED BY <1>6, <1>8, <1>9, <1>10 DEF Delivers

(* rt_mq_recv, begun and resumed.                                           *)
LEMMA QueueReceiveDelivers ==
  ASSUME IpcInv, MailInv, LettersInv, NEW t, NEW q \in Queue,
         (\E n \in WaitTime : QueueReceive(t, q, n)) \/ QueueReceiveAgain(t, q)
  PROVE  Delivers
PROOF
<1>1. q \notin SenderLists  BY MailLists, SenderListsApart DEF SenderLists
<1>2. t \in Thread /\ call[t].at \notin Hands
  <2>1. Uses(t, q) \/ Tries(t, q)  BY DEF QueueReceive, QueueReceiveAgain
  <2>2. t \in Thread /\ call[t].at \in {"app", "woken"}  BY <2>1, UsesFacts, TriesComing
  <2> QED BY <2>2 DEF Hands
<1>3. job[t] \in Job  BY <1>2 DEF MailInv, JobInv
<1>4. ASSUME NEW n \in WaitTime, QueueReceive(t, q, n) PROVE Delivers
  BY <1>1, <1>2, <1>4, NoJobIs, FetchDelivers, WaitDelivers DEF QueueReceive
<1>5. CASE QueueReceiveAgain(t, q)
  BY <1>1, <1>2, <1>3, <1>5, FetchDelivers, WaitDelivers, EndDelivers DEF QueueReceiveAgain
<1> QED BY <1>4, <1>5

(* A deletion is nothing to the channels.                                   *)
LEMMA DeleteDelivers ==
  ASSUME IpcInv, LettersInv, NEW t \in Thread, NEW o, MailDelete(t, o)
  PROVE  Delivers
PROOF
<1>1. DeleteBegin(t, o) /\ UNCHANGED <<box, mq, job>>  BY DEF MailDelete, mailVars
<1>2. Turn(t, "resume_all", o) /\ call[t].at = "app"  BY <1>1, DeleteTurn
<1>3. HandsKept  BY <1>2, TurnIs DEF HandsKept, Hands
<1>4. SendersKept  BY <1>1, CallSenders
<1>5. \A m \in Mailbox : BoxGoes(m)  BY <1>1, BoxesStill
<1> QED BY <1>1, <1>3, <1>4, <1>5, StepDelivers

(* Nor is a tick, which counts how long each call has waited.               *)
LEMMA TickDelivers ==
  ASSUME MailInv, LettersInv, MailTick
  PROVE  Delivers
PROOF
<1>1. IpcTick /\ UNCHANGED <<box, mq>>  BY DEF MailTick
<1>2. UNCHANGED <<call, want>>
  BY <1>1 DEF IpcTick, Interrupt, Tick, TimerFires, TickDone, waitVars
<1>3. \A t \in Thread : job'[t].block = job[t].block /\ job'[t].mail = job[t].mail
  <2>1. ASSUME NEW j \in Job
        PROVE  LET i == [j EXCEPT !.waited = @ + 1] IN i.block = j.block /\ i.mail = j.mail
    BY DEF Job
  <2> QED BY <2>1 DEF MailTick, MailInv, JobInv
<1>4. HandsKept /\ SendersKept  BY <1>2, StillKeeps, InsideHands, StillSenders
<1>5. \A m \in Mailbox : BoxGoes(m)  BY <1>1, BoxesStill
<1> QED BY <1>1, <1>3, <1>4, <1>5, StepDelivers

(* Every step of a mailbox or a message queue.                              *)
LEMMA MailDelivers ==
  ASSUME IpcInv, MailInv, MailInv', LettersInv, MailStep
  PROVE  Delivers
PROOF
<1>1. ASSUME NEW t \in Thread, MailCall(t) PROVE Delivers
  <2>1. CASE \E m \in Mailbox, n \in WaitTime, v \in Mail : BoxSend(t, m, v, n)
    BY <2>1, BoxCallDelivers
  <2>2. CASE \E m \in Mailbox, n \in WaitTime : BoxReceive(t, m, n)
    BY <2>2, BoxCallDelivers
  <2>3. CASE \E m \in Mailbox : BoxReset(t, m)  BY <2>3, BoxResetDelivers
  <2>4. CASE \E q \in Queue, v \in Mail : QueueSend(t, q, v)  BY <2>4, QueueSendDelivers
  <2>5. CASE \E q \in Queue, n \in WaitTime : QueueReceive(t, q, n)
    BY <2>5, QueueReceiveDelivers
  <2>6. CASE \E q \in Queue : QueueReset(t, q)  BY <2>6, QueueResetDelivers
  <2>7. CASE \E o \in Mailbox \cup Queue : MailDelete(t, o)  BY <2>7, DeleteDelivers
  <2> QED BY <1>1, <2>1, <2>2, <2>3, <2>4, <2>5, <2>6, <2>7 DEF MailCall
<1>2. ASSUME NEW t \in Thread, MailInside(t) PROVE Delivers
  <2>1. CASE \E m \in Mailbox : BoxSendAgain(t, m) \/ BoxReceiveAgain(t, m)
    BY <2>1, BoxCallDelivers
  <2>2. CASE \E q \in Queue : QueueLink(t, q)  BY <2>2, QueueLinkDelivers
  <2>3. CASE \E q \in Queue : QueueRead(t, q)  BY <2>3, QueueReadDelivers
  <2>4. CASE \E q \in Queue : QueueReceiveAgain(t, q)  BY <2>4, QueueReceiveDelivers
  <2>5. CASE WaitFailed(t)
    <3>1. call[t].at = "woken"  BY <2>5, RunsFacts DEF WaitFailed, Woken
    <3> QED BY <2>5, <3>1, EndDelivers DEF Hands
  <2> QED BY <1>2, <2>1, <2>2, <2>3, <2>4, <2>5 DEF MailInside
<1>3. CASE MailHandler  BY <1>3, BoxPostDelivers, QueuePostDelivers DEF MailHandler
<1>4. CASE MailTick  BY <1>4, TickDelivers
<1> QED BY <1>1, <1>2, <1>3, <1>4 DEF MailStep

(* A step of the other objects, of the scheduler or of nothing.             *)
LEMMA OtherDelivers ==
  ASSUME IpcInv, LettersInv, UNCHANGED mailVars,
         SemStep \/ MutexStep \/ EventStep \/ ThreadsStep \/ UNCHANGED objectVars
  PROVE  Delivers
PROOF
<1>1. HandsKept /\ SendersKept
  <2>1. CASE SemStep  BY <2>1, SemShape, AliveShrinks, SemSenders
  <2>2. CASE MutexStep  BY <2>2, MutexShape, AliveShrinks, MutexSenders
  <2>3. CASE EventStep  BY <2>3, EventShape, AliveShrinks, EventSenders
  <2>4. CASE ThreadsStep  BY <2>4, ThreadsShape, ThreadsSenders
  <2>5. CASE UNCHANGED objectVars
    <3>1. UNCHANGED <<call, want>>  BY <2>5 DEF objectVars, ipcVars, waitVars
    <3> QED BY <3>1, StillKeeps, InsideHands, StillSenders
  <2> QED BY <2>1, <2>2, <2>3, <2>4, <2>5
<1>2. UNCHANGED <<box, mq, job>>  BY DEF mailVars
<1>3. \A m \in Mailbox : BoxGoes(m)  BY <1>2, BoxesStill
<1> QED BY <1>1, <1>2, <1>3, StepDelivers

-----------------------------------------------------------------------------
(* The channels are delivered *)

\* in every mailbox the next free slot is that many behind the oldest mail,
\* and every call that is about to send has its mail
ChanInv == (\A m \in Mailbox : Ring(box[m])) /\ LettersInv

\* what a step does to the channels
ChannelStep ==
  /\ \A m \in Mailbox : BoxDelivers(m)
  /\ \A q \in Queue : QueueDelivers(q)

(* Every step keeps the rings and the senders' mails, and is a step of each *)
(* channel or nothing to it.                                                *)
LEMMA StepChannels ==
  ASSUME ObjInv, ObjInv', ChanInv, [ObjectsNext]_objectVars
  PROVE  ChanInv' /\ ChannelStep
PROOF
<1>1. IpcInv /\ MailInv /\ MailInv' /\ LettersInv /\ BoxInv /\ BoxInv'
  BY DEF ObjInv, ChanInv, MailInv
<1>2. Delivers
  <2>1. CASE MailStep  BY <1>1, <2>1, MailDelivers
  <2>2. CASE SemStep \/ MutexStep \/ EventStep \/ ThreadsStep \/ UNCHANGED objectVars
    <3>1. UNCHANGED mailVars
      BY <2>2 DEF SemStep, MutexStep, EventStep, ThreadsStep, objectVars
    <3> QED BY <1>1, <2>2, <3>1, OtherDelivers
  <2> QED BY <2>1, <2>2 DEF ObjectsNext
<1>3. \A m \in Mailbox : Ring(box'[m]) /\ BoxDelivers(m)
  BY <1>1, <1>2, BoxIsChannel DEF ChanInv, Delivers
<1>4. (\A m \in Mailbox : Ring(box[m]))'  BY <1>3 DEF Ring, Behind
<1> QED BY <1>2, <1>3, <1>4 DEF ChanInv, ChannelStep, Delivers

(* The application starts with empty channels.                              *)
LEMMA InitChannels ==
  ASSUME ObjectsInit
  PROVE  /\ ChanInv
         /\ \A m \in Mailbox : BoxChannel(m)!ChannelInit
         /\ \A q \in Queue : QueueChannel(q)!ChannelInit
PROOF
<1>1. /\ \A t \in Thread : call[t].at = "app"
      /\ \A m \in Mailbox : box[m] = EmptyBox
      /\ \A q \in Queue : mq[q] = EmptyQueue
  BY NobodyMoving DEF ObjectsInit, MailEmpty
<1>2. ChanInv  BY <1>1, MailsNone DEF ChanInv, LettersInv, Sends, Asleep
<1>3. ASSUME NEW m \in Mailbox PROVE BoxChannel(m)!ChannelInit
  <2>1. EmptyBox.entry = 0  BY DEF EmptyBox
  <2>2. BoxMails(m) = << >>  BY <1>1, <2>1 DEF BoxMails
  <2> QED BY <2>2 DEF BoxChannel!ChannelInit
<1>4. ASSUME NEW q \in Queue PROVE QueueChannel(q)!ChannelInit
  <2>1. EmptyQueue.queue = << >>  BY DEF EmptyQueue
  <2>2. QueueMails(q) = << >>  BY <1>1, <2>1 DEF QueueMails
  <2>3. Taken(q) = [t \in Thread |-> None]  BY <1>1 DEF Taken
  <2> QED BY <2>2, <2>3 DEF QueueChannel!ChannelInit
<1> QED BY <1>2, <1>3, <1>4

(* Every mailbox and every message queue is a channel: what is sent comes   *)
(* out in order, urgent messages first, each once and unchanged, and nobody *)
(* overwrites a block that is being read.                                   *)
THEOREM MailIsDelivered == ObjectsSpec => ChannelsDeliver
PROOF
<1>1. ObjectsInit => /\ ChanInv
                     /\ \A m \in Mailbox : BoxChannel(m)!ChannelInit
                     /\ \A q \in Queue : QueueChannel(q)!ChannelInit
  BY InitChannels
<1>2. ObjInv /\ ObjInv' /\ ChanInv /\ [ObjectsNext]_objectVars => ChanInv'
  BY StepChannels
<1>3. ObjInv /\ ObjInv' /\ ChanInv /\ [ObjectsNext]_objectVars
      => [/\ \A m \in Mailbox : BoxDelivers(m)
          /\ \A q \in Queue : QueueDelivers(q)]_allMailVars
  BY StepChannels DEF ChannelStep
<1> QED BY <1>1, <1>2, <1>3, ObjectsInvariant, PTL DEF ObjectsSpec, ChannelsDeliver

=============================================================================

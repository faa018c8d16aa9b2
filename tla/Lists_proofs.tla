---------------------------- MODULE Lists_proofs ----------------------------
(***************************************************************************)
(* What insertions and removals do to a list, and that a non-empty set of  *)
(* naturals has a least element.                                           *)
(***************************************************************************)
EXTENDS Lists, Functions, SequenceTheorems, WellFoundedInduction, FiniteSetTheorems,
        TLAPS

-----------------------------------------------------------------------------
(* Sequences and natural numbers *)

(* A non-empty set of naturals has a least element: __rt_ffs of a non-empty *)
(* bit map is defined.                                                      *)
LEMMA LeastExists ==
  ASSUME NEW S \in SUBSET Nat, S # {}
  PROVE  \E x \in S : \A y \in S : x <= y
<1> DEFINE R == OpToRel(<, Nat)
<1>1. \A x, y \in Nat : x < y => <<x, y>> \in R
  BY DEF OpToRel
<1>2. IsWellFoundedOn(R, Nat)
  BY NatLessThanWellFounded
<1> HIDE DEF R
<1>3. PICK x \in S : \A y \in S : ~ (<<y, x>> \in R)
  BY <1>2, WFMin, Zenon
<1>4. ASSUME NEW y \in S PROVE x <= y
  <2>1. x \in Nat /\ y \in Nat
    OBVIOUS
  <2>2. ~(y < x)
    BY <1>3, <1>1, <2>1
  <2> QED
    BY <2>1, <2>2
<1> QED
  BY <1>4

(* RemoveAt shifts what follows the removed position by one.                *)
LEMMA RemoveAtProperties ==
  ASSUME NEW S, NEW q \in Seq(S), NEW i \in 1 .. Len(q)
  PROVE  /\ RemoveAt(q, i) \in Seq(S)
         /\ Len(RemoveAt(q, i)) = Len(q) - 1
         /\ \A j \in 1 .. Len(q) - 1 :
              RemoveAt(q, i)[j] = IF j < i THEN q[j] ELSE q[j + 1]
<1> DEFINE a == SubSeq(q, 1, i - 1)
           b == SubSeq(q, i + 1, Len(q))
<1>1. /\ a \in Seq(S) /\ Len(a) = i - 1
      /\ \A j \in 1 .. i - 1 : a[j] = q[j]
  OBVIOUS
<1>2. /\ b \in Seq(S) /\ Len(b) = Len(q) - i
      /\ \A j \in 1 .. Len(q) - i : b[j] = q[i + j]
  OBVIOUS
<1>3. RemoveAt(q, i) = a \o b
  BY DEF RemoveAt
<1> HIDE DEF a, b
<1>4. /\ a \o b \in Seq(S) /\ Len(a \o b) = Len(a) + Len(b)
      /\ \A j \in 1 .. Len(a) + Len(b) :
           (a \o b)[j] = IF j <= Len(a) THEN a[j] ELSE b[j - Len(a)]
  BY <1>1, <1>2, ConcatProperties
<1>5. Len(a) + Len(b) = Len(q) - 1
  BY <1>1, <1>2
<1>6. ASSUME NEW j \in 1 .. Len(q) - 1
      PROVE  (a \o b)[j] = IF j < i THEN q[j] ELSE q[j + 1]
  <2>1. CASE j < i
    BY <2>1, <1>1, <1>4, <1>5
  <2>2. CASE ~(j < i)
    <3>1. j - Len(a) \in 1 .. Len(q) - i /\ i + (j - Len(a)) = j + 1
      BY <2>2, <1>1
    <3> QED
      BY <2>2, <3>1, <1>1, <1>2, <1>4, <1>5
  <2> QED
    BY <2>1, <2>2
<1> QED
  BY <1>3, <1>4, <1>5, <1>6

(* Taking a thread out of a list that holds nobody twice removes it and     *)
(* nobody else.                                                             *)
LEMMA WithoutProperties ==
  ASSUME NEW S, NEW q \in Seq(S), NEW t
  PROVE  /\ Without(q, t) \in Seq(S)
         /\ ~Contains(q, t) => Without(q, t) = q
         /\ IsInjective(q) => /\ IsInjective(Without(q, t))
                              /\ \A u : Contains(Without(q, t), u)
                                          <=> Contains(q, u) /\ u # t
<1>1. CASE ~Contains(q, t)
  BY <1>1 DEF Without
<1>2. CASE Contains(q, t)
  <2> DEFINE i == CHOOSE i \in 1 .. Len(q) : q[i] = t
  <2>1. i \in 1 .. Len(q) /\ q[i] = t
    BY <1>2 DEF Contains
  <2>2. Without(q, t) = RemoveAt(q, i)
    BY <1>2 DEF Without
  <2> HIDE DEF i
  <2>3. /\ Without(q, t) \in Seq(S)
        /\ Len(Without(q, t)) = Len(q) - 1
        /\ \A j \in 1 .. Len(q) - 1 :
             Without(q, t)[j] = IF j < i THEN q[j] ELSE q[j + 1]
    BY <2>1, <2>2, RemoveAtProperties
  <2>4. ASSUME IsInjective(q) PROVE IsInjective(Without(q, t))
    <3> DEFINE w == Without(q, t)
    <3> SUFFICES ASSUME NEW x \in 1 .. Len(w), NEW y \in 1 .. Len(w), w[x] = w[y]
                 PROVE  x = y
      BY <2>3 DEF IsInjective
    <3> HIDE DEF w
    <3>1. x \in 1 .. Len(q) - 1 /\ y \in 1 .. Len(q) - 1
      BY <2>3 DEF w
    <3>2. /\ w[x] = IF x < i THEN q[x] ELSE q[x + 1]
          /\ w[y] = IF y < i THEN q[y] ELSE q[y + 1]
      BY <2>3, <3>1 DEF w
    <3>3. \A m, n \in 1 .. Len(q) : q[m] = q[n] => m = n
      BY <2>4 DEF IsInjective
    <3> DEFINE At(j) == IF j < i THEN j ELSE j + 1
    <3>4. At(x) \in 1 .. Len(q) /\ At(y) \in 1 .. Len(q)
      BY <2>1, <3>1
    <3>5. q[At(x)] = q[At(y)]
      BY <3>2
    <3>6. At(x) = At(y)
      BY <3>3, <3>4, <3>5
    <3> QED
      BY <2>1, <3>1, <3>6
  <2>5. ASSUME IsInjective(q), NEW u
        PROVE  Contains(Without(q, t), u) <=> Contains(q, u) /\ u # t
    <3>1. ASSUME Contains(Without(q, t), u) PROVE Contains(q, u) /\ u # t
      <4>1. PICK j \in 1 .. Len(q) - 1 : Without(q, t)[j] = u
        BY <3>1, <2>3 DEF Contains
      <4>2. CASE j < i
        BY <4>1, <4>2, <2>1, <2>3, <2>5 DEF Contains, IsInjective
      <4>3. CASE ~(j < i)
        <5>1. j + 1 \in 1 .. Len(q) /\ j + 1 # i /\ q[j + 1] = u
          BY <4>1, <4>3, <2>1, <2>3
        <5>2. q[j + 1] # q[i]
          BY <5>1, <2>1, <2>5 DEF IsInjective
        <5> QED
          BY <5>1, <5>2, <2>1 DEF Contains
      <4> QED
        BY <4>2, <4>3
    <3>2. ASSUME Contains(q, u), u # t PROVE Contains(Without(q, t), u)
      <4>1. PICK j \in 1 .. Len(q) : q[j] = u
        BY <3>2 DEF Contains
      <4>2. CASE j < i
        BY <4>1, <4>2, <2>1, <2>3 DEF Contains
      <4>3. CASE j > i
        <5>1. j - 1 \in 1 .. Len(q) - 1 /\ ~(j - 1 < i) /\ (j - 1) + 1 = j
          BY <4>3, <2>1
        <5> QED
          BY <4>1, <5>1, <2>3 DEF Contains
      <4> QED
        BY <4>1, <4>2, <4>3, <2>1, <3>2
    <3> QED
      BY <3>1, <3>2
  <2> QED
    BY <2>3, <2>4, <2>5, <1>2
<1> QED
  BY <1>1, <1>2

(* Appending a newcomer adds it and nobody else.                            *)
LEMMA AppendMember ==
  ASSUME NEW S, NEW q \in Seq(S), NEW t \in S, ~Contains(q, t), IsInjective(q)
  PROVE  /\ Append(q, t) \in Seq(S) /\ Append(q, t) # << >>
         /\ IsInjective(Append(q, t))
         /\ \A u : Contains(Append(q, t), u) <=> Contains(q, u) \/ u = t
<1>1. /\ Append(q, t) \in Seq(S) /\ Append(q, t) # << >>
      /\ Len(Append(q, t)) = Len(q) + 1
      /\ \A i \in 1 .. Len(q) : Append(q, t)[i] = q[i]
      /\ Append(q, t)[Len(q) + 1] = t
  BY AppendProperties
<1>2. \A i \in 1 .. Len(q) : q[i] # t
  BY DEF Contains
<1>3. IsInjective(Append(q, t))
  BY <1>1, <1>2 DEF IsInjective
<1>4. \A u : Contains(Append(q, t), u) <=> Contains(q, u) \/ u = t
  BY <1>1 DEF Contains
<1> QED
  BY <1>1, <1>3, <1>4

(* The same for an insertion at the head.                                   *)
LEMMA ConsMember ==
  ASSUME NEW S, NEW q \in Seq(S), NEW t \in S, ~Contains(q, t), IsInjective(q)
  PROVE  /\ <<t>> \o q \in Seq(S)
         /\ IsInjective(<<t>> \o q)
         /\ \A u : Contains(<<t>> \o q, u) <=> Contains(q, u) \/ u = t
<1> DEFINE r == <<t>> \o q
<1>1. <<t>> \in Seq(S) /\ Len(<<t>>) = 1 /\ <<t>>[1] = t
  OBVIOUS
<1>2. /\ r \in Seq(S) /\ Len(r) = 1 + Len(q)
      /\ \A i \in 1 .. 1 + Len(q) : r[i] = IF i <= 1 THEN <<t>>[i] ELSE q[i - 1]
  BY <1>1, ConcatProperties
<1> HIDE DEF r
<1>3. r[1] = t /\ \A i \in 1 .. Len(q) : r[i + 1] = q[i]
  BY <1>1, <1>2
<1>4. \A i \in 1 .. Len(r) : i = 1 \/ \E j \in 1 .. Len(q) : i = j + 1
  <2> TAKE i \in 1 .. Len(r)
  <2>1. i = 1 \/ (i - 1 \in 1 .. Len(q) /\ i = (i - 1) + 1)
    BY <1>2
  <2> QED
    BY <2>1
<1>5. \A i \in 1 .. Len(q) : q[i] # t
  BY DEF Contains
<1>6. IsInjective(r)
  <2> SUFFICES ASSUME NEW i \in 1 .. Len(r), NEW j \in 1 .. Len(r), r[i] = r[j]
               PROVE  i = j
    BY <1>2 DEF IsInjective
  <2>1. CASE i = 1
    BY <2>1, <1>3, <1>4, <1>5
  <2>2. CASE j = 1
    BY <2>2, <1>3, <1>4, <1>5
  <2>3. CASE i # 1 /\ j # 1
    <3>1. PICK m \in 1 .. Len(q) : i = m + 1
      BY <2>3, <1>4
    <3>2. PICK n \in 1 .. Len(q) : j = n + 1
      BY <2>3, <1>4
    <3> QED
      BY <3>1, <3>2, <1>3 DEF IsInjective
  <2> QED
    BY <2>1, <2>2, <2>3
<1>7. ASSUME NEW u PROVE Contains(r, u) <=> Contains(q, u) \/ u = t
  <2>1. ASSUME Contains(r, u) PROVE Contains(q, u) \/ u = t
    BY <2>1, <1>3, <1>4 DEF Contains
  <2>2. ASSUME Contains(q, u) PROVE Contains(r, u)
    <3>1. PICK j \in 1 .. Len(q) : q[j] = u
      BY <2>2 DEF Contains
    <3>2. j + 1 \in 1 .. Len(r)
      BY <1>2
    <3> QED
      BY <3>1, <3>2, <1>3 DEF Contains
  <2>3. ASSUME u = t PROVE Contains(r, u)
    BY <2>3, <1>2, <1>3 DEF Contains
  <2> QED
    BY <2>1, <2>2, <2>3
<1> QED
  BY <1>2, <1>6, <1>7 DEF r

(* A list is empty when it has no member.                                   *)
LEMMA EmptyMember ==
  ASSUME NEW S, NEW q \in Seq(S)
  PROVE  q # << >> <=> \E u \in S : Contains(q, u)
<1>1. ASSUME q # << >> PROVE \E u \in S : Contains(q, u)
  <2>1. 1 \in 1 .. Len(q) /\ q[1] \in S
    BY <1>1
  <2> QED
    BY <2>1 DEF Contains
<1>2. ASSUME q = << >> PROVE ~ \E u \in S : Contains(q, u)
  BY <1>2 DEF Contains
<1> QED
  BY <1>1, <1>2

(* Taking a thread out keeps the order of the others.                        *)
LEMMA WithoutOrder ==
  ASSUME NEW S, NEW q \in Seq(S), NEW t,
         NEW x \in 1 .. Len(Without(q, t)), NEW y \in 1 .. Len(Without(q, t)), x < y
  PROVE  \E i, j \in 1 .. Len(q) : i < j /\ q[i] = Without(q, t)[x] /\ q[j] = Without(q, t)[y]
<1>1. CASE ~Contains(q, t)
  BY <1>1 DEF Without
<1>2. CASE Contains(q, t)
  <2> DEFINE m == CHOOSE i \in 1 .. Len(q) : q[i] = t
             r == Without(q, t)
  <2>1. m \in 1 .. Len(q)
    BY <1>2 DEF Contains
  <2>2. r = RemoveAt(q, m)
    BY <1>2 DEF Without
  <2> HIDE DEF m, r
  <2>3. /\ Len(r) = Len(q) - 1
        /\ \A j \in 1 .. Len(q) - 1 : r[j] = IF j < m THEN q[j] ELSE q[j + 1]
    BY <2>1, <2>2, RemoveAtProperties
  <2> DEFINE At(j) == IF j < m THEN j ELSE j + 1
  <2>4. Len(q) \in Nat /\ x \in 1 .. Len(q) - 1 /\ y \in 1 .. Len(q) - 1
    BY <2>3 DEF r
  <2>5. /\ At(x) \in 1 .. Len(q) /\ At(y) \in 1 .. Len(q) /\ At(x) < At(y)
    BY <2>1, <2>4
  <2>6. q[At(x)] = r[x] /\ q[At(y)] = r[y]
    BY <2>3, <2>4
  <2> QED
    BY <2>5, <2>6 DEF r
<1> QED
  BY <1>1, <1>2

(* InsertAt shifts what follows the new element by one.                      *)
LEMMA InsertAtProperties ==
  ASSUME NEW S, NEW q \in Seq(S), NEW p \in 1 .. Len(q) + 1, NEW t \in S
  PROVE  /\ InsertAt(q, p, t) \in Seq(S)
         /\ Len(InsertAt(q, p, t)) = Len(q) + 1
         /\ \A j \in 1 .. Len(q) + 1 :
              InsertAt(q, p, t)[j] = IF j < p THEN q[j] ELSE IF j = p THEN t ELSE q[j - 1]
<1> DEFINE a == SubSeq(q, 1, p - 1)
           b == SubSeq(q, p, Len(q))
           m == a \o <<t>>
<1>1. /\ a \in Seq(S) /\ Len(a) = p - 1
      /\ \A j \in 1 .. p - 1 : a[j] = q[j]
  OBVIOUS
<1>2. /\ b \in Seq(S) /\ Len(b) = Len(q) - p + 1
      /\ \A j \in 1 .. Len(q) - p + 1 : b[j] = q[p + j - 1]
  OBVIOUS
<1>3. <<t>> \in Seq(S) /\ Len(<<t>>) = 1 /\ <<t>>[1] = t
  OBVIOUS
<1>4. InsertAt(q, p, t) = m \o b
  BY DEF InsertAt
<1> HIDE DEF a, b
<1>5. /\ m \in Seq(S) /\ Len(m) = p
      /\ \A j \in 1 .. p : m[j] = IF j < p THEN q[j] ELSE t
  <2>1. /\ m \in Seq(S) /\ Len(m) = Len(a) + Len(<<t>>)
        /\ \A j \in 1 .. Len(a) + Len(<<t>>) :
             m[j] = IF j <= Len(a) THEN a[j] ELSE <<t>>[j - Len(a)]
    BY <1>1, <1>3, ConcatProperties
  <2>2. Len(m) = p
    BY <1>1, <1>3, <2>1
  <2>3. ASSUME NEW j \in 1 .. p PROVE m[j] = IF j < p THEN q[j] ELSE t
    <3>1. CASE j < p
      BY <1>1, <1>3, <2>1, <3>1
    <3>2. CASE ~(j < p)
      <4>1. ~(j <= Len(a)) /\ j - Len(a) = 1
        BY <1>1, <3>2
      <4> QED
        BY <1>1, <1>3, <2>1, <3>2, <4>1
    <3> QED
      BY <3>1, <3>2
  <2> QED
    BY <2>1, <2>2, <2>3
<1> HIDE DEF m
<1>6. /\ m \o b \in Seq(S) /\ Len(m \o b) = Len(m) + Len(b)
      /\ \A j \in 1 .. Len(m) + Len(b) :
           (m \o b)[j] = IF j <= Len(m) THEN m[j] ELSE b[j - Len(m)]
  BY <1>2, <1>5, ConcatProperties
<1>7. Len(m) + Len(b) = Len(q) + 1
  BY <1>2, <1>5
<1>8. ASSUME NEW j \in 1 .. Len(q) + 1
      PROVE  (m \o b)[j] = IF j < p THEN q[j] ELSE IF j = p THEN t ELSE q[j - 1]
  <2>1. CASE j <= p
    BY <2>1, <1>5, <1>6, <1>7
  <2>2. CASE ~(j <= p)
    <3>1. j - p \in 1 .. Len(q) - p + 1 /\ p + (j - p) - 1 = j - 1
      BY <2>2
    <3>2. (m \o b)[j] = b[j - p]
      BY <2>2, <1>5, <1>6, <1>7
    <3>3. b[j - p] = q[p + (j - p) - 1]
      BY <3>1, <1>2
    <3>4. ~(j < p) /\ j # p
      BY <2>2
    <3> QED
      BY <3>1, <3>2, <3>3, <3>4
  <2> QED
    BY <2>1, <2>2
<1> QED
  BY <1>4, <1>6, <1>7, <1>8

(* r is s with u put at position n and what stood there moved up by one. *)
RoomMade(r, s, n, u) ==
  /\ Len(r) = Len(s) + 1
  /\ \A m \in 1 .. Len(s) + 1 :
       r[m] = IF m < n THEN s[m] ELSE IF m = n THEN u ELSE s[m - 1]

(* What InsertAt makes of a sequence, in one word. *)
LEMMA InsertAtMakesRoom ==
  ASSUME NEW S, NEW q \in Seq(S), NEW p \in 1 .. Len(q) + 1, NEW t \in S
  PROVE  RoomMade(InsertAt(q, p, t), q, p, t)
BY InsertAtProperties DEF RoomMade

(* Inserting a newcomer adds it and nobody else, keeps the others in order,  *)
(* and puts it behind those before position p and before the others.         *)
LEMMA InsertAtMember ==
  ASSUME NEW S, NEW q \in Seq(S), NEW p \in 1 .. Len(q) + 1, NEW t \in S,
         ~Contains(q, t), IsInjective(q)
  PROVE  LET r == InsertAt(q, p, t) IN
         /\ r \in Seq(S) /\ IsInjective(r) /\ r # << >>
         /\ \A u : Contains(r, u) <=> Contains(q, u) \/ u = t
         /\ \A x, y \in 1 .. Len(r) : x < y =>
              \/ \E i, j \in 1 .. Len(q) : i < j /\ r[x] = q[i] /\ r[y] = q[j]
              \/ r[y] = t /\ \E i \in 1 .. Len(q) : i < p /\ r[x] = q[i]
              \/ r[x] = t /\ \E j \in 1 .. Len(q) : p <= j /\ r[y] = q[j]
         /\ \A i \in 1 .. Len(q) : i < p =>
              \E x, y \in 1 .. Len(r) : x < y /\ r[x] = q[i] /\ r[y] = t
<1> DEFINE r == InsertAt(q, p, t)
           From(j) == IF j < p THEN j ELSE j - 1
<1>1. /\ r \in Seq(S) /\ Len(r) = Len(q) + 1 /\ Len(q) \in Nat
      /\ \A j \in 1 .. Len(q) + 1 : r[j] = IF j < p THEN q[j] ELSE IF j = p THEN t ELSE q[j - 1]
  BY InsertAtProperties
<1> HIDE DEF r
<1>2. r[p] = t /\ p \in 1 .. Len(r)
  BY <1>1
<1>3. \A j \in 1 .. Len(r) : j # p => From(j) \in 1 .. Len(q) /\ r[j] = q[From(j)]
  BY <1>1
<1>4. \A i \in 1 .. Len(q) : q[i] # t
  BY DEF Contains
<1>5. \A x, y \in 1 .. Len(r) : r[x] = r[y] => x = y
  <2> SUFFICES ASSUME NEW x \in 1 .. Len(r), NEW y \in 1 .. Len(r), r[x] = r[y]
               PROVE  x = y
    OBVIOUS
  <2>1. CASE x = p \/ y = p
    BY <2>1, <1>2, <1>3, <1>4
  <2>2. CASE x # p /\ y # p
    <3>1. /\ From(x) \in 1 .. Len(q) /\ From(y) \in 1 .. Len(q)
          /\ q[From(x)] = q[From(y)]
      BY <2>2, <1>3
    <3>2. From(x) = From(y)
      BY <3>1 DEF IsInjective
    <3> QED
      BY <2>2, <3>2, <1>1
  <2> QED
    BY <2>1, <2>2
<1>6. \A i \in 1 .. Len(q) : \E j \in 1 .. Len(r) : j # p /\ From(j) = i /\ r[j] = q[i]
  <2> TAKE i \in 1 .. Len(q)
  <2>1. CASE i < p
    <3>1. i \in 1 .. Len(r) /\ i # p /\ From(i) = i
      BY <2>1, <1>1
    <3> QED
      BY <3>1, <1>3
  <2>2. CASE ~(i < p)
    <3>1. i + 1 \in 1 .. Len(r) /\ i + 1 # p /\ From(i + 1) = i
      BY <2>2, <1>1
    <3> QED
      BY <3>1, <1>3
  <2> QED
    BY <2>1, <2>2
<1>7. \A u : Contains(r, u) <=> Contains(q, u) \/ u = t
  <2> TAKE u
  <2>1. ASSUME Contains(r, u) PROVE Contains(q, u) \/ u = t
    BY <2>1, <1>2, <1>3 DEF Contains
  <2>2. ASSUME Contains(q, u) PROVE Contains(r, u)
    BY <2>2, <1>6 DEF Contains
  <2>3. ASSUME u = t PROVE Contains(r, u)
    BY <2>3, <1>2 DEF Contains
  <2> QED
    BY <2>1, <2>2, <2>3
<1>8. ASSUME NEW x \in 1 .. Len(r), NEW y \in 1 .. Len(r), x < y
      PROVE  \/ \E i, j \in 1 .. Len(q) : i < j /\ r[x] = q[i] /\ r[y] = q[j]
             \/ r[y] = t /\ \E i \in 1 .. Len(q) : i < p /\ r[x] = q[i]
             \/ r[x] = t /\ \E j \in 1 .. Len(q) : p <= j /\ r[y] = q[j]
  <2>1. CASE y = p
    <3>1. From(x) < p /\ x # p
      BY <2>1, <1>8
    <3> QED
      BY <2>1, <3>1, <1>2, <1>3
  <2>2. CASE x = p
    <3>1. p <= From(y) /\ y # p
      BY <2>2, <1>8, <1>1
    <3> QED
      BY <2>2, <3>1, <1>2, <1>3
  <2>3. CASE x # p /\ y # p
    <3>1. From(x) < From(y)
      BY <2>3, <1>8, <1>1
    <3> QED
      BY <2>3, <3>1, <1>3
  <2> QED
    BY <2>1, <2>2, <2>3
<1>9. ASSUME NEW i \in 1 .. Len(q), i < p
      PROVE  \E x, y \in 1 .. Len(r) : x < y /\ r[x] = q[i] /\ r[y] = t
  <2>1. i \in 1 .. Len(r) /\ r[i] = q[i]
    BY <1>1, <1>9
  <2> QED
    BY <2>1, <1>2, <1>9
<1>10. IsInjective(r) /\ r # << >>
  BY <1>1, <1>5 DEF IsInjective
<1> QED
  BY <1>1, <1>7, <1>8, <1>9, <1>10 DEF r

-----------------------------------------------------------------------------
(* Folds over finite sets, as the community modules compute them: c[s] is    *)
(* taken out of s, and G combines it with what the rest gives.               *)

Folds(S, c, G, b, f) ==
  f = [s \in SUBSET S |-> IF s = {} THEN b ELSE G[<<c[s], f[s \ {c[s]}]>>]]

(* A set of naturals with 0 and every successor holds them all.              *)
LEMMA NatSet ==
  ASSUME NEW G, 0 \in G, \A n \in Nat : n \in G => n + 1 \in G
  PROVE  \A n \in Nat : n \in G
<1> DEFINE B == {n \in Nat : n \notin G}
<1>1. CASE B = {}
  BY <1>1
<1>2. CASE B # {}
  <2>1. PICK n \in B : \A k \in B : n <= k
    <3>1. B \in SUBSET Nat
      OBVIOUS
    <3> HIDE DEF B
    <3> QED
      BY <1>2, <3>1, LeastExists
  <2>2. n \in Nat /\ n # 0 /\ n - 1 \in Nat /\ n - 1 \notin B
    BY <2>1
  <2>3. n - 1 \in G /\ (n - 1) + 1 = n
    BY <2>2
  <2>4. n \in G
    BY <2>2, <2>3
  <2> QED
    BY <2>1, <2>4
<1> QED
  BY <1>1, <1>2

LEMMA Smaller ==
  ASSUME NEW S, IsFiniteSet(S), NEW s \in SUBSET S, NEW x \in s, NEW n \in Nat,
         Cardinality(s) <= n + 1
  PROVE  /\ IsFiniteSet(s) /\ s \ {x} \in SUBSET S
         /\ Cardinality(s) \in Nat \ {0} /\ Cardinality(s \ {x}) = Cardinality(s) - 1
         /\ Cardinality(s \ {x}) <= n
<1>1. IsFiniteSet(s)
  BY FS_Subset
<1>2. Cardinality(s) \in Nat
  BY <1>1, FS_CardinalityType
<1>3. Cardinality(s) # 0
  BY <1>1, FS_EmptySet
<1>4. Cardinality(s \ {x}) = Cardinality(s) - 1
  BY <1>1, FS_RemoveElement
<1> QED
  BY <1>1, <1>2, <1>3, <1>4

(* A fold is defined, and stays in the set V that G does not lead out of.    *)
LEMMA FoldsExist ==
  ASSUME NEW S, IsFiniteSet(S), NEW V, NEW b \in V, NEW c, NEW G,
         \A s \in SUBSET S : s # {} => c[s] \in s,
         \A x \in S, v \in V : G[<<x, v>>] \in V
  PROVE  \E f \in [SUBSET S -> V] : Folds(S, c, G, b, f)
<1> DEFINE Part(n) == {s \in SUBSET S : Cardinality(s) <= n}
           Rec(f, s) == IF s = {} THEN b ELSE G[<<c[s], f[s \ {c[s]}]>>]
           Good(n) == \E f \in [Part(n) -> V] : \A s \in Part(n) : f[s] = Rec(f, s)
           N == {n \in Nat : Good(n)}
<1>1. \A s \in SUBSET S : IsFiniteSet(s) /\ Cardinality(s) \in Nat
                          /\ (Cardinality(s) = 0 <=> s = {})
  <2> SUFFICES ASSUME NEW s \in SUBSET S
               PROVE  IsFiniteSet(s) /\ Cardinality(s) \in Nat /\ (Cardinality(s) = 0 <=> s = {})
    OBVIOUS
  <2>1. IsFiniteSet(s)
    BY FS_Subset
  <2> QED
    BY <2>1, FS_CardinalityType, FS_EmptySet
<1>2. 0 \in N
  <2> DEFINE f == [s \in Part(0) |-> b]
  <2>1. \A s \in Part(0) : s = {}
    BY <1>1
  <2>2. f \in [Part(0) -> V]
    OBVIOUS
  <2>3. \A s \in Part(0) : f[s] = Rec(f, s)
    BY <2>1
  <2> HIDE DEF f, Rec, Part
  <2>4. Good(0)
    BY <2>2, <2>3
  <2> QED
    BY <2>4
<1>3. ASSUME NEW n \in Nat, n \in N PROVE n + 1 \in N
  <2>1. PICK f \in [Part(n) -> V] : \A s \in Part(n) : f[s] = Rec(f, s)
    BY <1>3
  <2> DEFINE g == [s \in Part(n + 1) |-> IF s \in Part(n) THEN f[s]
                                         ELSE G[<<c[s], f[s \ {c[s]}]>>]]
  <2>2. ASSUME NEW s \in Part(n + 1), s # {}
        PROVE  s \ {c[s]} \in Part(n) /\ c[s] \in S
    <3>1. s \in SUBSET S /\ Cardinality(s) <= n + 1 /\ c[s] \in s
      BY <2>2
    <3>2. s \ {c[s]} \in SUBSET S /\ Cardinality(s \ {c[s]}) <= n
      BY <3>1, Smaller
    <3> QED
      BY <3>1, <3>2
  <2>3. \A s \in Part(n) : s \in Part(n + 1)
    BY <1>1
  <2>4. \A s \in Part(n + 1) : s = {} => s \in Part(n)
    BY <1>1
  <2> HIDE DEF Part
  <2>5. ASSUME NEW s \in Part(n + 1) PROVE g[s] \in V
    BY <2>1, <2>2, <2>4
  <2>6. g \in [Part(n + 1) -> V]
    BY <2>5
  <2>7. ASSUME NEW s \in Part(n + 1) PROVE g[s] = Rec(g, s)
    <3>1. CASE s = {}
      BY <2>1, <2>4, <3>1
    <3>2. CASE s # {}
      <4>1. s \ {c[s]} \in Part(n) /\ s \ {c[s]} \in Part(n + 1)
        BY <2>2, <2>3, <3>2
      <4>2. g[s \ {c[s]}] = f[s \ {c[s]}]
        BY <4>1
      <4>3. s \in Part(n) => f[s] = G[<<c[s], f[s \ {c[s]}]>>]
        BY <2>1, <3>2
      <4>4. g[s] = G[<<c[s], f[s \ {c[s]}]>>]
        BY <4>3
      <4> HIDE DEF g
      <4> QED
        BY <3>2, <4>2, <4>4
    <3> QED
      BY <3>1, <3>2
  <2> HIDE DEF g, Rec
  <2>8. Good(n + 1)
    BY <2>6, <2>7
  <2> QED
    BY <2>8
<1> HIDE DEF Good
<1>4. \A n \in Nat : n \in N
  <2> HIDE DEF N
  <2> QED
    BY <1>2, <1>3, NatSet
<1>5. Cardinality(S) \in Nat
  BY FS_CardinalityType
<1>6. Good(Cardinality(S))
  BY <1>4, <1>5
<1>7. PICK f \in [Part(Cardinality(S)) -> V] :
        \A s \in Part(Cardinality(S)) : f[s] = Rec(f, s)
  BY <1>6 DEF Good
<1>8. Part(Cardinality(S)) = SUBSET S
  BY FS_Subset
<1>9. f = [s \in SUBSET S |-> f[s]] /\ (\A s \in SUBSET S : f[s] = Rec(f, s))
  <2> HIDE DEF Part, Rec
  <2> QED
    BY <1>7, <1>8
<1>10. f = [s \in SUBSET S |-> Rec(f, s)]
  <2> HIDE DEF Rec
  <2> QED
    BY <1>9
<1>11. Folds(S, c, G, b, f) /\ f \in [SUBSET S -> V]
  BY <1>7, <1>8, <1>10 DEF Folds
<1> QED
  BY <1>11

-----------------------------------------------------------------------------
(* Sums over finite sets, as the community modules compute them: by taking   *)
(* away one element after the other.                                         *)

Some(s) == CHOOSE x \in s : TRUE

\* f[s] is the sum of w over s, for every part s of S
Sums(S, w, f) ==
  f = [s \in SUBSET S |-> IF s = {} THEN 0 ELSE w[Some(s)] + f[s \ {Some(s)}]]

LEMMA SomeIs == ASSUME NEW s, s # {} PROVE Some(s) \in s
  BY DEF Some

(* The sum is defined.                                                       *)
LEMMA SumsExist ==
  ASSUME NEW S, IsFiniteSet(S), NEW w \in [S -> Int]
  PROVE  \E f : Sums(S, w, f)
<1> DEFINE c == [s \in SUBSET S |-> Some(s)]
           G == [a \in S \X Int |-> w[a[1]] + a[2]]
<1>1. \A s \in SUBSET S : s # {} => c[s] \in s /\ c[s] = Some(s)
  BY SomeIs
<1>2. \A x \in S, v \in Int : G[<<x, v>>] = w[x] + v /\ G[<<x, v>>] \in Int
  OBVIOUS
<1> HIDE DEF c, G
<1>3. PICK f \in [SUBSET S -> Int] : Folds(S, c, G, 0, f)
  <2>1. \A s \in SUBSET S : s # {} => c[s] \in s
    BY <1>1
  <2>2. \A x \in S, v \in Int : G[<<x, v>>] \in Int
    BY <1>2
  <2>3. 0 \in Int
    OBVIOUS
  <2> QED
    BY ONLY <2>1, <2>2, <2>3, FoldsExist, IsFiniteSet(S)
<1>4. ASSUME NEW s \in SUBSET S, s # {}
      PROVE  G[<<c[s], f[s \ {c[s]}]>>] = w[Some(s)] + f[s \ {Some(s)}]
  <2>1. c[s] \in S /\ c[s] = Some(s) /\ s \ {c[s]} \in SUBSET S
    BY <1>1, <1>4
  <2>2. f[s \ {c[s]}] \in Int
    BY <2>1
  <2> QED
    BY <1>2, <2>1, <2>2
<1>5. [s \in SUBSET S |-> IF s = {} THEN 0 ELSE G[<<c[s], f[s \ {c[s]}]>>]]
        = [s \in SUBSET S |-> IF s = {} THEN 0 ELSE w[Some(s)] + f[s \ {Some(s)}]]
  BY <1>4
<1> QED
  BY <1>3, <1>5 DEF Folds, Sums

(* It does not depend on the order in which the elements are taken.          *)
LEMMA SumsAdd ==
  ASSUME NEW S, IsFiniteSet(S), NEW w \in [S -> Int], NEW f, Sums(S, w, f)
  PROVE  /\ \A s \in SUBSET S : f[s] \in Int
         /\ f[{}] = 0
         /\ \A s \in SUBSET S : \A y \in s : f[s] = w[y] + f[s \ {y}]
<1> DEFINE Adds(s) == f[s] \in Int /\ \A y \in s : f[s] = w[y] + f[s \ {y}]
           G == {n \in Nat : \A s \in SUBSET S : Cardinality(s) <= n => Adds(s)}
<1>1. \A s \in SUBSET S : f[s] = IF s = {} THEN 0 ELSE w[Some(s)] + f[s \ {Some(s)}]
  BY DEF Sums
<1>2. f[{}] = 0
  <2>1. {} \in SUBSET S
    OBVIOUS
  <2> QED
    BY <1>1, <2>1
<1>3. 0 \in G
  <2> SUFFICES ASSUME NEW s \in SUBSET S, Cardinality(s) <= 0 PROVE Adds(s)
    OBVIOUS
  <2>1. IsFiniteSet(s)
    BY FS_Subset
  <2>2. Cardinality(s) \in Nat
    BY <2>1, FS_CardinalityType
  <2>3. s = {}
    BY <2>1, <2>2, FS_EmptySet
  <2> QED
    BY <1>2, <2>3
<1>4. ASSUME NEW n \in Nat, n \in G PROVE n + 1 \in G
  <2> SUFFICES ASSUME NEW s \in SUBSET S, Cardinality(s) <= n + 1 PROVE Adds(s)
    OBVIOUS
  <2>1. \A t \in SUBSET S : Cardinality(t) <= n => Adds(t)
    BY <1>4
  <2>2. CASE s = {}
    BY <1>2, <2>2
  <2>3. CASE s # {}
    <3> DEFINE x == Some(s)
               t == s \ {x}
    <3>1. x \in s /\ x \in S
      BY <2>3, SomeIs
    <3>2. t \in SUBSET S /\ Cardinality(t) <= n
      BY <3>1, Smaller
    <3>3. f[s] = w[x] + f[t] /\ w[x] \in Int
      BY <1>1, <2>3, <3>1
    <3> HIDE DEF x
    <3>4. Adds(t)
      BY <2>1, <3>2
    <3>5. ASSUME NEW y \in s PROVE f[s] = w[y] + f[s \ {y}]
      <4>1. CASE y = x
        BY <3>3, <4>1
      <4>2. CASE y # x
        <5> DEFINE u == s \ {y}
                   v == t \ {y}
        <5>1. u \in SUBSET S /\ Cardinality(u) <= n
          BY <3>1, Smaller
        <5>2. Adds(u) /\ x \in u /\ u \ {x} = v
          BY <2>1, <3>1, <4>2, <5>1
        <5>3. v \in SUBSET S /\ Cardinality(v) <= n
          <6>1. v = u \ {x} /\ x \in u
            BY <5>2
          <6>2. n <= n + 1 /\ Cardinality(u) \in Nat
            <7>1. IsFiniteSet(u)
              BY <5>1, FS_Subset
            <7> QED
              BY <7>1, FS_CardinalityType
          <6>3. Cardinality(u) <= n + 1
            BY <5>1, <6>2
          <6> HIDE DEF u, v
          <6> QED
            BY <5>1, <6>1, <6>3, Smaller
        <5>4. f[v] \in Int
          BY <2>1, <5>3
        <5>5. f[u] = w[x] + f[v]
          <6> HIDE DEF v
          <6> QED
            BY <5>2
        <5>6. f[t] = w[y] + f[v] /\ w[y] \in Int
          BY <3>4, <4>2
        <5> HIDE DEF u, v, t
        <5>7. f[s] = w[y] + f[u]
          BY <3>3, <5>4, <5>5, <5>6
        <5> QED
          BY <5>7 DEF u
      <4> QED
        BY <4>1, <4>2
    <3>6. f[s] \in Int
      <4> HIDE DEF t
      <4> QED
        BY <3>3, <3>4
    <3> QED
      BY <3>5, <3>6
  <2> QED
    BY <2>2, <2>3
<1> HIDE DEF Adds
<1>5. \A n \in Nat : n \in G
  <2> HIDE DEF G
  <2> QED
    BY <1>3, <1>4, NatSet
<1>6. ASSUME NEW s \in SUBSET S PROVE Adds(s)
  <2>1. IsFiniteSet(s)
    BY FS_Subset
  <2>2. Cardinality(s) \in Nat
    BY <2>1, FS_CardinalityType
  <2> QED
    BY <1>5, <2>2
<1> QED
  BY <1>2, <1>6 DEF Adds

-----------------------------------------------------------------------------
(* Maxima, sums over finite sets, and the two ends of a list *)

(* A non-empty set of numbers below n has a greatest one.                    *)
LEMMA GreatestExists ==
  ASSUME NEW n \in Nat, NEW s \in SUBSET (1 .. n), s # {}
  PROVE  Max(s) \in s /\ \A y \in s : Max(s) >= y
<1> DEFINE T == {n - x : x \in s}
<1>1. T \in SUBSET Nat /\ T # {}
  <2>1. \A x \in s : n - x \in Nat
    OBVIOUS
  <2>2. PICK x \in s : TRUE
    OBVIOUS
  <2> QED
    BY <2>1, <2>2
<1>2. PICK d \in T : \A y \in T : d <= y
  <2> HIDE DEF T
  <2> QED
    BY <1>1, LeastExists
<1>3. PICK x \in s : d = n - x
  BY <1>2
<1>4. ASSUME NEW y \in s PROVE x >= y
  <2>1. n - x <= n - y /\ x \in Nat /\ y \in Nat
    BY <1>2, <1>3
  <2> QED
    BY <2>1
<1>5. \E z \in s : \A y \in s : z >= y
  BY <1>4
<1> QED
  BY <1>5 DEF Max

(* The greatest element of 1 .. i + 1, as the folds over sequences take it. *)
LEMMA MaxUpTo ==
  ASSUME NEW i \in Nat
  PROVE  Max(1 .. i + 1) = i + 1 /\ (1 .. i + 1) \ {i + 1} = 1 .. i
<1> DEFINE s == 1 .. i + 1
           m == Max(s)
<1>1. s \in SUBSET (1 .. i + 1) /\ i + 1 \in s /\ i + 1 \in Nat
  OBVIOUS
<1> HIDE DEF s
<1>2. m \in s /\ m >= i + 1
  BY <1>1, GreatestExists
<1> QED
  BY <1>2 DEF s

(* A part of 0 .. n that holds 0, and i + 1 with i, reaches n.              *)
LEMMA InitialSegment ==
  ASSUME NEW n \in Nat, NEW P, P \subseteq 0 .. n, 0 \in P,
         \A i \in 0 .. n : i \in P /\ i < n => i + 1 \in P
  PROVE  n \in P
<1> DEFINE G == {i \in Nat : i <= n => i \in P}
<1>1. 0 \in G
  OBVIOUS
<1>2. \A i \in Nat : i \in G => i + 1 \in G
  OBVIOUS
<1> HIDE DEF G
<1>3. n \in G
  BY <1>1, <1>2, NatSet
<1> QED
  BY <1>3 DEF G

(* A set of threads in some order: everybody once.                           *)
LEMMA SetToSeqIs ==
  ASSUME NEW S, IsFiniteSet(S)
  PROVE  LET w == SetToSeq(S) IN
         /\ w \in Seq(S) /\ IsInjective(w)
         /\ \A x : Contains(w, x) <=> x \in S
<1> DEFINE n == Cardinality(S)
           w == SetToSeq(S)
<1>1. n \in Nat /\ ExistsBijection(1 .. n, S)
  BY FS_CardinalityType
<1>2. \E f \in [1 .. n -> S] : IsInjective(f)
  BY <1>1 DEF ExistsBijection, Bijection, Injection
<1>3. w \in [1 .. n -> S] /\ IsInjective(w)
  BY <1>2 DEF SetToSeq
<1> HIDE DEF w
<1>4. w \in Injection(1 .. n, S)
  BY <1>3 DEF Injection
<1>5. Cardinality(1 .. n) = n
  BY <1>1, FS_Interval
<1> HIDE DEF n
<1>6. w \in Surjection(1 .. n, S)
  BY <1>1, <1>4, <1>5, FS_Injection DEF n
<1>7. \A x \in S : \E i \in 1 .. n : w[i] = x
  BY <1>6 DEF Surjection
<1>8. w \in Seq(S) /\ Len(w) = n
  BY <1>1, <1>3
<1>9. \A x : Contains(w, x) <=> x \in S
  BY <1>3, <1>7, <1>8 DEF Contains
<1> QED
  BY <1>3, <1>8, <1>9 DEF w

\* the sum of the values of a function
SumOf(w) == FoldFunction(+, 0, w)

(* FoldFunction adds up.                                                     *)
LEMMA FoldIsSum ==
  ASSUME NEW S, IsFiniteSet(S), NEW w \in [S -> Int]
  PROVE  \E f : Sums(S, w, f) /\ SumOf(w) = f[S]
<1> DEFINE E(f) == f = [s \in SUBSET S |-> IF s = {} THEN 0 ELSE w[Some(s)] + f[s \ {Some(s)}]]
           F == CHOOSE f : E(f)
<1>1. DOMAIN w = S
  OBVIOUS
<1>2. SumOf(w) = F[S]
  BY <1>1 DEF SumOf, FoldFunction, FoldFunctionOnSet, MapThenFoldSet, Some
<1>3. \A f : E(f) <=> Sums(S, w, f)
  BY DEF Sums
<1>4. E(F)
  <2>1. \E f : E(f)
    <3>1. \E f : Sums(S, w, f)
      BY SumsExist
    <3> HIDE DEF E
    <3> QED
      BY <1>3, <3>1
  <2> HIDE DEF E
  <2> QED
    BY <2>1
<1> HIDE DEF E, F
<1> QED
  BY <1>2, <1>3, <1>4

(* Sums of the same terms are the same.                                      *)
LEMMA SameSums ==
  ASSUME NEW S, IsFiniteSet(S), NEW v \in [S -> Int], NEW w \in [S -> Int],
         NEW f, Sums(S, v, f), NEW g, Sums(S, w, g),
         NEW T \in SUBSET S, \A x \in T : v[x] = w[x]
  PROVE  f[T] = g[T]
<1> DEFINE G == {n \in Nat : \A s \in SUBSET T : Cardinality(s) <= n => f[s] = g[s]}
<1>1. /\ \A s \in SUBSET S : \A y \in s : f[s] = v[y] + f[s \ {y}]
      /\ \A s \in SUBSET S : \A y \in s : g[s] = w[y] + g[s \ {y}]
      /\ f[{}] = 0 /\ g[{}] = 0
  BY SumsAdd
<1>2. IsFiniteSet(T) /\ \A s \in SUBSET T : IsFiniteSet(s) /\ s \in SUBSET S
  BY FS_Subset
<1>3. 0 \in G
  <2> SUFFICES ASSUME NEW s \in SUBSET T, Cardinality(s) <= 0 PROVE f[s] = g[s]
    OBVIOUS
  <2>1. IsFiniteSet(s)
    BY <1>2
  <2>2. Cardinality(s) \in Nat
    BY <2>1, FS_CardinalityType
  <2>3. s = {}
    BY <2>1, <2>2, FS_EmptySet
  <2> QED
    BY <1>1, <2>3
<1>4. ASSUME NEW n \in Nat, n \in G PROVE n + 1 \in G
  <2> SUFFICES ASSUME NEW s \in SUBSET T, Cardinality(s) <= n + 1 PROVE f[s] = g[s]
    OBVIOUS
  <2>1. CASE s = {}
    BY <1>1, <2>1
  <2>2. CASE s # {}
    <3>1. PICK x \in s : TRUE
      BY <2>2
    <3>2. s \ {x} \in SUBSET T /\ Cardinality(s \ {x}) <= n
      BY <1>2, <3>1, Smaller
    <3>3. f[s \ {x}] = g[s \ {x}]
      BY <1>4, <3>2
    <3>4. v[x] = w[x] /\ s \in SUBSET S
      BY <1>2
    <3> QED
      BY <1>1, <3>3, <3>4
  <2> QED
    BY <2>1, <2>2
<1>5. \A n \in Nat : n \in G
  <2> HIDE DEF G
  <2> QED
    BY <1>3, <1>4, NatSet
<1>6. Cardinality(T) \in Nat
  BY <1>2, FS_CardinalityType
<1>7. Cardinality(T) \in G /\ T \in SUBSET T
  BY <1>5, <1>6
<1> QED
  BY <1>6, <1>7

\* what a sum is good for
AddsUp(S, w, f) ==
  /\ \A s \in SUBSET S : f[s] \in Int
  /\ \A s \in SUBSET S : \A y \in s : f[s] = w[y] + f[s \ {y}]

(* The sum over a finite set splits off any of its elements.                *)
LEMMA SumAddsUp ==
  ASSUME NEW S, IsFiniteSet(S), NEW w \in [S -> Int]
  PROVE  \E f : Sums(S, w, f) /\ AddsUp(S, w, f) /\ SumOf(w) = f[S]
<1>1. PICK f : Sums(S, w, f) /\ SumOf(w) = f[S]
  BY FoldIsSum
<1>2. AddsUp(S, w, f)
  BY <1>1, SumsAdd DEF AddsUp
<1> QED
  BY <1>1, <1>2

(* One term changes: so does the sum, by as much.                            *)
LEMMA SumChanges ==
  ASSUME NEW S, IsFiniteSet(S), NEW v \in [S -> Int], NEW w \in [S -> Int], NEW y \in S,
         \A x \in S \ {y} : v[x] = w[x]
  PROVE  /\ SumOf(v) \in Int /\ SumOf(w) \in Int
         /\ SumOf(w) = SumOf(v) + (w[y] - v[y])
<1>1. PICK f : Sums(S, v, f) /\ AddsUp(S, v, f) /\ SumOf(v) = f[S]
  BY SumAddsUp
<1>2. PICK g : Sums(S, w, g) /\ AddsUp(S, w, g) /\ SumOf(w) = g[S]
  BY SumAddsUp
<1>3. f[S \ {y}] = g[S \ {y}]
  <2>1. S \ {y} \in SUBSET S /\ \A x \in S \ {y} : v[x] = w[x]
    OBVIOUS
  <2> QED
    BY <1>1, <1>2, <2>1, SameSums
<1>4. v[y] \in Int /\ w[y] \in Int /\ S \in SUBSET S /\ S \ {y} \in SUBSET S
  OBVIOUS
<1>5. f[S] = v[y] + f[S \ {y}] /\ f[S \ {y}] \in Int
  BY <1>1, <1>4 DEF AddsUp
<1>6. g[S] = w[y] + g[S \ {y}] /\ g[S \ {y}] \in Int
  BY <1>2, <1>4 DEF AddsUp
<1> QED
  BY <1>1, <1>2, <1>3, <1>4, <1>5, <1>6

(* A sum of natural numbers is one, and no smaller than any of its terms.    *)
LEMMA SumAtLeast ==
  ASSUME NEW S, IsFiniteSet(S), NEW w \in [S -> Nat]
  PROVE  SumOf(w) \in Nat /\ \A y \in S : w[y] <= SumOf(w)
<1>1. w \in [S -> Int]
  OBVIOUS
<1>2. PICK f : Sums(S, w, f) /\ AddsUp(S, w, f) /\ SumOf(w) = f[S]
  BY <1>1, SumAddsUp
<1>3. f[{}] = 0
  BY <1>1, <1>2, SumsAdd
<1> DEFINE G == {n \in Nat : \A s \in SUBSET S : Cardinality(s) <= n => f[s] \in Nat}
<1>4. 0 \in G
  <2> SUFFICES ASSUME NEW s \in SUBSET S, Cardinality(s) <= 0 PROVE f[s] \in Nat
    OBVIOUS
  <2>1. IsFiniteSet(s)
    BY FS_Subset
  <2>2. Cardinality(s) \in Nat
    BY <2>1, FS_CardinalityType
  <2>3. s = {}
    BY <2>1, <2>2, FS_EmptySet
  <2> QED
    BY <1>3, <2>3
<1>5. ASSUME NEW n \in Nat, n \in G PROVE n + 1 \in G
  <2> SUFFICES ASSUME NEW s \in SUBSET S, Cardinality(s) <= n + 1 PROVE f[s] \in Nat
    OBVIOUS
  <2>1. CASE s = {}
    BY <1>3, <2>1
  <2>2. CASE s # {}
    <3>1. PICK x \in s : TRUE
      BY <2>2
    <3>2. s \ {x} \in SUBSET S /\ Cardinality(s \ {x}) <= n
      BY <3>1, Smaller
    <3>3. f[s \ {x}] \in Nat /\ w[x] \in Nat
      BY <1>5, <3>2
    <3>4. f[s] = w[x] + f[s \ {x}]
      BY <1>2, <3>1 DEF AddsUp
    <3> QED
      BY <3>3, <3>4
  <2> QED
    BY <2>1, <2>2
<1>6. \A n \in Nat : n \in G
  <2> HIDE DEF G
  <2> QED
    BY <1>4, <1>5, NatSet
<1>7. \A s \in SUBSET S : f[s] \in Nat
  <2> SUFFICES ASSUME NEW s \in SUBSET S PROVE f[s] \in Nat
    OBVIOUS
  <2>1. Cardinality(s) \in Nat
    BY FS_Subset, FS_CardinalityType
  <2> QED
    BY <1>6, <2>1
<1>8. ASSUME NEW y \in S PROVE w[y] <= f[S]
  <2>1. f[S] = w[y] + f[S \ {y}]
    BY <1>2 DEF AddsUp
  <2>2. f[S \ {y}] \in Nat /\ w[y] \in Nat
    BY <1>7
  <2> QED
    BY <2>1, <2>2
<1> QED
  BY <1>2, <1>7, <1>8

(* Nothing adds up to nothing.                                               *)
LEMMA SumOfNothing ==
  ASSUME NEW S, IsFiniteSet(S), NEW w \in [S -> Int], \A x \in S : w[x] = 0
  PROVE  SumOf(w) = 0
<1>1. PICK f : Sums(S, w, f) /\ SumOf(w) = f[S]
  BY FoldIsSum
<1>2. /\ f[{}] = 0
      /\ \A s \in SUBSET S : \A z \in s : f[s] = w[z] + f[s \ {z}]
  BY <1>1, SumsAdd
<1> DEFINE G == {n \in Nat : \A s \in SUBSET S : Cardinality(s) <= n => f[s] = 0}
<1>3. 0 \in G
  <2> SUFFICES ASSUME NEW s \in SUBSET S, Cardinality(s) <= 0 PROVE f[s] = 0
    OBVIOUS
  <2>1. IsFiniteSet(s)
    BY FS_Subset
  <2>2. Cardinality(s) \in Nat
    BY <2>1, FS_CardinalityType
  <2>3. s = {}
    BY <2>1, <2>2, FS_EmptySet
  <2> QED
    BY <1>2, <2>3
<1>4. ASSUME NEW n \in Nat, n \in G PROVE n + 1 \in G
  <2> SUFFICES ASSUME NEW s \in SUBSET S, Cardinality(s) <= n + 1 PROVE f[s] = 0
    OBVIOUS
  <2>1. CASE s = {}
    BY <1>2, <2>1
  <2>2. CASE s # {}
    <3>1. PICK x \in s : TRUE
      BY <2>2
    <3>2. s \ {x} \in SUBSET S /\ Cardinality(s \ {x}) <= n
      BY <3>1, Smaller
    <3>3. f[s \ {x}] = 0 /\ w[x] = 0
      BY <1>4, <3>2
    <3>4. f[s] = w[x] + f[s \ {x}]
      BY <1>2, <3>1
    <3> QED
      BY <3>3, <3>4
  <2> QED
    BY <2>1, <2>2
<1>5. \A n \in Nat : n \in G
  <2> HIDE DEF G
  <2> QED
    BY <1>3, <1>4, NatSet
<1>6. Cardinality(S) \in Nat
  BY FS_CardinalityType
<1>7. Cardinality(S) \in G /\ S \in SUBSET S
  BY <1>5, <1>6
<1> QED
  BY <1>1, <1>6, <1>7

(* list_remove of the first element: the rest of the list holds the others. *)
LEMMA TailMember ==
  ASSUME NEW S, NEW q \in Seq(S), q # << >>, IsInjective(q)
  PROVE  /\ Head(q) \in S /\ Contains(q, Head(q))
         /\ Tail(q) \in Seq(S) /\ Len(Tail(q)) = Len(q) - 1 /\ Len(q) \in Nat
         /\ IsInjective(Tail(q))
         /\ \A u : Contains(Tail(q), u) <=> Contains(q, u) /\ u # Head(q)
<1>1. /\ Len(q) \in Nat \ {0} /\ Head(q) = q[1] /\ q[1] \in S
      /\ Tail(q) \in Seq(S) /\ Len(Tail(q)) = Len(q) - 1
      /\ \A i \in 1 .. Len(q) - 1 : Tail(q)[i] = q[i + 1]
  OBVIOUS
<1>2. \A i, j \in 1 .. Len(q) : q[i] = q[j] => i = j
  BY DEF IsInjective
<1> DEFINE r == Tail(q)
           n == Len(q)
<1>3. /\ n \in Nat \ {0} /\ Len(r) = n - 1 /\ DOMAIN r = 1 .. n - 1
      /\ \A i \in 1 .. n - 1 : r[i] = q[i + 1]
      /\ \A i, j \in 1 .. n : q[i] = q[j] => i = j
  BY <1>1, <1>2
<1> HIDE DEF r
<1>4. \A i, j \in 1 .. n - 1 : r[i] = r[j] => i = j
  <2> HIDE DEF n
  <2> QED
    BY <1>3
<1>5. IsInjective(r)
  BY <1>3, <1>4 DEF IsInjective
<1>6. ASSUME NEW u
      PROVE  Contains(r, u) <=> Contains(q, u) /\ u # q[1]
  <2> HIDE DEF n
  <2>1. ASSUME NEW i \in 1 .. n - 1, r[i] = u
        PROVE  i + 1 \in 1 .. n /\ q[i + 1] = u /\ u # q[1]
    BY <1>3, <2>1
  <2>2. ASSUME NEW i \in 1 .. n, q[i] = u, u # q[1]
        PROVE  i - 1 \in 1 .. n - 1 /\ r[i - 1] = u
    BY <1>3, <2>2
  <2> QED
    BY <1>3, <2>1, <2>2 DEF Contains, n
<1> QED
  BY <1>1, <1>5, <1>6 DEF Contains, r

(* A list turned round holds the same elements.                             *)
LEMMA ReverseMember ==
  ASSUME NEW S, NEW q \in Seq(S), IsInjective(q)
  PROVE  /\ Reverse(q) \in Seq(S) /\ Len(Reverse(q)) = Len(q)
         /\ IsInjective(Reverse(q))
         /\ \A u : Contains(Reverse(q), u) <=> Contains(q, u)
<1> DEFINE r == Reverse(q)
           n == Len(q)
<1>1. n \in Nat /\ \A i \in 1 .. n : q[i] \in S
  OBVIOUS
<1>2. r = [i \in 1 .. n |-> q[(n - i) + 1]]
  BY DEF Reverse
<1> HIDE DEF r
<1>3. \A i \in 1 .. n : (n - i) + 1 \in 1 .. n /\ r[i] = q[(n - i) + 1] /\ r[i] \in S
  <2> HIDE DEF n
  <2> QED
    BY <1>1, <1>2
<1>4. r \in Seq(S) /\ Len(r) = n
  BY <1>1, <1>2, <1>3
<1>5. \A i, j \in 1 .. n : q[i] = q[j] => i = j
  BY DEF IsInjective
<1>6. \A i, j \in 1 .. n : r[i] = r[j] => i = j
  <2> HIDE DEF n
  <2> QED
    BY <1>1, <1>3, <1>5
<1>7. IsInjective(r)
  BY <1>4, <1>6 DEF IsInjective
<1>8. ASSUME NEW u PROVE Contains(r, u) <=> Contains(q, u)
  <2>1. ASSUME NEW i \in 1 .. n, q[i] = u PROVE \E j \in 1 .. n : r[j] = u
    <3>1. (n - i) + 1 \in 1 .. n /\ (n - ((n - i) + 1)) + 1 = i
      <4> HIDE DEF n
      <4> QED
        BY <1>1
    <3>2. r[(n - i) + 1] = q[i]
      BY <1>3, <3>1
    <3> QED
      BY <2>1, <3>1, <3>2
  <2>2. ASSUME NEW i \in 1 .. n, r[i] = u PROVE \E j \in 1 .. n : q[j] = u
    BY <1>3, <2>2
  <2> QED
    BY <1>4, <2>1, <2>2 DEF Contains
<1> QED
  BY <1>4, <1>7, <1>8 DEF r

(* Two lists without a common element, joined.                              *)
LEMMA ConcatMember ==
  ASSUME NEW S, NEW p \in Seq(S), NEW q \in Seq(S), IsInjective(p), IsInjective(q),
         \A u : ~(Contains(p, u) /\ Contains(q, u))
  PROVE  /\ p \o q \in Seq(S) /\ Len(p \o q) = Len(p) + Len(q)
         /\ IsInjective(p \o q)
         /\ \A u : Contains(p \o q, u) <=> Contains(p, u) \/ Contains(q, u)
<1> DEFINE r == p \o q
           a == Len(p)
           b == Len(q)
<1>1. /\ a \in Nat /\ b \in Nat /\ r \in Seq(S) /\ Len(r) = a + b
      /\ \A i \in 1 .. a + b : r[i] = IF i <= a THEN p[i] ELSE q[i - a]
  OBVIOUS
<1>2. /\ \A i, j \in 1 .. a : p[i] = p[j] => i = j
      /\ \A i, j \in 1 .. b : q[i] = q[j] => i = j
      /\ \A i \in 1 .. a, j \in 1 .. b : p[i] # q[j]
  <2>1. DOMAIN p = 1 .. a /\ DOMAIN q = 1 .. b
    OBVIOUS
  <2>2. ASSUME NEW i \in 1 .. a, NEW j \in 1 .. b, p[i] = q[j] PROVE FALSE
    <3>1. Contains(p, p[i]) /\ Contains(q, p[i])
      BY <2>2 DEF Contains
    <3> QED
      BY <3>1
  <2>3. \A i, j \in 1 .. a : p[i] = p[j] => i = j
    BY <2>1 DEF IsInjective
  <2>4. \A i, j \in 1 .. b : q[i] = q[j] => i = j
    BY <2>1 DEF IsInjective
  <2> QED
    BY <2>2, <2>3, <2>4
<1>3. \A u : Contains(r, u) <=> \E i \in 1 .. a + b : r[i] = u
  BY <1>1 DEF Contains
<1>4. /\ \A u : Contains(p, u) <=> \E i \in 1 .. a : p[i] = u
      /\ \A u : Contains(q, u) <=> \E i \in 1 .. b : q[i] = u
  BY DEF Contains
<1>9. r \in Seq(S) /\ DOMAIN r = 1 .. a + b
  BY <1>1
<1> HIDE DEF r, a, b
<1>5. \A i, j \in 1 .. a + b : r[i] = r[j] => i = j
  <2> SUFFICES ASSUME NEW i \in 1 .. a + b, NEW j \in 1 .. a + b, r[i] = r[j] PROVE i = j
    OBVIOUS
  <2>1. CASE i <= a /\ j <= a
    <3>1. i \in 1 .. a /\ j \in 1 .. a /\ r[i] = p[i] /\ r[j] = p[j]
      BY <1>1, <2>1
    <3> QED
      BY <1>2, <3>1
  <2>2. CASE ~(i <= a) /\ ~(j <= a)
    <3>1. i - a \in 1 .. b /\ j - a \in 1 .. b /\ r[i] = q[i - a] /\ r[j] = q[j - a]
      BY <1>1, <2>2
    <3>2. i - a = j - a
      BY <1>2, <3>1
    <3> QED
      BY <1>1, <3>2
  <2>3. CASE i <= a /\ ~(j <= a)
    <3>1. i \in 1 .. a /\ j - a \in 1 .. b /\ r[i] = p[i] /\ r[j] = q[j - a]
      BY <1>1, <2>3
    <3> QED
      BY <1>2, <3>1
  <2>4. CASE ~(i <= a) /\ j <= a
    <3>1. i - a \in 1 .. b /\ j \in 1 .. a /\ r[i] = q[i - a] /\ r[j] = p[j]
      BY <1>1, <2>4
    <3>2. p[j] = q[i - a]
      BY <3>1
    <3> QED
      BY <1>2, <3>1, <3>2
  <2> QED
    BY <2>1, <2>2, <2>3, <2>4
<1>6. IsInjective(r)
  BY <1>5, <1>9 DEF IsInjective
<1>7. ASSUME NEW u
      PROVE  (\E i \in 1 .. a + b : r[i] = u) <=> (\E i \in 1 .. a : p[i] = u) \/ (\E i \in 1 .. b : q[i] = u)
  <2>1. ASSUME NEW i \in 1 .. a + b, r[i] = u
        PROVE  (\E j \in 1 .. a : p[j] = u) \/ (\E j \in 1 .. b : q[j] = u)
    <3>1. CASE i <= a
      BY <1>1, <2>1, <3>1
    <3>2. CASE ~(i <= a)
      <4>1. i - a \in 1 .. b /\ q[i - a] = u
        BY <1>1, <2>1, <3>2
      <4> QED
        BY <4>1
    <3> QED
      BY <3>1, <3>2
  <2>2. ASSUME NEW i \in 1 .. a, p[i] = u PROVE \E j \in 1 .. a + b : r[j] = u
    <3>1. i \in 1 .. a + b /\ r[i] = p[i]
      BY <1>1
    <3> QED
      BY <2>2, <3>1
  <2>3. ASSUME NEW i \in 1 .. b, q[i] = u PROVE \E j \in 1 .. a + b : r[j] = u
    <3>1. i + a \in 1 .. a + b /\ ~(i + a <= a) /\ (i + a) - a = i
      BY <1>1
    <3>2. r[i + a] = q[i]
      BY <1>1, <3>1
    <3> QED
      BY <2>3, <3>1, <3>2
  <2> QED
    BY <2>1, <2>2, <2>3
<1>8. \A u : Contains(r, u) <=> Contains(p, u) \/ Contains(q, u)
  BY <1>3, <1>4, <1>7
<1> QED
  BY <1>1, <1>6, <1>8, <1>9 DEF r, a, b

=============================================================================

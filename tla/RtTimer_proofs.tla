--------------------------- MODULE RtTimer_proofs ---------------------------
(***************************************************************************)
(* The timer list for any number of timers and tasks, any tick counter and *)
(* any calls from callbacks.  Left says when a timer fires; the order of   *)
(* the list needs more: the time left as a signed number, Rem, which also  *)
(* tells by how much a timer is late that was started in a call that was   *)
(* interrupted.  Rem stays within half a turn of the counter, so that      *)
(* comparing timeouts on the counter is comparing Rem.                     *)
(***************************************************************************)
EXTENDS RtTimer, Lists_proofs

\* from tick x to tick a: negative when a is past
Away(x, a) == IF Minus(x, a) < Half THEN 0 - Minus(x, a) ELSE Minus(a, x)

Rem(k, t) == Away(k.tick, k.timeout[t])

\* not more than w ticks late, not later than the longest time set
InTime(k, t, w) == 0 - w <= Rem(k, t) /\ \E n \in Times : Rem(k, t) <= n

\* the timer list is in order
ListOK(k, w) ==
  /\ k \in TimerState /\ IsInjective(k.list)
  /\ \A t \in Timer : Contains(k.list, t) => InTime(k, t, w)
  /\ \A i, j \in 1 .. Len(k.list) : i < j => Rem(k, k.list[i]) <= Rem(k, k.list[j])

\* how late a timer on the list may be
Late == IF isr = "check" THEN MaxWindow + 1 ELSE MaxWindow

\* what an interrupted call finds when it goes on
CallOK(c) ==
  call[c].at # "app" =>
    LET t == call[c].on IN
    /\ t \in Timer
    /\ call[c].at \in {"start", "insert"} => t \in tm.known
    /\ call[c].at \in {"start", "insert", "clear"} => ~Linked(t)
    /\ call[c].at = "insert" => Waited(c) <= MaxWindow

OneCall ==
  \A c, d \in Task :
    call[c].at # "app" /\ call[d].at # "app" /\ call[c].on = call[d].on => c = d

TInv == TypeOK /\ ListOK(tm, Late) /\ (\A c \in Task : CallOK(c)) /\ OneCall

\* when callbacks neither start nor detach their own timer, a timer on the list
\* is active and known, and a flag read as clear is clear when it is written back
RunsActive ==
  /\ \A t \in Timer : Linked(t) => t \in tm.active /\ t \in tm.known
  /\ \A c \in Task : call[c].at = "flag" /\ ~call[c].was => call[c].on \notin tm.active

-----------------------------------------------------------------------------
(* The tick counter.  RT_TICK_MAX / 2 is at most half a turn, and the bounds *)
(* on the times keep everything on the list within it.                       *)

LEMMA HalfFacts ==
  /\ Modulus \in Nat \ {0} /\ Half \in Nat /\ Half >= 2
  /\ 2 * Half + 1 <= Modulus /\ Modulus <= 2 * Half + 2
  /\ MaxWindow \in Nat /\ MaxWindow + 1 < Half
  /\ \A n \in Times : n \in 0 .. Half - 1 /\ n + MaxWindow < Half
<1>1. Modulus \in Nat \ {0} /\ MaxWindow \in Nat /\ MaxWindow + 1 < Half
  BY TimerAssumption
<1>2. /\ Half \in Int /\ 2 * Half <= Modulus - 1 /\ Modulus - 1 <= 2 * Half + 1
  BY <1>1 DEF Half
<1>3. \A n \in Times : n \in 0 .. Half - 1 /\ n + MaxWindow < Half
  BY TimerAssumption
<1> HIDE DEF Half
<1> QED
  BY <1>1, <1>2, <1>3

LEMMA ModTurn ==
  ASSUME NEW x \in 0 .. 2 * Modulus - 1
  PROVE  x % Modulus = IF x < Modulus THEN x ELSE x - Modulus
<1>1. Modulus \in Nat \ {0}
  BY HalfFacts
<1>2. CASE x < Modulus
  BY <1>1, <1>2
<1>3. CASE ~(x < Modulus)
  BY <1>1, <1>3
<1> QED
  BY <1>2, <1>3

LEMMA MinusIs ==
  ASSUME NEW a \in 0 .. Modulus - 1, NEW b \in 0 .. Modulus - 1
  PROVE  /\ Minus(a, b) = IF a >= b THEN a - b ELSE a + Modulus - b
         /\ Minus(a, b) \in 0 .. Modulus - 1
<1>1. Modulus \in Nat \ {0}
  BY HalfFacts
<1>2. a + Modulus - b \in 0 .. 2 * Modulus - 1
  BY <1>1
<1> DEFINE x == a + Modulus - b
<1>3. Minus(a, b) = x % Modulus
  BY DEF Minus
<1> HIDE DEF x
<1>4. x % Modulus = IF x < Modulus THEN x ELSE x - Modulus
  BY <1>2, ModTurn DEF x
<1> QED
  BY <1>1, <1>3, <1>4 DEF x

(* Between two ticks of the counter there is half a turn either way.         *)
LEMMA AwayIs ==
  ASSUME NEW x \in 0 .. Modulus - 1, NEW a \in 0 .. Modulus - 1
  PROVE  /\ Away(x, a) \in Int /\ 0 - Half < Away(x, a) /\ Away(x, a) <= Modulus - Half
         /\ \/ a = x + Away(x, a) \/ a = x + Away(x, a) - Modulus
            \/ a = x + Away(x, a) + Modulus
         /\ Minus(x, a) < Half <=> Away(x, a) <= 0
         /\ Away(x, a) > 0 => Minus(a, x) = Away(x, a)
<1>1. /\ Minus(x, a) = IF x >= a THEN x - a ELSE x + Modulus - a
      /\ Minus(a, x) = IF a >= x THEN a - x ELSE a + Modulus - x
  BY MinusIs
<1> QED
  BY <1>1, HalfFacts DEF Away

(* That determines it.                                                       *)
LEMMA AwayUnique ==
  ASSUME NEW x \in 0 .. Modulus - 1, NEW a \in 0 .. Modulus - 1,
         NEW r \in Int, 0 - Half < r, r <= Modulus - Half,
         a = x + r \/ a = x + r - Modulus \/ a = x + r + Modulus
  PROVE  Away(x, a) = r
<1>1. /\ Away(x, a) \in Int /\ 0 - Half < Away(x, a) /\ Away(x, a) <= Modulus - Half
      /\ \/ a = x + Away(x, a) \/ a = x + Away(x, a) - Modulus
         \/ a = x + Away(x, a) + Modulus
  BY AwayIs
<1> QED
  BY <1>1, HalfFacts

(* Comparing two timeouts on the counter compares the times left.            *)
LEMMA AwayLater ==
  ASSUME NEW x \in 0 .. Modulus - 1, NEW a \in 0 .. Modulus - 1, NEW b \in 0 .. Modulus - 1,
         Away(x, a) - Away(x, b) < Half, Away(x, b) - Away(x, a) <= Half
  PROVE  Minus(a, b) # 0 /\ Minus(a, b) < Half <=> Away(x, a) > Away(x, b)
<1>1. Minus(a, b) = IF a >= b THEN a - b ELSE a + Modulus - b
  BY MinusIs
<1>2. /\ Away(x, a) \in Int /\ Away(x, b) \in Int
      /\ \/ a = x + Away(x, a) \/ a = x + Away(x, a) - Modulus \/ a = x + Away(x, a) + Modulus
      /\ \/ b = x + Away(x, b) \/ b = x + Away(x, b) - Modulus \/ b = x + Away(x, b) + Modulus
  BY AwayIs
<1> QED
  BY <1>1, <1>2, HalfFacts

(* A timer started for n ticks is n ticks away, ...                          *)
LEMMA AwayStarted ==
  ASSUME NEW x \in 0 .. Modulus - 1, NEW n \in 0 .. Half - 1
  PROVE  /\ (x + n) % Modulus \in 0 .. Modulus - 1
         /\ Away(x, (x + n) % Modulus) = n
         /\ Minus(x, Minus((x + n) % Modulus, n)) = 0
<1> DEFINE a == (x + n) % Modulus
<1>1. x + n \in 0 .. 2 * Modulus - 1 /\ n \in 0 .. Modulus - 1
  BY HalfFacts
<1> DEFINE y == x + n
<1>8. a = y % Modulus
  OBVIOUS
<1> HIDE DEF y, a
<1>7. y % Modulus = IF y < Modulus THEN y ELSE y - Modulus
  BY <1>1, ModTurn DEF y
<1>2. a = IF x + n < Modulus THEN x + n ELSE x + n - Modulus
  BY <1>7, <1>8, HalfFacts DEF y
<1>3. a \in 0 .. Modulus - 1
  BY <1>1, <1>2, HalfFacts
<1>4. Away(x, a) = n
  BY <1>2, <1>3, AwayUnique, HalfFacts
<1>5. Minus(a, n) = x
  <2>1. Minus(a, n) = IF a >= n THEN a - n ELSE a + Modulus - n
    BY <1>1, <1>3, MinusIs
  <2> QED
    BY <1>1, <1>2, <2>1, HalfFacts
<1>6. Minus(x, x) = 0
  BY MinusIs
<1> QED
  BY <1>3, <1>4, <1>5, <1>6 DEF a

(* ... w ticks later n - w, ...                                              *)
LEMMA AwayWaited ==
  ASSUME NEW x \in 0 .. Modulus - 1, NEW a \in 0 .. Modulus - 1, NEW n \in Times,
         Minus(x, Minus(a, n)) <= MaxWindow
  PROVE  Away(x, a) = n - Minus(x, Minus(a, n))
<1> DEFINE s == Minus(a, n)
           w == Minus(x, s)
<1>1. n \in 0 .. Half - 1 /\ n \in 0 .. Modulus - 1
  BY HalfFacts
<1>2. s = (IF a >= n THEN a - n ELSE a + Modulus - n) /\ s \in 0 .. Modulus - 1
  BY <1>1, MinusIs
<1> HIDE DEF s
<1>3. w = (IF x >= s THEN x - s ELSE x + Modulus - s) /\ w \in 0 .. Modulus - 1
  BY <1>2, MinusIs
<1>4. w <= MaxWindow
  BY DEF s
<1> HIDE DEF w
<1>5. /\ n - w \in Int /\ 0 - Half < n - w /\ n - w <= Modulus - Half
      /\ a = x + (n - w) \/ a = x + (n - w) - Modulus \/ a = x + (n - w) + Modulus
  BY <1>1, <1>2, <1>3, <1>4, HalfFacts
<1>6. Away(x, a) = n - w
  BY <1>5, AwayUnique
<1> QED
  BY <1>6 DEF w, s

(* ... and one less with every tick, the wrap included.                      *)
LEMMA AwayTick ==
  ASSUME NEW x \in 0 .. Modulus - 1, NEW a \in 0 .. Modulus - 1
  PROVE  /\ (x + 1) % Modulus \in 0 .. Modulus - 1
         /\ Away(x, a) > 1 - Half => Away((x + 1) % Modulus, a) = Away(x, a) - 1
         /\ Minus(x, a) < Modulus - 1 => Minus((x + 1) % Modulus, a) = Minus(x, a) + 1
<1> DEFINE y == (x + 1) % Modulus
<1>1. x + 1 \in 0 .. 2 * Modulus - 1
  BY HalfFacts
<1> DEFINE z == x + 1
<1>7. y = z % Modulus
  OBVIOUS
<1> HIDE DEF z, y
<1>6. z % Modulus = IF z < Modulus THEN z ELSE z - Modulus
  BY <1>1, ModTurn DEF z
<1>2. y = IF x + 1 < Modulus THEN x + 1 ELSE x + 1 - Modulus
  BY <1>6, <1>7, HalfFacts DEF z
<1>3. y \in 0 .. Modulus - 1
  BY <1>2, HalfFacts
<1>4. ASSUME Away(x, a) > 1 - Half PROVE Away(y, a) = Away(x, a) - 1
  <2> DEFINE r == Away(x, a)
  <2>1. /\ r \in Int /\ 1 - Half < r /\ r <= Modulus - Half
        /\ a = x + r \/ a = x + r - Modulus \/ a = x + r + Modulus
    BY <1>4, AwayIs
  <2> HIDE DEF r
  <2>2. /\ r - 1 \in Int /\ 0 - Half < r - 1 /\ r - 1 <= Modulus - Half
        /\ a = y + (r - 1) \/ a = y + (r - 1) - Modulus \/ a = y + (r - 1) + Modulus
    BY <1>2, <2>1, HalfFacts
  <2>3. Away(y, a) = r - 1
    BY <1>3, <2>2, AwayUnique
  <2> QED
    BY <2>3 DEF r
<1>5. Minus(x, a) < Modulus - 1 => Minus(y, a) = Minus(x, a) + 1
  <2>1. /\ Minus(x, a) = IF x >= a THEN x - a ELSE x + Modulus - a
        /\ Minus(y, a) = IF y >= a THEN y - a ELSE y + Modulus - a
    BY <1>3, MinusIs
  <2> QED
    BY <1>2, <1>3, <2>1, HalfFacts
<1> QED
  BY <1>3, <1>4, <1>5 DEF y

-----------------------------------------------------------------------------
(* The list *)

LEMMA StateFields ==
  ASSUME NEW k \in TimerState
  PROVE  /\ k.tick \in 0 .. Modulus - 1 /\ k.list \in Seq(Timer)
         /\ k.timeout \in [Timer -> 0 .. Modulus - 1] /\ k.init \in [Timer -> Times]
         /\ k.active \in SUBSET Timer /\ k.periodic \in SUBSET Timer /\ k.known \in SUBSET Timer
         /\ \A t \in Timer : Rem(k, t) \in Int /\ 0 - Half < Rem(k, t)
BY AwayIs DEF TimerState, Rem

LEMMA OnList ==
  ASSUME NEW k \in TimerState
  PROVE  /\ Len(k.list) \in Nat
         /\ \A i \in 1 .. Len(k.list) : k.list[i] \in Timer /\ Contains(k.list, k.list[i])
         /\ \A t : Contains(k.list, t) => t \in Timer /\ \E i \in 1 .. Len(k.list) : k.list[i] = t
BY StateFields DEF Contains

(* What is not about the list or a timer on it does not disturb the order.   *)
LEMMA SameList ==
  ASSUME NEW k, NEW m \in TimerState, NEW w \in Nat, ListOK(k, w),
         m.list = k.list, m.tick = k.tick,
         \A t \in Timer : Contains(k.list, t) => m.timeout[t] = k.timeout[t]
  PROVE  ListOK(m, w)
<1>1. \A t \in Timer : Contains(k.list, t) => Rem(m, t) = Rem(k, t)
  BY DEF Rem
<1>2. \A i \in 1 .. Len(k.list) : k.list[i] \in Timer /\ Contains(k.list, k.list[i])
  BY OnList DEF ListOK
<1>3. \A t \in Timer : Contains(m.list, t) => InTime(m, t, w)
  BY <1>1 DEF ListOK, InTime
<1>4. \A i, j \in 1 .. Len(m.list) : i < j => Rem(m, m.list[i]) <= Rem(m, m.list[j])
  BY <1>1, <1>2 DEF ListOK
<1> QED
  BY <1>3, <1>4 DEF ListOK

\* k and m differ only in the timers of T
Else(k, m, T) ==
  /\ m.tick = k.tick
  /\ \A u \in Timer \ T :
       /\ Contains(m.list, u) <=> Contains(k.list, u)
       /\ m.timeout[u] = k.timeout[u] /\ m.init[u] = k.init[u]
       /\ u \in m.known <=> u \in k.known
       /\ u \in m.active <=> u \in k.active

(* _rt_timer_remove                                                          *)
LEMMA RemovedOK ==
  ASSUME NEW k, NEW t \in Timer, NEW w \in Nat, ListOK(k, w)
  PROVE  LET m == Removed(k, t) IN
         /\ ListOK(m, w) /\ ~Contains(m.list, t) /\ Else(k, m, {t})
         /\ m.init = k.init /\ m.known = k.known /\ m.active = k.active
         /\ m.periodic = k.periodic
<1> DEFINE m == Removed(k, t)
<1>0. k \in TimerState /\ IsInjective(k.list)
  BY DEF ListOK
<1>1. /\ m.list = Without(k.list, t) /\ m.timeout = [k.timeout EXCEPT ![t] = 0]
      /\ m.tick = k.tick /\ m.init = k.init /\ m.known = k.known /\ m.active = k.active
      /\ m.periodic = k.periodic
  BY <1>0 DEF Removed, TimerState
<1>2. /\ Without(k.list, t) \in Seq(Timer) /\ IsInjective(Without(k.list, t))
      /\ \A u : Contains(Without(k.list, t), u) <=> Contains(k.list, u) /\ u # t
  BY <1>0, StateFields, WithoutProperties
<1>3. m \in TimerState
  <2>1. 0 \in 0 .. Modulus - 1
    BY HalfFacts
  <2> QED
    BY <1>0, <1>2, <2>1 DEF Removed, TimerState
<1> HIDE DEF m
<1>4. \A u \in Timer : u # t => m.timeout[u] = k.timeout[u] /\ Rem(m, u) = Rem(k, u)
  BY <1>0, <1>1, StateFields DEF Rem
<1>5. Else(k, m, {t})
  BY <1>1, <1>2, <1>4 DEF Else
<1>6. \A u \in Timer : Contains(m.list, u) => InTime(m, u, w)
  BY <1>1, <1>2, <1>4 DEF ListOK, InTime
<1>7. ASSUME NEW x \in 1 .. Len(m.list), NEW y \in 1 .. Len(m.list), x < y
      PROVE  Rem(m, m.list[x]) <= Rem(m, m.list[y])
  <2>1. PICK i, j \in 1 .. Len(k.list) : i < j /\ k.list[i] = m.list[x] /\ k.list[j] = m.list[y]
    <3> DEFINE q == k.list
    <3>1. /\ q \in Seq(Timer) /\ m.list = Without(q, t)
          /\ x \in 1 .. Len(Without(q, t)) /\ y \in 1 .. Len(Without(q, t))
      BY <1>0, <1>1, StateFields
    <3> HIDE DEF q
    <3>2. \A i, j \in 1 .. Len(Without(q, t)) : i < j =>
            \E m1, m2 \in 1 .. Len(q) :
              m1 < m2 /\ q[m1] = Without(q, t)[i] /\ q[m2] = Without(q, t)[j]
      BY <3>1, WithoutOrder
    <3>3. \E i, j \in 1 .. Len(q) : i < j /\ q[i] = Without(q, t)[x] /\ q[j] = Without(q, t)[y]
      BY <3>1, <3>2, <1>7
    <3> QED
      BY <3>1, <3>3 DEF q
  <2>2. Rem(k, k.list[i]) <= Rem(k, k.list[j])
    BY <2>1 DEF ListOK
  <2>3. /\ m.list[x] \in Timer /\ Contains(m.list, m.list[x])
        /\ m.list[y] \in Timer /\ Contains(m.list, m.list[y])
    BY <1>3, OnList
  <2> QED
    BY <1>1, <1>2, <1>4, <2>1, <2>2, <2>3
<1>8. ListOK(m, w)
  BY <1>1, <1>2, <1>3, <1>6, <1>7 DEF ListOK
<1> QED
  BY <1>1, <1>2, <1>5, <1>8 DEF m

(* Where rt_timer_start links a timer: before the first that expires later.  *)
LEMMA PositionIs ==
  ASSUME NEW k, NEW t \in Timer, NEW w \in Nat, w <= MaxWindow + 1, ListOK(k, w),
         InTime(k, t, MaxWindow)
  PROVE  /\ Position(k, t) \in 1 .. Len(k.list) + 1
         /\ \A i \in 1 .. Len(k.list) : i < Position(k, t) <=> Rem(k, k.list[i]) <= Rem(k, t)
<1> DEFINE later == {i \in 1 .. Len(k.list) : Later(k, k.list[i], t)}
           p == Position(k, t)
<1>1. /\ k \in TimerState /\ Len(k.list) \in Nat
      /\ \A i \in 1 .. Len(k.list) : k.list[i] \in Timer /\ Contains(k.list, k.list[i])
  BY OnList DEF ListOK
<1>2. ASSUME NEW u \in Timer, Contains(k.list, u)
      PROVE  Later(k, u, t) <=> Rem(k, u) > Rem(k, t)
  <2>1. /\ Rem(k, u) \in Int /\ Rem(k, t) \in Int
        /\ k.tick \in 0 .. Modulus - 1
        /\ k.timeout[u] \in 0 .. Modulus - 1 /\ k.timeout[t] \in 0 .. Modulus - 1
    BY <1>1, StateFields
  <2>2. PICK n \in Times : Rem(k, t) <= n
    BY DEF InTime
  <2>3. PICK n2 \in Times : Rem(k, u) <= n2
    BY <1>2 DEF ListOK, InTime
  <2>4. 0 - w <= Rem(k, u) /\ 0 - MaxWindow <= Rem(k, t)
    BY <1>2 DEF ListOK, InTime
  <2>5. /\ n \in 0 .. Half - 1 /\ n + MaxWindow < Half
        /\ n2 \in 0 .. Half - 1 /\ n2 + MaxWindow < Half
    BY HalfFacts
  <2>6. Rem(k, u) - Rem(k, t) < Half /\ Rem(k, t) - Rem(k, u) <= Half
    BY <2>1, <2>2, <2>3, <2>4, <2>5, HalfFacts
  <2>7. Minus(k.timeout[u], k.timeout[t]) # 0 /\ Minus(k.timeout[u], k.timeout[t]) < Half
          <=> Rem(k, u) > Rem(k, t)
    BY <2>1, <2>6, AwayLater DEF Rem
  <2> QED
    BY <2>7 DEF Later
<1>3. \A i \in 1 .. Len(k.list) : i \in later <=> Rem(k, k.list[i]) > Rem(k, t)
  BY <1>1, <1>2
<1>4. \A i \in 1 .. Len(k.list) : Rem(k, k.list[i]) \in Int /\ Rem(k, t) \in Int
  BY <1>1, StateFields
<1>5. p = IF later = {} THEN Len(k.list) + 1 ELSE CHOOSE i \in later : \A j \in later : i <= j
  BY DEF Position
<1> HIDE DEF p
<1>6. CASE later = {}
  BY <1>1, <1>3, <1>4, <1>5, <1>6 DEF p
<1>7. CASE later # {}
  <2>1. later \in SUBSET Nat
    OBVIOUS
  <2>2. later \in SUBSET (1 .. Len(k.list))
    OBVIOUS
  <2> HIDE DEF later
  <2>3. \E i \in later : \A j \in later : i <= j
    BY <1>7, <2>1, LeastExists
  <2>4. p \in later /\ \A j \in later : p <= j
    BY <1>5, <1>7, <2>3
  <2>5. p \in 1 .. Len(k.list) /\ Rem(k, k.list[p]) > Rem(k, t)
    BY <1>3, <2>2, <2>4
  <2>6. ASSUME NEW i \in 1 .. Len(k.list), i < p PROVE Rem(k, k.list[i]) <= Rem(k, t)
    <3>1. i \notin later
      BY <2>4, <2>5, <2>6
    <3> QED
      BY <1>3, <1>4, <3>1
  <2>7. ASSUME NEW i \in 1 .. Len(k.list), ~(i < p) PROVE ~(Rem(k, k.list[i]) <= Rem(k, t))
    <3>1. CASE i = p
      BY <1>4, <2>5, <3>1
    <3>2. CASE i # p
      <4>1. Rem(k, k.list[p]) <= Rem(k, k.list[i])
        BY <2>5, <2>7, <3>2 DEF ListOK
      <4> QED
        BY <1>4, <2>5, <4>1
    <3> QED
      BY <3>1, <3>2
  <2> QED
    BY <1>1, <2>5, <2>6, <2>7 DEF p
<1> QED
  BY <1>6, <1>7

(* The insertion at the end of rt_timer_start, also of a timer whose call    *)
(* was interrupted: it takes its place in the order, behind those that       *)
(* expire at the same time.                                                  *)
LEMMA InsertedOK ==
  ASSUME NEW k, NEW t \in Timer, NEW w \in MaxWindow .. MaxWindow + 1, ListOK(k, w),
         ~Contains(k.list, t), InTime(k, t, MaxWindow)
  PROVE  LET m == Inserted(k, t) IN
         /\ ListOK(m, w) /\ Contains(m.list, t) /\ Else(k, m, {t})
         /\ m.init = k.init /\ m.known = k.known /\ m.periodic = k.periodic
         /\ m.timeout = k.timeout /\ m.active = k.active \cup {t}
         /\ \A u : Contains(m.list, u) <=> Contains(k.list, u) \/ u = t
         /\ \A u \in Timer : Contains(k.list, u) /\ Rem(k, u) <= Rem(k, t) =>
              \E i, j \in 1 .. Len(m.list) : i < j /\ m.list[i] = u /\ m.list[j] = t
<1> DEFINE m == Inserted(k, t)
           p == Position(k, t)
<1>0. k \in TimerState /\ IsInjective(k.list) /\ w \in Nat /\ w <= MaxWindow + 1
      /\ k.list \in Seq(Timer) /\ MaxWindow <= w
  BY HalfFacts, StateFields DEF ListOK
<1>1. /\ m.list = InsertAt(k.list, p, t) /\ m.timeout = k.timeout
      /\ m.tick = k.tick /\ m.init = k.init /\ m.known = k.known
      /\ m.active = k.active \cup {t} /\ m.periodic = k.periodic
  BY <1>0 DEF Inserted, TimerState
<1>2. /\ p \in 1 .. Len(k.list) + 1
      /\ \A i \in 1 .. Len(k.list) : i < p <=> Rem(k, k.list[i]) <= Rem(k, t)
  BY <1>0, PositionIs
<1> HIDE DEF p
<1>3. /\ m.list \in Seq(Timer) /\ IsInjective(m.list)
      /\ \A u : Contains(m.list, u) <=> Contains(k.list, u) \/ u = t
      /\ \A x, y \in 1 .. Len(m.list) : x < y =>
           \/ \E i, j \in 1 .. Len(k.list) : i < j /\ m.list[x] = k.list[i] /\ m.list[y] = k.list[j]
           \/ m.list[y] = t /\ \E i \in 1 .. Len(k.list) : i < p /\ m.list[x] = k.list[i]
           \/ m.list[x] = t /\ \E j \in 1 .. Len(k.list) : p <= j /\ m.list[y] = k.list[j]
      /\ \A i \in 1 .. Len(k.list) : i < p =>
           \E x, y \in 1 .. Len(m.list) : x < y /\ m.list[x] = k.list[i] /\ m.list[y] = t
  <2> DEFINE q == k.list
             r == InsertAt(q, p, t)
  <2>1. /\ q \in Seq(Timer) /\ IsInjective(q) /\ ~Contains(q, t)
        /\ p \in 1 .. Len(q) + 1 /\ m.list = r
    BY <1>0, <1>1, <1>2
  <2> HIDE DEF m, q
  <2>2. /\ r \in Seq(Timer) /\ IsInjective(r)
        /\ \A u : Contains(r, u) <=> Contains(q, u) \/ u = t
        /\ \A x, y \in 1 .. Len(r) : x < y =>
             \/ \E i, j \in 1 .. Len(q) : i < j /\ r[x] = q[i] /\ r[y] = q[j]
             \/ r[y] = t /\ \E i \in 1 .. Len(q) : i < p /\ r[x] = q[i]
             \/ r[x] = t /\ \E j \in 1 .. Len(q) : p <= j /\ r[y] = q[j]
        /\ \A i \in 1 .. Len(q) : i < p =>
             \E x, y \in 1 .. Len(r) : x < y /\ r[x] = q[i] /\ r[y] = t
    BY <2>1, InsertAtMember
  <2> HIDE DEF r
  <2> QED
    BY <2>1, <2>2 DEF q
<1>4. m \in TimerState
  BY <1>0, <1>1, <1>3 DEF Inserted, TimerState
<1> HIDE DEF m
<1>5. \A u \in Timer : Rem(m, u) = Rem(k, u) /\ Rem(k, u) \in Int
  BY <1>0, <1>1, StateFields DEF Rem
<1>6. Else(k, m, {t})
  BY <1>1, <1>3 DEF Else
<1>7. ASSUME NEW u \in Timer, Contains(m.list, u) PROVE InTime(m, u, w)
  <2>1. CASE u = t
    BY <2>1, <1>0, <1>5, HalfFacts DEF InTime
  <2>2. CASE Contains(k.list, u)
    BY <2>2, <1>5 DEF ListOK, InTime
  <2> QED
    BY <1>3, <1>7, <2>1, <2>2
<1>8. \A i \in 1 .. Len(k.list) : k.list[i] \in Timer
  BY <1>0, OnList
<1>9. ASSUME NEW x \in 1 .. Len(m.list), NEW y \in 1 .. Len(m.list), x < y
      PROVE  Rem(m, m.list[x]) <= Rem(m, m.list[y])
  <2>1. CASE \E i, j \in 1 .. Len(k.list) :
               i < j /\ m.list[x] = k.list[i] /\ m.list[y] = k.list[j]
    BY <2>1, <1>5, <1>8 DEF ListOK
  <2>2. CASE m.list[y] = t /\ \E i \in 1 .. Len(k.list) : i < p /\ m.list[x] = k.list[i]
    BY <2>2, <1>2, <1>5, <1>8
  <2>3. CASE m.list[x] = t /\ \E j \in 1 .. Len(k.list) : p <= j /\ m.list[y] = k.list[j]
    <3>1. PICK j \in 1 .. Len(k.list) : p <= j /\ m.list[y] = k.list[j]
      BY <2>3
    <3>2. ~(Rem(k, k.list[j]) <= Rem(k, t))
      BY <1>2, <3>1
    <3> QED
      BY <2>3, <3>1, <3>2, <1>5, <1>8
  <2> QED
    BY <1>3, <1>9, <2>1, <2>2, <2>3
<1>10. ListOK(m, w)
  BY <1>3, <1>4, <1>7, <1>9 DEF ListOK
<1>11. ASSUME NEW u \in Timer, Contains(k.list, u), Rem(k, u) <= Rem(k, t)
       PROVE  \E i, j \in 1 .. Len(m.list) : i < j /\ m.list[i] = u /\ m.list[j] = t
  <2>1. PICK i \in 1 .. Len(k.list) : k.list[i] = u
    BY <1>11 DEF Contains
  <2>2. i < p
    BY <1>2, <1>11, <2>1
  <2> QED
    BY <1>3, <2>1, <2>2
<1>12. Contains(m.list, t)
  BY <1>3
<1> QED
  BY <1>1, <1>3, <1>6, <1>10, <1>11, <1>12 DEF m

-----------------------------------------------------------------------------
(* The calls *)

LEMMA ElseElse ==
  ASSUME NEW k, NEW m, NEW n, NEW T, NEW U, Else(k, m, T), Else(m, n, U)
  PROVE  Else(k, n, T \cup U)
BY DEF Else

LEMMA DeactivatedOK ==
  ASSUME NEW k, NEW t \in Timer, NEW w \in Nat, ListOK(k, w)
  PROVE  LET m == Deactivated(k, t) IN
         /\ ListOK(m, w) /\ Else(k, m, {t}) /\ m.list = k.list /\ m.timeout = k.timeout
         /\ m.init = k.init /\ m.known = k.known /\ m.active = k.active \ {t}
         /\ m.periodic = k.periodic /\ m.tick = k.tick
<1> DEFINE m == Deactivated(k, t)
<1>0. k \in TimerState
  BY DEF ListOK
<1>1. /\ m \in TimerState /\ m.list = k.list /\ m.timeout = k.timeout /\ m.tick = k.tick
      /\ m.init = k.init /\ m.known = k.known /\ m.active = k.active \ {t}
      /\ m.periodic = k.periodic
  BY <1>0 DEF Deactivated, TimerState
<1> HIDE DEF m
<1>2. ListOK(m, w)
  BY <1>1, SameList
<1>3. Else(k, m, {t})
  BY <1>1 DEF Else
<1> QED
  BY <1>1, <1>2, <1>3 DEF m

(* Computing when a timer that is off the list expires.                      *)
LEMMA TimedOK ==
  ASSUME NEW k, NEW t \in Timer, NEW w \in Nat, ListOK(k, w), ~Contains(k.list, t)
  PROVE  LET m == Timed(k, t) IN
         /\ ListOK(m, w) /\ Else(k, m, {t}) /\ m.list = k.list
         /\ m.init = k.init /\ m.known = k.known /\ m.active = k.active
         /\ m.periodic = k.periodic
         /\ InTime(m, t, MaxWindow) /\ Rem(m, t) = k.init[t]
         /\ Minus(m.tick, Minus(m.timeout[t], m.init[t])) = 0
<1> DEFINE m == Timed(k, t)
           a == (k.tick + k.init[t]) % Modulus
<1>0. /\ k \in TimerState /\ k.init[t] \in Times /\ k.tick \in 0 .. Modulus - 1
      /\ k.init[t] \in 0 .. Half - 1 /\ k.timeout \in [Timer -> 0 .. Modulus - 1]
  BY StateFields, HalfFacts DEF ListOK
<1>1. /\ a \in 0 .. Modulus - 1 /\ Away(k.tick, a) = k.init[t]
      /\ Minus(k.tick, Minus(a, k.init[t])) = 0
  BY <1>0, AwayStarted
<1>2. m = [k EXCEPT !.timeout = [k.timeout EXCEPT ![t] = a]]
  BY DEF Timed
<1> HIDE DEF a, m
<1>3. /\ m \in TimerState /\ m.list = k.list /\ m.timeout = [k.timeout EXCEPT ![t] = a]
      /\ m.tick = k.tick /\ m.init = k.init /\ m.known = k.known /\ m.active = k.active
      /\ m.periodic = k.periodic
  BY <1>0, <1>1, <1>2 DEF TimerState
<1>4. m.timeout[t] = a /\ \A u \in Timer : u # t => m.timeout[u] = k.timeout[u]
  BY <1>0, <1>3
<1>9. \A u \in Timer : Contains(k.list, u) => m.timeout[u] = k.timeout[u]
  BY <1>4
<1>5. ListOK(m, w)
  BY <1>3, <1>9, SameList
<1>6. Else(k, m, {t})
  BY <1>3, <1>4 DEF Else
<1>7. Rem(m, t) = k.init[t]
  BY <1>1, <1>3, <1>4 DEF Rem
<1>8. InTime(m, t, MaxWindow)
  BY <1>0, <1>7, HalfFacts DEF InTime
<1> QED
  BY <1>1, <1>3, <1>4, <1>5, <1>6, <1>7, <1>8 DEF m

(* rt_timer_start                                                            *)
LEMMA StartedOK ==
  ASSUME NEW k, NEW t \in Timer, NEW w \in MaxWindow .. MaxWindow + 1, ListOK(k, w)
  PROVE  LET m == Started(k, t) IN
         /\ ListOK(m, w) /\ Contains(m.list, t) /\ Else(k, m, {t})
         /\ m.known = k.known /\ t \in m.active
<1> DEFINE k1 == Removed(k, t)
           k2 == Deactivated(k1, t)
           k3 == Timed(k2, t)
           k4 == Inserted(k3, t)
<1>0. w \in Nat
  BY HalfFacts
<1>1. ListOK(k1, w) /\ ~Contains(k1.list, t) /\ Else(k, k1, {t}) /\ k1.known = k.known
  BY <1>0, RemovedOK
<1> HIDE DEF k1
<1>2. ListOK(k2, w) /\ k2.list = k1.list /\ Else(k1, k2, {t}) /\ k2.known = k1.known
  BY <1>0, <1>1, DeactivatedOK
<1> HIDE DEF k2
<1>3. /\ ListOK(k3, w) /\ k3.list = k2.list /\ Else(k2, k3, {t}) /\ k3.known = k2.known
      /\ InTime(k3, t, MaxWindow)
  BY <1>0, <1>1, <1>2, TimedOK
<1> HIDE DEF k3
<1>4. /\ ListOK(k4, w) /\ Contains(k4.list, t) /\ Else(k3, k4, {t}) /\ k4.known = k3.known
      /\ k4.active = k3.active \cup {t}
  BY <1>1, <1>2, <1>3, InsertedOK
<1>5. Started(k, t) = k4
  BY DEF Started, k3, k2, k1
<1> HIDE DEF k4
<1>6. Else(k, k4, {t})
  BY <1>1, <1>2, <1>3, <1>4 DEF Else
<1> QED
  BY <1>1, <1>2, <1>3, <1>4, <1>5, <1>6

LEMMA DetachedOK ==
  ASSUME NEW k, NEW t \in Timer, NEW w \in Nat, ListOK(k, w)
  PROVE  LET m == Detached(k, t) IN
         /\ ListOK(m, w) /\ ~Contains(m.list, t) /\ Else(k, m, {t})
<1> DEFINE k1 == Removed(k, t)
           m == Detached(k, t)
<1>1. ListOK(k1, w) /\ ~Contains(k1.list, t) /\ Else(k, k1, {t}) /\ k1 \in TimerState
  BY RemovedOK DEF ListOK
<1>2. m = [k1 EXCEPT !.known = k1.known \ {t}]
  BY DEF Detached
<1> HIDE DEF k1, m
<1>3. /\ m \in TimerState /\ m.list = k1.list /\ m.timeout = k1.timeout /\ m.tick = k1.tick
      /\ m.known = k1.known \ {t} /\ m.init = k1.init /\ m.active = k1.active
  BY <1>1, <1>2 DEF TimerState
<1>4. ListOK(m, w)
  BY <1>1, <1>3, SameList
<1>5. Else(k, m, {t})
  BY <1>1, <1>3 DEF Else
<1> QED
  BY <1>1, <1>3, <1>4, <1>5 DEF m

LEMMA StoppedOK ==
  ASSUME NEW k, NEW t \in Timer, NEW w \in Nat, ListOK(k, w)
  PROVE  LET m == Stopped(k, t) IN
         /\ ListOK(m, w) /\ Else(k, m, {t}) /\ t \notin m.active
         /\ m.known = k.known
         /\ m = k \/ ~Contains(m.list, t)
<1>1. CASE t \notin k.active
  BY <1>1 DEF Stopped, Else
<1>2. CASE t \in k.active
  <2> DEFINE k1 == Removed(k, t)
             m == Deactivated(k1, t)
  <2>1. ListOK(k1, w) /\ ~Contains(k1.list, t) /\ Else(k, k1, {t}) /\ k1.known = k.known
    BY RemovedOK
  <2> HIDE DEF k1
  <2>2. /\ ListOK(m, w) /\ m.list = k1.list /\ Else(k1, m, {t}) /\ m.known = k1.known
        /\ m.active = k1.active \ {t}
    BY <2>1, DeactivatedOK
  <2>3. Stopped(k, t) = m
    BY <1>2 DEF Stopped, k1
  <2> HIDE DEF m
  <2>4. Else(k, m, {t})
    BY <2>1, <2>2 DEF Else
  <2> QED
    BY <2>1, <2>2, <2>3, <2>4
<1> QED
  BY <1>1, <1>2

(* What a callback calls keeps the list in order and concerns one timer.     *)
LEMMA CalledOK ==
  ASSUME NEW k, NEW t \in Timer, NEW w \in MaxWindow .. MaxWindow + 1, ListOK(k, w),
         NEW op \in {"start", "stop", "detach"}
  PROVE  ListOK(Called(k, op, t), w) /\ Else(k, Called(k, op, t), {t})
<1>0. w \in Nat
  BY HalfFacts
<1>1. CASE op = "start"
  <2>1. Called(k, op, t) = Started(k, t)
    BY <1>1 DEF Called
  <2> QED
    BY <2>1, StartedOK
<1>2. CASE op = "stop"
  <2>1. Called(k, op, t) = Stopped(k, t)
    BY <1>2 DEF Called
  <2> QED
    BY <1>0, <2>1, StoppedOK
<1>3. CASE op = "detach"
  <2>1. Called(k, op, t) = Detached(k, t)
    BY <1>3 DEF Called
  <2> QED
    BY <1>0, <2>1, DetachedOK
<1> QED
  BY <1>1, <1>2, <1>3

(* The same of what rt_timer_check does after the callback.                  *)
LEMMA RearmedOK ==
  ASSUME NEW k, NEW t \in Timer, NEW w \in MaxWindow .. MaxWindow + 1, ListOK(k, w)
  PROVE  /\ ListOK(Rearmed(k, t), w) /\ Else(k, Rearmed(k, t), {t})
         /\ Rearmed(k, t).known = k.known
<1>0. w \in Nat
  BY HalfFacts
<1>1. CASE t \in k.periodic \cap k.active
  <2>1. Rearmed(k, t) = Started(k, t)
    BY <1>1 DEF Rearmed
  <2> QED
    BY <2>1, StartedOK
<1>2. CASE t \notin k.periodic \cap k.active
  <2>1. Rearmed(k, t) = Deactivated(k, t)
    BY <1>2 DEF Rearmed
  <2> DEFINE m == Deactivated(k, t)
  <2>2. ListOK(m, w) /\ Else(k, m, {t}) /\ m.known = k.known
    BY <1>0, DeactivatedOK
  <2> QED
    BY <2>1, <2>2
<1> QED
  BY <1>1, <1>2

-----------------------------------------------------------------------------
(* The steps *)

LEMMA InitInv == Init => TInv
<1> SUFFICES ASSUME Init PROVE TInv
  OBVIOUS
<1>1. PICK p \in SUBSET Timer, n \in [Timer -> Times] :
        tm = [ tick |-> 0, list |-> << >>, timeout |-> [t \in Timer |-> 0], init |-> n,
               active |-> {}, periodic |-> p, known |-> Timer ]
  BY DEF Init
<1>2. 0 \in 0 .. Modulus - 1
  BY HalfFacts
<1>3. tm \in TimerState /\ tm.list = << >>
  BY <1>1, <1>2 DEF TimerState
<1>4. /\ call \in [Task -> [at : Place, on : Timer \cup {None}, was : BOOLEAN]]
      /\ \A c \in Task : call[c].at = "app"
  BY DEF Init, InApp, Place
<1>5. TypeOK
  BY <1>3, <1>4 DEF TypeOK, Init
<1>6. ListOK(tm, Late)
  BY <1>3 DEF ListOK, IsInjective, Contains
<1> QED
  BY <1>4, <1>5, <1>6 DEF TInv, CallOK, OneCall

LEMMA CallFields ==
  ASSUME TInv, NEW c \in Task
  PROVE  /\ call[c].at \in Place /\ call[c].was \in BOOLEAN
         /\ call[c].at # "app" =>
              /\ call[c].on \in Timer
              /\ \A d \in Task \ {c} : call[d].at # "app" => call[d].on # call[c].on
         /\ tm \in TimerState /\ Late \in MaxWindow .. MaxWindow + 1 /\ Late \in Nat
         /\ isr = "none" => Late = MaxWindow
         /\ ListOK(tm, Late)
<1>1. call[c].at \in Place /\ call[c].was \in BOOLEAN
  BY DEF TInv, TypeOK
<1>2. Late \in MaxWindow .. MaxWindow + 1 /\ Late \in Nat /\ (isr = "none" => Late = MaxWindow)
  BY HalfFacts DEF Late
<1>3. call[c].at # "app" =>
        /\ call[c].on \in Timer
        /\ \A d \in Task \ {c} : call[d].at # "app" => call[d].on # call[c].on
  BY DEF TInv, CallOK, OneCall
<1> QED
  BY <1>1, <1>2, <1>3 DEF TInv, TypeOK

(* A step that changes the timers T, none of them claimed by d, leaves the   *)
(* call of d as it was.                                                      *)
LEMMA CallKept ==
  ASSUME TInv, NEW d \in Task, NEW T, Else(tm, tm', T), call'[d] = call[d],
         call[d].at # "app" => call[d].on \notin T
  PROVE  CallOK(d)'
<1> SUFFICES ASSUME call[d].at # "app"
             PROVE  LET t == call'[d].on IN
                    /\ t \in Timer
                    /\ call'[d].at \in {"start", "insert"} => t \in tm'.known
                    /\ call'[d].at \in {"start", "insert", "clear"} => ~Contains(tm'.list, t)
                    /\ call'[d].at = "insert" => Waited(d)' <= MaxWindow
  BY DEF CallOK, Linked
<1> DEFINE t == call[d].on
<1>1. /\ t \in Timer /\ t \notin T
      /\ call[d].at \in {"start", "insert"} => t \in tm.known
      /\ call[d].at \in {"start", "insert", "clear"} => ~Contains(tm.list, t)
      /\ call[d].at = "insert" => Waited(d) <= MaxWindow
  BY DEF TInv, CallOK, Linked
<1>2. /\ tm'.tick = tm.tick
      /\ Contains(tm'.list, t) <=> Contains(tm.list, t)
      /\ tm'.timeout[t] = tm.timeout[t] /\ tm'.init[t] = tm.init[t]
      /\ t \in tm'.known <=> t \in tm.known
  BY <1>1 DEF Else
<1>3. Waited(d)' = Waited(d)
  BY <1>2 DEF Waited
<1> QED
  BY <1>1, <1>2, <1>3

Point == [at : Place, on : Timer \cup {None}, was : BOOLEAN]

Moves(c, x) == call' = [call EXCEPT ![c] = x]

(* A step of task c about timer t.                                           *)
LEMMA TaskKeeps ==
  ASSUME TInv, NEW c \in Task, NEW t \in Timer, UNCHANGED isr,
         ListOK(tm', Late), Else(tm, tm', {t}), CallOK(c)',
         NEW x \in Point, Moves(c, x), x.at # "app" => x.on = t,
         \A d \in Task \ {c} : call[d].at # "app" => call[d].on # t
  PROVE  TInv'
<1>1. TypeOK'
  BY DEF TInv, TypeOK, ListOK, Point, Moves
<1>2. ListOK(tm', Late')
  BY DEF Late
<1>3. call \in [Task -> [at : Place, on : Timer \cup {None}, was : BOOLEAN]]
  BY DEF TInv, TypeOK
<1>4. call'[c] = x /\ \A d \in Task \ {c} : call'[d] = call[d]
  BY <1>3 DEF Moves
<1>5. \A d \in Task : CallOK(d)'
  <2> TAKE d \in Task
  <2>1. CASE d # c
    BY <1>4, <2>1, CallKept
  <2> QED
    BY <2>1
<1>6. OneCall'
  BY <1>4 DEF TInv, OneCall
<1> QED
  BY <1>1, <1>2, <1>5, <1>6 DEF TInv, ListOK

(* The timer that fires, and at most one more, change in a turn of the loop  *)
(* of rt_timer_check.                                                        *)
LEMMA FiresOK ==
  ASSUME TInv, Fires
  PROVE  LET t == Head(tm.list) IN
         /\ t \in Timer /\ Linked(t) /\ Rem(tm, t) <= 0
         /\ \E u \in Timer :
              /\ u = t \/ ~Claimed(u)
              /\ ListOK(tm', MaxWindow + 1) /\ Else(tm, tm', {t, u})
<1> DEFINE t == Head(tm.list)
           w == MaxWindow + 1
           r == Removed(tm, t)
<1>1. /\ isr = "check" /\ tm.list # << >> /\ Expired(tm, t)
      /\ \E k \in AfterCallback(r, t) : tm' = Rearmed(k, t)
  BY DEF Fires, SomethingDue
<1>2. /\ ListOK(tm, w) /\ tm \in TimerState /\ w \in Nat /\ w \in MaxWindow .. MaxWindow + 1
      /\ tm.list \in Seq(Timer)
  BY <1>1, HalfFacts, StateFields DEF TInv, Late, ListOK
<1>3. t \in Timer /\ Linked(t)
  <2>1. 1 \in 1 .. Len(tm.list) /\ tm.list[1] = t
    BY <1>1, <1>2
  <2> QED
    BY <1>2, <2>1, OnList DEF Linked
<1>4. Rem(tm, t) <= 0
  BY <1>1, <1>2, <1>3, StateFields, AwayIs DEF Expired, Rem
<1> HIDE DEF t, w
<1>5. ListOK(r, w) /\ Else(tm, r, {t}) /\ r.known = tm.known
  BY <1>2, <1>3, RemovedOK
<1>6. r.known \subseteq Timer
  BY <1>2, <1>5, StateFields
<1> HIDE DEF r
<1>7. PICK k \in AfterCallback(r, t) : tm' = Rearmed(k, t)
  BY <1>1 DEF r
<1>8. \E u \in Timer : (u = t \/ ~Claimed(u)) /\ ListOK(k, w) /\ Else(r, k, {u})
  <2>1. CASE k = r
    BY <1>3, <1>5, <2>1 DEF Else
  <2>2. CASE \E op \in SelfCalls : k = Called(r, op, t)
    <3>1. PICK op \in SelfCalls : k = Called(r, op, t)
      BY <2>2
    <3>2. op \in {"start", "stop", "detach"}
      BY TimerAssumption
    <3> QED
      BY <1>2, <1>3, <1>5, <3>1, <3>2, CalledOK
  <2>3. CASE \E op \in OtherCalls, u \in {x \in r.known : x # t /\ ~Claimed(x)} : k = Called(r, op, u)
    <3>1. PICK op \in OtherCalls, u \in {x \in r.known : x # t /\ ~Claimed(x)} : k = Called(r, op, u)
      BY <2>3
    <3>2. op \in {"start", "stop", "detach"} /\ u \in Timer /\ ~Claimed(u)
      BY <1>6, TimerAssumption
    <3> QED
      BY <1>2, <1>5, <3>1, <3>2, CalledOK
  <2>4. \/ k \in {r} \/ k \in {Called(r, op, t) : op \in SelfCalls}
        \/ k \in {Called(r, op, u) : op \in OtherCalls,
                                    u \in {x \in r.known : x # t /\ ~Claimed(x)}}
    BY <1>7 DEF AfterCallback
  <2>5. \/ k = r \/ \E op \in SelfCalls : k = Called(r, op, t)
        \/ \E op \in OtherCalls, u \in {x \in r.known : x # t /\ ~Claimed(x)} :
             k = Called(r, op, u)
    BY <2>4
  <2> QED
    BY <2>1, <2>2, <2>3, <2>5
<1>9. PICK u \in Timer : (u = t \/ ~Claimed(u)) /\ ListOK(k, w) /\ Else(r, k, {u})
  BY <1>8
<1>10. ListOK(tm', w) /\ Else(k, tm', {t})
  BY <1>2, <1>3, <1>7, <1>9, RearmedOK
<1>11. Else(tm, tm', {t, u})
  BY <1>5, <1>9, <1>10 DEF Else
<1> QED
  BY <1>3, <1>4, <1>9, <1>10, <1>11 DEF t, w

LEMMA FiresKeeps == ASSUME TInv, Fires PROVE TInv'
<1> DEFINE t == Head(tm.list)
<1>1. /\ t \in Timer /\ Linked(t)
      /\ \E u \in Timer : /\ u = t \/ ~Claimed(u)
                          /\ ListOK(tm', MaxWindow + 1) /\ Else(tm, tm', {t, u})
  BY FiresOK
<1> HIDE DEF t
<1>2. PICK u \in Timer : /\ u = t \/ ~Claimed(u)
                         /\ ListOK(tm', MaxWindow + 1) /\ Else(tm, tm', {t, u})
  BY <1>1
<1>3. UNCHANGED <<call, isr>> /\ isr = "check"
  BY DEF Fires
<1>4. ListOK(tm', Late')
  BY <1>2, <1>3 DEF Late
<1>5. ASSUME NEW d \in Task PROVE CallOK(d)'
  <2>1. CASE call[d].at # "app" => call[d].on \notin {t, u}
    BY <1>2, <1>3, <2>1, CallKept
  <2>2. CASE call[d].at # "app" /\ call[d].on \in {t, u}
    <3>1. call[d].on = t
      BY <1>2, <2>2 DEF Claimed
    <3>2. call[d].at \notin {"start", "insert", "clear"}
      BY <1>1, <2>2, <3>1 DEF TInv, CallOK
    <3> QED
      BY <1>1, <1>3, <3>1, <3>2 DEF CallOK
  <2> QED
    BY <2>1, <2>2
<1>6. TypeOK' /\ OneCall'
  BY <1>3, <1>4 DEF TInv, TypeOK, OneCall, ListOK
<1> QED
  BY <1>4, <1>5, <1>6 DEF TInv

LEMMA Unclaimed ==
  ASSUME NEW c \in Task, NEW t, Calls(c, t)
  PROVE  /\ isr = "none" /\ call[c].at = "app" /\ t \in tm.known
         /\ \A d \in Task : call[d].at # "app" => call[d].on # t
BY DEF Calls, Claimed, Runs

LEMMA Points ==
  ASSUME NEW t \in Timer, NEW place \in Place, NEW b \in BOOLEAN
  PROVE  LET x == [at |-> place, on |-> t, was |-> b] IN
         x \in Point /\ x.at = place /\ x.on = t
BY DEF Point

(* The call goes on at another place.                                        *)
LEMMA GotoKeeps ==
  ASSUME TInv, NEW c \in Task, NEW t \in Timer, isr = "none", UNCHANGED isr,
         ListOK(tm', MaxWindow), Else(tm, tm', {t}),
         NEW x \in Point, Moves(c, x), x.on = t,
         x.at \in {"start", "insert"} => t \in tm'.known,
         x.at \in {"start", "insert", "clear"} => ~Contains(tm'.list, t),
         x.at = "insert" => Minus(tm'.tick, Minus(tm'.timeout[t], tm'.init[t])) <= MaxWindow,
         \A d \in Task \ {c} : call[d].at # "app" => call[d].on # t
  PROVE  TInv'
<1>1. call'[c] = x
  BY DEF TInv, TypeOK, Moves
<1>2. CallOK(c)'
  BY <1>1 DEF CallOK, Linked, Waited
<1>3. ListOK(tm', Late)
  BY DEF Late
<1> QED
  BY <1>2, <1>3, TaskKeeps

(* The call returns.                                                         *)
LEMMA ReturnKeeps ==
  ASSUME TInv, NEW c \in Task, NEW t \in Timer, isr = "none", UNCHANGED isr,
         ListOK(tm', MaxWindow), Else(tm, tm', {t}), Return(c),
         \A d \in Task \ {c} : call[d].at # "app" => call[d].on # t
  PROVE  TInv'
<1>1. call'[c] = InApp /\ Moves(c, InApp)
  BY DEF TInv, TypeOK, Return, Moves
<1>2. CallOK(c)'
  BY <1>1 DEF CallOK, InApp
<1>3. ListOK(tm', Late)
  BY DEF Late
<1>4. InApp \in Point /\ InApp.at = "app"
  BY DEF InApp, Place, Point
<1> QED
  BY <1>1, <1>2, <1>3, <1>4, TaskKeeps

\* the list when tasks run
LEMMA ListHere ==
  ASSUME TInv, isr = "none"
  PROVE  /\ ListOK(tm, MaxWindow) /\ tm \in TimerState
         /\ MaxWindow \in Nat /\ MaxWindow \in MaxWindow .. MaxWindow + 1
BY HalfFacts DEF TInv, Late, ListOK

\* what an interrupted call goes on with
LEMMA Interrupted ==
  ASSUME TInv, NEW c \in Task, call[c].at # "app"
  PROVE  /\ call[c].on \in Timer
         /\ call[c].at \in {"start", "insert"} => call[c].on \in tm.known
         /\ call[c].at \in {"start", "insert", "clear"} => ~Contains(tm.list, call[c].on)
         /\ \A d \in Task \ {c} : call[d].at # "app" => call[d].on # call[c].on
         /\ call[c].at = "insert" => InTime(tm, call[c].on, MaxWindow)
<1> DEFINE t == call[c].on
<1>1. /\ t \in Timer
      /\ call[c].at \in {"start", "insert"} => t \in tm.known
      /\ call[c].at \in {"start", "insert", "clear"} => ~Contains(tm.list, t)
      /\ \A d \in Task \ {c} : call[d].at # "app" => call[d].on # t
      /\ call[c].at = "insert" => Waited(c) <= MaxWindow
  BY DEF TInv, CallOK, OneCall, Linked
<1>2. ASSUME call[c].at = "insert" PROVE InTime(tm, t, MaxWindow)
  <2>1. /\ tm.tick \in 0 .. Modulus - 1 /\ tm.timeout[t] \in 0 .. Modulus - 1
        /\ tm.init[t] \in Times
    BY <1>1, StateFields DEF TInv, TypeOK
  <2>2. /\ Minus(tm.tick, Minus(tm.timeout[t], tm.init[t])) <= MaxWindow
        /\ Minus(tm.tick, Minus(tm.timeout[t], tm.init[t])) \in Nat
    <3>1. tm.init[t] \in 0 .. Modulus - 1
      BY <2>1, HalfFacts
    <3>2. Minus(tm.timeout[t], tm.init[t]) \in 0 .. Modulus - 1
      BY <2>1, <3>1, MinusIs
    <3>3. Minus(tm.tick, Minus(tm.timeout[t], tm.init[t])) \in 0 .. Modulus - 1
      BY <2>1, <3>2, MinusIs
    <3>4. Waited(c) = Minus(tm.tick, Minus(tm.timeout[t], tm.init[t]))
      BY DEF Waited
    <3> QED
      BY <1>1, <1>2, <3>3, <3>4, HalfFacts
  <2>3. Rem(tm, t) = tm.init[t] - Minus(tm.tick, Minus(tm.timeout[t], tm.init[t]))
    BY <2>1, <2>2, AwayWaited DEF Rem
  <2>4. tm.init[t] \in 0 .. Half - 1
    BY <2>1, HalfFacts
  <2> QED
    BY <2>1, <2>2, <2>3, <2>4, HalfFacts DEF InTime
<1> QED
  BY <1>1, <1>2

LEMMA StartRemoveKeeps ==
  ASSUME TInv, NEW c \in Task, NEW t \in Timer, StartRemove(c, t) PROVE TInv'
<1>1. Calls(c, t) /\ isr = "none"
  BY DEF StartRemove, Calls, Runs
<1> DEFINE r == Removed(tm, t)
           m == Deactivated(r, t)
<1>2. /\ ListOK(r, MaxWindow) /\ ~Contains(r.list, t) /\ Else(tm, r, {t})
      /\ r.known = tm.known
  BY <1>1, ListHere, RemovedOK
<1> HIDE DEF r
<1>3. /\ ListOK(m, MaxWindow) /\ Else(r, m, {t}) /\ m.list = r.list /\ m.known = r.known
  BY <1>1, <1>2, ListHere, DeactivatedOK
<1>4. tm' = m /\ UNCHANGED isr
  BY DEF StartRemove, r
<1> HIDE DEF m
<1>5. Else(tm, tm', {t})
  BY <1>2, <1>3, <1>4 DEF Else
<1> DEFINE x == [at |-> "start", on |-> t, was |-> FALSE]
<1>6. /\ Moves(c, x) /\ x \in Point /\ x.at = "start" /\ x.on = t
  BY DEF StartRemove, Goto, Place, Point, Moves
<1> HIDE DEF x
<1>7. t \in tm'.known /\ ~Contains(tm'.list, t) /\ ListOK(tm', MaxWindow)
  BY <1>1, <1>2, <1>3, <1>4, Unclaimed
<1> QED
  BY <1>1, <1>4, <1>5, <1>6, <1>7, Unclaimed, GotoKeeps

LEMMA StartTimeKeeps ==
  ASSUME TInv, NEW c \in Task, StartTime(c) PROVE TInv'
<1> DEFINE t == call[c].on
           m == Timed(tm, t)
<1>1. call[c].at = "start" /\ isr = "none" /\ tm' = m /\ UNCHANGED isr
  BY DEF StartTime, Runs
<1>2. /\ t \in Timer /\ t \in tm.known /\ ~Contains(tm.list, t)
      /\ \A d \in Task \ {c} : call[d].at # "app" => call[d].on # t
  BY <1>1, Interrupted
<1> DEFINE x == [at |-> "insert", on |-> t, was |-> FALSE]
<1>3. /\ Moves(c, x) /\ x \in Point /\ x.at = "insert" /\ x.on = t
  BY <1>2 DEF StartTime, Goto, Place, Point, Moves
<1> HIDE DEF x
<1> HIDE DEF t
<1>4. /\ ListOK(m, MaxWindow) /\ Else(tm, m, {t}) /\ m.list = tm.list /\ m.known = tm.known
      /\ Minus(m.tick, Minus(m.timeout[t], m.init[t])) = 0
  BY <1>1, <1>2, ListHere, TimedOK
<1>5. 0 <= MaxWindow
  BY HalfFacts
<1> HIDE DEF m
<1> QED
  BY <1>1, <1>2, <1>3, <1>4, <1>5, GotoKeeps

LEMMA StartInsertKeeps ==
  ASSUME TInv, NEW c \in Task, StartInsert(c) PROVE TInv'
<1> DEFINE t == call[c].on
           m == Inserted(tm, t)
<1>1. call[c].at = "insert" /\ isr = "none" /\ tm' = m /\ UNCHANGED isr /\ Return(c)
  BY DEF StartInsert, Runs
<1>2. /\ t \in Timer /\ ~Contains(tm.list, t) /\ InTime(tm, t, MaxWindow)
      /\ \A d \in Task \ {c} : call[d].at # "app" => call[d].on # t
  BY <1>1, Interrupted
<1> HIDE DEF t
<1>3. ListOK(m, MaxWindow) /\ Else(tm, m, {t})
  BY <1>1, <1>2, ListHere, InsertedOK
<1> HIDE DEF m
<1> QED
  BY <1>1, <1>2, <1>3, ReturnKeeps

LEMMA StopTestKeeps ==
  ASSUME TInv, NEW c \in Task, NEW t \in Timer, StopTest(c, t) PROVE TInv'
<1>1. Calls(c, t) /\ isr = "none" /\ tm' = tm /\ UNCHANGED isr
  BY DEF StopTest, Calls, Runs
<1> DEFINE x == [at |-> "stop", on |-> t, was |-> FALSE]
<1>2. /\ Moves(c, x) /\ x \in Point /\ x.at = "stop" /\ x.on = t
  BY DEF StopTest, Goto, Place, Point, Moves
<1> HIDE DEF x
<1>3. ListOK(tm', MaxWindow) /\ Else(tm, tm', {t})
  BY <1>1, ListHere DEF Else
<1> QED
  BY <1>1, <1>2, <1>3, Unclaimed, GotoKeeps

LEMMA StopRemoveKeeps ==
  ASSUME TInv, NEW c \in Task, StopRemove(c) PROVE TInv'
<1> DEFINE t == call[c].on
           m == Removed(tm, t)
<1>1. call[c].at = "stop" /\ isr = "none" /\ tm' = m /\ UNCHANGED isr
  BY DEF StopRemove, Runs
<1>2. /\ t \in Timer
      /\ \A d \in Task \ {c} : call[d].at # "app" => call[d].on # t
  BY <1>1, Interrupted
<1> DEFINE x == [at |-> "clear", on |-> t, was |-> FALSE]
<1>3. /\ Moves(c, x) /\ x \in Point /\ x.at = "clear" /\ x.on = t
  BY <1>2 DEF StopRemove, Goto, Place, Point, Moves
<1> HIDE DEF x
<1> HIDE DEF t
<1>4. ListOK(m, MaxWindow) /\ Else(tm, m, {t}) /\ ~Contains(m.list, t)
  BY <1>1, <1>2, ListHere, RemovedOK
<1> HIDE DEF m
<1> QED
  BY <1>1, <1>2, <1>3, <1>4, GotoKeeps

LEMMA StopClearKeeps ==
  ASSUME TInv, NEW c \in Task, StopClear(c) PROVE TInv'
<1> DEFINE t == call[c].on
           m == Deactivated(tm, t)
<1>1. call[c].at = "clear" /\ isr = "none" /\ tm' = m /\ UNCHANGED isr /\ Return(c)
  BY DEF StopClear, Runs
<1>2. /\ t \in Timer
      /\ \A d \in Task \ {c} : call[d].at # "app" => call[d].on # t
  BY <1>1, Interrupted
<1> HIDE DEF t
<1>3. ListOK(m, MaxWindow) /\ Else(tm, m, {t})
  BY <1>1, <1>2, ListHere, DeactivatedOK
<1> HIDE DEF m
<1> QED
  BY <1>1, <1>2, <1>3, ReturnKeeps

LEMMA FlagReadKeeps ==
  ASSUME TInv, NEW c \in Task, NEW t \in Timer, FlagRead(c, t) PROVE TInv'
<1> DEFINE b == t \in tm.active
<1>1. Calls(c, t) /\ isr = "none" /\ tm' = tm /\ UNCHANGED isr
  BY DEF FlagRead, Calls, Runs
<1> DEFINE x == [at |-> "flag", on |-> t, was |-> b]
<1>2. /\ Moves(c, x) /\ x \in Point /\ x.at = "flag" /\ x.on = t
  BY DEF FlagRead, Goto, Place, Point, Moves
<1> HIDE DEF x
<1>4. ListOK(tm', MaxWindow) /\ Else(tm, tm', {t})
  BY <1>1, ListHere DEF Else
<1> QED
  BY <1>1, <1>2, <1>4, Unclaimed, GotoKeeps

LEMMA FlagWriteKeeps ==
  ASSUME TInv, NEW c \in Task, NEW p \in BOOLEAN, FlagWrite(c, p) PROVE TInv'
<1> DEFINE t == call[c].on
           a == IF call[c].was THEN tm.active \cup {t} ELSE tm.active \ {t}
           q == IF p THEN tm.periodic \cup {t} ELSE tm.periodic \ {t}
<1>1. /\ call[c].at = "flag" /\ isr = "none" /\ UNCHANGED isr /\ Return(c)
      /\ tm' = [tm EXCEPT !.periodic = q, !.active = a]
  BY DEF FlagWrite, Runs
<1>2. /\ t \in Timer
      /\ \A d \in Task \ {c} : call[d].at # "app" => call[d].on # t
  BY <1>1, Interrupted
<1>3. /\ ListOK(tm, MaxWindow) /\ tm \in TimerState /\ MaxWindow \in Nat
  BY <1>1, ListHere
<1>4. /\ a \in SUBSET Timer /\ q \in SUBSET Timer
      /\ \A u \in Timer \ {t} : u \in a <=> u \in tm.active
  BY <1>2, <1>3, StateFields
<1> HIDE DEF t, a, q
<1>5. /\ tm' \in TimerState /\ tm'.list = tm.list /\ tm'.tick = tm.tick
      /\ tm'.timeout = tm.timeout /\ tm'.init = tm.init /\ tm'.known = tm.known
      /\ tm'.active = a
  BY <1>1, <1>3, <1>4 DEF TimerState
<1>6. ListOK(tm', MaxWindow)
  BY <1>3, <1>5, SameList
<1>7. Else(tm, tm', {t})
  BY <1>4, <1>5 DEF Else
<1> QED
  BY <1>1, <1>2, <1>6, <1>7, ReturnKeeps

(* A call that is not interrupted.                                           *)
LEMMA AtOnce ==
  ASSUME TInv, NEW c \in Task, NEW t \in Timer, isr = "none", call[c].at = "app",
         UNCHANGED <<call, isr>>, ListOK(tm', MaxWindow), Else(tm, tm', {t}),
         \A d \in Task : call[d].at # "app" /\ call[d].on = t => CallOK(d)'
  PROVE  TInv'
<1>1. ListOK(tm', Late')
  BY DEF Late
<1>2. \A d \in Task : CallOK(d)'
  <2> TAKE d \in Task
  <2>1. CASE call[d].at # "app" => call[d].on \notin {t}
    BY <2>1, CallKept
  <2> QED
    BY <2>1
<1>3. TypeOK' /\ OneCall'
  BY <1>1 DEF TInv, TypeOK, OneCall, ListOK
<1> QED
  BY <1>1, <1>2, <1>3 DEF TInv

LEMMA DetachKeeps ==
  ASSUME TInv, NEW c \in Task, NEW t \in Timer, Detach(c, t) PROVE TInv'
<1> DEFINE m == Detached(tm, t)
<1>1. Calls(c, t) /\ isr = "none" /\ tm' = m /\ UNCHANGED <<call, isr>>
  BY DEF Detach, Calls, Runs
<1>2. ListOK(m, MaxWindow) /\ Else(tm, m, {t})
  BY <1>1, ListHere, DetachedOK
<1> HIDE DEF m
<1> QED
  BY <1>1, <1>2, Unclaimed, AtOnce

WithTime(k, t, n, K, A) ==
  [k EXCEPT !.known = K, !.active = A, !.init = [k.init EXCEPT ![t] = n]]

\* the time of a timer is set
LEMMA NewTime ==
  ASSUME NEW k, NEW t \in Timer, NEW n \in Times, NEW w \in Nat, ListOK(k, w),
         NEW K \in SUBSET Timer, NEW A \in SUBSET Timer,
         \A u \in Timer \ {t} : (u \in K <=> u \in k.known) /\ (u \in A <=> u \in k.active)
  PROVE  LET m == WithTime(k, t, n, K, A) IN
         ListOK(m, w) /\ Else(k, m, {t}) /\ m.list = k.list /\ m.known = K
<1> DEFINE m == WithTime(k, t, n, K, A)
<1>1. k \in TimerState /\ k.init \in [Timer -> Times]
  BY StateFields DEF ListOK
<1>2. /\ m \in TimerState /\ m.list = k.list /\ m.tick = k.tick /\ m.timeout = k.timeout
      /\ m.known = K /\ m.active = A /\ m.init = [k.init EXCEPT ![t] = n]
  BY <1>1 DEF TimerState, WithTime
<1> HIDE DEF m
<1>3. ListOK(m, w)
  BY <1>2, SameList
<1>4. Else(k, m, {t})
  BY <1>1, <1>2 DEF Else
<1> QED
  BY <1>2, <1>3, <1>4 DEF m

LEMMA SetTimeKeeps ==
  ASSUME TInv, NEW c \in Task, NEW t \in Timer, NEW n \in Times, SetTime(c, t, n)
  PROVE  TInv'
<1>1. Calls(c, t) /\ isr = "none" /\ UNCHANGED <<call, isr>>
  BY DEF SetTime, Calls, Runs
<1>2. ListOK(tm, MaxWindow) /\ tm \in TimerState /\ MaxWindow \in Nat
  BY <1>1, ListHere
<1>3. /\ tm.known \in SUBSET Timer /\ tm.active \in SUBSET Timer
      /\ tm' = [tm EXCEPT !.known = tm.known, !.active = tm.active,
                          !.init = [tm.init EXCEPT ![t] = n]]
  BY <1>2 DEF SetTime, TimerState
<1>4. ListOK(tm', MaxWindow) /\ Else(tm, tm', {t})
  <2> DEFINE K == tm.known
             A == tm.active
             m == tm'
  <2>1. /\ K \in SUBSET Timer /\ A \in SUBSET Timer
        /\ m = WithTime(tm, t, n, K, A)
        /\ \A u \in Timer \ {t} : (u \in K <=> u \in tm.known) /\ (u \in A <=> u \in tm.active)
    BY <1>3 DEF WithTime
  <2> HIDE DEF K, A, m
  <2>2. ListOK(m, MaxWindow) /\ Else(tm, m, {t})
    BY <1>2, <2>1, NewTime
  <2> QED
    BY <2>2 DEF m
<1> QED
  BY <1>1, <1>4, Unclaimed, AtOnce

LEMMA ReinitKeeps ==
  ASSUME TInv, NEW c \in Task, NEW t \in Timer, NEW n \in Times, Reinit(c, t, n)
  PROVE  TInv'
<1>1. /\ isr = "none" /\ call[c].at = "app" /\ t \notin tm.known /\ UNCHANGED <<call, isr>>
  BY DEF Reinit, Runs
<1>2. ListOK(tm, MaxWindow) /\ tm \in TimerState /\ MaxWindow \in Nat
  BY <1>1, ListHere
<1>3. /\ tm.known \cup {t} \in SUBSET Timer /\ tm.active \ {t} \in SUBSET Timer
      /\ tm' = [tm EXCEPT !.known = tm.known \cup {t}, !.active = tm.active \ {t},
                          !.init = [tm.init EXCEPT ![t] = n]]
  BY <1>2 DEF Reinit, TimerState, Deactivated
<1>4. ListOK(tm', MaxWindow) /\ Else(tm, tm', {t}) /\ tm'.list = tm.list
  <2> DEFINE K == tm.known \cup {t}
             A == tm.active \ {t}
             m == tm'
  <2>1. /\ K \in SUBSET Timer /\ A \in SUBSET Timer
        /\ m = WithTime(tm, t, n, K, A)
        /\ \A u \in Timer \ {t} : (u \in K <=> u \in tm.known) /\ (u \in A <=> u \in tm.active)
    BY <1>3 DEF WithTime
  <2> HIDE DEF K, A, m
  <2>2. ListOK(m, MaxWindow) /\ Else(tm, m, {t})
    BY <1>2, <2>1, NewTime
  <2>3. tm'.list = tm.list
    BY <1>2, <1>3 DEF TimerState
  <2> QED
    BY <2>2, <2>3 DEF m
<1>5. ASSUME NEW d \in Task, call[d].at # "app", call[d].on = t
      PROVE  CallOK(d)'
  <2>1. /\ call[d].at \notin {"start", "insert"}
        /\ call[d].at = "clear" => ~Contains(tm.list, t)
    BY <1>1, <1>5, Interrupted
  <2> QED
    BY <1>1, <1>4, <1>5, <2>1 DEF CallOK, Linked
<1> QED
  BY <1>1, <1>4, <1>5, AtOnce

-----------------------------------------------------------------------------
(* The tick interrupt *)

(* rt_tick_increase: everything on the list comes one tick nearer, and what  *)
(* a task is starting has waited one tick more.                              *)
LEMMA TickOK ==
  ASSUME TInv, Tick
  PROVE  /\ TInv'
         /\ tm'.list = tm.list
         /\ \A t \in Timer : Linked(t) => Rem(tm, t) \in Int /\ Rem(tm', t) = Rem(tm, t) - 1
<1>1. /\ isr = "none" /\ isr' = "check" /\ UNCHANGED call
      /\ \A c \in Task : call[c].at = "insert" => Waited(c) < MaxWindow
      /\ tm' = [tm EXCEPT !.tick = (tm.tick + 1) % Modulus]
  BY DEF Tick
<1>2. ListOK(tm, MaxWindow) /\ tm \in TimerState
  BY <1>1, ListHere
<1>3. /\ tm.tick \in 0 .. Modulus - 1 /\ (tm.tick + 1) % Modulus \in 0 .. Modulus - 1
      /\ tm.timeout \in [Timer -> 0 .. Modulus - 1] /\ tm.init \in [Timer -> Times]
  BY <1>2, StateFields, AwayTick
<1>4. /\ tm' \in TimerState /\ tm'.list = tm.list /\ tm'.tick = (tm.tick + 1) % Modulus
      /\ tm'.timeout = tm.timeout /\ tm'.init = tm.init /\ tm'.known = tm.known
  BY <1>1, <1>2, <1>3 DEF TimerState
<1>5. ASSUME NEW t \in Timer, Linked(t)
      PROVE  /\ Rem(tm, t) \in Int /\ Rem(tm', t) = Rem(tm, t) - 1
             /\ InTime(tm', t, MaxWindow + 1)
  <2>1. PICK n \in Times : Rem(tm, t) <= n
    BY <1>2, <1>5 DEF ListOK, InTime, Linked
  <2>2. 0 - MaxWindow <= Rem(tm, t) /\ Rem(tm, t) \in Int /\ n \in 0 .. Half - 1
    BY <1>2, <1>5, StateFields, HalfFacts DEF ListOK, InTime, Linked
  <2>3. Away(tm.tick, tm.timeout[t]) > 1 - Half
    BY <2>2, HalfFacts DEF Rem
  <2>4. tm.timeout[t] \in 0 .. Modulus - 1
    BY <1>3
  <2>5. Rem(tm', t) = Rem(tm, t) - 1
    BY <1>3, <1>4, <2>3, <2>4, AwayTick DEF Rem
  <2>6. Rem(tm', t) <= n /\ 0 - (MaxWindow + 1) <= Rem(tm', t)
    BY <2>1, <2>2, <2>5, HalfFacts
  <2> QED
    BY <2>2, <2>5, <2>6 DEF InTime
<1>6. \A i \in 1 .. Len(tm.list) : tm.list[i] \in Timer /\ Linked(tm.list[i])
  BY <1>2, OnList DEF Linked
<1>7. ListOK(tm', MaxWindow + 1)
  <2>1. \A t \in Timer : Contains(tm'.list, t) => InTime(tm', t, MaxWindow + 1)
    BY <1>4, <1>5 DEF Linked
  <2>2. ASSUME NEW i \in 1 .. Len(tm.list), NEW j \in 1 .. Len(tm.list), i < j
        PROVE  Rem(tm', tm.list[i]) <= Rem(tm', tm.list[j])
    <3>1. Rem(tm, tm.list[i]) <= Rem(tm, tm.list[j])
      BY <1>2, <2>2 DEF ListOK
    <3> QED
      BY <1>5, <1>6, <3>1
  <2> QED
    BY <1>2, <1>4, <2>1, <2>2 DEF ListOK
<1>8. ASSUME NEW d \in Task, call[d].at = "insert" PROVE Waited(d)' <= MaxWindow
  <2> DEFINE t == call[d].on
             s == Minus(tm.timeout[t], tm.init[t])
  <2>1. t \in Timer
    BY <1>8, Interrupted
  <2>2. /\ tm.timeout[t] \in 0 .. Modulus - 1 /\ tm.init[t] \in 0 .. Modulus - 1
    BY <1>3, <2>1, HalfFacts
  <2>3. s \in 0 .. Modulus - 1
    BY <2>2, MinusIs
  <2>4. Waited(d) = Minus(tm.tick, s) /\ Waited(d)' = Minus(tm'.tick, s)
    BY <1>1, <1>4 DEF Waited
  <2> HIDE DEF t, s
  <2>5. Minus(tm.tick, s) \in 0 .. Modulus - 1 /\ Minus(tm.tick, s) < MaxWindow
    BY <1>1, <1>3, <1>8, <2>3, <2>4, MinusIs
  <2>6. Minus(tm'.tick, s) = Minus(tm.tick, s) + 1
    BY <1>3, <1>4, <2>3, <2>5, AwayTick, HalfFacts
  <2> QED
    BY <2>4, <2>5, <2>6, HalfFacts
<1>9. \A d \in Task : CallOK(d)'
  <2> TAKE d \in Task
  <2>1. call[d].at # "app" =>
          /\ call[d].on \in Timer
          /\ call[d].at \in {"start", "insert"} => call[d].on \in tm.known
          /\ call[d].at \in {"start", "insert", "clear"} => ~Contains(tm.list, call[d].on)
    BY Interrupted
  <2> QED
    BY <1>1, <1>4, <1>8, <2>1 DEF CallOK, Linked
<1>10. TypeOK' /\ OneCall'
  BY <1>1, <1>4 DEF TInv, TypeOK, OneCall
<1>11. TInv'
  BY <1>1, <1>7, <1>9, <1>10 DEF TInv, Late
<1> QED
  BY <1>4, <1>5, <1>11

LEMMA LeftIs ==
  ASSUME NEW k \in TimerState, NEW t \in Timer
  PROVE  Left(k, t) = IF Rem(k, t) > 0 THEN Rem(k, t) ELSE 0
<1>1. /\ k.tick \in 0 .. Modulus - 1 /\ k.timeout[t] \in 0 .. Modulus - 1
  BY StateFields
<1> QED
  BY <1>1, AwayIs, HalfFacts DEF Left, Rem

(* rt_timer_check stops at the first timer that has not expired: then none   *)
(* has.                                                                      *)
LEMMA CheckDoneOK ==
  ASSUME TInv, CheckDone
  PROVE  TInv' /\ \A t \in Timer : Linked(t) => Rem(tm, t) > 0
<1>1. /\ isr = "check" /\ isr' = "none" /\ UNCHANGED <<tm, call>>
      /\ tm.list = << >> \/ ~Expired(tm, Head(tm.list))
  BY DEF CheckDone, SomethingDue
<1>2. /\ ListOK(tm, MaxWindow + 1) /\ tm \in TimerState /\ tm.list \in Seq(Timer)
  BY <1>1, StateFields DEF TInv, Late, ListOK
<1>3. ASSUME NEW t \in Timer, Linked(t) PROVE Rem(tm, t) > 0
  <2> DEFINE h == tm.list[1]
  <2>1. PICK i \in 1 .. Len(tm.list) : tm.list[i] = t
    BY <1>3 DEF Linked, Contains
  <2>2. 1 \in 1 .. Len(tm.list) /\ h = Head(tm.list) /\ tm.list # << >>
    BY <1>2, <2>1
  <2>3. h \in Timer /\ Rem(tm, h) \in Int /\ Rem(tm, t) \in Int
    BY <1>2, <2>2, OnList, StateFields
  <2>4. h = t \/ Rem(tm, h) <= Rem(tm, t)
    BY <1>2, <2>1, <2>2 DEF ListOK
  <2>5. ~(Minus(tm.tick, tm.timeout[h]) < Half)
    BY <1>1, <2>2 DEF Expired
  <2>6. Rem(tm, h) > 0
    <3>1. tm.tick \in 0 .. Modulus - 1 /\ tm.timeout[h] \in 0 .. Modulus - 1
      BY <1>2, <2>3, StateFields
    <3> HIDE DEF h
    <3>2. ~(Rem(tm, h) <= 0)
      BY <2>5, <3>1, AwayIs DEF Rem
    <3> QED
      BY <2>3, <3>2
  <2> QED
    BY <2>3, <2>4, <2>6
<1>4. ListOK(tm, MaxWindow)
  <2>1. \A t \in Timer : Contains(tm.list, t) => InTime(tm, t, MaxWindow)
    BY <1>2, <1>3, StateFields, HalfFacts DEF ListOK, InTime, Linked
  <2> QED
    BY <1>2, <2>1 DEF ListOK
<1>5. TypeOK' /\ OneCall'
  BY <1>1 DEF TInv, TypeOK, OneCall
<1>6. \A d \in Task : CallOK(d)'
  BY <1>1 DEF TInv, CallOK, Linked, Waited
<1> QED
  BY <1>1, <1>3, <1>4, <1>5, <1>6 DEF TInv, Late

LEMMA StepInv == TInv /\ [Next]_vars => TInv'
<1> SUFFICES ASSUME TInv, [Next]_vars PROVE TInv'
  OBVIOUS
<1>1. ASSUME NEW c \in Task, TaskStep(c) PROVE TInv'
  <2>1. CASE \E t \in Timer : StartRemove(c, t)
    BY <2>1, StartRemoveKeeps
  <2>2. CASE \E t \in Timer : StopTest(c, t)
    BY <2>2, StopTestKeeps
  <2>3. CASE \E t \in Timer : Detach(c, t)
    BY <2>3, DetachKeeps
  <2>4. CASE \E t \in Timer : FlagRead(c, t)
    BY <2>4, FlagReadKeeps
  <2>5. CASE \E t \in Timer, n \in Times : Reinit(c, t, n)
    BY <2>5, ReinitKeeps
  <2>6. CASE \E t \in Timer, n \in Times : SetTime(c, t, n)
    BY <2>6, SetTimeKeeps
  <2>7. CASE StartTime(c)
    BY <2>7, StartTimeKeeps
  <2>8. CASE StartInsert(c)
    BY <2>8, StartInsertKeeps
  <2>9. CASE StopRemove(c)
    BY <2>9, StopRemoveKeeps
  <2>10. CASE StopClear(c)
    BY <2>10, StopClearKeeps
  <2>11. CASE \E p \in BOOLEAN : FlagWrite(c, p)
    BY <2>11, FlagWriteKeeps
  <2>12. CASE UNCHANGED vars
    BY <2>12 DEF vars, TInv, TypeOK, ListOK, Late, CallOK, OneCall, Linked, Waited
  <2> QED
    BY <1>1, <2>1, <2>2, <2>3, <2>4, <2>5, <2>6, <2>7, <2>8, <2>9, <2>10, <2>11, <2>12
       DEF TaskStep, StopRefused
<1>2. CASE UNCHANGED vars
  BY <1>2 DEF vars, TInv, TypeOK, ListOK, Late, CallOK, OneCall, Linked, Waited
<1> QED
  BY <1>1, <1>2, TickOK, FiresKeeps, CheckDoneOK DEF Next

THEOREM TimerInvariant == Spec => []TInv
<1> QED
  BY InitInv, StepInv, PTL DEF Spec

(* The list is sorted by the time left, across the wrap of the tick counter, *)
(* with tasks interrupted inside rt_timer_start and callbacks that call      *)
(* anything: rt_timer_check may look at its head only.                       *)
THEOREM TimersSorted == Spec => []Sorted
<1>1. TInv => Sorted
  <2> SUFFICES ASSUME TInv PROVE Sorted
    OBVIOUS
  <2>1. TypeOK /\ ListOK(tm, Late) /\ tm \in TimerState /\ IsInjective(tm.list)
    BY DEF TInv, ListOK
  <2>2. ASSUME NEW i \in 1 .. Len(tm.list), NEW j \in 1 .. Len(tm.list), i < j
        PROVE  Left(tm, tm.list[i]) <= Left(tm, tm.list[j])
    <3>1. Rem(tm, tm.list[i]) <= Rem(tm, tm.list[j])
      BY <2>1, <2>2 DEF ListOK
    <3>2. tm.list[i] \in Timer /\ tm.list[j] \in Timer
      BY <2>1, OnList
    <3>3. Rem(tm, tm.list[i]) \in Int /\ Rem(tm, tm.list[j]) \in Int
      BY <2>1, <3>2, StateFields
    <3> QED
      BY <2>1, <3>1, <3>2, <3>3, LeftIs
  <2> QED
    BY <2>1, <2>2 DEF Sorted
<1> QED
  BY <1>1, TimerInvariant, PTL

-----------------------------------------------------------------------------
(* A timer comes onto the list in a task's step only where it is inserted,   *)
(* and goes behind those that expire with it or before it.                   *)

LEMMA OthersStay ==
  ASSUME TInv, NEW c \in Task, TaskStep(c), ~StartInsert(c)
  PROVE  \A u : Contains(tm'.list, u) => Contains(tm.list, u)
<1>1. isr = "none" \/ UNCHANGED vars
  BY DEF TaskStep, StartRemove, Calls, Runs, StopRefused, StopTest, Detach, FlagRead, Reinit,
         SetTime, StartTime, StopRemove, StopClear, FlagWrite
<1>2. CASE UNCHANGED vars
  BY <1>2 DEF vars
<1>3. CASE isr = "none"
  <2>1. ListOK(tm, MaxWindow) /\ tm \in TimerState /\ MaxWindow \in Nat
    BY <1>3, ListHere
  <2>2. tm.list \in Seq(Timer) /\ IsInjective(tm.list)
    BY <2>1, StateFields DEF ListOK
  <2>3. ASSUME NEW t \in Timer, tm'.list = Without(tm.list, t)
        PROVE  \A u : Contains(tm'.list, u) => Contains(tm.list, u)
    BY <2>2, <2>3, WithoutProperties
  <2>4. CASE \E t \in Timer : StartRemove(c, t)
    BY <2>1, <2>3, <2>4 DEF StartRemove, Deactivated, Removed, TimerState
  <2>5. CASE \E t \in Timer : Detach(c, t)
    BY <2>1, <2>3, <2>5 DEF Detach, Detached, Removed, TimerState
  <2>6. CASE StopRemove(c)
    <3>1. call[c].on \in Timer
      BY <2>6, Interrupted DEF StopRemove, Runs
    <3> QED
      BY <2>1, <2>3, <2>6, <3>1 DEF StopRemove, Removed, TimerState
  <2>7. CASE tm'.list = tm.list
    BY <2>7
  <2>8. CASE \/ \E t \in Timer :
                 \/ StopTest(c, t) \/ FlagRead(c, t)
                 \/ \E n \in Times : Reinit(c, t, n) \/ SetTime(c, t, n)
             \/ StartTime(c) \/ StopClear(c) \/ \E p \in BOOLEAN : FlagWrite(c, p)
             \/ UNCHANGED vars
    <3>1. tm'.list = tm.list
      BY <2>1, <2>8 DEF StopTest, FlagRead, Reinit, SetTime, StartTime, StopClear, FlagWrite,
           Timed, Deactivated, TimerState, vars
    <3> QED
      BY <3>1
  <2> QED
    BY <2>4, <2>5, <2>6, <2>8 DEF TaskStep, StopRefused
<1> QED
  BY <1>1, <1>2, <1>3

\* what a step may not do to the order
InTurn ==
  \A t, u \in Timer :
    /\ Contains(tm.list, t) /\ ~Contains(tm.list, u)
    /\ Contains(tm'.list, t) /\ Contains(tm'.list, u)
    /\ tm'.timeout[t] = tm'.timeout[u] /\ tm'.timeout[t] = tm.timeout[t]
    /\ isr = "none"
    => \E i, j \in 1 .. Len(tm'.list) : i < j /\ tm'.list[i] = t /\ tm'.list[j] = u

(* Of two timers that expire in the same tick, the one inserted first is     *)
(* called first, also when a call that started one of them was interrupted   *)
(* (timer.c:351-354).                                                        *)
THEOREM TiesKeepOrder == Spec => EarlyFirst
<1>1. ASSUME TInv, [Next]_vars PROVE InTurn \/ UNCHANGED vars
  <2> SUFFICES ASSUME NEW t \in Timer, NEW u \in Timer, isr = "none",
                      Contains(tm.list, t), ~Contains(tm.list, u),
                      Contains(tm'.list, t), Contains(tm'.list, u),
                      tm'.timeout[t] = tm'.timeout[u], tm'.timeout[t] = tm.timeout[t]
               PROVE  \E i, j \in 1 .. Len(tm'.list) :
                        i < j /\ tm'.list[i] = t /\ tm'.list[j] = u
    BY DEF InTurn
  <2>1. tm' # tm /\ tm'.list # tm.list
    OBVIOUS
  <2>2. ~Tick
    <3> SUFFICES ASSUME Tick PROVE FALSE
      OBVIOUS
    <3> QED
      BY <1>1, <2>1, TickOK
  <2>3. PICK c \in Task : StartInsert(c)
    BY <1>1, <2>1, <2>2, OthersStay DEF Next, Fires, CheckDone, vars
  <2> DEFINE x == call[c].on
             m == Inserted(tm, x)
  <2>4. call[c].at = "insert" /\ tm' = m
    BY <2>3 DEF StartInsert, Runs
  <2>5. x \in Timer /\ ~Contains(tm.list, x) /\ InTime(tm, x, MaxWindow)
    BY <1>1, <2>4, Interrupted
  <2>6. ListOK(tm, MaxWindow) /\ MaxWindow \in MaxWindow .. MaxWindow + 1
    BY <1>1, ListHere
  <2> HIDE DEF x
  <2>7. /\ m.timeout = tm.timeout
        /\ \A v : Contains(m.list, v) <=> Contains(tm.list, v) \/ v = x
        /\ \A v \in Timer : Contains(tm.list, v) /\ Rem(tm, v) <= Rem(tm, x) =>
             \E i, j \in 1 .. Len(m.list) : i < j /\ m.list[i] = v /\ m.list[j] = x
    BY <2>5, <2>6, InsertedOK
  <2> HIDE DEF m
  <2>8. u = x /\ tm.timeout[t] = tm.timeout[u]
    BY <2>4, <2>7
  <2>9. Rem(tm, t) = Rem(tm, x) /\ Rem(tm, t) \in Int
    BY <2>6, <2>8, StateFields DEF Rem, ListOK
  <2> QED
    BY <2>4, <2>7, <2>8, <2>9
<1>2. TInv /\ [Next]_vars => [InTurn]_vars
  BY <1>1
<1> QED
  BY <1>2, TimerInvariant, PTL DEF Spec, EarlyFirst, InTurn

-----------------------------------------------------------------------------
(* The active flag.  It does not tell what runs when a callback starts its   *)
(* own timer (rt_timer_check then clears the flag of a timer it leaves on    *)
(* the list) or detaches it (a periodic one is started again all the same).  *)

AInv == TInv /\ RunsActive

\* t is marked when it is on the list
Marked(k, t) == Contains(k.list, t) => t \in k.active /\ t \in k.known

(* A step that changes one timer, and the calls about it, keeps the flags    *)
(* true.                                                                     *)
LEMMA FlagsKept ==
  ASSUME TInv, RunsActive, NEW t \in Timer, Else(tm, tm', {t}), Marked(tm', t),
         \A d \in Task : call'[d].at = "flag" /\ ~call'[d].was =>
           \/ call'[d].on = t /\ t \notin tm'.active
           \/ call'[d] = call[d] /\ call[d].on # t
  PROVE  RunsActive'
<1>1. \A u \in Timer : Marked(tm, u)
  BY DEF RunsActive, Marked, Linked
<1>2. \A u \in Timer : Marked(tm', u)
  BY <1>1 DEF Else, Marked
<1>3. ASSUME NEW d \in Task, call'[d].at = "flag", ~call'[d].was
      PROVE  call'[d].on \notin tm'.active
  <2>1. CASE call'[d].on = t /\ t \notin tm'.active
    BY <2>1
  <2>2. CASE call'[d] = call[d] /\ call[d].on # t
    <3>1. call[d].on \in Timer /\ call[d].on \notin tm.active
      BY <1>3, <2>2, Interrupted DEF RunsActive
    <3> QED
      BY <2>2, <3>1 DEF Else
  <2> QED
    BY <1>3, <2>1, <2>2
<1> QED
  BY <1>2, <1>3 DEF RunsActive, Marked, Linked

\* the calls about timers other than t stay where they are
LEMMA FlagCalls ==
  ASSUME TInv, NEW c \in Task, NEW t, NEW x, Moves(c, x), x.at # "flag",
         \A d \in Task \ {c} : call[d].at # "app" => call[d].on # t
  PROVE  \A d \in Task : call'[d].at = "flag" /\ ~call'[d].was =>
           \/ call'[d].on = t /\ t \notin tm'.active
           \/ call'[d] = call[d] /\ call[d].on # t
<1>1. call'[c] = x /\ \A d \in Task \ {c} : call'[d] = call[d]
  BY DEF TInv, TypeOK, Moves
<1> QED
  BY <1>1

LEMMA GotoMoves ==
  ASSUME NEW c \in Task, NEW place \in {"start", "insert", "stop", "clear"}, NEW t, Goto(c, place, t)
  PROVE  \E x : Moves(c, x) /\ x.at # "flag"
<1> DEFINE x == [at |-> place, on |-> t, was |-> FALSE]
<1>1. Moves(c, x) /\ x.at # "flag"
  BY DEF Goto, Moves
<1> QED
  BY <1>1

LEMMA ReturnMoves ==
  ASSUME NEW c \in Task, Return(c)
  PROVE  \E x : Moves(c, x) /\ x.at # "flag"
<1>1. Moves(c, InApp) /\ InApp.at # "flag"
  BY DEF Return, Moves, InApp
<1> QED
  BY <1>1

LEMMA TaskFlags ==
  ASSUME AInv, NEW c \in Task, TaskStep(c), ~UNCHANGED vars PROVE RunsActive'
<1>0. TInv /\ RunsActive
  BY DEF AInv
<1>1. isr = "none"
  BY DEF TaskStep, StartRemove, Calls, Runs, StopRefused, StopTest, Detach, FlagRead, Reinit,
         SetTime, StartTime, StartInsert, StopRemove, StopClear, FlagWrite
<1>2. ListOK(tm, MaxWindow) /\ tm \in TimerState /\ MaxWindow \in Nat
  BY <1>0, <1>1, ListHere
<1>3. \A u \in Timer : Contains(tm.list, u) => u \in tm.active /\ u \in tm.known
  BY <1>0 DEF RunsActive, Linked
<1>4. CASE \E t \in Timer : StartRemove(c, t)
  <2>1. PICK t \in Timer : StartRemove(c, t)
    BY <1>4
  <2> DEFINE r == Removed(tm, t)
             m == Deactivated(r, t)
  <2>2. tm' = m /\ Goto(c, "start", t) /\ Calls(c, t)
    BY <2>1 DEF StartRemove
  <2>3. ListOK(r, MaxWindow) /\ ~Contains(r.list, t) /\ Else(tm, r, {t})
    BY <1>2, RemovedOK
  <2> HIDE DEF r
  <2>4. m.list = r.list /\ Else(r, m, {t})
    BY <1>2, <2>3, DeactivatedOK
  <2> HIDE DEF m
  <2>5. Else(tm, tm', {t}) /\ Marked(tm', t)
    BY <2>2, <2>3, <2>4 DEF Else, Marked
  <2>6. PICK x : Moves(c, x) /\ x.at # "flag"
    BY <2>2, GotoMoves
  <2>7. \A d \in Task \ {c} : call[d].at # "app" => call[d].on # t
    BY <2>2, Unclaimed
  <2> QED
    BY <1>0, <2>5, <2>6, <2>7, FlagCalls, FlagsKept
<1>5. CASE StartTime(c)
  <2> DEFINE t == call[c].on
             m == Timed(tm, t)
  <2>1. call[c].at = "start" /\ tm' = m /\ Goto(c, "insert", t)
    BY <1>5 DEF StartTime, Runs
  <2>2. /\ t \in Timer /\ ~Contains(tm.list, t)
        /\ \A d \in Task \ {c} : call[d].at # "app" => call[d].on # t
    BY <1>0, <2>1, Interrupted
  <2> HIDE DEF t
  <2>3. m.list = tm.list /\ Else(tm, m, {t})
    BY <1>2, <2>2, TimedOK
  <2> HIDE DEF m
  <2>4. Else(tm, tm', {t}) /\ Marked(tm', t)
    BY <2>1, <2>2, <2>3 DEF Marked
  <2>5. PICK x : Moves(c, x) /\ x.at # "flag"
    BY <2>1, GotoMoves
  <2> QED
    BY <1>0, <2>2, <2>4, <2>5, FlagCalls, FlagsKept
<1>6. CASE StartInsert(c)
  <2> DEFINE t == call[c].on
             m == Inserted(tm, t)
  <2>1. call[c].at = "insert" /\ tm' = m /\ Return(c)
    BY <1>6 DEF StartInsert, Runs
  <2>2. /\ t \in Timer /\ ~Contains(tm.list, t) /\ InTime(tm, t, MaxWindow) /\ t \in tm.known
        /\ \A d \in Task \ {c} : call[d].at # "app" => call[d].on # t
    BY <1>0, <2>1, Interrupted
  <2> HIDE DEF t
  <2>3. Else(tm, m, {t}) /\ m.known = tm.known /\ m.active = tm.active \cup {t}
    BY <1>0, <1>1, <1>2, <2>2, ListHere, InsertedOK
  <2> HIDE DEF m
  <2>4. Else(tm, tm', {t}) /\ Marked(tm', t)
    BY <2>1, <2>2, <2>3 DEF Marked
  <2>5. PICK x : Moves(c, x) /\ x.at # "flag"
    BY <2>1, ReturnMoves
  <2> QED
    BY <1>0, <2>2, <2>4, <2>5, FlagCalls, FlagsKept
<1>7. CASE \E t \in Timer : StopTest(c, t)
  <2>1. PICK t \in Timer : StopTest(c, t)
    BY <1>7
  <2>2. tm' = tm /\ Goto(c, "stop", t) /\ Calls(c, t)
    BY <2>1 DEF StopTest
  <2>3. Else(tm, tm', {t}) /\ Marked(tm', t)
    BY <1>3, <2>2 DEF Else, Marked
  <2>4. PICK x : Moves(c, x) /\ x.at # "flag"
    BY <2>2, GotoMoves
  <2>5. \A d \in Task \ {c} : call[d].at # "app" => call[d].on # t
    BY <2>2, Unclaimed
  <2> QED
    BY <1>0, <2>3, <2>4, <2>5, FlagCalls, FlagsKept
<1>8. CASE StopRemove(c)
  <2> DEFINE t == call[c].on
             m == Removed(tm, t)
  <2>1. call[c].at = "stop" /\ tm' = m /\ Goto(c, "clear", t)
    BY <1>8 DEF StopRemove, Runs
  <2>2. /\ t \in Timer
        /\ \A d \in Task \ {c} : call[d].at # "app" => call[d].on # t
    BY <1>0, <2>1, Interrupted
  <2> HIDE DEF t
  <2>3. ~Contains(m.list, t) /\ Else(tm, m, {t})
    BY <1>2, <2>2, RemovedOK
  <2> HIDE DEF m
  <2>4. Else(tm, tm', {t}) /\ Marked(tm', t)
    BY <2>1, <2>2, <2>3 DEF Marked
  <2>5. PICK x : Moves(c, x) /\ x.at # "flag"
    BY <2>1, GotoMoves
  <2> QED
    BY <1>0, <2>2, <2>4, <2>5, FlagCalls, FlagsKept
<1>9. CASE StopClear(c)
  <2> DEFINE t == call[c].on
             m == Deactivated(tm, t)
  <2>1. call[c].at = "clear" /\ tm' = m /\ Return(c)
    BY <1>9 DEF StopClear, Runs
  <2>2. /\ t \in Timer /\ ~Contains(tm.list, t)
        /\ \A d \in Task \ {c} : call[d].at # "app" => call[d].on # t
    BY <1>0, <2>1, Interrupted
  <2> HIDE DEF t
  <2>3. m.list = tm.list /\ Else(tm, m, {t})
    BY <1>2, <2>2, DeactivatedOK
  <2> HIDE DEF m
  <2>4. Else(tm, tm', {t}) /\ Marked(tm', t)
    BY <2>1, <2>2, <2>3 DEF Marked
  <2>5. PICK x : Moves(c, x) /\ x.at # "flag"
    BY <2>1, ReturnMoves
  <2> QED
    BY <1>0, <2>2, <2>4, <2>5, FlagCalls, FlagsKept
<1>10. CASE \E t \in Timer : Detach(c, t)
  <2>1. PICK t \in Timer : Detach(c, t)
    BY <1>10
  <2> DEFINE m == Detached(tm, t)
  <2>2. tm' = m /\ UNCHANGED call /\ Calls(c, t)
    BY <2>1 DEF Detach
  <2>3. ~Contains(m.list, t) /\ Else(tm, m, {t})
    BY <1>2, DetachedOK
  <2> HIDE DEF m
  <2>4. Else(tm, tm', {t}) /\ Marked(tm', t)
    BY <2>2, <2>3 DEF Marked
  <2>5. \A d \in Task : call'[d] = call[d] /\ (call[d].at = "flag" => call[d].on # t)
    BY <2>2, Unclaimed
  <2> QED
    BY <1>0, <2>4, <2>5, FlagsKept
<1>11. CASE \E t \in Timer, n \in Times : SetTime(c, t, n)
  <2>1. PICK t \in Timer, n \in Times : SetTime(c, t, n)
    BY <1>11
  <2>2. /\ UNCHANGED call /\ tm'.list = tm.list /\ tm'.active = tm.active /\ tm'.known = tm.known
    BY <1>2, <2>1 DEF SetTime, TimerState
  <2> QED
    BY <1>0, <2>2 DEF RunsActive, Linked
<1>12. CASE \E t \in Timer, n \in Times : Reinit(c, t, n)
  <2>1. PICK t \in Timer, n \in Times : Reinit(c, t, n)
    BY <1>12
  <2>2. /\ UNCHANGED call /\ tm'.list = tm.list /\ tm'.active = tm.active \ {t}
        /\ tm'.known = tm.known \cup {t} /\ t \notin tm.known
    BY <1>2, <2>1 DEF Reinit, Deactivated, TimerState
  <2> QED
    BY <1>0, <2>2 DEF RunsActive, Linked
<1>13. CASE \E t \in Timer : FlagRead(c, t)
  <2>1. PICK t \in Timer : FlagRead(c, t)
    BY <1>13
  <2> DEFINE b == t \in tm.active
  <2>2. tm' = tm /\ Calls(c, t) /\ call' = [call EXCEPT ![c] = [at |-> "flag", on |-> t, was |-> b]]
    BY <2>1 DEF FlagRead
  <2>3. \A d \in Task \ {c} : call'[d] = call[d]
    BY <1>0, <2>2 DEF TInv, TypeOK
  <2>4. call'[c].on = t /\ (~call'[c].was => t \notin tm.active)
    BY <1>0, <2>2 DEF TInv, TypeOK
  <2> HIDE DEF b
  <2>5. Else(tm, tm', {t}) /\ Marked(tm', t)
    BY <1>3, <2>2 DEF Else, Marked
  <2>6. \A d \in Task \ {c} : call[d].at # "app" => call[d].on # t
    BY <2>2, Unclaimed
  <2>7. ASSUME NEW d \in Task, call'[d].at = "flag", ~call'[d].was
        PROVE  \/ call'[d].on = t /\ t \notin tm'.active
               \/ call'[d] = call[d] /\ call[d].on # t
    <3>1. CASE d = c
      BY <2>2, <2>4, <2>7, <3>1
    <3>2. CASE d # c
      BY <2>3, <2>6, <2>7, <3>2
    <3> QED
      BY <3>1, <3>2
  <2> QED
    BY <1>0, <2>5, <2>7, FlagsKept
<1>14. CASE \E p \in BOOLEAN : FlagWrite(c, p)
  <2>1. PICK p \in BOOLEAN : FlagWrite(c, p)
    BY <1>14
  <2> DEFINE t == call[c].on
             q == IF p THEN tm.periodic \cup {t} ELSE tm.periodic \ {t}
             a == IF call[c].was THEN tm.active \cup {t} ELSE tm.active \ {t}
  <2>2. call[c].at = "flag" /\ Return(c) /\ tm' = [tm EXCEPT !.periodic = q, !.active = a]
    BY <2>1 DEF FlagWrite, Runs
  <2>3. /\ t \in Timer
        /\ \A d \in Task \ {c} : call[d].at # "app" => call[d].on # t
    BY <1>0, <2>2, Interrupted
  <2>4. \A u \in Timer \ {t} : u \in a <=> u \in tm.active
    OBVIOUS
  <2>5. call[c].was => t \in a
    OBVIOUS
  <2>6. ~call[c].was => t \notin tm.active
    BY <1>0, <2>2 DEF RunsActive
  <2> HIDE DEF q, a, t
  <2>7. /\ tm'.list = tm.list /\ tm'.tick = tm.tick /\ tm'.timeout = tm.timeout
        /\ tm'.init = tm.init /\ tm'.known = tm.known /\ tm'.active = a
    BY <1>2, <2>2 DEF TimerState
  <2>8. Else(tm, tm', {t}) /\ Marked(tm', t)
    BY <1>3, <2>3, <2>4, <2>5, <2>6, <2>7 DEF Else, Marked
  <2>9. PICK x : Moves(c, x) /\ x.at # "flag"
    BY <2>2, ReturnMoves
  <2> QED
    BY <1>0, <2>3, <2>8, <2>9, FlagCalls, FlagsKept
<1> QED
  BY <1>4, <1>5, <1>6, <1>7, <1>8, <1>9, <1>10, <1>11, <1>12, <1>13, <1>14
     DEF TaskStep, StopRefused

LEMMA CalledMarks ==
  ASSUME NEW k, NEW u \in k.known, u \in Timer, NEW w \in MaxWindow .. MaxWindow + 1,
         ListOK(k, w), Marked(k, u), NEW op \in {"start", "stop", "detach"}
  PROVE  Marked(Called(k, op, u), u)
<1>0. w \in Nat
  BY HalfFacts
<1>1. CASE op = "start"
  <2>1. Called(k, op, u) = Started(k, u)
    BY <1>1 DEF Called
  <2>2. Started(k, u).known = k.known /\ u \in Started(k, u).active
    BY StartedOK
  <2> QED
    BY <2>1, <2>2 DEF Marked
<1>2. CASE op = "stop"
  <2>1. Called(k, op, u) = Stopped(k, u)
    BY <1>2 DEF Called
  <2>2. Stopped(k, u) = k \/ ~Contains(Stopped(k, u).list, u)
    BY <1>0, StoppedOK
  <2> QED
    BY <2>1, <2>2 DEF Marked
<1>3. CASE op = "detach"
  <2>1. Called(k, op, u) = Detached(k, u)
    BY <1>3 DEF Called
  <2>2. ~Contains(Detached(k, u).list, u)
    BY <1>0, DetachedOK
  <2> QED
    BY <2>1, <2>2 DEF Marked
<1> QED
  BY <1>1, <1>2, <1>3

LEMMA FiresFlags ==
  ASSUME AInv, Fires, "start" \notin SelfCalls, "detach" \notin SelfCalls
  PROVE  RunsActive'
<1> DEFINE t == Head(tm.list)
           w == MaxWindow + 1
           r == Removed(tm, t)
           on(d) == call[d].on
           Waits(d) == call[d].at = "flag" /\ ~call[d].was
<1>0. TInv /\ RunsActive
  BY DEF AInv
<1>1. /\ isr = "check" /\ UNCHANGED call
      /\ \E k \in AfterCallback(r, t) : tm' = Rearmed(k, t)
  BY DEF Fires
<1>2. ListOK(tm, w) /\ w \in Nat /\ w \in MaxWindow .. MaxWindow + 1
  BY <1>0, <1>1, HalfFacts DEF TInv, Late
<1>3. t \in Timer /\ Linked(t)
  BY <1>0, FiresOK
<1> HIDE DEF t, w
<1>4. /\ t \in tm.active /\ t \in tm.known /\ \A u \in Timer : Marked(tm, u)
      /\ \A d \in Task : Waits(d) => on(d) \in Timer /\ on(d) \notin tm.active /\ Claimed(on(d))
  BY <1>0, <1>3, Interrupted DEF RunsActive, Marked, Linked, Claimed
<1>5. /\ ListOK(r, w) /\ Else(tm, r, {t}) /\ r.known = tm.known /\ r.active = tm.active
      /\ ~Contains(r.list, t)
  BY <1>2, <1>3, RemovedOK
<1>6. r.known \subseteq Timer
  BY <1>2, <1>5, StateFields DEF ListOK
<1> HIDE DEF r
<1>7. PICK k \in AfterCallback(r, t) : tm' = Rearmed(k, t)
  BY <1>1 DEF r
<1>8. /\ \A u \in Timer : Marked(r, u)
      /\ \A d \in Task : Waits(d) => on(d) \in Timer \ {t} /\ on(d) \notin r.active /\ Claimed(on(d))
  BY <1>4, <1>5 DEF Else, Marked
<1> HIDE DEF Waits, on
<1>9. /\ ListOK(k, w) /\ ~Contains(k.list, t) /\ t \in k.known
      /\ \A u \in Timer : Marked(k, u)
      /\ \A d \in Task : Waits(d) => on(d) \notin k.active
  <2>1. CASE k = r
    BY <1>4, <1>5, <1>8, <2>1
  <2>2. CASE \E op \in SelfCalls : k = Called(r, op, t)
    <3>1. k = Stopped(r, t)
      BY <2>2, TimerAssumption DEF Called
    <3> DEFINE m == Stopped(r, t)
    <3>3. ListOK(m, w) /\ Else(r, m, {t}) /\ m.known = r.known /\ (m = r \/ ~Contains(m.list, t))
      BY <1>2, <1>3, <1>5, StoppedOK
    <3> HIDE DEF m
    <3>2. /\ ListOK(k, w) /\ Else(r, k, {t}) /\ k.known = r.known /\ ~Contains(k.list, t)
      BY <1>5, <3>1, <3>3 DEF m
    <3> QED
      BY <1>4, <1>5, <1>8, <3>2 DEF Else, Marked
  <2>3. CASE \E op \in OtherCalls, u \in {x \in r.known : x # t /\ ~Claimed(x)} : k = Called(r, op, u)
    <3>1. PICK op \in OtherCalls, u \in {x \in r.known : x # t /\ ~Claimed(x)} : k = Called(r, op, u)
      BY <2>3
    <3>2. /\ op \in {"start", "stop", "detach"} /\ u \in Timer /\ u \in r.known /\ u # t
          /\ ~Claimed(u)
      BY <1>6, TimerAssumption
    <3>3. ListOK(k, w) /\ Else(r, k, {u}) /\ Marked(k, u)
      BY <1>2, <1>5, <1>8, <3>1, <3>2, CalledOK, CalledMarks
    <3>4. ~Contains(k.list, t) /\ t \in k.known
      BY <1>3, <1>4, <1>5, <3>2, <3>3 DEF Else
    <3>5. \A v \in Timer : Marked(k, v)
      BY <1>8, <3>3 DEF Else, Marked
    <3>6. \A d \in Task : Waits(d) => on(d) \notin k.active
      BY <1>8, <3>2, <3>3 DEF Else
    <3> QED
      BY <3>3, <3>4, <3>5, <3>6
  <2>4. \/ k \in {r} \/ k \in {Called(r, op, t) : op \in SelfCalls}
        \/ k \in {Called(r, op, u) : op \in OtherCalls,
                                    u \in {x \in r.known : x # t /\ ~Claimed(x)}}
    BY <1>7 DEF AfterCallback
  <2>5. \/ k = r \/ \E op \in SelfCalls : k = Called(r, op, t)
        \/ \E op \in OtherCalls, u \in {x \in r.known : x # t /\ ~Claimed(x)} :
             k = Called(r, op, u)
    BY <2>4
  <2> QED
    BY <2>1, <2>2, <2>3, <2>5
<1>10. Else(k, tm', {t}) /\ Marked(tm', t)
  <2>1. CASE t \in k.periodic \cap k.active
    <3>1. tm' = Started(k, t)
      BY <1>7, <2>1 DEF Rearmed
    <3>2. /\ Else(k, Started(k, t), {t}) /\ Started(k, t).known = k.known
          /\ t \in Started(k, t).active
      BY <1>2, <1>3, <1>9, StartedOK
    <3> QED
      BY <1>9, <3>1, <3>2 DEF Marked
  <2>2. CASE t \notin k.periodic \cap k.active
    <3>1. tm' = Deactivated(k, t)
      BY <1>7, <2>2 DEF Rearmed
    <3>2. Else(k, Deactivated(k, t), {t}) /\ Deactivated(k, t).list = k.list
      BY <1>2, <1>3, <1>9, DeactivatedOK
    <3> QED
      BY <1>9, <3>1, <3>2 DEF Marked
  <2> QED
    BY <2>1, <2>2
<1>11. \A u \in Timer : Marked(tm', u)
  BY <1>9, <1>10 DEF Else, Marked
<1>12. \A d \in Task : Waits(d) => on(d) \notin tm'.active
  BY <1>8, <1>9, <1>10 DEF Else
<1> QED
  BY <1>1, <1>11, <1>12 DEF RunsActive, Marked, Linked, Waits, on

(* A timer that rt_timer_stop refuses is not running, whatever the tasks do  *)
(* and whatever callbacks do to other timers, when no callback starts or     *)
(* detaches its own timer.                                                   *)
THEOREM RefusalMeansStopped ==
  ASSUME "start" \notin SelfCalls, "detach" \notin SelfCalls
  PROVE  Spec => []RefusedIsStopped
<1>1. Init => AInv
  <2> SUFFICES ASSUME Init PROVE AInv
    OBVIOUS
  <2>1. tm.list = << >> /\ \A c \in Task : call[c].at = "app"
    BY DEF Init, InApp
  <2> QED
    BY <2>1, InitInv DEF AInv, RunsActive, Linked, Contains
<1>2. AInv /\ [Next]_vars => AInv'
  <2> SUFFICES ASSUME AInv, [Next]_vars PROVE AInv'
    OBVIOUS
  <2>1. TInv'
    BY StepInv DEF AInv
  <2>2. CASE UNCHANGED vars
    BY <2>1, <2>2 DEF vars, AInv, RunsActive, Linked
  <2>3. CASE Tick
    <3>1. UNCHANGED call /\ tm'.list = tm.list /\ tm'.active = tm.active /\ tm'.known = tm.known
      BY <2>3 DEF Tick, AInv, TInv, TypeOK, TimerState
    <3> QED
      BY <2>1, <3>1 DEF AInv, RunsActive, Linked
  <2>4. CASE CheckDone
    BY <2>1, <2>4 DEF CheckDone, AInv, RunsActive, Linked
  <2> QED
    BY <2>1, <2>2, <2>3, <2>4, TaskFlags, FiresFlags DEF Next, AInv
<1>3. AInv => RefusedIsStopped
  BY DEF AInv, RunsActive, RefusedIsStopped, Calls, TInv
<1> QED
  BY <1>1, <1>2, <1>3, PTL DEF Spec

-----------------------------------------------------------------------------
(* The timers are countdowns. *)

\* what the abstract specification sees of the list
LeftMap == [t \in Timer |-> IF Linked(t) THEN Left(tm, t) ELSE 0]

LEMMA LeftBounds ==
  ASSUME TInv, NEW t \in Timer, Linked(t)
  PROVE  Left(tm, t) \in 0 .. Half
<1>1. ListOK(tm, Late) /\ tm \in TimerState
  BY DEF TInv, ListOK
<1>2. PICK n \in Times : Rem(tm, t) <= n
  BY <1>1 DEF ListOK, InTime, Linked
<1>3. Rem(tm, t) \in Int /\ n \in 0 .. Half - 1
  BY <1>1, StateFields, HalfFacts
<1> QED
  BY <1>1, <1>2, <1>3, LeftIs, HalfFacts

LEMMA LeftBounds_next ==
  ASSUME TInv', NEW t \in Timer, Linked(t)'
  PROVE  Left(tm', t) \in 0 .. Half
<1>1. ListOK(tm', Late') /\ tm' \in TimerState
  BY DEF TInv, ListOK
<1>2. PICK n \in Times : Rem(tm', t) <= n
  BY <1>1 DEF ListOK, InTime, Linked
<1>3. Rem(tm', t) \in Int /\ n \in 0 .. Half - 1
  BY <1>1, StateFields, HalfFacts
<1> QED
  BY <1>1, <1>2, <1>3, LeftIs, HalfFacts

\* what becomes of the timers a step does not change
LEMMA MapKept ==
  ASSUME NEW T, Else(tm, tm', T)
  PROVE  \A u \in Timer \ T : /\ u \in Armed' <=> u \in Armed
                              /\ LeftMap'[u] = LeftMap[u]
BY DEF Else, Armed, LeftMap, Linked, Left

LEMMA MapIs ==
  /\ Armed \subseteq Timer /\ Armed' \subseteq Timer
  /\ \A t \in Timer : /\ t \in Armed <=> Contains(tm.list, t)
                      /\ t \in Armed' <=> Contains(tm'.list, t)
                      /\ LeftMap[t] = IF Contains(tm.list, t) THEN Left(tm, t) ELSE 0
                      /\ LeftMap'[t] = IF Contains(tm'.list, t) THEN Left(tm', t) ELSE 0
  /\ LeftMap = [t \in Timer |-> LeftMap[t]] /\ LeftMap' = [t \in Timer |-> LeftMap'[t]]
BY DEF Armed, LeftMap, Linked

\* a task's step concerns one timer, and a timer that stays on the list stays
\* where it is
LEMMA TaskEffect ==
  ASSUME TInv, NEW c \in Task, TaskStep(c), ~UNCHANGED vars
  PROVE  /\ UNCHANGED isr
         /\ \E t \in Timer :
              /\ Else(tm, tm', {t})
              /\ Contains(tm.list, t) /\ Contains(tm'.list, t) => tm'.timeout[t] = tm.timeout[t]
<1>1. isr = "none" /\ UNCHANGED isr
  BY DEF TaskStep, StartRemove, Calls, Runs, StopRefused, StopTest, Detach, FlagRead, Reinit,
         SetTime, StartTime, StartInsert, StopRemove, StopClear, FlagWrite
<1>2. ListOK(tm, MaxWindow) /\ tm \in TimerState /\ MaxWindow \in Nat
  BY <1>1, ListHere
<1>3. CASE \E t \in Timer : StartRemove(c, t)
  <2>1. PICK t \in Timer : StartRemove(c, t)
    BY <1>3
  <2> DEFINE r == Removed(tm, t)
             m == Deactivated(r, t)
  <2>2. tm' = m
    BY <2>1 DEF StartRemove
  <2>3. ListOK(r, MaxWindow) /\ ~Contains(r.list, t) /\ Else(tm, r, {t})
    BY <1>2, RemovedOK
  <2> HIDE DEF r
  <2>4. m.list = r.list /\ Else(r, m, {t})
    BY <1>2, <2>3, DeactivatedOK
  <2> HIDE DEF m
  <2>5. Else(tm, tm', {t}) /\ ~Contains(tm'.list, t)
    BY <2>2, <2>3, <2>4 DEF Else
  <2> QED
    BY <1>1, <2>5
<1>4. CASE StartTime(c)
  <2> DEFINE t == call[c].on
             m == Timed(tm, t)
  <2>1. call[c].at = "start" /\ tm' = m
    BY <1>4 DEF StartTime, Runs
  <2>2. t \in Timer /\ ~Contains(tm.list, t)
    BY <2>1, Interrupted
  <2> HIDE DEF t
  <2>3. m.list = tm.list /\ Else(tm, m, {t})
    BY <1>2, <2>2, TimedOK
  <2> HIDE DEF m
  <2> QED
    BY <1>1, <2>1, <2>2, <2>3
<1>5. CASE StartInsert(c)
  <2> DEFINE t == call[c].on
             m == Inserted(tm, t)
  <2>1. call[c].at = "insert" /\ tm' = m
    BY <1>5 DEF StartInsert, Runs
  <2>2. t \in Timer /\ ~Contains(tm.list, t) /\ InTime(tm, t, MaxWindow)
    BY <2>1, Interrupted
  <2> HIDE DEF t
  <2>3. Else(tm, m, {t})
    BY <1>1, <1>2, <2>2, ListHere, InsertedOK
  <2> HIDE DEF m
  <2> QED
    BY <1>1, <2>1, <2>2, <2>3
<1>6. CASE StopRemove(c)
  <2> DEFINE t == call[c].on
             m == Removed(tm, t)
  <2>1. call[c].at = "stop" /\ tm' = m
    BY <1>6 DEF StopRemove, Runs
  <2>2. t \in Timer
    BY <2>1, Interrupted
  <2> HIDE DEF t
  <2>3. ~Contains(m.list, t) /\ Else(tm, m, {t})
    BY <1>2, <2>2, RemovedOK
  <2> HIDE DEF m
  <2> QED
    BY <1>1, <2>1, <2>2, <2>3
<1>7. CASE \E t \in Timer : Detach(c, t)
  <2>1. PICK t \in Timer : Detach(c, t)
    BY <1>7
  <2> DEFINE m == Detached(tm, t)
  <2>2. tm' = m
    BY <2>1 DEF Detach
  <2>3. ~Contains(m.list, t) /\ Else(tm, m, {t})
    BY <1>2, DetachedOK
  <2> HIDE DEF m
  <2> QED
    BY <1>1, <2>2, <2>3
<1>8. ASSUME NEW t \in Timer, tm'.list = tm.list, tm'.tick = tm.tick, tm'.timeout = tm.timeout,
             \A u \in Timer \ {t} : /\ tm'.init[u] = tm.init[u]
                                    /\ u \in tm'.known <=> u \in tm.known
                                    /\ u \in tm'.active <=> u \in tm.active
      PROVE  \E v \in Timer :
               /\ Else(tm, tm', {v})
               /\ Contains(tm.list, v) /\ Contains(tm'.list, v) => tm'.timeout[v] = tm.timeout[v]
  BY <1>8 DEF Else
<1>9. CASE \E t \in Timer : StopTest(c, t) \/ FlagRead(c, t)
  <2>1. tm' = tm /\ Timer # {}
    BY <1>9 DEF StopTest, FlagRead
  <2> QED
    BY <1>1, <1>8, <2>1
<1>10. CASE StopClear(c)
  <2> DEFINE t == call[c].on
  <2>1. call[c].at = "clear" /\ tm' = Deactivated(tm, t)
    BY <1>10 DEF StopClear, Runs
  <2>2. t \in Timer
    BY <2>1, Interrupted
  <2> HIDE DEF t
  <2>3. /\ tm'.list = tm.list /\ tm'.tick = tm.tick /\ tm'.timeout = tm.timeout
        /\ tm'.init = tm.init /\ tm'.known = tm.known /\ tm'.active = tm.active \ {t}
    BY <1>2, <2>1 DEF Deactivated, TimerState
  <2> QED
    BY <1>1, <1>8, <2>2, <2>3
<1>11. CASE \E t \in Timer, n \in Times : SetTime(c, t, n)
  <2>1. PICK t \in Timer, n \in Times : SetTime(c, t, n)
    BY <1>11
  <2>2. /\ tm'.list = tm.list /\ tm'.tick = tm.tick /\ tm'.timeout = tm.timeout
        /\ tm'.init = [tm.init EXCEPT ![t] = n] /\ tm'.known = tm.known /\ tm'.active = tm.active
    BY <1>2, <2>1 DEF SetTime, TimerState
  <2>3. \A u \in Timer \ {t} : tm'.init[u] = tm.init[u]
    BY <1>2, <2>2, StateFields
  <2> QED
    BY <1>1, <1>8, <2>2, <2>3
<1>12. CASE \E t \in Timer, n \in Times : Reinit(c, t, n)
  <2>1. PICK t \in Timer, n \in Times : Reinit(c, t, n)
    BY <1>12
  <2>2. /\ tm'.list = tm.list /\ tm'.tick = tm.tick /\ tm'.timeout = tm.timeout
        /\ tm'.init = [tm.init EXCEPT ![t] = n] /\ tm'.known = tm.known \cup {t}
        /\ tm'.active = tm.active \ {t}
    BY <1>2, <2>1 DEF Reinit, Deactivated, TimerState
  <2>3. \A u \in Timer \ {t} : tm'.init[u] = tm.init[u]
    BY <1>2, <2>2, StateFields
  <2> QED
    BY <1>1, <1>8, <2>2, <2>3
<1>13. CASE \E p \in BOOLEAN : FlagWrite(c, p)
  <2>1. PICK p \in BOOLEAN : FlagWrite(c, p)
    BY <1>13
  <2> DEFINE t == call[c].on
             q == IF p THEN tm.periodic \cup {t} ELSE tm.periodic \ {t}
             a == IF call[c].was THEN tm.active \cup {t} ELSE tm.active \ {t}
  <2>2. call[c].at = "flag" /\ tm' = [tm EXCEPT !.periodic = q, !.active = a]
    BY <2>1 DEF FlagWrite, Runs
  <2>3. t \in Timer
    BY <2>2, Interrupted
  <2>4. \A u \in Timer \ {t} : u \in a <=> u \in tm.active
    OBVIOUS
  <2> HIDE DEF q, a, t
  <2>5. /\ tm'.list = tm.list /\ tm'.tick = tm.tick /\ tm'.timeout = tm.timeout
        /\ tm'.init = tm.init /\ tm'.known = tm.known /\ tm'.active = a
    BY <1>2, <2>2 DEF TimerState
  <2> QED
    BY <1>1, <1>8, <2>3, <2>4, <2>5
<1> QED
  BY <1>3, <1>4, <1>5, <1>6, <1>7, <1>9, <1>10, <1>11, <1>12, <1>13
     DEF TaskStep, StopRefused

LEMMA TaskCounts ==
  ASSUME TInv, TInv', NEW c \in Task, TaskStep(c), ~UNCHANGED vars
  PROVE  \/ UNCHANGED <<Armed, LeftMap, isr>>
         \/ \E t \in Timer : /\ Armed' = Armed \ {t} /\ LeftMap' = [LeftMap EXCEPT ![t] = 0]
                             /\ UNCHANGED isr
         \/ \E t \in Timer, n \in 0 .. Half :
               /\ t \notin Armed /\ Armed' = Armed \cup {t}
               /\ LeftMap' = [LeftMap EXCEPT ![t] = n] /\ UNCHANGED isr
<1>1. PICK t \in Timer :
        /\ UNCHANGED isr /\ Else(tm, tm', {t})
        /\ Contains(tm.list, t) /\ Contains(tm'.list, t) => tm'.timeout[t] = tm.timeout[t]
  BY TaskEffect
<1> DEFINE L == LeftMap
           M == LeftMap'
<1>2. /\ Armed \subseteq Timer /\ Armed' \subseteq Timer
      /\ L = [x \in Timer |-> L[x]] /\ M = [x \in Timer |-> M[x]]
      /\ t \in Armed <=> Contains(tm.list, t)
      /\ t \in Armed' <=> Contains(tm'.list, t)
      /\ L[t] = IF Contains(tm.list, t) THEN Left(tm, t) ELSE 0
      /\ M[t] = IF Contains(tm'.list, t) THEN Left(tm', t) ELSE 0
  BY MapIs
<1>3. \A u \in Timer \ {t} : (u \in Armed' <=> u \in Armed) /\ M[u] = L[u]
  BY <1>1, MapKept
<1>4. CASE ~Contains(tm'.list, t)
  <2>1. M[t] = 0 /\ t \notin Armed'
    BY <1>2, <1>4
  <2> HIDE DEF L, M
  <2>2. Armed' = Armed \ {t}
    BY <1>2, <1>3, <2>1
  <2>3. M = [L EXCEPT ![t] = 0]
    BY <1>2, <1>3, <2>1
  <2> QED
    BY <1>1, <2>2, <2>3 DEF L, M
<1>5. CASE Contains(tm'.list, t) /\ ~Contains(tm.list, t)
  <2> DEFINE n == Left(tm', t)
  <2>1. M[t] = n /\ t \in Armed' /\ t \notin Armed
    BY <1>2, <1>5
  <2>2. n \in 0 .. Half
    BY <1>5, LeftBounds_next DEF Linked
  <2> HIDE DEF L, M, n
  <2>3. Armed' = Armed \cup {t}
    BY <1>2, <1>3, <2>1
  <2>4. M = [L EXCEPT ![t] = n]
    BY <1>2, <1>3, <2>1
  <2> QED
    BY <1>1, <2>1, <2>2, <2>3, <2>4 DEF L, M
<1>6. CASE Contains(tm'.list, t) /\ Contains(tm.list, t)
  <2>1. Left(tm', t) = Left(tm, t)
    BY <1>1, <1>6 DEF Else, Left
  <2>2. M[t] = L[t] /\ t \in Armed' /\ t \in Armed
    BY <1>2, <1>6, <2>1
  <2> HIDE DEF L, M
  <2>3. Armed' = Armed
    BY <1>2, <1>3, <2>2
  <2>4. M = L
    BY <1>2, <1>3, <2>2
  <2> QED
    BY <1>1, <2>3, <2>4 DEF L, M
<1> QED
  BY <1>4, <1>5, <1>6

LEMMA TickCounts ==
  ASSUME TInv, Tick
  PROVE  /\ Armed' = Armed
         /\ LeftMap' = [t \in Timer |-> IF LeftMap[t] > 0 THEN LeftMap[t] - 1 ELSE 0]
<1>1. /\ TInv' /\ tm'.list = tm.list
      /\ \A t \in Timer : Linked(t) => Rem(tm, t) \in Int /\ Rem(tm', t) = Rem(tm, t) - 1
  BY TickOK
<1>2. tm \in TimerState /\ tm' \in TimerState
  BY <1>1 DEF TInv, TypeOK
<1>3. ASSUME NEW t \in Timer
      PROVE  LeftMap'[t] = IF LeftMap[t] > 0 THEN LeftMap[t] - 1 ELSE 0
  <2>0. /\ LeftMap[t] = IF Contains(tm.list, t) THEN Left(tm, t) ELSE 0
        /\ LeftMap'[t] = IF Contains(tm'.list, t) THEN Left(tm', t) ELSE 0
    BY MapIs
  <2>1. CASE Linked(t)
    <3>1. /\ LeftMap[t] = Left(tm, t) /\ LeftMap'[t] = Left(tm', t)
      BY <1>1, <2>0, <2>1 DEF Linked
    <3>2. /\ Left(tm, t) = IF Rem(tm, t) > 0 THEN Rem(tm, t) ELSE 0
          /\ Left(tm', t) = IF Rem(tm', t) > 0 THEN Rem(tm', t) ELSE 0
      BY <1>2, LeftIs
    <3>3. Rem(tm, t) \in Int /\ Rem(tm', t) = Rem(tm, t) - 1
      BY <1>1, <2>1
    <3> QED
      BY <3>1, <3>2, <3>3
  <2>2. CASE ~Linked(t)
    BY <1>1, <2>0, <2>2 DEF Linked
  <2> QED
    BY <2>1, <2>2
<1>4. Armed' = Armed
  BY <1>1 DEF Armed, Linked
<1> QED
  BY <1>3, <1>4, MapIs

LEMMA FireCounts ==
  ASSUME TInv, TInv', Fires
  PROVE  \E t \in Timer :
           /\ t \in Armed /\ LeftMap[t] = 0
           /\ \E u \in Timer : \E S \in SUBSET {t, u} : \E n, m \in 0 .. Half :
                /\ Armed' = (Armed \ {t, u}) \cup S
                /\ LeftMap' = [LeftMap EXCEPT ![u] = IF u \in S THEN n ELSE 0,
                                              ![t] = IF t \in S THEN m ELSE 0]
<1> DEFINE t == Head(tm.list)
           L == LeftMap
           M == LeftMap'
<1>1. /\ t \in Timer /\ Linked(t) /\ Rem(tm, t) <= 0
      /\ \E u \in Timer : Else(tm, tm', {t, u})
  BY FiresOK
<1> HIDE DEF t
<1>2. PICK u \in Timer : Else(tm, tm', {t, u})
  BY <1>1
<1>3. /\ Armed \subseteq Timer /\ Armed' \subseteq Timer
      /\ L = [x \in Timer |-> L[x]] /\ M = [x \in Timer |-> M[x]]
      /\ \A x \in Timer : /\ x \in Armed' <=> Contains(tm'.list, x)
                          /\ M[x] = IF Contains(tm'.list, x) THEN Left(tm', x) ELSE 0
  BY MapIs
<1>4. \A x \in Timer \ {t, u} : (x \in Armed' <=> x \in Armed) /\ M[x] = L[x]
  BY <1>2, MapKept
<1>5. t \in Armed /\ L[t] = 0
  <2>1. tm \in TimerState /\ Rem(tm, t) \in Int
    BY <1>1, StateFields DEF TInv, TypeOK
  <2>2. Left(tm, t) = 0
    BY <1>1, <2>1, LeftIs
  <2> QED
    BY <1>1, <2>2, MapIs DEF Linked
<1> DEFINE S == {x \in {t, u} : x \in Armed'}
<1>6. \A x \in Timer : M[x] \in 0 .. Half /\ (x \notin Armed' => M[x] = 0)
  <2> TAKE x \in Timer
  <2>1. CASE Contains(tm'.list, x)
    BY <1>3, <2>1, LeftBounds_next DEF Linked
  <2>2. CASE ~Contains(tm'.list, x)
    BY <1>3, <2>2, HalfFacts
  <2> QED
    BY <2>1, <2>2
<1> HIDE DEF L, M
<1>7. Armed' = (Armed \ {t, u}) \cup S
  BY <1>1, <1>3, <1>4
<1>8. M = [L EXCEPT ![u] = IF u \in S THEN M[u] ELSE 0, ![t] = IF t \in S THEN M[t] ELSE 0]
  <2> DEFINE E == [L EXCEPT ![u] = IF u \in S THEN M[u] ELSE 0, ![t] = IF t \in S THEN M[t] ELSE 0]
  <2>1. E = [x \in Timer |-> IF x = t THEN IF t \in S THEN M[t] ELSE 0
                             ELSE IF x = u THEN IF u \in S THEN M[u] ELSE 0 ELSE L[x]]
    BY <1>1, <1>3
  <2>2. \A x \in Timer : (IF x = t THEN IF t \in S THEN M[t] ELSE 0
                           ELSE IF x = u THEN IF u \in S THEN M[u] ELSE 0 ELSE L[x]) = M[x]
    BY <1>1, <1>4, <1>6
  <2> QED
    BY <1>3, <2>1, <2>2
<1>9. S \in SUBSET {t, u} /\ M[u] \in 0 .. Half /\ M[t] \in 0 .. Half
  BY <1>1, <1>6
<1> HIDE DEF S
<1> QED
  BY <1>1, <1>5, <1>7, <1>8, <1>9 DEF L, M

(* The refinement: a timer started for n ticks fires in the n-th tick from   *)
(* then, not before and not after, on a counter that wraps, with starts that *)
(* are interrupted and callbacks that call about timers.                     *)
THEOREM TimersAreCountdowns == Spec => ImplementsCountdown
<1>1. Init => Abstract!CountInit
  <2> SUFFICES ASSUME Init PROVE Abstract!CountInit
    OBVIOUS
  <2>1. tm.list = << >> /\ isr = "none"
    BY DEF Init
  <2>2. \A t \in Timer : ~Linked(t)
    BY <2>1 DEF Linked, Contains
  <2> QED
    BY <2>1, <2>2 DEF Abstract!CountInit, Armed
<1>2. TInv /\ TInv' /\ [Next]_vars => [Abstract!CountNext]_(Abstract!countVars)
  <2> SUFFICES ASSUME TInv, TInv', [Next]_vars
               PROVE  [Abstract!CountNext]_(Abstract!countVars)
    OBVIOUS
  <2>1. CASE UNCHANGED vars
    BY <2>1 DEF vars, Abstract!countVars, Armed, Linked, Left
  <2>2. CASE \E c \in Task : TaskStep(c) /\ ~UNCHANGED vars
    <3>1. \/ UNCHANGED <<Armed, LeftMap, isr>>
          \/ \E t \in Timer : /\ Armed' = Armed \ {t} /\ LeftMap' = [LeftMap EXCEPT ![t] = 0]
                              /\ UNCHANGED isr
          \/ \E t \in Timer, n \in 0 .. Half :
                /\ t \notin Armed /\ Armed' = Armed \cup {t}
                /\ LeftMap' = [LeftMap EXCEPT ![t] = n] /\ UNCHANGED isr
      BY <2>2, TaskCounts
    <3>2. CASE UNCHANGED <<Armed, LeftMap, isr>>
      BY <3>2 DEF Abstract!countVars, LeftMap
    <3>3. CASE \E t \in Timer : /\ Armed' = Armed \ {t} /\ LeftMap' = [LeftMap EXCEPT ![t] = 0]
                                /\ UNCHANGED isr
      <4>1. \E t \in Timer : Abstract!Disarm(t)
        BY <3>3 DEF Abstract!Disarm, LeftMap
      <4> QED
        BY <4>1 DEF Abstract!CountNext
    <3>4. CASE \E t \in Timer, n \in 0 .. Half :
                 /\ t \notin Armed /\ Armed' = Armed \cup {t}
                 /\ LeftMap' = [LeftMap EXCEPT ![t] = n] /\ UNCHANGED isr
      <4>1. \E t \in Timer : \E n \in 0 .. Half : Abstract!Arm(t, n)
        BY <3>4 DEF Abstract!Arm, LeftMap
      <4> QED
        BY <4>1 DEF Abstract!CountNext
    <3> QED
      BY <3>1, <3>2, <3>3, <3>4
  <2>3. CASE Tick
    <3>1. Abstract!Pass
      BY <2>3, TickCounts DEF Tick, Abstract!Pass, LeftMap
    <3> QED
      BY <3>1 DEF Abstract!CountNext
  <2>4. CASE Fires
    <3>1. isr = "check" /\ UNCHANGED isr
      BY <2>4 DEF Fires
    <3>2. \E t \in Timer : Abstract!Fire(t)
      BY <2>4, <3>1, FireCounts DEF Abstract!Fire, LeftMap
    <3> QED
      BY <3>2 DEF Abstract!CountNext
  <2>5. CASE CheckDone
    <3>1. /\ isr = "check" /\ isr' = "none" /\ UNCHANGED tm
          /\ \A t \in Timer : Linked(t) => Rem(tm, t) > 0
      BY <2>5, CheckDoneOK DEF CheckDone
    <3>2. \A t \in Armed : LeftMap[t] > 0
      <4> TAKE t \in Armed
      <4>1. t \in Timer /\ Linked(t) /\ tm \in TimerState
        BY DEF Armed, TInv, TypeOK
      <4>2. Left(tm, t) = Rem(tm, t)
        BY <3>1, <4>1, LeftIs
      <4> QED
        BY <3>1, <4>1, <4>2 DEF LeftMap
    <3>3. Armed' = Armed /\ LeftMap' = LeftMap
      BY <3>1 DEF Armed, LeftMap, Linked, Left
    <3>4. Abstract!Over
      BY <3>1, <3>2, <3>3 DEF Abstract!Over, LeftMap
    <3> QED
      BY <3>4 DEF Abstract!CountNext
  <2> QED
    BY <2>1, <2>2, <2>3, <2>4, <2>5 DEF Next
<1> QED
  BY <1>1, <1>2, TimerInvariant, PTL DEF Spec, ImplementsCountdown, Abstract!CountSpec

=============================================================================

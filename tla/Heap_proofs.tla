----------------------------- MODULE Heap_proofs -----------------------------
(***************************************************************************)
(* The chain of blocks stays sound through every allocation, release and   *)
(* reallocation, and no two clients ever share memory, for a heap of any   *)
(* size and any number of threads.                                         *)
(***************************************************************************)
EXTENDS Heap, Lists_proofs, FiniteSetTheorems, TLAPS

-----------------------------------------------------------------------------
(* What holds at every moment.                                               *)

\* the chain runs from 0 to heap_end without gaps, and prev is the way back
Chain(m) ==
  /\ m = [p \in DOMAIN m |-> m[p]]
  /\ DOMAIN m \subseteq 0 .. End /\ 0 \in DOMAIN m /\ End \in DOMAIN m
  /\ \A p \in DOMAIN m : m[p] \in BlockState
  /\ m[0].prev = 0 /\ m[End].used
  /\ \A p \in DOMAIN m \ {End} : m[p].next \in DOMAIN m /\ p + Header < m[p].next
  /\ \A p \in DOMAIN m \ {End} : \A q \in DOMAIN m : q <= p \/ m[p].next <= q
  /\ \A p \in DOMAIN m \ {End} : m[p].next # End => m[m[p].next].prev = p
  /\ \A p \in DOMAIN m \ {0, End} : m[p].prev \in DOMAIN m \ {End} /\ m[m[p].prev].next = p

\* no two neighbours are free, but for the blocks of X
Tidy(m, X) ==
  \A p \in DOMAIN m \ {End} :
    p \in X \/ m[p].next \in X \/ m[p].used \/ m[m[p].next].used

\* f[p] is what the used blocks before p take, u what all of them take
Counted(m, f, u) ==
  /\ f \in [DOMAIN m -> Int] /\ f[0] = 0 /\ f[End] = u
  /\ \A p \in DOMAIN m \ {End} :
       f[m[p].next] = f[p] + (IF m[p].used THEN m[p].next - p ELSE 0)
  /\ \A p, q \in DOMAIN m : p <= q => 0 <= f[q] - f[p] /\ f[q] - f[p] <= q - p

IsHeap(h) == h = [mem |-> h.mem, lfree |-> h.lfree, used_mem |-> h.used_mem]

Hint(h) == h.lfree \in DOMAIN h.mem /\ (h.lfree = End \/ ~h.mem[h.lfree].used)

Sound(h) ==
  /\ IsHeap(h) /\ Chain(h.mem) /\ Hint(h)
  /\ \E f : Counted(h.mem, f, h.used_mem)

\* g has the used blocks of h, where they were
KeepsUsed(h, g) ==
  /\ \A p \in DOMAIN h.mem : h.mem[p].used => p \in DOMAIN g.mem
  /\ \A p \in DOMAIN g.mem : g.mem[p].used =>
       p \in DOMAIN h.mem /\ h.mem[p].used /\ g.mem[p].next = h.mem[p].next
  /\ \A p \in DOMAIN h.mem : h.mem[p].used => g.mem[p].used

-----------------------------------------------------------------------------
LEMMA Sizes ==
  /\ MemSize \in Nat \ {0} /\ Header \in Nat \ {0} /\ MinSize \in Nat \ {0}
  /\ MinSize <= MemSize /\ Request \subseteq Nat \ {0}
  /\ End \in Nat /\ End = MemSize + Header /\ End # 0
  BY HeapAssumption DEF End

LEMMA ChainFacts ==
  ASSUME NEW m, Chain(m)
  PROVE  /\ DOMAIN m \subseteq 0 .. End /\ DOMAIN m \subseteq Nat
         /\ 0 \in DOMAIN m /\ End \in DOMAIN m /\ 0 # End
         /\ m[0].prev = 0 /\ m[End].used
         /\ \A p \in DOMAIN m : m[p].next \in 0 .. End /\ m[p].prev \in 0 .. End
                                /\ m[p].used \in BOOLEAN
         /\ \A p \in DOMAIN m \ {End} : /\ m[p].next \in DOMAIN m
                                        /\ p + Header < m[p].next /\ p < m[p].next
         /\ \A p \in DOMAIN m \ {End} : \A q \in DOMAIN m : q <= p \/ m[p].next <= q
         /\ \A p \in DOMAIN m \ {End} : m[p].next # End => m[m[p].next].prev = p
         /\ \A p \in DOMAIN m \ {0, End} :
              m[p].prev \in DOMAIN m \ {End} /\ m[m[p].prev].next = p
<1>1. \A p \in DOMAIN m : m[p].next \in 0 .. End /\ m[p].prev \in 0 .. End
                          /\ m[p].used \in BOOLEAN
  BY DEF Chain, BlockState
<1>2. DOMAIN m \subseteq Nat
  BY Sizes DEF Chain
<1>3. \A p \in DOMAIN m \ {End} : p < m[p].next
  BY <1>1, <1>2, Sizes DEF Chain
<1> QED
  BY <1>1, <1>2, <1>3, Sizes DEF Chain

-----------------------------------------------------------------------------
(* Changes of the record heap.                                               *)

LEMMA WithMem ==
  ASSUME NEW h, IsHeap(h), NEW m
  PROVE  [h EXCEPT !.mem = m] = [mem |-> m, lfree |-> h.lfree, used_mem |-> h.used_mem]
<1> DEFINE a == h.mem
           b == h.lfree
           c == h.used_mem
<1>1. h = [mem |-> a, lfree |-> b, used_mem |-> c]
  BY DEF IsHeap
<1> HIDE DEF a, b, c
<1>2. [h EXCEPT !.mem = m] = [mem |-> m, lfree |-> b, used_mem |-> c]
  BY <1>1
<1> QED
  BY <1>2 DEF a, b, c

LEMMA WithHint ==
  ASSUME NEW h, IsHeap(h), NEW l
  PROVE  [h EXCEPT !.lfree = l] = [mem |-> h.mem, lfree |-> l, used_mem |-> h.used_mem]
<1> DEFINE a == h.mem
           b == h.lfree
           c == h.used_mem
<1>1. h = [mem |-> a, lfree |-> b, used_mem |-> c]
  BY DEF IsHeap
<1> HIDE DEF a, b, c
<1>2. [h EXCEPT !.lfree = l] = [mem |-> a, lfree |-> l, used_mem |-> c]
  BY <1>1
<1> QED
  BY <1>2 DEF a, b, c

LEMMA WithUsed ==
  ASSUME NEW h, IsHeap(h), NEW u
  PROVE  [h EXCEPT !.used_mem = u] = [mem |-> h.mem, lfree |-> h.lfree, used_mem |-> u]
<1> DEFINE a == h.mem
           b == h.lfree
           c == h.used_mem
<1>1. h = [mem |-> a, lfree |-> b, used_mem |-> c]
  BY DEF IsHeap
<1> HIDE DEF a, b, c
<1>2. [h EXCEPT !.used_mem = u] = [mem |-> a, lfree |-> b, used_mem |-> u]
  BY <1>1
<1> QED
  BY <1>2 DEF a, b, c

LEMMA WithBoth ==
  ASSUME NEW h, IsHeap(h), NEW l, NEW m
  PROVE  [h EXCEPT !.lfree = l, !.mem = m] = [mem |-> m, lfree |-> l, used_mem |-> h.used_mem]
<1> DEFINE g == [h EXCEPT !.lfree = l]
<1>1. [h EXCEPT !.lfree = l, !.mem = m] = [g EXCEPT !.mem = m]
  OBVIOUS
<1>2. g = [mem |-> h.mem, lfree |-> l, used_mem |-> h.used_mem]
  BY WithHint
<1> HIDE DEF g
<1>3. IsHeap(g) /\ g.lfree = l /\ g.used_mem = h.used_mem
  BY <1>2 DEF IsHeap
<1>4. [g EXCEPT !.mem = m] = [mem |-> m, lfree |-> g.lfree, used_mem |-> g.used_mem]
  BY <1>3, WithMem
<1> QED
  BY <1>1, <1>3, <1>4

-----------------------------------------------------------------------------
(* What joining two blocks does.                                             *)

LEMMA JoinedView ==
  ASSUME NEW h, IsHeap(h), h.mem = [x \in DOMAIN h.mem |-> h.mem[x]],
         \A x \in DOMAIN h.mem : h.mem[x] \in BlockState,
         NEW p \in DOMAIN h.mem, NEW n \in DOMAIN h.mem, p # n, p \in 0 .. End,
         p # h.mem[n].next
  PROVE  LET g == Joined(h, p, n)
             r == h.mem[n].next
         IN /\ IsHeap(g)
            /\ g.mem = [x \in DOMAIN g.mem |-> g.mem[x]]
            /\ g.lfree = IF h.lfree = n THEN p ELSE h.lfree
            /\ g.used_mem = h.used_mem
            /\ DOMAIN g.mem = DOMAIN h.mem \ {n}
            /\ \A x \in DOMAIN g.mem :
                 /\ g.mem[x] \in BlockState
                 /\ g.mem[x].used = h.mem[x].used
                 /\ g.mem[x].next = IF x = p THEN r ELSE h.mem[x].next
                 /\ g.mem[x].prev = IF x = r THEN p ELSE h.mem[x].prev
<1> DEFINE r == h.mem[n].next
           V(x) == CASE x = p -> [h.mem[p] EXCEPT !.next = r]
                     [] x = r -> [h.mem[r] EXCEPT !.prev = p]
                     [] OTHER -> h.mem[x]
           F == [x \in DOMAIN h.mem \ {n} |-> V(x)]
           l == IF h.lfree = n THEN p ELSE h.lfree
<1>1. Joined(h, p, n) = [mem |-> F, lfree |-> l, used_mem |-> h.used_mem]
  <2>1. Joined(h, p, n) = [h EXCEPT !.lfree = l, !.mem = F]
    BY DEF Joined
  <2> QED
    BY <2>1, WithBoth
<1>2. DOMAIN F = DOMAIN h.mem \ {n} /\ F = [x \in DOMAIN F |-> F[x]]
  OBVIOUS
<1>3. ASSUME NEW x \in DOMAIN h.mem \ {n}
      PROVE  /\ F[x] \in BlockState
             /\ F[x].used = h.mem[x].used
             /\ F[x].next = IF x = p THEN r ELSE h.mem[x].next
             /\ F[x].prev = IF x = r THEN p ELSE h.mem[x].prev
  <2>1. h.mem[x] \in BlockState /\ r \in 0 .. End /\ F[x] = V(x)
    BY DEF BlockState
  <2> HIDE DEF F
  <2>2. CASE x = p
    <3>1. V(x) = [h.mem[x] EXCEPT !.next = r]
      BY <2>2
    <3> QED
      BY <2>1, <2>2, <3>1 DEF BlockState
  <2>3. CASE x # p /\ x = r
    <3>1. V(x) = [h.mem[x] EXCEPT !.prev = p]
      BY <2>3
    <3> QED
      BY <2>1, <2>3, <3>1 DEF BlockState
  <2>4. CASE x # p /\ x # r
    <3>1. V(x) = h.mem[x]
      BY <2>4
    <3> QED
      BY <2>1, <2>4, <3>1
  <2> QED
    BY <2>2, <2>3, <2>4
<1> HIDE DEF F, l
<1>4. /\ Joined(h, p, n).mem = F /\ Joined(h, p, n).lfree = l
      /\ Joined(h, p, n).used_mem = h.used_mem /\ IsHeap(Joined(h, p, n))
  BY <1>1 DEF IsHeap
<1>5. Joined(h, p, n).lfree = IF h.lfree = n THEN p ELSE h.lfree
  BY <1>4 DEF l
<1> QED
  BY <1>2, <1>3, <1>4, <1>5

(* Two free neighbours become one, and the used blocks stay.                 *)
LEMMA JoinedOK ==
  ASSUME NEW h, Sound(h), NEW p \in DOMAIN h.mem \ {End}, NEW n,
         n = h.mem[p].next, n # End, ~h.mem[p].used, ~h.mem[n].used
  PROVE  LET g == Joined(h, p, n)
             r == h.mem[n].next
         IN /\ Sound(g) /\ KeepsUsed(h, g)
            /\ DOMAIN g.mem = DOMAIN h.mem \ {n}
            /\ p \in DOMAIN g.mem /\ g.mem[p].next = r
            /\ \A x \in DOMAIN g.mem :
                 /\ g.mem[x].used = h.mem[x].used
                 /\ g.mem[x].next = IF x = p THEN r ELSE h.mem[x].next
                 /\ x # r => g.mem[x].prev = h.mem[x].prev
<1> DEFINE m == h.mem
           g == Joined(h, p, n)
           e == g.mem
           r == m[n].next
<1>1. Chain(m) /\ IsHeap(h) /\ Hint(h)
  BY DEF Sound
<1>2. PICK f : Counted(m, f, h.used_mem)
  BY DEF Sound
<1>3. /\ n \in DOMAIN m \ {End} /\ p # n /\ p \in 0 .. End /\ p < n
      /\ r \in DOMAIN m /\ n < r /\ n + Header < r /\ p + Header < r
      /\ r # p /\ r # n /\ n # 0
  BY <1>1, ChainFacts, Sizes
<1>4. /\ IsHeap(g)
      /\ e = [x \in DOMAIN e |-> e[x]]
      /\ g.lfree = IF h.lfree = n THEN p ELSE h.lfree
      /\ g.used_mem = h.used_mem
      /\ DOMAIN e = DOMAIN m \ {n}
      /\ \A x \in DOMAIN e :
                 /\ e[x] \in BlockState
                 /\ e[x].used = m[x].used
                 /\ e[x].next = IF x = p THEN r ELSE m[x].next
                 /\ e[x].prev = IF x = r THEN p ELSE m[x].prev
  <2>1. /\ m = [x \in DOMAIN m |-> m[x]]
        /\ \A x \in DOMAIN m : m[x] \in BlockState
    BY <1>1 DEF Chain
  <2>2. p \in DOMAIN h.mem /\ n \in DOMAIN h.mem /\ p # h.mem[n].next
    BY <1>3
  <2> HIDE DEF g, e, r
  <2>3. LET j == Joined(h, p, n)
             k == h.mem[n].next
         IN /\ IsHeap(j)
            /\ j.mem = [x \in DOMAIN j.mem |-> j.mem[x]]
            /\ j.lfree = IF h.lfree = n THEN p ELSE h.lfree
            /\ j.used_mem = h.used_mem
            /\ DOMAIN j.mem = DOMAIN h.mem \ {n}
            /\ \A x \in DOMAIN j.mem :
                 /\ j.mem[x] \in BlockState
                 /\ j.mem[x].used = h.mem[x].used
                 /\ j.mem[x].next = IF x = p THEN k ELSE h.mem[x].next
                 /\ j.mem[x].prev = IF x = k THEN p ELSE h.mem[x].prev
    BY <1>1, <1>3, <2>1, <2>2, JoinedView
  <2> QED
    BY <2>3 DEF g, e, r
<1> HIDE DEF m, g, e, r
<1> DEFINE D == DOMAIN m
<1>5. /\ D \subseteq Nat /\ 0 \in D /\ End \in D /\ 0 # End
      /\ m[0].prev = 0 /\ m[End].used
      /\ \A x \in D \ {End} : m[x].next \in D /\ x + Header < m[x].next /\ x < m[x].next
      /\ \A x \in D \ {End} : \A y \in D : y <= x \/ m[x].next <= y
      /\ \A x \in D \ {End} : m[x].next # End => m[m[x].next].prev = x
      /\ \A x \in D \ {0, End} : m[x].prev \in D \ {End} /\ m[m[x].prev].next = x
  BY <1>1, ChainFacts
<1>6. p \in D /\ p # End /\ n \in D /\ n # End /\ n = m[p].next /\ ~m[p].used /\ ~m[n].used
  BY <1>3 DEF m
<1>7. \A x \in D \ {End} : m[x].next = n => x = p
  BY <1>5, <1>6
<1>8. \A x \in D \ {End} : m[x].next = r => x = n
  BY <1>5, <1>6, <1>3 DEF r
<1>9. Chain(e)
  <2>1. \A x \in DOMAIN e \ {End} : e[x].next \in DOMAIN e /\ x + Header < e[x].next
    BY <1>4, <1>5, <1>6, <1>7, <1>3
  <2>2. \A x \in DOMAIN e \ {End} : \A y \in DOMAIN e : y <= x \/ e[x].next <= y
    <3>1. \A y \in D \ {n} : y <= p \/ r <= y
      <4> SUFFICES ASSUME NEW y \in D \ {n} PROVE y <= p \/ r <= y
        OBVIOUS
      <4>1. y <= p \/ n <= y
        BY <1>5, <1>6
      <4>2. y <= n \/ r <= y
        BY <1>5, <1>6 DEF r
      <4> QED
        BY <4>1, <4>2, <1>5, <1>6
    <3> QED
      BY <1>4, <1>5, <3>1
  <2>3. \A x \in DOMAIN e \ {End} : e[x].next # End => e[e[x].next].prev = x
    <3> SUFFICES ASSUME NEW x \in DOMAIN e \ {End}, e[x].next # End
                 PROVE  e[e[x].next].prev = x
      OBVIOUS
    <3>1. x \in D \ {End} /\ x # n /\ e[x].next \in DOMAIN e
      BY <1>4, <2>1
    <3>2. CASE x = p
      BY <1>3, <1>4, <3>1, <3>2
    <3>3. CASE x # p
      <4>1. e[x].next = m[x].next /\ m[x].next # r
        BY <1>4, <1>8, <3>1, <3>3
      <4> QED
        BY <1>4, <1>5, <3>1, <4>1
    <3> QED
      BY <3>2, <3>3
  <2>4. \A x \in DOMAIN e \ {0, End} : e[x].prev \in DOMAIN e \ {End} /\ e[e[x].prev].next = x
    <3> SUFFICES ASSUME NEW x \in DOMAIN e \ {0, End}
                 PROVE  e[x].prev \in DOMAIN e \ {End} /\ e[e[x].prev].next = x
      OBVIOUS
    <3>1. x \in D \ {0, End} /\ x # n
      BY <1>4
    <3>2. CASE x = r
      <4>1. e[x].prev = p /\ p \in DOMAIN e
        BY <1>3, <1>4, <1>6, <3>2
      <4> QED
        BY <1>4, <1>6, <3>2, <4>1
    <3>3. CASE x # r
      <4>1. e[x].prev = m[x].prev /\ m[x].prev \in D \ {End} /\ m[m[x].prev].next = x
        BY <1>4, <1>5, <3>1, <3>3
      <4>2. m[x].prev # n /\ m[x].prev # p
        BY <4>1, <3>1, <3>3, <1>6 DEF r
      <4> QED
        BY <1>4, <4>1, <4>2
    <3> QED
      BY <3>2, <3>3
  <2>5. e[0].prev = 0 /\ e[End].used
    <3>1. 0 \in DOMAIN e /\ End \in DOMAIN e /\ 0 # r
      BY <1>3, <1>4, <1>5, <1>6
    <3> QED
      BY <1>4, <1>5, <3>1
  <2>6. DOMAIN e \subseteq 0 .. End /\ 0 \in DOMAIN e /\ End \in DOMAIN e
    BY <1>1, <1>3, <1>4, <1>5, <1>6, ChainFacts
  <2> QED
    BY <1>4, <2>1, <2>2, <2>3, <2>4, <2>5, <2>6 DEF Chain
<1>10. Hint(g)
  <2>1. h.lfree \in D /\ (h.lfree = End \/ ~m[h.lfree].used)
    BY <1>1 DEF Hint, m
  <2>2. CASE h.lfree = n
    BY <1>3, <1>4, <1>6, <2>2 DEF Hint, e
  <2>3. CASE h.lfree # n
    BY <1>4, <2>1, <2>3 DEF Hint, e
  <2> QED
    BY <2>2, <2>3
<1>11. Counted(e, [x \in DOMAIN e |-> f[x]], g.used_mem)
  <2> DEFINE k == [x \in DOMAIN e |-> f[x]]
  <2>1. /\ f \in [D -> Int] /\ f[0] = 0 /\ f[End] = h.used_mem
        /\ \A x \in D \ {End} : f[m[x].next] = f[x] + (IF m[x].used THEN m[x].next - x ELSE 0)
        /\ \A x, y \in D : x <= y => 0 <= f[y] - f[x] /\ f[y] - f[x] <= y - x
    BY <1>2 DEF Counted
  <2>2. k \in [DOMAIN e -> Int] /\ (\A x \in DOMAIN e : k[x] = f[x])
    BY <1>4, <2>1
  <2> HIDE DEF k
  <2>3. 0 \in DOMAIN e /\ End \in DOMAIN e
    BY <1>3, <1>4, <1>5, <1>6
  <2>4. f[r] = f[p]
    <3>1. f[n] = f[p]
      BY <1>5, <1>6, <2>1
    <3>2. f[r] = f[n]
      BY <1>5, <1>6, <2>1 DEF r
    <3> QED
      BY <3>1, <3>2
  <2>5. ASSUME NEW x \in DOMAIN e \ {End}
        PROVE  k[e[x].next] = k[x] + (IF e[x].used THEN e[x].next - x ELSE 0)
    <3>1. x \in D \ {End} /\ e[x].next \in DOMAIN e /\ e[x].used = m[x].used
      BY <1>4, <1>9, ChainFacts
    <3>2. CASE x = p
      BY <1>3, <1>4, <1>6, <2>1, <2>2, <2>4, <3>1, <3>2
    <3>3. CASE x # p
      BY <1>4, <2>1, <2>2, <3>1, <3>3
    <3> QED
      BY <3>2, <3>3
  <2>6. \A x, y \in DOMAIN e : x <= y => 0 <= k[y] - k[x] /\ k[y] - k[x] <= y - x
    BY <1>4, <2>1, <2>2
  <2> QED
    BY <1>4, <2>1, <2>2, <2>3, <2>5, <2>6 DEF Counted, k
<1>12. Sound(g)
  BY <1>4, <1>9, <1>10, <1>11 DEF Sound, e
<1>13. KeepsUsed(h, g)
  <2>1. ASSUME NEW x \in D, m[x].used
        PROVE  x \in DOMAIN e /\ e[x].used
    BY <1>4, <1>6, <2>1
  <2>2. ASSUME NEW x \in DOMAIN e, e[x].used
        PROVE  x \in D /\ m[x].used /\ e[x].next = m[x].next
    BY <1>4, <1>6, <2>2
  <2> QED
    BY <2>1, <2>2 DEF KeepsUsed, e, m
<1>14. \A x \in DOMAIN e : x # r => e[x].prev = m[x].prev
  BY <1>4
<1>15. p \in DOMAIN e
  BY <1>3, <1>4, <1>6
<1> QED
  BY <1>4, <1>12, <1>13, <1>14, <1>15 DEF g, e, m, r

LEMMA KeepsTwice ==
  ASSUME NEW h, NEW g, NEW k, KeepsUsed(h, g), KeepsUsed(g, k)
  PROVE  KeepsUsed(h, k)
  BY DEF KeepsUsed

(* plug_holes: around a free block nothing is left to join.                  *)
LEMMA PlugHolesOK ==
  ASSUME NEW h, Sound(h), NEW p \in DOMAIN h.mem \ {End}, ~h.mem[p].used,
         Tidy(h.mem, {p})
  PROVE  LET g == PlugHoles(h, p)
         IN  Sound(g) /\ KeepsUsed(h, g) /\ Tidy(g.mem, {})
<1> DEFINE n == h.mem[p].next
           f == IF n # p /\ ~h.mem[n].used /\ n # End THEN Joined(h, p, n) ELSE h
           b == f.mem[p].prev
           g == IF b # p /\ ~f.mem[b].used THEN Joined(f, b, p) ELSE f
<1>1. PlugHoles(h, p) = g
  BY DEF PlugHoles
<1>2. /\ n \in DOMAIN h.mem /\ p < n /\ n # p /\ h.mem[End].used
      /\ DOMAIN h.mem \subseteq Nat
  BY ChainFacts DEF Sound
<1>3. /\ Sound(f) /\ KeepsUsed(h, f) /\ Tidy(f.mem, {p})
      /\ p \in DOMAIN f.mem \ {End} /\ ~f.mem[p].used
      /\ f.mem[f.mem[p].next].used
  <2>1. CASE ~h.mem[n].used /\ n # End
    <3> DEFINE j == Joined(h, p, n)
               e == j.mem
               r == h.mem[n].next
    <3>1. f = j
      BY <1>2, <2>1
    <3>2. /\ Sound(j) /\ KeepsUsed(h, j)
          /\ DOMAIN e = DOMAIN h.mem \ {n}
          /\ p \in DOMAIN e /\ e[p].next = r
          /\ \A x \in DOMAIN e :
               /\ e[x].used = h.mem[x].used
               /\ e[x].next = IF x = p THEN r ELSE h.mem[x].next
      BY <2>1, JoinedOK
    <3>3. r \in DOMAIN h.mem /\ n < r /\ n \in DOMAIN h.mem \ {End}
          /\ \A x \in DOMAIN h.mem \ {End} : h.mem[x].next \in DOMAIN h.mem
      BY <1>2, <2>1, ChainFacts DEF Sound
    <3> HIDE DEF j, e, r, n, f, g, b
    <3>4. h.mem[r].used /\ r # n /\ r \in DOMAIN e
      <4>1. n \in {p} \/ h.mem[n].next \in {p} \/ h.mem[n].used \/ h.mem[h.mem[n].next].used
        BY <3>3 DEF Tidy
      <4>2. r # p /\ r # n
        BY <1>2, <3>3
      <4> QED
        BY <1>2, <2>1, <3>2, <3>3, <4>1, <4>2 DEF r
    <3>5. Tidy(e, {p})
      <4> SUFFICES ASSUME NEW x \in DOMAIN e \ {End}
                   PROVE  x = p \/ e[x].next = p \/ e[x].used \/ e[e[x].next].used
        BY DEF Tidy
      <4>1. x \in DOMAIN h.mem \ {End} /\ e[x].next \in DOMAIN e
        BY <3>2, ChainFacts DEF Sound, e
      <4>2. x = p \/ h.mem[x].next = p \/ h.mem[x].used \/ h.mem[h.mem[x].next].used
        BY <4>1 DEF Tidy
      <4> QED
        BY <3>2, <4>1, <4>2
    <3>6. e = f.mem /\ ~e[p].used /\ e[e[p].next].used
      BY <3>1, <3>2, <3>4 DEF e
    <3> QED
      BY <3>1, <3>2, <3>5, <3>6
  <2>2. CASE ~(~h.mem[n].used /\ n # End)
    <3>1. f = h
      BY <2>2
    <3>2. h.mem[n].used
      BY <1>2, <2>2
    <3>3. KeepsUsed(h, h)
      BY DEF KeepsUsed
    <3> QED
      BY <3>1, <3>2, <3>3
  <2> QED
    BY <2>1, <2>2
<1> HIDE DEF f, n
<1>4. Sound(g) /\ KeepsUsed(h, g) /\ Tidy(g.mem, {})
  <2>1. CASE b # p /\ ~f.mem[b].used
    <3> DEFINE j == Joined(f, b, p)
               e == j.mem
               r == f.mem[p].next
    <3>1. g = j
      BY <2>1
    <3>2. p # 0
      BY <1>3, <2>1, ChainFacts DEF Sound
    <3>3. b \in DOMAIN f.mem \ {End} /\ f.mem[b].next = p
      BY <1>3, <3>2, ChainFacts DEF Sound
    <3> HIDE DEF b
    <3>4. /\ Sound(j) /\ KeepsUsed(f, j)
          /\ DOMAIN e = DOMAIN f.mem \ {p}
          /\ \A x \in DOMAIN e :
               /\ e[x].used = f.mem[x].used
               /\ e[x].next = IF x = b THEN r ELSE f.mem[x].next
      BY <1>3, <2>1, <3>3, JoinedOK
    <3>5. /\ \A x \in DOMAIN f.mem \ {End} : f.mem[x].next \in DOMAIN f.mem
          /\ \A x \in DOMAIN e \ {End} : e[x].next \in DOMAIN e
      BY <1>3, <3>4, ChainFacts DEF Sound
    <3> HIDE DEF j, e, g
    <3>6. Tidy(e, {})
      <4> SUFFICES ASSUME NEW x \in DOMAIN e \ {End}
                   PROVE  e[x].used \/ e[e[x].next].used
        BY DEF Tidy
      <4>1. CASE x = b
        BY <1>3, <3>3, <3>4, <3>5, <4>1 DEF r
      <4>2. CASE x # b
        <5>1. x \in DOMAIN f.mem \ {End} /\ x # p /\ f.mem[x].next = e[x].next
          BY <3>4, <4>2
        <5>2. f.mem[x].next # p
          BY <3>4, <3>5, <5>1
        <5>3. x = p \/ f.mem[x].next = p \/ f.mem[x].used \/ f.mem[f.mem[x].next].used
          BY <1>3, <5>1 DEF Tidy
        <5> QED
          BY <3>4, <3>5, <5>1, <5>2, <5>3
      <4> QED
        BY <4>1, <4>2
    <3> QED
      BY <1>3, <3>1, <3>4, <3>6, KeepsTwice DEF e
  <2>2. CASE ~(b # p /\ ~f.mem[b].used)
    <3>1. g = f
      BY <2>2
    <3>2. p = 0 \/ b \in DOMAIN f.mem \ {End}
      BY <1>3, ChainFacts DEF Sound
    <3>3. /\ \A x \in DOMAIN f.mem \ {End} : f.mem[x].next \in DOMAIN f.mem
          /\ \A x \in DOMAIN f.mem \ {End} : f.mem[x].next # End =>
                                              f.mem[f.mem[x].next].prev = x
          /\ DOMAIN f.mem \subseteq Nat
          /\ \A x \in DOMAIN f.mem \ {End} : x < f.mem[x].next
      BY <1>3, ChainFacts DEF Sound
    <3> HIDE DEF b
    <3>4. Tidy(f.mem, {})
      <4> SUFFICES ASSUME NEW x \in DOMAIN f.mem \ {End}
                   PROVE  f.mem[x].used \/ f.mem[f.mem[x].next].used
        BY DEF Tidy
      <4>1. CASE x = p
        BY <1>3, <4>1
      <4>2. CASE f.mem[x].next = p
        <5>1. f.mem[p].prev = x /\ x # p
          BY <1>3, <3>3, <4>2
        <5>2. b = x
          BY <5>1 DEF b
        <5> QED
          BY <2>2, <5>1, <5>2
      <4>3. CASE x # p /\ f.mem[x].next # p
        BY <1>3, <4>3 DEF Tidy
      <4> QED
        BY <4>1, <4>2, <4>3
    <3> QED
      BY <1>3, <3>1, <3>4
  <2> QED
    BY <2>1, <2>2
<1> QED
  BY <1>1, <1>4

-----------------------------------------------------------------------------
(* What cutting a block in two does.                                         *)

LEMMA SplitView ==
  ASSUME NEW h, IsHeap(h), Chain(h.mem), NEW p \in DOMAIN h.mem \ {End}, NEW n \in Nat \ {0},
         p + Header + n + Header < h.mem[p].next
  PROVE  LET g == Split(h, p, n)
             q == p + Header + n
             r == h.mem[p].next
         IN /\ IsHeap(g)
            /\ g.mem = [x \in DOMAIN g.mem |-> g.mem[x]]
            /\ g.lfree = h.lfree /\ g.used_mem = h.used_mem
            /\ q \notin DOMAIN h.mem /\ q \in 0 .. End
            /\ DOMAIN g.mem = DOMAIN h.mem \cup {q}
            /\ g.mem[q] = [next |-> r, prev |-> p, used |-> FALSE]
            /\ \A x \in DOMAIN h.mem :
                 /\ g.mem[x] \in BlockState
                 /\ g.mem[x].used = h.mem[x].used
                 /\ g.mem[x].next = IF x = p THEN q ELSE h.mem[x].next
                 /\ g.mem[x].prev = IF x = r /\ r # End THEN q ELSE h.mem[x].prev
<1> DEFINE q == p + Header + n
           r == h.mem[p].next
           V(x) == CASE x = q -> [next |-> r, prev |-> p, used |-> FALSE]
                     [] x = p -> [h.mem[p] EXCEPT !.next = q]
                     [] x = r /\ r # End -> [h.mem[r] EXCEPT !.prev = q]
                     [] OTHER -> h.mem[x]
           F == [x \in DOMAIN h.mem \cup {q} |-> V(x)]
           g == [mem |-> F, lfree |-> h.lfree, used_mem |-> h.used_mem]
<1>1. /\ DOMAIN h.mem \subseteq Nat /\ DOMAIN h.mem \subseteq 0 .. End
      /\ r \in DOMAIN h.mem /\ p < r /\ r <= End
      /\ \A y \in DOMAIN h.mem : y <= p \/ r <= y
  BY ChainFacts
<1>2. q \in Nat /\ p < q /\ q < r /\ q <= End /\ q \notin DOMAIN h.mem
  BY <1>1, Sizes
<1>3. Split(h, p, n) = g
  <2>1. Split(h, p, n) = [h EXCEPT !.mem = F]
    BY DEF Split
  <2> QED
    BY <2>1, WithMem
<1>4. DOMAIN F = DOMAIN h.mem \cup {q} /\ F = [x \in DOMAIN F |-> F[x]]
  OBVIOUS
<1>5. F[q] = [next |-> r, prev |-> p, used |-> FALSE]
  <2>1. V(q) = [next |-> r, prev |-> p, used |-> FALSE]
    BY <1>1, <1>2
  <2> QED
    BY <2>1
<1>6. ASSUME NEW x \in DOMAIN h.mem
      PROVE  /\ F[x] \in BlockState
             /\ F[x].used = h.mem[x].used
             /\ F[x].next = IF x = p THEN q ELSE h.mem[x].next
             /\ F[x].prev = IF x = r /\ r # End THEN q ELSE h.mem[x].prev
  <2>1. F[x] = V(x) /\ x # q
    BY <1>2
  <2> HIDE DEF F
  <2>2. h.mem[x] \in BlockState /\ q \in 0 .. End /\ p # r
    BY <1>1, <1>2 DEF Chain
  <2>3. CASE x = p
    <3>1. V(x) = [h.mem[x] EXCEPT !.next = q]
      BY <2>1, <2>2, <2>3
    <3> QED
      BY <2>1, <2>2, <2>3, <3>1 DEF BlockState
  <2>4. CASE x = r /\ r # End
    <3>1. V(x) = [h.mem[x] EXCEPT !.prev = q]
      BY <2>1, <2>2, <2>4
    <3> QED
      BY <2>1, <2>2, <2>4, <3>1 DEF BlockState
  <2>5. CASE x # p /\ ~(x = r /\ r # End)
    <3>1. V(x) = h.mem[x]
      BY <2>1, <2>5
    <3> QED
      BY <2>1, <2>2, <2>5, <3>1
  <2> QED
    BY <2>3, <2>4, <2>5
<1> HIDE DEF F
<1>7. IsHeap(g) /\ g.mem = F /\ g.lfree = h.lfree /\ g.used_mem = h.used_mem
  BY DEF IsHeap
<1> HIDE DEF g
<1>8. q \in 0 .. End
  BY <1>2, Sizes
<1> QED
  BY <1>2, <1>3, <1>4, <1>5, <1>6, <1>7, <1>8

\* g is h with the block p, that ended at r, cut at q; w is used_mem for h
Cut(h, g, p, q, r, w) ==
  /\ IsHeap(g) /\ Chain(g.mem) /\ Hint(g)
  /\ \E k : Counted(g.mem, k, w - (IF h.mem[p].used THEN r - q ELSE 0))
  /\ g.lfree = h.lfree /\ g.used_mem = h.used_mem
  /\ q \notin DOMAIN h.mem /\ q # End /\ p < q /\ q < r /\ r \in DOMAIN h.mem
  /\ DOMAIN g.mem = DOMAIN h.mem \cup {q}
  /\ g.mem[q].next = r /\ g.mem[q].used = FALSE
  /\ \A x \in DOMAIN h.mem :
       /\ g.mem[x].used = h.mem[x].used
       /\ g.mem[x].next = IF x = p THEN q ELSE h.mem[x].next

(* The chain stays one, and the first part keeps what the block was.         *)
LEMMA SplitOK ==
  ASSUME NEW h, IsHeap(h), Chain(h.mem), Hint(h), NEW f, NEW u, Counted(h.mem, f, u),
         NEW p \in DOMAIN h.mem \ {End}, NEW n \in Nat \ {0},
         p + Header + n + Header < h.mem[p].next
  PROVE  Cut(h, Split(h, p, n), p, p + Header + n, h.mem[p].next, u)
<1> DEFINE m == h.mem
           g == Split(h, p, n)
           e == g.mem
           q == p + Header + n
           r == m[p].next
<1>1. LET j == Split(h, p, n)
          i == p + Header + n
          k == h.mem[p].next
      IN /\ IsHeap(j)
         /\ j.mem = [x \in DOMAIN j.mem |-> j.mem[x]]
         /\ j.lfree = h.lfree /\ j.used_mem = h.used_mem
         /\ i \notin DOMAIN h.mem /\ i \in 0 .. End
         /\ DOMAIN j.mem = DOMAIN h.mem \cup {i}
         /\ j.mem[i] = [next |-> k, prev |-> p, used |-> FALSE]
         /\ \A x \in DOMAIN h.mem :
              /\ j.mem[x] \in BlockState
              /\ j.mem[x].used = h.mem[x].used
              /\ j.mem[x].next = IF x = p THEN i ELSE h.mem[x].next
              /\ j.mem[x].prev = IF x = k /\ k # End THEN i ELSE h.mem[x].prev
  <2> HIDE DEF g, e, q, r
  <2> QED
    BY SplitView
<1>2. /\ IsHeap(g) /\ e = [x \in DOMAIN e |-> e[x]]
      /\ g.lfree = h.lfree /\ g.used_mem = h.used_mem
      /\ q \notin DOMAIN m /\ q \in 0 .. End
      /\ DOMAIN e = DOMAIN m \cup {q}
      /\ e[q] = [next |-> r, prev |-> p, used |-> FALSE]
      /\ \A x \in DOMAIN m :
           /\ e[x] \in BlockState
           /\ e[x].used = m[x].used
           /\ e[x].next = IF x = p THEN q ELSE m[x].next
           /\ e[x].prev = IF x = r /\ r # End THEN q ELSE m[x].prev
  BY <1>1
<1> DEFINE D == DOMAIN m
<1>3. /\ D \subseteq Nat /\ D \subseteq 0 .. End /\ 0 \in D /\ End \in D /\ 0 # End
      /\ m[0].prev = 0 /\ m[End].used
      /\ \A x \in D \ {End} : m[x].next \in D /\ x + Header < m[x].next /\ x < m[x].next
      /\ \A x \in D \ {End} : \A y \in D : y <= x \/ m[x].next <= y
      /\ \A x \in D \ {End} : m[x].next # End => m[m[x].next].prev = x
      /\ \A x \in D \ {0, End} : m[x].prev \in D \ {End} /\ m[m[x].prev].next = x
  BY ChainFacts
<1>4. /\ p \in D \ {End} /\ r \in D /\ r = m[p].next /\ p # r /\ r # 0
      /\ q \in Nat /\ q # 0 /\ q # End
      /\ p < q /\ q < r /\ q + Header < r /\ p + Header < q /\ p \in Nat /\ r \in Nat
  BY <1>2, <1>3, Sizes
<1>6. e[q].next = r /\ e[q].prev = p /\ e[q].used = FALSE /\ e[q] \in BlockState
  BY <1>2, <1>3, <1>4 DEF BlockState
<1>c. Counted(m, f, u) /\ Hint(h) /\ m[p].used \in BOOLEAN
  BY ChainFacts
<1> DEFINE w == u - (IF m[p].used THEN r - q ELSE 0)
<1>h. h.lfree \in D /\ (h.lfree = End \/ ~m[h.lfree].used)
  BY DEF Hint
<1> HIDE DEF m, g, e, q, r
<1>7. Chain(e)
  <2>1. \A x \in DOMAIN e \ {End} : e[x].next \in DOMAIN e /\ x + Header < e[x].next
    BY <1>2, <1>3, <1>4, <1>6
  <2>2. ASSUME NEW x \in DOMAIN e \ {End}, NEW y \in DOMAIN e
        PROVE  y <= x \/ e[x].next <= y
    <3>1. \A z \in D : z <= p \/ r <= z
      BY <1>3, <1>4
    <3>2. CASE x = q
      BY <1>2, <1>3, <1>4, <1>6, <3>1, <3>2
    <3>3. CASE x = p
      BY <1>2, <1>3, <1>4, <1>6, <3>1, <3>3
    <3>4. CASE x # p /\ x # q
      <4>1. x \in D \ {End} /\ e[x].next = m[x].next
        BY <1>2, <3>4
      <4>2. y \in D \/ y = q
        BY <1>2
      <4>3. p <= x \/ m[x].next <= p
        BY <1>3, <1>4, <4>1
      <4>4. r <= x \/ x <= p
        BY <3>1, <4>1
      <4> QED
        BY <1>3, <1>4, <3>4, <4>1, <4>2, <4>3, <4>4
    <3> QED
      BY <3>2, <3>3, <3>4
  <2>3. ASSUME NEW x \in DOMAIN e \ {End}, e[x].next # End
        PROVE  e[e[x].next].prev = x
    <3>1. CASE x = q
      BY <1>2, <1>4, <1>6, <2>3, <3>1
    <3>2. CASE x = p
      BY <1>2, <1>4, <1>6, <2>3, <3>2
    <3>3. CASE x # p /\ x # q
      <4>1. x \in D \ {End} /\ e[x].next = m[x].next /\ m[x].next \in D
        BY <1>2, <1>3, <3>3
      <4>2. m[x].next # r
        BY <1>3, <1>4, <2>3, <3>3, <4>1
      <4> QED
        BY <1>2, <1>3, <2>3, <4>1, <4>2
    <3> QED
      BY <3>1, <3>2, <3>3
  <2>4. ASSUME NEW x \in DOMAIN e \ {0, End}
        PROVE  e[x].prev \in DOMAIN e \ {End} /\ e[e[x].prev].next = x
    <3>1. CASE x = q
      BY <1>2, <1>4, <1>6, <3>1
    <3>2. CASE x = r
      <4>1. e[x].prev = q /\ r # End
        BY <1>2, <1>4, <3>2
      <4> QED
        BY <1>2, <1>4, <1>6, <3>2, <4>1
    <3>3. CASE x # r /\ x # q
      <4>1. x \in D \ {0, End} /\ e[x].prev = m[x].prev
        BY <1>2, <3>3
      <4>2. m[x].prev \in D \ {End} /\ m[m[x].prev].next = x /\ m[x].prev # p
        BY <1>3, <1>4, <3>3, <4>1
      <4> QED
        BY <1>2, <4>1, <4>2
    <3> QED
      BY <3>1, <3>2, <3>3
  <2>5. e[0].prev = 0 /\ e[End].used
    BY <1>2, <1>3, <1>4
  <2>6. /\ DOMAIN e \subseteq 0 .. End /\ 0 \in DOMAIN e /\ End \in DOMAIN e
        /\ \A x \in DOMAIN e : e[x] \in BlockState
    BY <1>2, <1>3, <1>6
  <2> QED
    BY <1>2, <2>1, <2>2, <2>3, <2>4, <2>5, <2>6 DEF Chain
<1>8. Hint(g)
  BY <1>2, <1>h DEF Hint, e
<1>9. \E k : Counted(e, k, w)
  <2> DEFINE d == IF m[p].used THEN r - q ELSE 0
             k == [x \in DOMAIN e |-> IF x = q THEN f[p] + (IF m[p].used THEN q - p ELSE 0)
                                      ELSE IF x <= p THEN f[x] ELSE f[x] - d]
  <2>1. /\ f \in [D -> Int] /\ f[0] = 0 /\ f[End] = u
        /\ \A x \in D \ {End} : f[m[x].next] = f[x] + (IF m[x].used THEN m[x].next - x ELSE 0)
        /\ \A x, y \in D : x <= y => 0 <= f[y] - f[x] /\ f[y] - f[x] <= y - x
    BY <1>c DEF Counted
  <2>2. d \in Int /\ (m[p].used => d = r - q) /\ (~m[p].used => d = 0) /\ w = u - d
    BY <1>4, <1>c
  <2> HIDE DEF d
  <2>3. /\ \A x \in D : f[x] \in Int
        /\ \A x \in D : x <= p => f[x] \in Int /\ f[p] - f[x] >= 0 /\ f[p] - f[x] <= p - x
        /\ \A x \in D : r <= x => f[x] \in Int /\ f[x] - f[r] >= 0 /\ f[x] - f[r] <= x - r
        /\ f[r] = f[p] + (IF m[p].used THEN r - p ELSE 0)
        /\ f[p] \in Int /\ f[r] \in Int
    BY <1>3, <1>4, <2>1
  <2>4. /\ k[q] = f[p] + (IF m[p].used THEN q - p ELSE 0)
        /\ \A x \in D : x # q /\ x \in DOMAIN e
        /\ \A x \in D : x <= p => k[x] = f[x]
        /\ \A x \in D : p < x => k[x] = f[x] - d
        /\ k \in [DOMAIN e -> Int]
    <3>1. f[p] + (IF m[p].used THEN q - p ELSE 0) \in Int
      BY <1>4, <1>c, <2>3
    <3> QED
      BY <1>2, <1>3, <1>4, <2>2, <2>3, <3>1
  <2> HIDE DEF k
  <2>5. k[0] = 0 /\ k[End] = w
    BY <1>3, <1>4, <2>1, <2>2, <2>4
  <2>6. \A x \in D : x <= p \/ r <= x
    BY <1>3, <1>4
  <2>7. ASSUME NEW x \in DOMAIN e \ {End}
        PROVE  k[e[x].next] = k[x] + (IF e[x].used THEN e[x].next - x ELSE 0)
    <3>1. CASE x = q
      BY <1>4, <1>6, <2>2, <2>3, <2>4, <3>1
    <3>2. CASE x = p
      BY <1>2, <1>4, <2>2, <2>3, <2>4, <3>2
    <3>3. CASE x # p /\ x # q
      <4>1. x \in D \ {End} /\ e[x].next = m[x].next /\ e[x].used = m[x].used
        BY <1>2, <3>3
      <4>2. m[x].next \in D /\ x \in Nat /\ m[x].next \in Nat
            /\ (m[x].next <= p \/ p < x) /\ x < m[x].next
        BY <1>3, <1>4, <2>6, <3>3, <4>1
      <4>3. f[m[x].next] = f[x] + (IF m[x].used THEN m[x].next - x ELSE 0)
        BY <2>1, <4>1
      <4>4. CASE m[x].next <= p
        <5>1. k[x] = f[x] /\ k[m[x].next] = f[m[x].next]
          BY <1>4, <2>4, <4>1, <4>2, <4>4
        <5> QED
          BY <4>1, <4>3, <5>1
      <4>5. CASE p < x
        <5>1. k[x] = f[x] - d /\ k[m[x].next] = f[m[x].next] - d
          BY <1>4, <2>4, <4>1, <4>2, <4>5
        <5>2. f[x] \in Int /\ f[m[x].next] \in Int
          BY <2>3, <4>1, <4>2
        <5>3. CASE m[x].used
          BY <2>2, <4>1, <4>2, <4>3, <5>1, <5>2, <5>3
        <5>4. CASE ~m[x].used
          BY <2>2, <4>1, <4>2, <4>3, <5>1, <5>2, <5>4
        <5> QED
          BY <5>3, <5>4
      <4> QED
        BY <4>2, <4>4, <4>5
    <3> QED
      BY <3>1, <3>2, <3>3
  <2>8. ASSUME NEW x \in DOMAIN e, NEW y \in DOMAIN e, x <= y
        PROVE  0 <= k[y] - k[x] /\ k[y] - k[x] <= y - x
    <3>1. (x \in D \/ x = q) /\ (y \in D \/ y = q)
      BY <1>2
    <3>2. CASE x = q /\ y = q
      BY <1>4, <2>4, <3>2
    <3>3. CASE x = q /\ y \in D
      <4>1. r <= y
        BY <1>3, <1>4, <2>6, <2>8, <3>3
      <4>2. k[y] = f[y] - d /\ y \in Nat /\ f[y] \in Int
        <5>1. y \in Nat /\ p < y
          BY <1>3, <1>4, <3>3, <4>1
        <5> QED
          BY <2>3, <2>4, <3>3, <5>1
      <4>3. f[y] - f[r] >= 0 /\ f[y] - f[r] <= y - r
        BY <2>3, <3>3, <4>1
      <4> QED
        BY <1>4, <2>2, <2>3, <2>4, <3>3, <4>2, <4>3
    <3>4. CASE x \in D /\ y = q
      <4>1. x <= p
        BY <1>3, <1>4, <2>6, <2>8, <3>4
      <4>2. k[x] = f[x] /\ x \in Nat /\ f[x] \in Int
        BY <1>3, <2>3, <2>4, <3>4, <4>1
      <4>3. f[p] - f[x] >= 0 /\ f[p] - f[x] <= p - x
        BY <2>3, <3>4, <4>1
      <4> QED
        BY <1>4, <2>2, <2>3, <2>4, <3>4, <4>2, <4>3
    <3>5. CASE x \in D /\ y \in D
      <4>1. /\ x \in Nat /\ y \in Nat /\ f[x] \in Int /\ f[y] \in Int
            /\ 0 <= f[y] - f[x] /\ f[y] - f[x] <= y - x
        BY <1>3, <2>1, <2>3, <2>8, <3>5
      <4>2. CASE y <= p \/ p < x
        <5>1. k[y] - k[x] = f[y] - f[x]
          BY <1>4, <2>2, <2>4, <2>8, <3>5, <4>1, <4>2
        <5> QED
          BY <4>1, <5>1
      <4>3. CASE x <= p /\ p < y
        <5>1. r <= y
          BY <2>6, <1>4, <3>5, <4>1, <4>3
        <5>2. k[y] = f[y] - d /\ k[x] = f[x]
          BY <2>4, <3>5, <4>3
        <5>3. f[y] - f[r] >= 0 /\ f[y] - f[r] <= y - r /\ f[p] - f[x] >= 0 /\ f[p] - f[x] <= p - x
          BY <2>3, <3>5, <4>3, <5>1
        <5> QED
          BY <1>4, <2>2, <2>3, <4>1, <4>3, <5>1, <5>2, <5>3
      <4> QED
        BY <1>4, <4>1, <4>2, <4>3
    <3> QED
      BY <3>1, <3>2, <3>3, <3>4, <3>5
  <2>9. Counted(e, k, w)
    BY <2>4, <2>5, <2>7, <2>8 DEF Counted
  <2> QED
    BY <2>9
<1> QED
  BY <1>2, <1>4, <1>6, <1>7, <1>8, <1>9 DEF w, m, g, e, q, r, Cut

-----------------------------------------------------------------------------
(* Taking a block into use, and out of it.                                   *)

LEMMA MarkOK ==
  ASSUME NEW m, Chain(m), NEW f, NEW u, Counted(m, f, u),
         NEW p \in DOMAIN m \ {End}, NEW v \in BOOLEAN
  PROVE  LET e == [m EXCEPT ![p].used = v]
             n == m[p].next
         IN /\ Chain(e) /\ DOMAIN e = DOMAIN m
            /\ \A x \in DOMAIN m : /\ e[x].next = m[x].next
                                   /\ e[x].used = IF x = p THEN v ELSE m[x].used
            /\ \E k : Counted(e, k, u - (IF m[p].used THEN n - p ELSE 0)
                                      + (IF v THEN n - p ELSE 0))
<1> DEFINE e == [m EXCEPT ![p].used = v]
           n == m[p].next
           D == DOMAIN m
           c == IF m[p].used THEN n - p ELSE 0
           d == IF v THEN n - p ELSE 0
<1>1. m = [x \in D |-> m[x]] /\ (\A x \in D : m[x] \in BlockState)
  BY DEF Chain
<1>2. /\ D \subseteq Nat /\ D \subseteq 0 .. End /\ 0 \in D /\ End \in D /\ 0 # End
      /\ m[0].prev = 0 /\ m[End].used
      /\ \A x \in D : m[x].used \in BOOLEAN
      /\ \A x \in D \ {End} : m[x].next \in D /\ x + Header < m[x].next /\ x < m[x].next
      /\ \A x \in D \ {End} : \A y \in D : y <= x \/ m[x].next <= y
      /\ \A x \in D \ {End} : m[x].next # End => m[m[x].next].prev = x
      /\ \A x \in D \ {0, End} : m[x].prev \in D \ {End} /\ m[m[x].prev].next = x
  BY ChainFacts
<1>3. e = [x \in D |-> IF x = p THEN [m[p] EXCEPT !.used = v] ELSE m[x]]
  BY <1>1
<1>4. /\ DOMAIN e = D /\ e = [x \in DOMAIN e |-> e[x]]
      /\ \A x \in D : e[x] = IF x = p THEN [m[p] EXCEPT !.used = v] ELSE m[x]
  BY <1>3
<1> HIDE DEF e
<1>5. ASSUME NEW x \in D
      PROVE  /\ e[x] \in BlockState /\ e[x].next = m[x].next /\ e[x].prev = m[x].prev
             /\ e[x].used = IF x = p THEN v ELSE m[x].used
  <2>1. m[x] \in BlockState
    BY <1>1
  <2>2. CASE x = p
    <3>1. e[x] = [m[x] EXCEPT !.used = v]
      BY <1>4, <2>2
    <3> QED
      BY <2>1, <2>2, <3>1 DEF BlockState
  <2>3. CASE x # p
    BY <1>4, <2>1, <2>3
  <2> QED
    BY <2>2, <2>3
<1>6. /\ p \in D \ {End} /\ n \in D /\ p \in Nat /\ n \in Nat /\ p < n /\ n = m[p].next
      /\ c \in Int /\ d \in Int
  BY <1>2
<1>7. Chain(e)
  BY <1>2, <1>4, <1>5, <1>6 DEF Chain
<1>8. \E k : Counted(e, k, u - c + d)
  <2> DEFINE k == [x \in D |-> IF x <= p THEN f[x] ELSE f[x] - c + d]
  <2>1. /\ f \in [D -> Int] /\ f[0] = 0 /\ f[End] = u
        /\ \A x \in D \ {End} : f[m[x].next] = f[x] + (IF m[x].used THEN m[x].next - x ELSE 0)
        /\ \A x, y \in D : x <= y => 0 <= f[y] - f[x] /\ f[y] - f[x] <= y - x
    BY DEF Counted
  <2>2. f[n] = f[p] + c /\ f[p] \in Int /\ f[n] \in Int
    BY <1>6, <2>1
  <2>3. 0 <= d /\ d <= n - p /\ (v => d = n - p) /\ (~v => d = 0)
    BY <1>6
  <2> HIDE DEF c, d, n
  <2>4. /\ k \in [D -> Int]
        /\ \A x \in D : x <= p => k[x] = f[x]
        /\ \A x \in D : p < x => k[x] = f[x] - c + d
    BY <1>2, <1>6, <2>1
  <2> HIDE DEF k
  <2>5. k[0] = 0 /\ k[End] = u - c + d
    BY <1>2, <1>6, <2>1, <2>4
  <2>6. \A x \in D : x <= p \/ n <= x
    BY <1>2, <1>6
  <2>7. ASSUME NEW x \in D \ {End}
        PROVE  k[e[x].next] = k[x] + (IF e[x].used THEN e[x].next - x ELSE 0)
    <3>1. CASE x = p
      <4>1. e[x].next = n /\ e[x].used = v /\ k[n] = f[n] - c + d /\ k[p] = f[p]
        BY <1>5, <1>6, <2>4, <3>1
      <4> QED
        BY <1>6, <2>2, <2>3, <3>1, <4>1
    <3>2. CASE x # p
      <4>1. /\ m[x].next \in D /\ x \in Nat /\ m[x].next \in Nat /\ x < m[x].next
            /\ (m[x].next <= p \/ p < x)
            /\ e[x].next = m[x].next /\ e[x].used = m[x].used
            /\ f[x] \in Int /\ f[m[x].next] \in Int
        BY <1>2, <1>5, <1>6, <2>1, <3>2
      <4>2. f[m[x].next] = f[x] + (IF m[x].used THEN m[x].next - x ELSE 0)
        BY <2>1
      <4>3. CASE m[x].next <= p
        <5>1. k[x] = f[x] /\ k[m[x].next] = f[m[x].next]
          BY <1>6, <2>4, <4>1, <4>3
        <5> QED
          BY <4>1, <4>2, <5>1
      <4>4. CASE p < x
        <5>1. k[x] = f[x] - c + d /\ k[m[x].next] = f[m[x].next] - c + d
          BY <1>6, <2>4, <4>1, <4>4
        <5>2. CASE m[x].used
          BY <1>6, <4>1, <4>2, <5>1, <5>2
        <5>3. CASE ~m[x].used
          BY <1>6, <4>1, <4>2, <5>1, <5>3
        <5> QED
          BY <5>2, <5>3
      <4> QED
        BY <4>1, <4>3, <4>4
    <3> QED
      BY <3>1, <3>2
  <2>8. ASSUME NEW x \in D, NEW y \in D, x <= y
        PROVE  0 <= k[y] - k[x] /\ k[y] - k[x] <= y - x
    <3>1. /\ x \in Nat /\ y \in Nat /\ f[x] \in Int /\ f[y] \in Int
          /\ 0 <= f[y] - f[x] /\ f[y] - f[x] <= y - x
      BY <1>2, <2>1, <2>8
    <3>2. CASE y <= p \/ p < x
      <4>1. k[y] - k[x] = f[y] - f[x]
        BY <1>6, <2>4, <2>8, <3>1, <3>2
      <4> QED
        BY <3>1, <4>1
    <3>3. CASE x <= p /\ p < y
      <4>1. n <= y
        BY <2>6, <1>6, <3>1, <3>3
      <4>2. k[y] = f[y] - c + d /\ k[x] = f[x]
        BY <2>4, <3>3
      <4>3. /\ f[y] - f[n] >= 0 /\ f[y] - f[n] <= y - n
            /\ f[p] - f[x] >= 0 /\ f[p] - f[x] <= p - x
        BY <1>6, <2>1, <3>3, <4>1
      <4> QED
        BY <1>6, <2>2, <2>3, <3>1, <3>3, <4>2, <4>3
    <3> QED
      BY <1>6, <3>1, <3>2, <3>3
  <2>9. Counted(e, k, u - c + d)
    BY <1>4, <2>4, <2>5, <2>7, <2>8 DEF Counted
  <2> QED
    BY <2>9
<1> QED
  BY <1>4, <1>5, <1>7, <1>8 DEF e

LEMMA LowestIs ==
  ASSUME NEW P \in SUBSET Nat, P # {}
  PROVE  Lowest(P) \in P /\ \A q \in P : Lowest(P) <= q
<1>1. \E p \in P : \A q \in P : p <= q
  BY LeastExists
<1> QED
  BY <1>1 DEF Lowest

(* The hint moves on to the next free block, or to heap_end.                 *)
LEMMA FirstFreeIs ==
  ASSUME NEW h, DOMAIN h.mem \subseteq 0 .. End, End \in DOMAIN h.mem, NEW p \in DOMAIN h.mem
  PROVE  /\ FirstFree(h, p) \in DOMAIN h.mem
         /\ FirstFree(h, p) = End \/ ~h.mem[FirstFree(h, p)].used
<1> DEFINE P == {q \in DOMAIN h.mem : p <= q /\ (~h.mem[q].used \/ q = End)}
<1>1. P \in SUBSET Nat /\ End \in P
  BY Sizes
<1>2. FirstFree(h, p) = Lowest(P)
  BY DEF FirstFree
<1> HIDE DEF P
<1>3. FirstFree(h, p) \in P
  BY <1>1, <1>2, LowestIs
<1> QED
  BY <1>3 DEF P

-----------------------------------------------------------------------------
(* The three operations on the heap.                                         *)

LEMMA WithMemUsed ==
  ASSUME NEW h, IsHeap(h), NEW m, NEW w
  PROVE  [h EXCEPT !.mem = m, !.used_mem = w]
           = [mem |-> m, lfree |-> h.lfree, used_mem |-> w]
<1> DEFINE g == [h EXCEPT !.mem = m]
<1>1. [h EXCEPT !.mem = m, !.used_mem = w] = [g EXCEPT !.used_mem = w]
  OBVIOUS
<1>2. g = [mem |-> m, lfree |-> h.lfree, used_mem |-> h.used_mem]
  BY WithMem
<1> HIDE DEF g
<1>3. IsHeap(g) /\ g.mem = m /\ g.lfree = h.lfree
  BY <1>2 DEF IsHeap
<1>4. [g EXCEPT !.used_mem = w] = [mem |-> g.mem, lfree |-> g.lfree, used_mem |-> w]
  BY <1>3, WithUsed
<1> QED
  BY <1>1, <1>3, <1>4

(* rt_malloc: the block is used from now on and large enough; the others are *)
(* where they were.                                                          *)
LEMMA TakenOK ==
  ASSUME NEW h, Sound(h), Tidy(h.mem, {}), NEW p \in DOMAIN h.mem, ~h.mem[p].used,
         NEW n \in Nat \ {0}, Room(h, p) >= n
  PROVE  LET g == Taken(h, p, n)
         IN /\ Sound(g) /\ Tidy(g.mem, {})
            /\ p \in DOMAIN g.mem /\ g.mem[p].used /\ n <= Room(g, p)
            /\ \A x \in DOMAIN h.mem : h.mem[x].used =>
                 x \in DOMAIN g.mem /\ g.mem[x].used /\ g.mem[x].next = h.mem[x].next
            /\ \A x \in DOMAIN g.mem : g.mem[x].used =>
                 x = p \/ (x \in DOMAIN h.mem /\ h.mem[x].used)
<1> DEFINE r == h.mem[p].next
           q == p + Header + n
           cut == Room(h, p) >= n + Header + MinSize
           s == IF cut THEN Split(h, p, n) ELSE h
           w == s.used_mem + s.mem[p].next - p
           u == [s EXCEPT !.mem[p].used = TRUE, !.used_mem = w]
           g == IF p = h.lfree THEN [u EXCEPT !.lfree = FirstFree(u, p)] ELSE u
<1>1. Taken(h, p, n) = g
  BY DEF Taken
<1>2. /\ IsHeap(h) /\ Chain(h.mem) /\ Hint(h)
      /\ DOMAIN h.mem \subseteq Nat /\ p \in DOMAIN h.mem \ {End} /\ p < r
      /\ r \in DOMAIN h.mem \ {0} /\ p + Header < r /\ p \in Nat /\ r \in Nat
  BY ChainFacts DEF Sound
<1>3. PICK f : Counted(h.mem, f, h.used_mem)
  BY DEF Sound
<1>4. h.used_mem \in Int
  BY <1>2, <1>3, ChainFacts DEF Counted
<1>5. h.mem[r].used
  BY <1>2 DEF Tidy
<1>6. /\ IsHeap(s) /\ Chain(s.mem) /\ Hint(s) /\ s.lfree = h.lfree
      /\ s.used_mem = h.used_mem
      /\ \E k : Counted(s.mem, k, h.used_mem)
      /\ p \in DOMAIN s.mem \ {End} /\ s.mem[p].used = FALSE
      /\ s.mem[p].next \in Nat /\ p + Header + n <= s.mem[p].next
      /\ \A x \in DOMAIN h.mem :
           /\ x \in DOMAIN s.mem /\ s.mem[x].used = h.mem[x].used
           /\ x # p => s.mem[x].next = h.mem[x].next
      /\ \A x \in DOMAIN s.mem : s.mem[x].used => x \in DOMAIN h.mem
      /\ Tidy(s.mem, {p})
  <2>1. CASE cut
    <3>1. s = Split(h, p, n)
      BY <2>1
    <3>2. p + Header + n + Header < r
      BY <1>2, <2>1, Sizes DEF Room
    <3>3. Cut(h, Split(h, p, n), p, p + Header + n, r, h.used_mem)
      <4>1. Counted(h.mem, f, h.used_mem)
        BY <1>3
      <4> QED
        BY <1>2, <3>2, <4>1, SplitOK
    <3> HIDE DEF s, cut, u, g, w
    <3>4. /\ IsHeap(s) /\ Chain(s.mem) /\ Hint(s)
          /\ \E z : Counted(s.mem, z, h.used_mem - (IF h.mem[p].used THEN r - q ELSE 0))
          /\ s.lfree = h.lfree /\ s.used_mem = h.used_mem
          /\ q \notin DOMAIN h.mem /\ q # End /\ p < q /\ q < r /\ r \in DOMAIN h.mem
          /\ DOMAIN s.mem = DOMAIN h.mem \cup {q}
          /\ s.mem[q].next = r /\ s.mem[q].used = FALSE
          /\ \A x \in DOMAIN h.mem :
               /\ s.mem[x].used = h.mem[x].used
               /\ s.mem[x].next = IF x = p THEN q ELSE h.mem[x].next
      BY <3>1, <3>3 DEF Cut
    <3>5. q \in Nat /\ s.mem[p].next = q /\ ~h.mem[p].used /\ h.mem[p].used \in BOOLEAN
      BY <1>2, <3>4, Sizes, ChainFacts
    <3>6. h.used_mem - (IF h.mem[p].used THEN r - q ELSE 0) = h.used_mem
      BY <1>4, <3>5
    <3>7. ASSUME NEW x \in DOMAIN s.mem \ {End}, x # p, s.mem[x].next # p
          PROVE  s.mem[x].used \/ s.mem[s.mem[x].next].used
      <4>1. CASE x = q
        BY <1>2, <1>5, <3>4, <4>1
      <4>2. CASE x # q
        <5>1. x \in DOMAIN h.mem \ {End} /\ s.mem[x].next = h.mem[x].next
          BY <3>4, <3>7, <4>2
        <5>2. h.mem[x].next \in DOMAIN h.mem
          BY <1>2, <5>1, ChainFacts
        <5>3. h.mem[x].used \/ h.mem[h.mem[x].next].used
          BY <5>1 DEF Tidy
        <5> QED
          BY <3>4, <5>1, <5>2, <5>3
      <4> QED
        BY <4>1, <4>2
    <3>8. Tidy(s.mem, {p})
      BY <3>7 DEF Tidy
    <3>9. s.mem[p].used = FALSE
      BY <3>4, <3>5
    <3>10. p + Header + n <= s.mem[p].next
      BY <3>5 DEF q
    <3>11. \E k : Counted(s.mem, k, h.used_mem)
      BY <3>4, <3>6
    <3> QED
      BY <1>2, <3>4, <3>5, <3>8, <3>9, <3>10, <3>11
  <2>2. CASE ~cut
    <3>1. s = h
      BY <2>2
    <3>2. Tidy(h.mem, {p})
      BY DEF Tidy
    <3>3. p + Header + n <= r
      BY <1>2, Sizes DEF Room
    <3>4. h.mem[p].used = FALSE
      BY <1>2, ChainFacts
    <3> HIDE DEF s, cut, u, g, w, q
    <3> QED
      BY <1>2, <1>3, <3>1, <3>2, <3>3, <3>4
  <2> QED
    BY <2>1, <2>2
<1> HIDE DEF s, cut
<1> DEFINE e == [s.mem EXCEPT ![p].used = TRUE]
<1>7. u = [mem |-> e, lfree |-> s.lfree, used_mem |-> w]
  <2> HIDE DEF w
  <2>1. u = [s EXCEPT !.mem = e, !.used_mem = w]
    OBVIOUS
  <2> HIDE DEF e, u
  <2> QED
    BY <1>6, <2>1, WithMemUsed
<1>8. PICK k : Counted(s.mem, k, h.used_mem)
  BY <1>6
<1>9. LET j == [s.mem EXCEPT ![p].used = TRUE]
          i == s.mem[p].next
      IN /\ Chain(j) /\ DOMAIN j = DOMAIN s.mem
         /\ \A x \in DOMAIN s.mem : /\ j[x].next = s.mem[x].next
                                    /\ j[x].used = IF x = p THEN TRUE ELSE s.mem[x].used
         /\ \E z : Counted(j, z, h.used_mem - (IF s.mem[p].used THEN i - p ELSE 0)
                                            + (IF TRUE THEN i - p ELSE 0))
  <2> HIDE DEF e, u, g, w
  <2> QED
    BY <1>6, <1>8, MarkOK
<1>10. /\ Chain(e) /\ DOMAIN e = DOMAIN s.mem
       /\ \A x \in DOMAIN s.mem : /\ e[x].next = s.mem[x].next
                                  /\ e[x].used = IF x = p THEN TRUE ELSE s.mem[x].used
       /\ \E z : Counted(e, z, h.used_mem - (IF s.mem[p].used THEN s.mem[p].next - p ELSE 0)
                                          + (IF TRUE THEN s.mem[p].next - p ELSE 0))
  BY <1>9
<1>11. h.used_mem - (IF s.mem[p].used THEN s.mem[p].next - p ELSE 0)
                  + (IF TRUE THEN s.mem[p].next - p ELSE 0) = w
  <2>1. s.mem[p].used = FALSE /\ s.mem[p].next \in Nat /\ s.used_mem = h.used_mem
    BY <1>6
  <2> QED
    BY <1>2, <1>4, <2>1
<1> HIDE DEF e, w, u, g
<1>12. \E z : Counted(e, z, w)
  BY <1>10, <1>11
<1>13. IsHeap(u) /\ u.mem = e /\ u.lfree = s.lfree /\ u.used_mem = w
  BY <1>7 DEF IsHeap
<1>14. IsHeap(g) /\ g.mem = e /\ g.used_mem = w /\ Hint(g)
  <2>1. CASE p = h.lfree
    <3> DEFINE l == FirstFree(u, p)
    <3>1. g = [u EXCEPT !.lfree = l]
      BY <2>1 DEF g
    <3>2. /\ DOMAIN u.mem \subseteq 0 .. End /\ End \in DOMAIN u.mem /\ p \in DOMAIN u.mem
      BY <1>6, <1>10, <1>13, ChainFacts
    <3>3. l \in DOMAIN e /\ (l = End \/ ~e[l].used)
      BY <1>13, <3>2, FirstFreeIs
    <3> HIDE DEF l
    <3>4. g = [mem |-> e, lfree |-> l, used_mem |-> w]
      BY <1>13, <3>1, WithHint
    <3>5. IsHeap(g) /\ g.mem = e /\ g.used_mem = w /\ g.lfree = l
      BY <3>4 DEF IsHeap
    <3> QED
      BY <3>3, <3>5 DEF Hint
  <2>2. CASE p # h.lfree
    <3>1. g = u
      BY <2>2 DEF g
    <3>2. s.lfree \in DOMAIN s.mem /\ (s.lfree = End \/ ~s.mem[s.lfree].used)
          /\ s.lfree # p
      BY <1>6, <2>2 DEF Hint
    <3> QED
      BY <1>10, <1>13, <3>1, <3>2 DEF Hint
  <2> QED
    BY <2>1, <2>2
<1>15. Sound(g)
  BY <1>10, <1>12, <1>14 DEF Sound
<1>16. Tidy(e, {})
  <2> SUFFICES ASSUME NEW x \in DOMAIN e \ {End}
               PROVE  e[x].used \/ e[e[x].next].used
    BY DEF Tidy
  <2>1. e[x].next \in DOMAIN e
    BY <1>10, ChainFacts
  <2>2. x = p \/ s.mem[x].next = p \/ s.mem[x].used \/ s.mem[s.mem[x].next].used
    BY <1>6, <1>10 DEF Tidy
  <2> QED
    BY <1>10, <2>1, <2>2
<1>17. p \in DOMAIN e /\ e[p].used /\ n <= e[p].next - (p + Header)
  <2>1. p \in DOMAIN s.mem /\ e[p].next = s.mem[p].next /\ p \in DOMAIN e
    BY <1>6, <1>10
  <2>2. e[p].used
    BY <1>10, <2>1
  <2>3. n <= e[p].next - (p + Header)
    BY <1>2, <1>6, <2>1, Sizes
  <2> QED
    BY <2>1, <2>2, <2>3
<1>18. \A x \in DOMAIN h.mem : h.mem[x].used =>
         x \in DOMAIN e /\ e[x].used /\ e[x].next = h.mem[x].next
  BY <1>6, <1>10
<1>19. \A x \in DOMAIN e : e[x].used =>
         x = p \/ (x \in DOMAIN h.mem /\ h.mem[x].used)
  BY <1>6, <1>10
<1> QED
  BY <1>1, <1>14, <1>15, <1>16, <1>17, <1>18, <1>19 DEF Room

(* rt_free: the block is gone from the used ones, the others stay.           *)
LEMMA FreedOK ==
  ASSUME NEW h, Sound(h), Tidy(h.mem, {}), NEW p \in DOMAIN h.mem \ {End}, h.mem[p].used
  PROVE  LET g == Freed(h, p)
         IN /\ Sound(g) /\ Tidy(g.mem, {})
            /\ \A x \in DOMAIN h.mem \ {p} : h.mem[x].used =>
                 x \in DOMAIN g.mem /\ g.mem[x].used /\ g.mem[x].next = h.mem[x].next
            /\ \A x \in DOMAIN g.mem : g.mem[x].used =>
                 x # p /\ x \in DOMAIN h.mem /\ h.mem[x].used
<1> DEFINE r == h.mem[p].next
           e == [h.mem EXCEPT ![p].used = FALSE]
           l == IF p < h.lfree THEN p ELSE h.lfree
           w == h.used_mem - (r - p)
           u == [mem |-> e, lfree |-> l, used_mem |-> w]
           g == PlugHoles(u, p)
<1>1. /\ IsHeap(h) /\ Chain(h.mem) /\ Hint(h)
      /\ DOMAIN h.mem \subseteq Nat /\ p < r /\ p \in Nat /\ r \in Nat
  BY ChainFacts DEF Sound
<1>2. PICK f : Counted(h.mem, f, h.used_mem)
  BY DEF Sound
<1>3. h.used_mem \in Int
  BY <1>1, <1>2, ChainFacts DEF Counted
<1>4. Freed(h, p) = g
  <2> DEFINE j == [h EXCEPT !.mem[p].used = FALSE,
                            !.lfree = IF p < @ THEN p ELSE @,
                            !.used_mem = @ - (h.mem[p].next - p)]
  <2>1. Freed(h, p) = PlugHoles(j, p)
    BY DEF Freed
  <2>2. j = [h EXCEPT !.mem = e, !.lfree = l, !.used_mem = w]
    OBVIOUS
  <2> HIDE DEF j, e, l, w, r
  <2>3. [h EXCEPT !.mem = e, !.lfree = l, !.used_mem = w]
          = [mem |-> e, lfree |-> l, used_mem |-> w]
    <3> DEFINE k == [h EXCEPT !.lfree = l]
    <3>1. [h EXCEPT !.mem = e, !.lfree = l, !.used_mem = w]
            = [k EXCEPT !.mem = e, !.used_mem = w]
      OBVIOUS
    <3>2. k = [mem |-> h.mem, lfree |-> l, used_mem |-> h.used_mem]
      BY <1>1, WithHint
    <3> HIDE DEF k
    <3>3. IsHeap(k) /\ k.lfree = l
      BY <3>2 DEF IsHeap
    <3>4. [k EXCEPT !.mem = e, !.used_mem = w] = [mem |-> e, lfree |-> k.lfree, used_mem |-> w]
      BY ONLY <3>3, WithMemUsed
    <3> QED
      BY <3>1, <3>3, <3>4
  <2> QED
    BY <2>1, <2>2, <2>3
<1>5. LET j == [h.mem EXCEPT ![p].used = FALSE]
          i == h.mem[p].next
      IN /\ Chain(j) /\ DOMAIN j = DOMAIN h.mem
         /\ \A x \in DOMAIN h.mem : /\ j[x].next = h.mem[x].next
                                    /\ j[x].used = IF x = p THEN FALSE ELSE h.mem[x].used
         /\ \E z : Counted(j, z, h.used_mem - (IF h.mem[p].used THEN i - p ELSE 0)
                                            + (IF FALSE THEN i - p ELSE 0))
  <2> HIDE DEF e, u, g, w, l, r
  <2> QED
    BY <1>1, <1>2, MarkOK
<1>6. /\ Chain(e) /\ DOMAIN e = DOMAIN h.mem
      /\ \A x \in DOMAIN h.mem : /\ e[x].next = h.mem[x].next
                                 /\ e[x].used = IF x = p THEN FALSE ELSE h.mem[x].used
      /\ \E z : Counted(e, z, h.used_mem - (IF h.mem[p].used THEN r - p ELSE 0)
                                         + (IF FALSE THEN r - p ELSE 0))
  BY <1>5
<1>7. h.used_mem - (IF h.mem[p].used THEN r - p ELSE 0) + (IF FALSE THEN r - p ELSE 0) = w
  BY <1>1, <1>3
<1> HIDE DEF e, w
<1>8. \E z : Counted(e, z, w)
  BY <1>6, <1>7
<1>9. IsHeap(u) /\ u.mem = e /\ u.lfree = l /\ u.used_mem = w
  BY DEF IsHeap
<1>10. Hint(u)
  <2>1. h.lfree \in DOMAIN h.mem /\ (h.lfree = End \/ ~h.mem[h.lfree].used)
    BY <1>1 DEF Hint
  <2> QED
    BY <1>6, <1>9, <2>1 DEF Hint
<1> HIDE DEF u, l, r
<1>11. Sound(u) /\ p \in DOMAIN u.mem \ {End} /\ ~u.mem[p].used
  BY <1>6, <1>8, <1>9, <1>10 DEF Sound
<1>12. Tidy(u.mem, {p})
  <2> SUFFICES ASSUME NEW x \in DOMAIN e \ {End}
               PROVE  x = p \/ e[x].next = p \/ e[x].used \/ e[e[x].next].used
    BY <1>9 DEF Tidy
  <2>1. e[x].next \in DOMAIN e
    BY <1>6, ChainFacts
  <2>2. h.mem[x].used \/ h.mem[h.mem[x].next].used
    BY <1>6 DEF Tidy
  <2> QED
    BY <1>6, <2>1, <2>2
<1>13. Sound(g) /\ KeepsUsed(u, g) /\ Tidy(g.mem, {})
  BY <1>11, <1>12, PlugHolesOK
<1>14. /\ \A x \in DOMAIN e : e[x].used =>
            x \in DOMAIN g.mem /\ g.mem[x].used
       /\ \A x \in DOMAIN g.mem : g.mem[x].used =>
            x \in DOMAIN e /\ e[x].used /\ g.mem[x].next = e[x].next
  BY <1>9, <1>13 DEF KeepsUsed
<1> HIDE DEF g
<1>15. \A x \in DOMAIN h.mem \ {p} : h.mem[x].used =>
         x \in DOMAIN g.mem /\ g.mem[x].used /\ g.mem[x].next = h.mem[x].next
  <2> SUFFICES ASSUME NEW x \in DOMAIN h.mem \ {p}, h.mem[x].used
               PROVE  x \in DOMAIN g.mem /\ g.mem[x].used /\ g.mem[x].next = h.mem[x].next
    OBVIOUS
  <2>1. x \in DOMAIN e /\ e[x].used /\ e[x].next = h.mem[x].next
    BY <1>6
  <2> QED
    BY <1>14, <2>1
<1>16. \A x \in DOMAIN g.mem : g.mem[x].used =>
         x # p /\ x \in DOMAIN h.mem /\ h.mem[x].used
  <2> SUFFICES ASSUME NEW x \in DOMAIN g.mem, g.mem[x].used
               PROVE  x # p /\ x \in DOMAIN h.mem /\ h.mem[x].used
    OBVIOUS
  <2>1. x \in DOMAIN h.mem /\ e[x].used
    BY <1>6, <1>14
  <2>2. x # p
    BY <1>6, <2>1
  <2> QED
    BY <1>6, <2>1, <2>2
<1> QED
  BY <1>4, <1>13, <1>15, <1>16

(* rt_realloc in place: the block is cut to the size asked for, the others   *)
(* stay.                                                                     *)
LEMMA ShrunkOK ==
  ASSUME NEW h, Sound(h), Tidy(h.mem, {}), NEW p \in DOMAIN h.mem \ {End}, h.mem[p].used,
         NEW n \in Nat \ {0}, n + Header + MinSize < Room(h, p)
  PROVE  LET g == Shrunk(h, p, n)
         IN /\ Sound(g) /\ Tidy(g.mem, {})
            /\ \A x \in DOMAIN h.mem : h.mem[x].used =>
                 x \in DOMAIN g.mem /\ g.mem[x].used
            /\ \A x \in DOMAIN g.mem : g.mem[x].used =>
                 /\ x \in DOMAIN h.mem /\ h.mem[x].used
                 /\ g.mem[x].next = IF x = p THEN p + Header + n ELSE h.mem[x].next
<1> DEFINE r == h.mem[p].next
           q == p + Header + n
           w == h.used_mem - (Room(h, p) - n)
           j == [mem |-> h.mem, lfree |-> h.lfree, used_mem |-> w]
           s == Split(j, p, n)
           g == PlugHoles(s, q)
<1>1. /\ IsHeap(h) /\ Chain(h.mem) /\ Hint(h)
      /\ DOMAIN h.mem \subseteq Nat /\ p < r /\ p \in Nat /\ r \in Nat
  BY ChainFacts DEF Sound
<1>2. PICK f : Counted(h.mem, f, h.used_mem)
  BY DEF Sound
<1>3. h.used_mem \in Int
  BY <1>1, <1>2, ChainFacts DEF Counted
<1>4. Shrunk(h, p, n) = g
  <2>1. Shrunk(h, p, n) = PlugHoles(Split([h EXCEPT !.used_mem = w], p, n), p + Header + n)
    BY DEF Shrunk
  <2> HIDE DEF w
  <2>2. [h EXCEPT !.used_mem = w] = j
    BY <1>1, WithUsed
  <2> QED
    BY <2>1, <2>2
<1>5. IsHeap(j) /\ j.mem = h.mem /\ j.lfree = h.lfree /\ j.used_mem = w
  BY DEF IsHeap
<1>6. w = h.used_mem - (r - q)
  BY <1>1, <1>3, Sizes DEF Room
<1> HIDE DEF j, w
<1>7. Cut(j, Split(j, p, n), p, p + Header + n, j.mem[p].next, h.used_mem)
  <2>1. p + Header + n + Header < j.mem[p].next
    BY <1>1, <1>5, Sizes DEF Room
  <2>2. Hint(j) /\ Chain(j.mem) /\ Counted(j.mem, f, h.used_mem)
    BY <1>1, <1>2, <1>5 DEF Hint
  <2>3. p \in DOMAIN j.mem \ {End}
    BY <1>5
  <2> QED
    BY <1>5, <2>1, <2>2, <2>3, SplitOK
<1>8. Cut(j, s, p, q, r, h.used_mem)
  BY <1>5, <1>7
<1> HIDE DEF s, g, r, q
<1>9. /\ IsHeap(s) /\ Chain(s.mem) /\ Hint(s)
      /\ \E z : Counted(s.mem, z, h.used_mem - (IF h.mem[p].used THEN r - q ELSE 0))
      /\ s.used_mem = w
      /\ q \notin DOMAIN h.mem /\ q # End
      /\ DOMAIN s.mem = DOMAIN h.mem \cup {q}
      /\ s.mem[q].next = r /\ s.mem[q].used = FALSE
      /\ \A x \in DOMAIN h.mem :
           /\ s.mem[x].used = h.mem[x].used
           /\ s.mem[x].next = IF x = p THEN q ELSE h.mem[x].next
  BY <1>5, <1>8 DEF Cut
<1>10. Sound(s)
  BY <1>6, <1>9 DEF Sound
<1>11. Tidy(s.mem, {q})
  <2> SUFFICES ASSUME NEW x \in DOMAIN s.mem \ {End}, x # q
               PROVE  s.mem[x].next = q \/ s.mem[x].used \/ s.mem[s.mem[x].next].used
    BY DEF Tidy
  <2>1. CASE x = p
    BY <1>9, <2>1
  <2>2. CASE x # p
    <3>1. x \in DOMAIN h.mem \ {End} /\ s.mem[x].next = h.mem[x].next
      BY <1>9, <2>2
    <3>2. h.mem[x].next \in DOMAIN h.mem
      BY <1>1, <3>1, ChainFacts
    <3>3. h.mem[x].used \/ h.mem[h.mem[x].next].used
      BY <3>1 DEF Tidy
    <3> QED
      BY <1>9, <3>1, <3>2, <3>3
  <2> QED
    BY <2>1, <2>2
<1>12. Sound(g) /\ KeepsUsed(s, g) /\ Tidy(g.mem, {})
  <2>1. q \in DOMAIN s.mem \ {End} /\ ~s.mem[q].used
    BY <1>9
  <2> QED
    BY <1>10, <1>11, <2>1, PlugHolesOK DEF g
<1>13. /\ \A x \in DOMAIN s.mem : s.mem[x].used =>
            x \in DOMAIN g.mem /\ g.mem[x].used
       /\ \A x \in DOMAIN g.mem : g.mem[x].used =>
            x \in DOMAIN s.mem /\ s.mem[x].used /\ g.mem[x].next = s.mem[x].next
  BY <1>12 DEF KeepsUsed
<1>14. ASSUME NEW x \in DOMAIN h.mem, h.mem[x].used
       PROVE  x \in DOMAIN g.mem /\ g.mem[x].used
  <2>1. x \in DOMAIN s.mem /\ s.mem[x].used
    BY <1>9, <1>14
  <2> QED
    BY <1>13, <2>1
<1>15. ASSUME NEW x \in DOMAIN g.mem, g.mem[x].used
       PROVE  /\ x \in DOMAIN h.mem /\ h.mem[x].used
              /\ g.mem[x].next = IF x = p THEN p + Header + n ELSE h.mem[x].next
  <2>1. x \in DOMAIN s.mem /\ s.mem[x].used /\ g.mem[x].next = s.mem[x].next
    BY <1>13, <1>15
  <2>2. x # q
    BY <1>9, <2>1
  <2>3. x \in DOMAIN h.mem
    BY <1>9, <2>1, <2>2
  <2>4. h.mem[x].used
    BY <1>9, <2>1, <2>3
  <2> QED
    BY <1>9, <2>1, <2>3, <2>4 DEF q
<1> QED
  BY <1>4, <1>12, <1>14, <1>15

-----------------------------------------------------------------------------
(* The heap and its clients.                                                 *)

\* the used blocks of h are those of g, each as large as it was asked for
Serves(h, g) ==
  /\ g = [p \in DOMAIN g |-> g[p]] /\ IsFiniteSet(DOMAIN g)
  /\ DOMAIN g = {p \in DOMAIN h.mem \ {End} : h.mem[p].used}
  /\ \A p \in DOMAIN g : g[p] \in Request /\ g[p] <= Room(h, p)

\* no other client gives back the block of an unfinished rt_realloc
JobsOK ==
  /\ job \in [Client -> Job]
  /\ \A c \in Client : job[c].at # "none" =>
       job[c].old \in DOMAIN given /\ job[c].size \in Request
  /\ \A c, d \in Client : c # d /\ job[c].at # "none" /\ job[d].at # "none" =>
       job[c].old # job[d].old

HeapInv ==
  /\ Sound(heap) /\ Tidy(heap.mem, {})
  /\ Serves(heap, given) /\ handed = Cardinality(DOMAIN given)
  /\ JobsOK

LEMMA HeapInitInv == HeapInit => HeapInv
<1> SUFFICES ASSUME HeapInit PROVE HeapInv
  OBVIOUS
<1> DEFINE m == [p \in {0, End} |-> [next |-> End, prev |-> p, used |-> p = End]]
           f == [p \in {0, End} |-> 0]
<1>1. heap = [mem |-> m, lfree |-> 0, used_mem |-> 0]
  BY DEF HeapInit
<1>2. /\ DOMAIN m = {0, End} /\ m = [p \in DOMAIN m |-> m[p]]
      /\ m[0].next = End /\ m[0].prev = 0 /\ m[0].used = FALSE
      /\ m[End].next = End /\ m[End].prev = End /\ m[End].used = TRUE
      /\ \A p \in DOMAIN m : m[p] \in BlockState
  <2>1. m[0] = [next |-> End, prev |-> 0, used |-> FALSE]
    BY Sizes
  <2>2. m[End] = [next |-> End, prev |-> End, used |-> TRUE]
    BY Sizes
  <2>3. m[0] \in BlockState /\ m[End] \in BlockState
    BY <2>1, <2>2, Sizes DEF BlockState
  <2> QED
    BY <2>1, <2>2, <2>3
<1> HIDE DEF m
<1>3. Chain(m)
  BY <1>2, Sizes DEF Chain
<1>4. Counted(m, f, 0)
  BY <1>2, Sizes DEF Counted
<1>5. IsHeap(heap) /\ heap.mem = m /\ heap.lfree = 0 /\ heap.used_mem = 0
  BY <1>1 DEF IsHeap
<1>6. Hint(heap)
  BY <1>2, <1>5 DEF Hint
<1>7. Sound(heap)
  BY <1>3, <1>4, <1>5, <1>6 DEF Sound
<1>8. Tidy(heap.mem, {})
  BY <1>2, <1>5 DEF Tidy
<1>9. /\ given = [p \in {} |-> 0] /\ DOMAIN given = {} /\ handed = 0
      /\ job = [c \in Client |-> NoJob]
  BY DEF HeapInit
<1>10. Serves(heap, given) /\ handed = Cardinality(DOMAIN given)
  <2>1. {p \in DOMAIN heap.mem \ {End} : heap.mem[p].used} = {}
    BY <1>2, <1>5
  <2> QED
    BY <1>9, <2>1, FS_EmptySet DEF Serves
<1>11. JobsOK
  <2>1. NoJob \in Job /\ NoJob.at = "none"
    BY Sizes DEF NoJob, Job
  <2> QED
    BY <1>9, <2>1 DEF JobsOK
<1> QED
  BY <1>7, <1>8, <1>10, <1>11 DEF HeapInv

(* rt_malloc hands out a block that nobody had.                              *)
LEMMA AllocatesOK ==
  ASSUME Sound(heap), Tidy(heap.mem, {}), Serves(heap, given),
         handed = Cardinality(DOMAIN given), NEW p, NEW n \in Request, Allocates(p, n)
  PROVE  /\ Sound(heap') /\ Tidy(heap'.mem, {}) /\ Serves(heap', given')
         /\ handed' = Cardinality(DOMAIN given')
         /\ p \notin DOMAIN given /\ DOMAIN given' = DOMAIN given \cup {p}
         /\ given'[p] = n /\ \A x \in DOMAIN given : given'[x] = given[x]
<1> DEFINE N == Clamped(n)
           P == Fits(heap, N)
<1>1. N \in Nat \ {0} /\ n <= N /\ n \in Nat
  BY Sizes DEF Clamped
<1>2. /\ P # {} /\ p = Lowest(P) /\ heap' = Taken(heap, p, N) /\ Gets(p, n)
  BY DEF Allocates
<1> HIDE DEF N
<1>3. p \in P
  <2>1. P \in SUBSET Nat
    BY ChainFacts DEF Sound, Fits
  <2> QED
    BY <1>2, <2>1, LowestIs
<1>4. p \in DOMAIN heap.mem /\ ~heap.mem[p].used /\ Room(heap, p) >= N
  BY <1>3 DEF Fits
<1>5. /\ DOMAIN heap.mem \subseteq Nat /\ heap.mem[End].used /\ End \in DOMAIN heap.mem
  BY ChainFacts DEF Sound
<1> DEFINE g == heap'
<1>6. /\ Sound(g) /\ Tidy(g.mem, {})
      /\ p \in DOMAIN g.mem /\ g.mem[p].used /\ N <= Room(g, p)
      /\ \A x \in DOMAIN heap.mem : heap.mem[x].used =>
           x \in DOMAIN g.mem /\ g.mem[x].used /\ g.mem[x].next = heap.mem[x].next
      /\ \A x \in DOMAIN g.mem : g.mem[x].used =>
           x = p \/ (x \in DOMAIN heap.mem /\ heap.mem[x].used)
  BY <1>1, <1>2, <1>4, TakenOK
<1> HIDE DEF g
<1>7. /\ given' = [x \in DOMAIN given \cup {p} |-> IF x = p THEN n ELSE given[x]]
      /\ handed' = handed + 1
  BY <1>2 DEF Gets
<1>8. /\ IsFiniteSet(DOMAIN given)
      /\ DOMAIN given = {x \in DOMAIN heap.mem \ {End} : heap.mem[x].used}
      /\ \A x \in DOMAIN given : given[x] \in Request /\ given[x] <= Room(heap, x)
  BY DEF Serves
<1>9. p \notin DOMAIN given /\ p # End
  BY <1>4, <1>5, <1>8
<1>10. /\ DOMAIN given' = DOMAIN given \cup {p} /\ given'[p] = n
       /\ given' = [x \in DOMAIN given' |-> given'[x]]
       /\ \A x \in DOMAIN given : given'[x] = given[x]
  BY <1>7, <1>9
<1>11. DOMAIN given' = {x \in DOMAIN g.mem \ {End} : g.mem[x].used}
  <2>1. ASSUME NEW x \in DOMAIN given'
        PROVE  x \in DOMAIN g.mem \ {End} /\ g.mem[x].used
    BY <1>6, <1>8, <1>9, <1>10
  <2>2. ASSUME NEW x \in DOMAIN g.mem \ {End}, g.mem[x].used
        PROVE  x \in DOMAIN given'
    BY <1>6, <1>8, <1>10, <2>2
  <2> QED
    BY <2>1, <2>2
<1>12. ASSUME NEW x \in DOMAIN given'
       PROVE  given'[x] \in Request /\ given'[x] <= Room(g, x)
  <2>1. CASE x = p
    <3>1. g.mem[p].next \in Nat /\ p \in Nat
      BY <1>4, <1>5, <1>6, ChainFacts, Sizes DEF Sound
    <3> QED
      BY <1>1, <1>6, <1>10, <2>1, <3>1, Sizes DEF Room
  <2>2. CASE x # p
    <3>1. x \in DOMAIN given /\ given'[x] = given[x]
      BY <1>10, <2>2
    <3>2. x \in DOMAIN heap.mem /\ heap.mem[x].used
      BY <1>8, <3>1
    <3>3. g.mem[x].next = heap.mem[x].next
      BY <1>6, <3>2
    <3> QED
      BY <1>8, <3>1, <3>3 DEF Room
  <2> QED
    BY <2>1, <2>2
<1>13. IsFiniteSet(DOMAIN given') /\ handed' = Cardinality(DOMAIN given')
  <2>1. /\ IsFiniteSet(DOMAIN given \cup {p})
        /\ Cardinality(DOMAIN given \cup {p}) = Cardinality(DOMAIN given) + 1
    <3> DEFINE D == DOMAIN given
    <3>1. IsFiniteSet(D) /\ p \notin D
      BY <1>8, <1>9
    <3> HIDE DEF D
    <3>2. IsFiniteSet(D \cup {p}) /\ Cardinality(D \cup {p}) = Cardinality(D) + 1
      BY <3>1, FS_AddElement
    <3> QED
      BY <3>2 DEF D
  <2>2. DOMAIN given' = DOMAIN given \cup {p} /\ handed' = handed + 1
    BY <1>7, <1>10
  <2> QED
    BY <2>1, <2>2
<1>14. Serves(g, given')
  BY <1>10, <1>11, <1>12, <1>13 DEF Serves
<1> QED
  BY <1>6, <1>9, <1>10, <1>13, <1>14 DEF g

(* rt_free takes back the block and no other.                                *)
LEMMA GivesBackOK ==
  ASSUME Sound(heap), Tidy(heap.mem, {}), Serves(heap, given),
         handed = Cardinality(DOMAIN given), NEW p \in DOMAIN given,
         heap' = Freed(heap, p), GivesBack(p)
  PROVE  /\ Sound(heap') /\ Tidy(heap'.mem, {}) /\ Serves(heap', given')
         /\ handed' = Cardinality(DOMAIN given')
         /\ DOMAIN given' = DOMAIN given \ {p}
         /\ \A x \in DOMAIN given' : given'[x] = given[x]
<1> DEFINE g == heap'
<1>1. /\ IsFiniteSet(DOMAIN given)
      /\ DOMAIN given = {x \in DOMAIN heap.mem \ {End} : heap.mem[x].used}
      /\ \A x \in DOMAIN given : given[x] \in Request /\ given[x] <= Room(heap, x)
  BY DEF Serves
<1>2. p \in DOMAIN heap.mem \ {End} /\ heap.mem[p].used
  BY <1>1
<1>3. /\ Sound(g) /\ Tidy(g.mem, {})
      /\ \A x \in DOMAIN heap.mem \ {p} : heap.mem[x].used =>
           x \in DOMAIN g.mem /\ g.mem[x].used /\ g.mem[x].next = heap.mem[x].next
      /\ \A x \in DOMAIN g.mem : g.mem[x].used =>
           x # p /\ x \in DOMAIN heap.mem /\ heap.mem[x].used
  BY <1>2, FreedOK
<1> HIDE DEF g
<1>4. given' = [x \in DOMAIN given \ {p} |-> given[x]] /\ handed' = handed - 1
  BY DEF GivesBack
<1>5. /\ DOMAIN given' = DOMAIN given \ {p} /\ given' = [x \in DOMAIN given' |-> given'[x]]
      /\ \A x \in DOMAIN given' : given'[x] = given[x]
  BY <1>4
<1>6. DOMAIN given' = {x \in DOMAIN g.mem \ {End} : g.mem[x].used}
  <2>1. ASSUME NEW x \in DOMAIN given'
        PROVE  x \in DOMAIN g.mem \ {End} /\ g.mem[x].used
    BY <1>1, <1>3, <1>5
  <2>2. ASSUME NEW x \in DOMAIN g.mem \ {End}, g.mem[x].used
        PROVE  x \in DOMAIN given'
    BY <1>1, <1>3, <1>5, <2>2
  <2> QED
    BY <2>1, <2>2
<1>7. ASSUME NEW x \in DOMAIN given'
      PROVE  given'[x] \in Request /\ given'[x] <= Room(g, x)
  <2>1. x \in DOMAIN given /\ x # p /\ given'[x] = given[x]
    BY <1>5
  <2>2. g.mem[x].next = heap.mem[x].next
    BY <1>1, <1>3, <2>1
  <2> QED
    BY <1>1, <2>1, <2>2 DEF Room
<1>8. IsFiniteSet(DOMAIN given') /\ handed' = Cardinality(DOMAIN given')
  BY <1>1, <1>4, <1>5, FS_RemoveElement
<1>9. Serves(g, given')
  BY <1>5, <1>6, <1>7, <1>8 DEF Serves
<1> QED
  BY <1>3, <1>5, <1>8, <1>9 DEF g

(* rt_realloc in place: only the size of the block changes.                  *)
LEMMA ResizedOK ==
  ASSUME Sound(heap), Tidy(heap.mem, {}), Serves(heap, given),
         NEW p \in DOMAIN given, NEW n \in Request,
         \/ Shrinks(p, n) /\ heap' = Shrunk(heap, p, n)
         \/ Room(heap, p) = n /\ heap' = heap,
         given' = [given EXCEPT ![p] = n]
  PROVE  /\ Sound(heap') /\ Tidy(heap'.mem, {}) /\ Serves(heap', given')
         /\ DOMAIN given' = DOMAIN given /\ given'[p] = n
         /\ \A x \in DOMAIN given \ {p} : given'[x] = given[x]
<1> DEFINE g == heap'
<1>1. /\ given = [x \in DOMAIN given |-> given[x]] /\ IsFiniteSet(DOMAIN given)
      /\ DOMAIN given = {x \in DOMAIN heap.mem \ {End} : heap.mem[x].used}
      /\ \A x \in DOMAIN given : given[x] \in Request /\ given[x] <= Room(heap, x)
  BY DEF Serves
<1>2. p \in DOMAIN heap.mem \ {End} /\ heap.mem[p].used /\ n \in Nat \ {0} /\ p \in Nat
  BY <1>1, Sizes, ChainFacts DEF Sound
<1>3. /\ DOMAIN given' = DOMAIN given /\ given' = [x \in DOMAIN given' |-> given'[x]]
      /\ given'[p] = n /\ \A x \in DOMAIN given \ {p} : given'[x] = given[x]
  BY <1>1
<1>4. /\ Sound(g) /\ Tidy(g.mem, {}) /\ n <= Room(g, p)
      /\ DOMAIN given = {x \in DOMAIN g.mem \ {End} : g.mem[x].used}
      /\ \A x \in DOMAIN given \ {p} : g.mem[x].next = heap.mem[x].next
  <2>1. CASE Shrinks(p, n) /\ heap' = Shrunk(heap, p, n)
    <3>1. n + Header + MinSize < Room(heap, p)
      BY <2>1 DEF Shrinks
    <3>2. /\ Sound(g) /\ Tidy(g.mem, {})
          /\ \A x \in DOMAIN heap.mem : heap.mem[x].used =>
               x \in DOMAIN g.mem /\ g.mem[x].used
          /\ \A x \in DOMAIN g.mem : g.mem[x].used =>
               /\ x \in DOMAIN heap.mem /\ heap.mem[x].used
               /\ g.mem[x].next = IF x = p THEN p + Header + n ELSE heap.mem[x].next
      BY <1>2, <2>1, <3>1, ShrunkOK
    <3> HIDE DEF g
    <3>3. DOMAIN given = {x \in DOMAIN g.mem \ {End} : g.mem[x].used}
      BY <1>1, <3>2
    <3>4. p \in DOMAIN g.mem /\ g.mem[p].next = p + Header + n
      BY <3>2, <3>3
    <3>5. n <= Room(g, p)
      BY <1>2, <3>4, Sizes DEF Room
    <3>6. \A x \in DOMAIN given \ {p} : g.mem[x].next = heap.mem[x].next
      BY <3>2, <3>3
    <3> QED
      BY <3>2, <3>3, <3>5, <3>6
  <2>2. CASE Room(heap, p) = n /\ heap' = heap
    BY <1>1, <1>2, <2>2
  <2> QED
    BY <2>1, <2>2
<1> HIDE DEF g
<1>5. ASSUME NEW x \in DOMAIN given'
      PROVE  given'[x] \in Request /\ given'[x] <= Room(g, x)
  <2>1. CASE x = p
    BY <1>3, <1>4, <2>1
  <2>2. CASE x # p
    BY <1>1, <1>3, <1>4, <2>2 DEF Room
  <2> QED
    BY <2>1, <2>2
<1>6. Serves(g, given')
  BY <1>1, <1>3, <1>4, <1>5 DEF Serves
<1> QED
  BY <1>3, <1>4, <1>6 DEF g

-----------------------------------------------------------------------------
(* Every step keeps the invariant.                                           *)

\* a step of c that gives back its own block, or none
LEMMA JobsKept ==
  ASSUME JobsOK, NEW c \in Client, NEW j \in Job, job' = [job EXCEPT ![c] = j],
         j.at # "none" => j.old \in DOMAIN given' /\ j.size \in Request,
         \A d \in Client \ {c} : job[d].at # "none" =>
           job[d].old \in DOMAIN given' /\ (j.at # "none" => job[d].old # j.old)
  PROVE  JobsOK'
<1>1. /\ job' \in [Client -> Job] /\ job'[c] = j
      /\ \A d \in Client \ {c} : job'[d] = job[d]
  BY DEF JobsOK
<1>2. ASSUME NEW d \in Client, job'[d].at # "none"
      PROVE  job'[d].old \in DOMAIN given' /\ job'[d].size \in Request
  <2>1. CASE d = c
    BY <1>1, <1>2, <2>1
  <2>2. CASE d # c
    BY <1>1, <1>2, <2>2 DEF JobsOK
  <2> QED
    BY <2>1, <2>2
<1>3. ASSUME NEW d \in Client, NEW b \in Client, d # b, job'[d].at # "none", job'[b].at # "none"
      PROVE  job'[d].old # job'[b].old
  <2>1. CASE d = c
    BY <1>1, <1>3, <2>1
  <2>2. CASE b = c
    BY <1>1, <1>3, <2>2
  <2>3. CASE d # c /\ b # c
    BY <1>1, <1>3, <2>3 DEF JobsOK
  <2> QED
    BY <2>1, <2>2, <2>3
<1> QED
  BY <1>1, <1>2, <1>3 DEF JobsOK

LEMMA JobsStay ==
  ASSUME JobsOK, UNCHANGED job,
         \A d \in Client : job[d].at # "none" => job[d].old \in DOMAIN given'
  PROVE  JobsOK'
  BY DEF JobsOK

LEMMA HeapStepInv == HeapInv /\ [HeapNext]_heapVars => HeapInv'
<1> SUFFICES ASSUME HeapInv, [HeapNext]_heapVars PROVE HeapInv'
  OBVIOUS
<1>1. /\ Sound(heap) /\ Tidy(heap.mem, {}) /\ Serves(heap, given)
      /\ handed = Cardinality(DOMAIN given) /\ JobsOK
  BY DEF HeapInv
<1>2. /\ DOMAIN given \subseteq 0 .. End /\ DOMAIN heap.mem \subseteq 0 .. End
      /\ \A d \in Client : job[d] \in Job
      /\ \A d \in Client : job[d].at # "none" =>
           job[d].old \in DOMAIN given /\ job[d].size \in Request
  BY <1>1, ChainFacts DEF Sound, Serves, JobsOK
<1>3. /\ Request \subseteq Nat /\ NoJob \in Job /\ NoJob.at = "none" /\ 0 \in 0 .. End
  BY Sizes DEF NoJob, Job
<1>4. ASSUME NEW c \in Client, NEW n \in Request, Malloc(c, n)
      PROVE  HeapInv'
  <2>1. PICK p \in DOMAIN heap.mem : Allocates(p, n)
    BY <1>4 DEF Malloc
  <2>2. /\ Sound(heap') /\ Tidy(heap'.mem, {}) /\ Serves(heap', given')
        /\ handed' = Cardinality(DOMAIN given') /\ DOMAIN given' = DOMAIN given \cup {p}
    BY <1>1, <2>1, AllocatesOK
  <2>3. JobsOK'
    <3>1. UNCHANGED job
      BY <1>4 DEF Malloc
    <3> QED
      BY <1>1, <1>2, <2>2, <3>1, JobsStay
  <2> QED
    BY <2>2, <2>3 DEF HeapInv
<1>5. ASSUME NEW c \in Client, NEW p \in DOMAIN given, Free(c, p)
      PROVE  HeapInv'
  <2>1. /\ heap' = Freed(heap, p) /\ GivesBack(p) /\ UNCHANGED job
        /\ \A d \in Client : job[d].at # "none" => job[d].old # p
    BY <1>5 DEF Free, Callable, Busy
  <2>2. /\ Sound(heap') /\ Tidy(heap'.mem, {}) /\ Serves(heap', given')
        /\ handed' = Cardinality(DOMAIN given') /\ DOMAIN given' = DOMAIN given \ {p}
    BY <1>1, <2>1, GivesBackOK
  <2>3. JobsOK'
    BY <1>1, <1>2, <2>1, <2>2, JobsStay
  <2> QED
    BY <2>2, <2>3 DEF HeapInv
<1>6. ASSUME NEW c \in Client, NEW p \in DOMAIN given, NEW n \in Request,
             ReallocShrink(c, p, n) \/ ReallocSame(c, p, n)
      PROVE  HeapInv'
  <2>1. /\ \/ Shrinks(p, n) /\ heap' = Shrunk(heap, p, n)
           \/ Room(heap, p) = n /\ heap' = heap
        /\ given' = [given EXCEPT ![p] = n] /\ UNCHANGED <<handed, job>>
    BY <1>6 DEF ReallocShrink, ReallocSame
  <2>2. /\ Sound(heap') /\ Tidy(heap'.mem, {}) /\ Serves(heap', given')
        /\ DOMAIN given' = DOMAIN given
    BY <1>1, <2>1, ResizedOK
  <2>3. JobsOK'
    BY <1>1, <1>2, <2>1, <2>2, JobsStay
  <2> QED
    BY <1>1, <2>1, <2>2, <2>3 DEF HeapInv
<1>7. ASSUME NEW c \in Client, NEW p \in DOMAIN given, NEW n \in Request, ReallocMove(c, p, n)
      PROVE  HeapInv'
  <2> DEFINE j == [at |-> "allocate", old |-> p, new |-> 0, size |-> n]
  <2>1. /\ job' = [job EXCEPT ![c] = j] /\ UNCHANGED <<heap, given, handed>>
        /\ \A d \in Client : job[d].at # "none" => job[d].old # p
    BY <1>7 DEF ReallocMove, Callable, Busy
  <2>3. j \in Job /\ j.old = p /\ j.size = n
    BY <1>2, <1>3 DEF Job
  <2> HIDE DEF j
  <2>4. JobsOK'
    BY <1>1, <1>2, <2>1, <2>3, JobsKept
  <2> QED
    BY <1>1, <2>1, <2>4 DEF HeapInv
<1>8. ASSUME NEW c \in Client, MoveAllocate(c)
      PROVE  HeapInv'
  <2>1. job[c].at = "allocate" /\ job[c] \in Job
        /\ job[c].old \in DOMAIN given /\ job[c].size \in Request
    BY <1>2, <1>8 DEF MoveAllocate
  <2>2. ASSUME NEW p \in DOMAIN heap.mem, Allocates(p, job[c].size),
               job' = [job EXCEPT ![c].at = "release", ![c].new = p]
        PROVE  HeapInv'
    <3> DEFINE j == [job[c] EXCEPT !.at = "release", !.new = p]
    <3>1. job' = [job EXCEPT ![c] = j]
      BY <2>2
    <3>2. j \in Job /\ j.old = job[c].old /\ j.size = job[c].size
      BY <1>2, <2>1 DEF Job
    <3> HIDE DEF j
    <3>3. /\ Sound(heap') /\ Tidy(heap'.mem, {}) /\ Serves(heap', given')
          /\ handed' = Cardinality(DOMAIN given') /\ DOMAIN given' = DOMAIN given \cup {p}
      BY <1>1, <2>1, <2>2, AllocatesOK
    <3>4. \A d \in Client \ {c} : job[d].at # "none" => job[d].old # job[c].old
      BY <1>1, <2>1 DEF JobsOK
    <3>5. \A d \in Client \ {c} : job[d].at # "none" => job[d].old \in DOMAIN given' /\ job[d].old # j.old
      BY <1>2, <3>2, <3>3, <3>4
    <3>6. j.old \in DOMAIN given' /\ j.size \in Request
      BY <2>1, <3>2, <3>3
    <3>7. JobsOK'
      BY <1>1, <3>1, <3>2, <3>5, <3>6, JobsKept
    <3> QED
      BY <3>3, <3>7 DEF HeapInv
  <2>3. ASSUME job' = [job EXCEPT ![c] = NoJob], UNCHANGED <<heap, given, handed>>
        PROVE  HeapInv'
    <3>1. JobsOK'
      BY <1>1, <1>2, <1>3, <2>3, JobsKept
    <3> QED
      BY <1>1, <2>3, <3>1 DEF HeapInv
  <2> QED
    BY <1>8, <2>2, <2>3 DEF MoveAllocate
<1>9. ASSUME NEW c \in Client, MoveRelease(c)
      PROVE  HeapInv'
  <2>1. /\ job[c].at = "release" /\ heap' = Freed(heap, job[c].old) /\ GivesBack(job[c].old)
        /\ job' = [job EXCEPT ![c] = NoJob]
    BY <1>9 DEF MoveRelease
  <2>2. job[c].old \in DOMAIN given
    BY <1>2, <2>1
  <2>3. /\ Sound(heap') /\ Tidy(heap'.mem, {}) /\ Serves(heap', given')
        /\ handed' = Cardinality(DOMAIN given')
        /\ DOMAIN given' = DOMAIN given \ {job[c].old}
    BY <1>1, <2>1, <2>2, GivesBackOK
  <2>4. \A d \in Client \ {c} : job[d].at # "none" => job[d].old # job[c].old
    BY <1>1, <2>1 DEF JobsOK
  <2>5. JobsOK'
    BY <1>1, <1>2, <1>3, <2>1, <2>3, <2>4, JobsKept
  <2> QED
    BY <2>3, <2>5 DEF HeapInv
<1>10. CASE UNCHANGED heapVars
  BY <1>1, <1>10 DEF HeapInv, JobsOK, heapVars
<1> QED
  BY <1>4, <1>5, <1>6, <1>7, <1>8, <1>9, <1>10 DEF HeapNext

(* The chain is sound, the used blocks are the ones clients have, and        *)
(* used_mem is what they take, after every call of rt_malloc, rt_free and    *)
(* rt_realloc of any number of threads.                                      *)
THEOREM HeapInvariant == HeapSpec => []HeapInv
<1>1. HeapInit => HeapInv
  BY HeapInitInv
<1>2. HeapInv /\ [HeapNext]_heapVars => HeapInv'
  BY HeapStepInv
<1> QED
  BY <1>1, <1>2, PTL DEF HeapSpec

LEMMA InvIsSound == HeapInv => ChainSound
<1> SUFFICES ASSUME HeapInv PROVE ChainSound
  OBVIOUS
<1> DEFINE m == heap.mem
<1>1. /\ Chain(m) /\ Hint(heap) /\ Tidy(m, {}) /\ Serves(heap, given)
      /\ handed = Cardinality(DOMAIN given) /\ JobsOK
  BY DEF HeapInv, Sound
<1>2. PICK f : Counted(m, f, heap.used_mem)
  BY DEF HeapInv, Sound
<1>3. heap.used_mem \in 0 .. End
  <2>1. f \in [DOMAIN m -> Int] /\ f[0] = 0 /\ f[End] = heap.used_mem
        /\ \A p, q \in DOMAIN m : p <= q => 0 <= f[q] - f[p] /\ f[q] - f[p] <= q - p
    BY <1>2 DEF Counted
  <2>2. 0 \in DOMAIN m /\ End \in DOMAIN m /\ 0 <= End /\ End \in Nat
    BY <1>1, Sizes, ChainFacts
  <2>3. 0 <= f[End] - f[0] /\ f[End] - f[0] <= End - 0
    BY <2>1, <2>2
  <2> QED
    BY <2>1, <2>2, <2>3
<1>4. HeapTypeOK
  <2>1. DOMAIN m \subseteq 0 .. End /\ (\A p \in DOMAIN m : m[p] \in BlockState)
    BY <1>1 DEF Chain
  <2>2. heap.lfree \in 0 .. End
    BY <1>1, <2>1 DEF Hint
  <2>3. DOMAIN given \subseteq DOMAIN m \ {End} /\ (\A p \in DOMAIN given : given[p] \in Request)
    BY <1>1 DEF Serves
  <2>4. handed \in Nat
    BY <1>1, FS_CardinalityType DEF Serves
  <2> QED
    BY <1>1, <1>3, <2>1, <2>2, <2>3, <2>4 DEF HeapTypeOK, JobsOK
<1>5. /\ {0, End} \subseteq DOMAIN m /\ m[0].prev = 0 /\ m[End].used
  BY <1>1, ChainFacts
<1>6. ASSUME NEW p \in DOMAIN m \ {End}
      PROVE  LET n == m[p].next IN
             /\ n \in DOMAIN m /\ p + Header < n
             /\ \A q \in DOMAIN m : ~(p < q /\ q < n)
             /\ n # End => m[n].prev = p
             /\ m[p].used \/ m[n].used
  <2>1. /\ m[p].next \in DOMAIN m /\ p + Header < m[p].next
        /\ m[p].next # End => m[m[p].next].prev = p
        /\ DOMAIN m \subseteq Nat
    BY <1>1, ChainFacts
  <2>2. \A q \in DOMAIN m : q <= p \/ m[p].next <= q
    BY <1>1, ChainFacts
  <2>3. m[p].used \/ m[m[p].next].used
    BY <1>1 DEF Tidy
  <2>4. \A q \in DOMAIN m : ~(p < q /\ q < m[p].next)
    BY <2>1, <2>2
  <2> QED
    BY <2>1, <2>3, <2>4
<1>7. heap.lfree \in DOMAIN m /\ (heap.lfree = End \/ ~m[heap.lfree].used)
  BY <1>1 DEF Hint
<1> QED
  BY <1>4, <1>5, <1>6, <1>7 DEF ChainSound

(* A search of rt_malloc never follows a header that is not one, and free    *)
(* memory is never in two pieces side by side.                               *)
THEOREM ChainStaysSound == HeapSpec => []ChainSound
  BY HeapInvariant, InvIsSound, PTL

-----------------------------------------------------------------------------
(* used_mem is the sum of what the used blocks take.                         *)

\* where the chain comes from to the block p
LEMMA BlockBefore ==
  ASSUME NEW m, Chain(m), NEW p \in DOMAIN m, p # 0
  PROVE  \E q \in DOMAIN m \ {End} : m[q].next = p /\ q < p
<1> DEFINE B == {i \in Nat : p - i \in DOMAIN m /\ i > 0}
<1>1. /\ DOMAIN m \subseteq Nat /\ 0 \in DOMAIN m /\ DOMAIN m \subseteq 0 .. End
      /\ \A q \in DOMAIN m \ {End} : m[q].next \in DOMAIN m /\ q < m[q].next
      /\ \A q \in DOMAIN m \ {End} : \A y \in DOMAIN m : y <= q \/ m[q].next <= y
  BY ChainFacts
<1>2. p \in B /\ B \in SUBSET Nat
  BY <1>1
<1>3. PICK i \in B : \A j \in B : i <= j
  <2> HIDE DEF B
  <2> QED
    BY <1>2, LeastExists
<1> DEFINE q == p - i
<1>4. q \in DOMAIN m /\ q < p /\ q # End /\ q \in Nat /\ p \in Nat
  BY <1>1, <1>3, Sizes
<1>5. m[q].next <= p /\ m[q].next \in Nat /\ q < m[q].next /\ m[q].next \in DOMAIN m
  BY <1>1, <1>4
<1>6. ~(m[q].next < p)
  <2> SUFFICES ASSUME m[q].next < p PROVE FALSE
    OBVIOUS
  <2> DEFINE j == p - m[q].next
  <2>1. j \in Nat /\ j > 0 /\ p - j = m[q].next /\ j < i
    BY <1>3, <1>4, <1>5
  <2>2. j \in B
    BY <1>5, <2>1
  <2> QED
    BY <1>3, <2>1, <2>2
<1> QED
  BY <1>4, <1>5, <1>6

LEMMA UsedAddsUp ==
  ASSUME NEW h, NEW g, Sound(h), Serves(h, g)
  PROVE  h.used_mem = Total(h, g)
<1> DEFINE m == h.mem
           S == DOMAIN g
           w == [p \in S |-> m[p].next - p]
           E(f) == f = [s \in SUBSET S |-> IF s = {} THEN 0
                          ELSE m[Some(s)].next - Some(s) + f[s \ {Some(s)}]]
           F == CHOOSE f : E(f)
<1>1. Total(h, g) = F[S]
  BY DEF Total, MapThenSumSet, MapThenFoldSet, Some
<1>2. /\ IsFiniteSet(S) /\ S = {p \in DOMAIN m \ {End} : m[p].used}
      /\ S \subseteq DOMAIN m \ {End}
  BY DEF Serves
<1>3. /\ Chain(m) /\ DOMAIN m \subseteq Nat /\ 0 \in DOMAIN m /\ End \in DOMAIN m
      /\ \A p \in DOMAIN m : p <= End
      /\ \A p \in DOMAIN m \ {End} : m[p].next \in DOMAIN m /\ p < m[p].next
      /\ \A p \in DOMAIN m \ {End} : \A y \in DOMAIN m : y <= p \/ m[p].next <= y
  BY ChainFacts DEF Sound
<1>4. w \in [S -> Int]
  BY <1>2, <1>3
<1>5. \A f : Sums(S, w, f) <=> E(f)
  <2> SUFFICES ASSUME NEW f
               PROVE  [s \in SUBSET S |-> IF s = {} THEN 0 ELSE w[Some(s)] + f[s \ {Some(s)}]]
                        = [s \in SUBSET S |-> IF s = {} THEN 0
                             ELSE m[Some(s)].next - Some(s) + f[s \ {Some(s)}]]
    BY DEF Sums
  <2>1. ASSUME NEW s \in SUBSET S, s # {}
        PROVE  w[Some(s)] = m[Some(s)].next - Some(s)
    <3>1. Some(s) \in S
      BY <2>1, SomeIs
    <3> QED
      BY <3>1
  <2> HIDE DEF w, m, S
  <2> QED
    BY <2>1
<1>6. Sums(S, w, F)
  <2>1. \E f : E(f)
    <3>1. \E f : Sums(S, w, f)
      <4> HIDE DEF w, S, m, E, F
      <4> QED
        BY <1>2, <1>4, SumsExist
    <3> HIDE DEF w, S, m, E, F
    <3> QED
      BY <1>5, <3>1
  <2>2. E(F)
    BY <2>1
  <2> HIDE DEF F, E
  <2> QED
    BY <1>5, <2>2
<1> HIDE DEF F, E
<1>7. /\ F[{}] = 0
      /\ \A s \in SUBSET S : F[s] \in Int
      /\ \A s \in SUBSET S : \A y \in s : F[s] = w[y] + F[s \ {y}]
  <2> HIDE DEF w, S, m
  <2> QED
    BY <1>2, <1>4, <1>6, SumsAdd
<1>8. PICK k : Counted(m, k, h.used_mem)
  BY DEF Sound
<1>9. /\ k \in [DOMAIN m -> Int] /\ k[0] = 0 /\ k[End] = h.used_mem
      /\ \A p \in DOMAIN m \ {End} : k[m[p].next] = k[p] + (IF m[p].used THEN m[p].next - p ELSE 0)
  BY <1>8 DEF Counted
<1> DEFINE Below(p) == {x \in S : x < p}
           B == {p \in DOMAIN m : F[Below(p)] # k[p]}
<1>10. \A x \in S : w[x] = m[x].next - x
  OBVIOUS
<1> HIDE DEF m, w, S
<1>11. B = {}
  <2> SUFFICES ASSUME B # {} PROVE FALSE
    OBVIOUS
  <2>1. PICK p \in B : \A x \in B : p <= x
    <3>1. B \in SUBSET Nat
      BY <1>3
    <3> HIDE DEF B
    <3> QED
      BY <3>1, LeastExists
  <2>2. p \in DOMAIN m /\ F[Below(p)] # k[p]
    OBVIOUS
  <2>3. p # 0
    <3>1. Below(0) = {}
      BY <1>2, <1>3
    <3> HIDE DEF Below
    <3> QED
      BY <1>7, <1>9, <2>2, <3>1
  <2>4. PICK q \in DOMAIN m \ {End} : m[q].next = p /\ q < p
    BY <1>3, <2>2, <2>3, BlockBefore
  <2>5. F[Below(q)] = k[q]
    <3>1. q \notin B
      BY <1>3, <2>1, <2>4
    <3> HIDE DEF Below
    <3> QED
      BY <2>4, <3>1
  <2>6. k[p] = k[q] + (IF m[q].used THEN p - q ELSE 0)
    BY <1>9, <2>4
  <2>7. CASE m[q].used
    <3>1. q \in S
      BY <1>2, <2>7
    <3>2. q \in Below(p) /\ Below(p) \in SUBSET S /\ Below(p) \ {q} = Below(q)
      BY <1>2, <1>3, <2>2, <2>4, <3>1
    <3> HIDE DEF Below
    <3>3. F[Below(p)] = w[q] + F[Below(q)]
      BY <1>7, <3>2
    <3>4. w[q] = p - q
      BY <1>10, <2>4, <3>1
    <3>5. p - q \in Int /\ k[q] \in Int
      BY <1>3, <1>9, <2>2, <2>4
    <3> QED
      BY <2>2, <2>5, <2>6, <2>7, <3>3, <3>4, <3>5
  <2>8. CASE ~m[q].used
    <3>1. Below(p) = Below(q)
      BY <1>2, <1>3, <2>2, <2>4, <2>8
    <3>2. k[q] \in Int
      BY <1>9, <2>4
    <3> HIDE DEF Below
    <3> QED
      BY <2>2, <2>5, <2>6, <2>8, <3>1, <3>2
  <2> QED
    BY <2>7, <2>8
<1>12. Below(End) = S
  BY <1>2, <1>3
<1>13. F[S] = h.used_mem
  <2>1. End \notin B
    BY <1>11
  <2>2. F[Below(End)] = k[End]
    <3> HIDE DEF Below
    <3> QED
      BY <1>3, <2>1
  <2> HIDE DEF Below
  <2> QED
    BY <1>9, <1>12, <2>2
<1> QED
  BY <1>1, <1>13 DEF S

LEMMA InvIsUsedGiven == HeapInv => UsedIsGiven
<1> SUFFICES ASSUME HeapInv PROVE UsedIsGiven
  OBVIOUS
<1>1. Sound(heap) /\ Serves(heap, given)
  BY DEF HeapInv
<1>2. heap.used_mem = Total(heap, given)
  BY <1>1, UsedAddsUp
<1>3. /\ DOMAIN given = {p \in DOMAIN heap.mem \ {End} : heap.mem[p].used}
      /\ \A p \in DOMAIN given : given[p] <= Room(heap, p)
  BY <1>1 DEF Serves
<1> QED
  BY <1>2, <1>3 DEF UsedIsGiven

(* Nothing leaks and nothing is handed out twice: the used blocks are those  *)
(* of the clients, and used_mem is their sum, also while a reallocation has  *)
(* two blocks or has failed.                                                 *)
THEOREM NothingLeaks == HeapSpec => []UsedIsGiven
  BY HeapInvariant, InvIsUsedGiven, PTL

-----------------------------------------------------------------------------
(* The heap implements the abstract allocator.                               *)

LEMMA RegionsAre ==
  ASSUME NEW g, DOMAIN g \subseteq Nat
  PROVE  /\ DOMAIN RegionsOf(g) = {p + Header : p \in DOMAIN g}
         /\ RegionsOf(g) = [a \in DOMAIN RegionsOf(g) |-> RegionsOf(g)[a]]
         /\ \A p \in DOMAIN g : p + Header \in DOMAIN RegionsOf(g)
                                /\ RegionsOf(g)[p + Header] = g[p]
         /\ \A a \in DOMAIN RegionsOf(g) : \E p \in DOMAIN g :
              a = p + Header /\ RegionsOf(g)[a] = g[p]
<1> DEFINE R == RegionsOf(g)
           F(a) == g[a - Header]
<1>1. R = [a \in {p + Header : p \in DOMAIN g} |-> F(a)]
  BY DEF RegionsOf
<1>2. \A p \in DOMAIN g : F(p + Header) = g[p]
  <2> SUFFICES ASSUME NEW p \in DOMAIN g PROVE F(p + Header) = g[p]
    OBVIOUS
  <2>1. (p + Header) - Header = p
    BY Sizes
  <2> QED
    BY <2>1
<1> HIDE DEF F, R
<1>3. /\ DOMAIN R = {p + Header : p \in DOMAIN g} /\ R = [a \in DOMAIN R |-> R[a]]
      /\ \A a \in DOMAIN R : R[a] = F(a)
  BY <1>1
<1>4. \A p \in DOMAIN g : p + Header \in DOMAIN R /\ R[p + Header] = g[p]
  BY <1>2, <1>3
<1>5. \A a \in DOMAIN R : \E p \in DOMAIN g : a = p + Header /\ R[a] = g[p]
  BY <1>2, <1>3
<1> QED
  BY <1>3, <1>4, <1>5 DEF R

(* The regions are inside the heap and apart from each other.                *)
LEMMA RegionsApart ==
  ASSUME NEW h, NEW g, Sound(h), Serves(h, g), NEW p \in DOMAIN g
  PROVE  /\ p \in Nat /\ p + Header \in 0 .. (MemSize + Header) - 1
         /\ Abstract!Cells(p + Header, g[p]) \subseteq 0 .. (MemSize + Header) - 1
         /\ \A x \in DOMAIN g \ {p} :
              Abstract!Cells(x + Header, g[x]) \cap Abstract!Cells(p + Header, g[p]) = {}
<1>1. /\ DOMAIN h.mem \subseteq 0 .. End
      /\ \A x \in DOMAIN h.mem \ {End} :
           h.mem[x].next \in DOMAIN h.mem /\ x + Header < h.mem[x].next
      /\ \A x \in DOMAIN h.mem \ {End} : \A y \in DOMAIN h.mem : y <= x \/ h.mem[x].next <= y
  BY ChainFacts DEF Sound
<1>2. \A x \in DOMAIN g : /\ x \in DOMAIN h.mem \ {End} /\ g[x] \in Nat \ {0}
                          /\ g[x] <= h.mem[x].next - (x + Header)
  BY Sizes DEF Serves, Room
<1>3. ASSUME NEW x \in DOMAIN g
      PROVE  /\ x \in Nat /\ h.mem[x].next \in Nat /\ g[x] \in Nat \ {0}
             /\ x + Header + g[x] <= h.mem[x].next /\ h.mem[x].next <= End
             /\ x \in DOMAIN h.mem \ {End} /\ h.mem[x].next \in DOMAIN h.mem
  BY <1>1, <1>2, Sizes
<1>4. \A x \in DOMAIN g : Abstract!Cells(x + Header, g[x]) = x + Header .. x + Header + g[x] - 1
  BY DEF Abstract!Cells
<1>5. p \in Nat /\ p + Header \in 0 .. (MemSize + Header) - 1
      /\ Abstract!Cells(p + Header, g[p]) \subseteq 0 .. (MemSize + Header) - 1
  <2>1. /\ p \in Nat /\ g[p] \in Nat \ {0} /\ h.mem[p].next \in Nat
        /\ (p + Header) + g[p] <= MemSize + Header
        /\ MemSize \in Nat /\ Header \in Nat
    BY <1>3, Sizes DEF End
  <2>2. Abstract!Cells(p + Header, g[p]) = p + Header .. p + Header + g[p] - 1
    BY <1>4
  <2>3. ASSUME NEW a, NEW n, NEW b, a \in Nat, n \in Nat \ {0}, b \in Nat, a + n <= b
        PROVE  a \in 0 .. b - 1 /\ (a .. a + n - 1) \subseteq 0 .. b - 1
    BY <2>3
  <2>4. p + Header \in Nat /\ MemSize + Header \in Nat
    BY <2>1
  <2> QED
    BY <2>1, <2>2, <2>3, <2>4
<1>6. ASSUME NEW x \in DOMAIN g \ {p}
      PROVE  Abstract!Cells(x + Header, g[x]) \cap Abstract!Cells(p + Header, g[p]) = {}
  <2>1. /\ x \in Nat /\ h.mem[x].next \in Nat /\ g[x] \in Nat
        /\ x + Header + g[x] <= h.mem[x].next
        /\ p \in Nat /\ h.mem[p].next \in Nat /\ g[p] \in Nat
        /\ p + Header + g[p] <= h.mem[p].next
    BY <1>3
  <2>2. (p <= x \/ h.mem[x].next <= p) /\ (x <= p \/ h.mem[p].next <= x)
    BY <1>1, <1>3
  <2>3. x + Header + g[x] <= p \/ p + Header + g[p] <= x
    BY <2>1, <2>2, Sizes
  <2>4. \A i \in x + Header .. x + Header + g[x] - 1 : i \notin p + Header .. p + Header + g[p] - 1
    BY <2>1, <2>3, Sizes
  <2> QED
    BY <1>4, <2>4
<1> QED
  BY <1>5, <1>6

LEMMA AllocatesHands ==
  ASSUME HeapInv, NEW p, NEW n \in Request, Allocates(p, n)
  PROVE  Abstract!AllocatorNext
<1>1. /\ Sound(heap) /\ Tidy(heap.mem, {}) /\ Serves(heap, given)
      /\ handed = Cardinality(DOMAIN given)
  BY DEF HeapInv
<1>2. /\ Sound(heap') /\ Serves(heap', given')
      /\ p \notin DOMAIN given /\ DOMAIN given' = DOMAIN given \cup {p}
      /\ given'[p] = n /\ \A x \in DOMAIN given : given'[x] = given[x]
  BY <1>1, AllocatesOK
<1>3. handed' = handed + 1
  BY DEF Allocates, Gets
<1>4. /\ p \in Nat /\ p + Header \in 0 .. (MemSize + Header) - 1
      /\ Abstract!Cells(p + Header, given'[p]) \subseteq 0 .. (MemSize + Header) - 1
      /\ \A x \in DOMAIN given' \ {p} :
           Abstract!Cells(x + Header, given'[x]) \cap Abstract!Cells(p + Header, given'[p]) = {}
  BY <1>2, RegionsApart
<1>5. DOMAIN given \subseteq Nat /\ DOMAIN given' \subseteq Nat
  BY <1>1, <1>2, ChainFacts DEF Sound, Serves
<1> DEFINE R == RegionsOf(given)
           S == RegionsOf(given')
           a == p + Header
<1>6. /\ DOMAIN R = {x + Header : x \in DOMAIN given}
      /\ \A x \in DOMAIN given : x + Header \in DOMAIN R /\ R[x + Header] = given[x]
      /\ \A b \in DOMAIN R : \E x \in DOMAIN given : b = x + Header /\ R[b] = given[x]
  BY <1>5, RegionsAre
<1>7. /\ DOMAIN S = {x + Header : x \in DOMAIN given'} /\ S = [b \in DOMAIN S |-> S[b]]
      /\ \A x \in DOMAIN given' : x + Header \in DOMAIN S /\ S[x + Header] = given'[x]
      /\ \A b \in DOMAIN S : \E x \in DOMAIN given' : b = x + Header /\ S[b] = given'[x]
  BY <1>5, RegionsAre
<1> HIDE DEF R, S
<1>8. a \notin DOMAIN R
  <2> SUFFICES ASSUME NEW x \in DOMAIN given, a = x + Header PROVE FALSE
    BY <1>6
  <2>1. x = p
    BY <1>4, <1>5, Sizes
  <2> QED
    BY <1>2, <2>1
<1>9. \A b \in DOMAIN R : Abstract!Cells(b, R[b]) \cap Abstract!Cells(a, n) = {}
  <2> SUFFICES ASSUME NEW b \in DOMAIN R
               PROVE  Abstract!Cells(b, R[b]) \cap Abstract!Cells(a, n) = {}
    OBVIOUS
  <2>1. PICK x \in DOMAIN given : b = x + Header /\ R[b] = given[x]
    BY <1>6
  <2>2. x \in DOMAIN given' \ {p} /\ given'[x] = given[x]
    BY <1>2
  <2> QED
    BY <1>2, <1>4, <2>1, <2>2
<1>10. S = [b \in DOMAIN R \cup {a} |-> IF b = a THEN n ELSE R[b]]
  <2>1. DOMAIN S = DOMAIN R \cup {a}
    <3>1. ASSUME NEW b \in DOMAIN S PROVE b \in DOMAIN R \cup {a}
      BY <1>2, <1>6, <1>7
    <3>2. ASSUME NEW b \in DOMAIN R \cup {a} PROVE b \in DOMAIN S
      <4>1. CASE b = a
        BY <1>2, <1>7, <4>1
      <4>2. CASE b # a
        BY <1>2, <1>6, <1>7, <4>2
      <4> QED
        BY <4>1, <4>2
    <3> QED
      BY <3>1, <3>2
  <2>2. S[a] = n
    BY <1>2, <1>7
  <2>3. ASSUME NEW b \in DOMAIN R PROVE S[b] = R[b]
    <3>1. PICK x \in DOMAIN given : b = x + Header /\ R[b] = given[x]
      BY <1>6
    <3> QED
      BY <1>2, <1>7, <3>1
  <2>4. \A b \in DOMAIN R \cup {a} : S[b] = IF b = a THEN n ELSE R[b]
    BY <2>2, <2>3
  <2>5. S = [b \in DOMAIN R \cup {a} |-> S[b]]
    BY <1>7, <2>1
  <2> HIDE DEF a
  <2> QED
    BY <2>4, <2>5
<1>11. a \in 0 .. (MemSize + Header) - 1 /\ Abstract!Cells(a, n) \subseteq 0 .. (MemSize + Header) - 1
  BY <1>2, <1>4
<1> HIDE DEF a
<1>12. RegionsOf(given)' = S
  BY DEF RegionsOf, S
<1>13. Abstract!Hand(a, n)
  <2>1. Abstract!Fresh(a, n)
    BY <1>9, <1>11 DEF Abstract!Fresh, R
  <2>2. a \notin DOMAIN RegionsOf(given)
    BY <1>8 DEF R
  <2>3. RegionsOf(given)' = [b \in DOMAIN RegionsOf(given) \cup {a} |->
                              IF b = a THEN n ELSE RegionsOf(given)[b]]
    BY <1>10, <1>12 DEF R
  <2> QED
    BY <1>3, <2>1, <2>2, <2>3 DEF Abstract!Hand
<1> QED
  <2>1. \E b \in 0 .. (MemSize + Header) - 1, k \in Request :
          Abstract!Hand(b, k) \/ Abstract!Resize(b, k)
    BY <1>11, <1>13
  <2> QED
    BY <2>1 DEF Abstract!AllocatorNext

LEMMA ReleasesGiveBack ==
  ASSUME HeapInv, NEW p \in DOMAIN given, GivesBack(p)
  PROVE  Abstract!AllocatorNext
<1>1. DOMAIN given \subseteq Nat
  BY ChainFacts DEF HeapInv, Sound, Serves
<1>2. given' = [x \in DOMAIN given \ {p} |-> given[x]] /\ handed' = handed - 1
  BY DEF GivesBack
<1>3. DOMAIN given' = DOMAIN given \ {p} /\ (\A x \in DOMAIN given' : given'[x] = given[x])
  BY <1>2
<1> DEFINE R == RegionsOf(given)
           S == RegionsOf(given')
           a == p + Header
<1>4. /\ DOMAIN R = {x + Header : x \in DOMAIN given}
      /\ \A x \in DOMAIN given : x + Header \in DOMAIN R /\ R[x + Header] = given[x]
      /\ \A b \in DOMAIN R : \E x \in DOMAIN given : b = x + Header /\ R[b] = given[x]
  BY <1>1, RegionsAre
<1>5. /\ DOMAIN S = {x + Header : x \in DOMAIN given'} /\ S = [b \in DOMAIN S |-> S[b]]
      /\ \A x \in DOMAIN given' : x + Header \in DOMAIN S /\ S[x + Header] = given'[x]
      /\ \A b \in DOMAIN S : \E x \in DOMAIN given' : b = x + Header /\ S[b] = given'[x]
  BY <1>1, <1>3, RegionsAre
<1> HIDE DEF R, S
<1>6. DOMAIN S = DOMAIN R \ {a}
  <2>1. ASSUME NEW b \in DOMAIN S PROVE b \in DOMAIN R \ {a}
    <3>1. PICK x \in DOMAIN given' : b = x + Header
      BY <1>5
    <3>2. x # p /\ x \in Nat /\ p \in Nat /\ x \in DOMAIN given
      BY <1>1, <1>3
    <3>3. b # a
      BY <3>1, <3>2, Sizes
    <3> QED
      BY <1>4, <3>1, <3>2, <3>3
  <2>2. ASSUME NEW b \in DOMAIN R \ {a} PROVE b \in DOMAIN S
    <3>1. PICK x \in DOMAIN given : b = x + Header
      BY <1>4
    <3>2. x # p
      BY <2>2, <3>1
    <3> QED
      BY <1>3, <1>5, <3>1, <3>2
  <2> QED
    BY <2>1, <2>2
<1>7. \A b \in DOMAIN S : S[b] = R[b]
  <2> SUFFICES ASSUME NEW b \in DOMAIN S PROVE S[b] = R[b]
    OBVIOUS
  <2>1. PICK x \in DOMAIN given' : b = x + Header /\ S[b] = given'[x]
    BY <1>5
  <2>2. x \in DOMAIN given /\ given'[x] = given[x]
    BY <1>3
  <2> QED
    BY <1>4, <2>1, <2>2
<1>8. S = [b \in DOMAIN R \ {a} |-> R[b]]
  BY <1>5, <1>6, <1>7
<1>9. a \in DOMAIN R
  BY <1>4
<1> HIDE DEF a
<1>10. RegionsOf(given)' = S
  BY DEF RegionsOf, S
<1>11. Abstract!GiveBack(a)
  BY <1>2, <1>8, <1>9, <1>10 DEF Abstract!GiveBack, R
<1> QED
  BY <1>9, <1>11 DEF Abstract!AllocatorNext, R

LEMMA ResizesResize ==
  ASSUME HeapInv, NEW p \in DOMAIN given, NEW n \in Request,
         \/ Shrinks(p, n) /\ heap' = Shrunk(heap, p, n)
         \/ Room(heap, p) = n /\ heap' = heap,
         given' = [given EXCEPT ![p] = n], UNCHANGED handed
  PROVE  Abstract!AllocatorNext
<1>1. /\ Sound(heap) /\ Tidy(heap.mem, {}) /\ Serves(heap, given)
  BY DEF HeapInv
<1>2. /\ Sound(heap') /\ Serves(heap', given')
      /\ DOMAIN given' = DOMAIN given /\ given'[p] = n
      /\ \A x \in DOMAIN given \ {p} : given'[x] = given[x]
  BY <1>1, ResizedOK
<1>3. /\ p \in Nat /\ p + Header \in 0 .. (MemSize + Header) - 1
      /\ Abstract!Cells(p + Header, given'[p]) \subseteq 0 .. (MemSize + Header) - 1
      /\ \A x \in DOMAIN given' \ {p} :
           Abstract!Cells(x + Header, given'[x]) \cap Abstract!Cells(p + Header, given'[p]) = {}
  BY <1>2, RegionsApart
<1>4. DOMAIN given \subseteq Nat
  BY <1>1, ChainFacts DEF Sound, Serves
<1> DEFINE R == RegionsOf(given)
           S == RegionsOf(given')
           a == p + Header
<1>5. /\ DOMAIN R = {x + Header : x \in DOMAIN given}
      /\ R = [b \in DOMAIN R |-> R[b]]
      /\ \A x \in DOMAIN given : x + Header \in DOMAIN R /\ R[x + Header] = given[x]
      /\ \A b \in DOMAIN R : \E x \in DOMAIN given : b = x + Header /\ R[b] = given[x]
  BY <1>4, RegionsAre
<1>6. /\ DOMAIN S = {x + Header : x \in DOMAIN given} /\ S = [b \in DOMAIN S |-> S[b]]
      /\ \A x \in DOMAIN given : x + Header \in DOMAIN S /\ S[x + Header] = given'[x]
  <2>1. DOMAIN given' \subseteq Nat
    BY <1>2, <1>4
  <2>2. /\ DOMAIN S = {x + Header : x \in DOMAIN given'} /\ S = [b \in DOMAIN S |-> S[b]]
        /\ \A x \in DOMAIN given' : x + Header \in DOMAIN S /\ S[x + Header] = given'[x]
    BY <2>1, RegionsAre
  <2> HIDE DEF S
  <2> QED
    BY <1>2, <2>2
<1> HIDE DEF R, S
<1>7. a \in DOMAIN R /\ S[a] = n /\ DOMAIN S = DOMAIN R
  BY <1>2, <1>5, <1>6
<1>8. ASSUME NEW b \in DOMAIN R \ {a}
      PROVE  S[b] = R[b] /\ Abstract!Cells(b, R[b]) \cap Abstract!Cells(a, n) = {}
  <2>1. PICK x \in DOMAIN given : b = x + Header /\ R[b] = given[x]
    BY <1>5
  <2>2. x # p
    BY <1>8, <2>1
  <2>3. given'[x] = given[x] /\ S[x + Header] = given'[x]
    BY <1>2, <1>6, <2>2
  <2>4. Abstract!Cells(x + Header, given'[x]) \cap Abstract!Cells(p + Header, given'[p]) = {}
    BY <1>2, <1>3, <2>2
  <2> QED
    BY <1>2, <2>1, <2>3, <2>4
<1>9. S = [R EXCEPT ![a] = n]
  <2> HIDE DEF a
  <2> QED
    BY <1>5, <1>6, <1>7, <1>8
<1>10. a \in 0 .. (MemSize + Header) - 1 /\ Abstract!Cells(a, n) \subseteq 0 .. (MemSize + Header) - 1
  BY <1>2, <1>3
<1> HIDE DEF a
<1>11. RegionsOf(given)' = S
  BY DEF RegionsOf, S
<1>12. Abstract!Resize(a, n)
  <2>1. a \in DOMAIN RegionsOf(given)
    BY <1>7 DEF R
  <2>2. RegionsOf(given)' = [RegionsOf(given) EXCEPT ![a] = n]
    BY <1>9, <1>11 DEF R
  <2>3. \A b \in DOMAIN RegionsOf(given) \ {a} :
          Abstract!Cells(b, RegionsOf(given)[b]) \cap Abstract!Cells(a, n) = {}
    BY <1>8 DEF R
  <2> QED
    BY <1>10, <2>1, <2>2, <2>3 DEF Abstract!Resize
<1> QED
  <2>1. \E b \in 0 .. (MemSize + Header) - 1, k \in Request :
          Abstract!Hand(b, k) \/ Abstract!Resize(b, k)
    BY <1>10, <1>12
  <2> QED
    BY <2>1 DEF Abstract!AllocatorNext

LEMMA HeapStepIsAllocators ==
  HeapInv /\ [HeapNext]_heapVars => [Abstract!AllocatorNext]_(Abstract!allocatorVars)
<1> SUFFICES ASSUME HeapInv, [HeapNext]_heapVars
             PROVE  Abstract!AllocatorNext \/ UNCHANGED <<given, handed>>
  BY DEF Abstract!allocatorVars
<1>1. \A c \in Client : job[c].at # "none" =>
        job[c].old \in DOMAIN given /\ job[c].size \in Request
  BY DEF HeapInv, JobsOK
<1>2. ASSUME NEW c \in Client, NEW n \in Request, Malloc(c, n)
      PROVE  Abstract!AllocatorNext
  BY <1>2, AllocatesHands DEF Malloc
<1>3. ASSUME NEW c \in Client, NEW p \in DOMAIN given, Free(c, p)
      PROVE  Abstract!AllocatorNext
  BY <1>3, ReleasesGiveBack DEF Free
<1>4. ASSUME NEW c \in Client, NEW p \in DOMAIN given, NEW n \in Request,
             ReallocShrink(c, p, n) \/ ReallocSame(c, p, n)
      PROVE  Abstract!AllocatorNext
  <2>1. /\ \/ Shrinks(p, n) /\ heap' = Shrunk(heap, p, n)
           \/ Room(heap, p) = n /\ heap' = heap
        /\ given' = [given EXCEPT ![p] = n] /\ UNCHANGED handed
    BY <1>4 DEF ReallocShrink, ReallocSame
  <2> QED
    BY <2>1, ResizesResize
<1>5. ASSUME NEW c \in Client, NEW p \in DOMAIN given, NEW n \in Request, ReallocMove(c, p, n)
      PROVE  UNCHANGED <<given, handed>>
  BY <1>5 DEF ReallocMove
<1>6. ASSUME NEW c \in Client, MoveAllocate(c)
      PROVE  Abstract!AllocatorNext \/ UNCHANGED <<given, handed>>
  <2>1. job[c].size \in Request
    BY <1>1, <1>6 DEF MoveAllocate
  <2> QED
    BY <1>6, <2>1, AllocatesHands DEF MoveAllocate
<1>7. ASSUME NEW c \in Client, MoveRelease(c)
      PROVE  Abstract!AllocatorNext
  <2>1. job[c].old \in DOMAIN given
    BY <1>1, <1>7 DEF MoveRelease
  <2> QED
    BY <1>7, <2>1, ReleasesGiveBack DEF MoveRelease
<1>8. CASE UNCHANGED heapVars
  BY <1>8 DEF heapVars
<1> QED
  BY <1>2, <1>3, <1>4, <1>5, <1>6, <1>7, <1>8 DEF HeapNext

LEMMA HeapInitIsAllocators == HeapInit => Abstract!AllocatorInit
<1> SUFFICES ASSUME HeapInit PROVE RegionsOf(given) = [a \in {} |-> 0] /\ handed = 0
  BY DEF Abstract!AllocatorInit
<1>1. given = [p \in {} |-> 0] /\ handed = 0
  BY DEF HeapInit
<1>2. DOMAIN given = {}
  BY <1>1
<1>3. DOMAIN RegionsOf(given) = {} /\ RegionsOf(given) = [a \in DOMAIN RegionsOf(given) |-> RegionsOf(given)[a]]
  BY <1>2, RegionsAre
<1> QED
  BY <1>1, <1>3

(* No two clients ever share memory, whatever the interleaving of their      *)
(* allocations, releases and moving reallocations.                           *)
THEOREM HeapIsAllocator == HeapSpec => ImplementsAllocator
<1>1. HeapInit => Abstract!AllocatorInit
  BY HeapInitIsAllocators
<1>2. HeapInv /\ [HeapNext]_heapVars => [Abstract!AllocatorNext]_(Abstract!allocatorVars)
  BY HeapStepIsAllocators
<1> QED
  BY <1>1, <1>2, HeapInvariant, PTL DEF HeapSpec, ImplementsAllocator, Abstract!AllocatorSpec

=============================================================================

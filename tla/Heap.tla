-------------------------------- MODULE Heap --------------------------------
(***************************************************************************)
(* The small-memory manager of RT-Thread (src/rt-thread/src/mem.c): one    *)
(* array cut into blocks, each with a header that says where the next and  *)
(* the previous one begin, and a hint, lfree, at which the search starts.  *)
(*                                                                         *)
(* Every change is made under heap_sem, so one action is one critical      *)
(* section; a reallocation that moves a block has three of them.  Offsets  *)
(* and sizes are in units of RT_ALIGN_SIZE bytes.                          *)
(***************************************************************************)
EXTENDS Integers, FiniteSetsExt

CONSTANTS
  Client,     \* the threads that allocate memory
  MemSize,    \* mem_size_aligned
  Header,     \* SIZEOF_STRUCT_MEM
  MinSize,    \* MIN_SIZE_ALIGNED
  Request     \* the sizes clients ask for

ASSUME HeapAssumption ==
  /\ MemSize \in Nat /\ Header \in Nat \ {0} /\ MinSize \in Nat \ {0}
  /\ MinSize <= MemSize
  /\ Request \subseteq Nat \ {0}

VARIABLES
  heap,    \* heap.mem[p]: the block that begins at p; heap.lfree, heap.used_mem
  given,   \* given[p]: the size a client asked for and got at p
  handed,  \* how many blocks clients have got and not given back
  job      \* job[c]: the unfinished rt_realloc of c

heapVars == <<heap, given, handed, job>>

\* heap_end, the header that ends the chain
End == MemSize + Header

BlockState == [next : 0 .. End, prev : 0 .. End, used : BOOLEAN]

NoJob == [at |-> "none", old |-> 0, new |-> 0, size |-> 0]

Job == [at : {"none", "allocate", "release"}, old : 0 .. End, new : 0 .. End, size : Nat]

HeapTypeOK ==
  /\ DOMAIN heap.mem \subseteq 0 .. End
  /\ \A p \in DOMAIN heap.mem : heap.mem[p] \in BlockState
  /\ heap.lfree \in 0 .. End /\ heap.used_mem \in 0 .. End
  /\ DOMAIN given \subseteq DOMAIN heap.mem \ {End}
  /\ \A p \in DOMAIN given : given[p] \in Request
  /\ handed \in Nat
  /\ job \in [Client -> Job]

\* rt_system_heap_init
HeapInit ==
  /\ heap = [ mem |-> [p \in {0, End} |-> [next |-> End, prev |-> p, used |-> p = End]],
              lfree |-> 0, used_mem |-> 0 ]
  /\ given = [p \in {} |-> 0] /\ handed = 0
  /\ job = [c \in Client |-> NoJob]

-----------------------------------------------------------------------------
(* The chain of blocks *)

Room(h, p) == h.mem[p].next - (p + Header)

Lowest(P) == CHOOSE p \in P : \A q \in P : p <= q

\* p keeps n; the rest is a new free block (heap_end's prev is not kept up)
Split(h, p, n) ==
  LET q == p + Header + n
      r == h.mem[p].next
  IN [h EXCEPT !.mem = [x \in DOMAIN h.mem \cup {q} |->
        CASE x = q -> [next |-> r, prev |-> p, used |-> FALSE]
          [] x = p -> [h.mem[p] EXCEPT !.next = q]
          [] x = r /\ r # End -> [h.mem[r] EXCEPT !.prev = q]
          [] OTHER -> h.mem[x]]]

Joined_lfreeStays(h, p, n) ==
  [h EXCEPT !.mem = [x \in DOMAIN h.mem \ {n} |->
     IF x = p THEN [h.mem[p] EXCEPT !.next = h.mem[n].next]
     ELSE IF x = h.mem[n].next THEN [h.mem[x] EXCEPT !.prev = p] ELSE h.mem[x]]]

\* the free block p takes in its free neighbour n; n's header is forgotten
Joined(h, p, n) ==
  LET r == h.mem[n].next IN
  [h EXCEPT
     !.lfree = IF @ = n THEN p ELSE @,
     !.mem = [x \in DOMAIN h.mem \ {n} |->
       CASE x = p -> [h.mem[p] EXCEPT !.next = r]
         [] x = r -> [h.mem[r] EXCEPT !.prev = p]
         [] OTHER -> h.mem[x]]]

PlugHoles_forwardOnly(h, p) ==
  LET n == h.mem[p].next IN
  IF n # p /\ ~h.mem[n].used /\ n # End THEN Joined(h, p, n) ELSE h

PlugHoles(h, p) ==
  LET n == h.mem[p].next
      f == IF n # p /\ ~h.mem[n].used /\ n # End THEN Joined(h, p, n) ELSE h
      b == f.mem[p].prev
  IN IF b # p /\ ~f.mem[b].used THEN Joined(f, b, p) ELSE f

-----------------------------------------------------------------------------
(* rt_malloc *)

Clamped(n) == IF n < MinSize THEN MinSize ELSE n

Fits_usedToo(h, n) ==
  {p \in DOMAIN h.mem : h.lfree <= p /\ p < MemSize - n /\ Room(h, p) >= n}

\* what the search from lfree would stop at (an exact fit at the end is missed)
Fits(h, n) ==
  {p \in DOMAIN h.mem : /\ h.lfree <= p /\ p < MemSize - n
                        /\ ~h.mem[p].used /\ Room(h, p) >= n}

FirstFree(h, p) ==
  Lowest({q \in DOMAIN h.mem : p <= q /\ (~h.mem[q].used \/ q = End)})

Taken_countsAsked(h, p, n) ==
  LET s == IF Room(h, p) >= n + Header + MinSize THEN Split(h, p, n) ELSE h
      u == [s EXCEPT !.mem[p].used = TRUE, !.used_mem = @ + Header + n]
  IN  IF p = h.lfree THEN [u EXCEPT !.lfree = FirstFree(u, p)] ELSE u

Taken(h, p, n) ==
  LET s == IF Room(h, p) >= n + Header + MinSize THEN Split(h, p, n) ELSE h
      u == [s EXCEPT !.mem[p].used = TRUE, !.used_mem = @ + s.mem[p].next - p]
  IN  IF p = h.lfree THEN [u EXCEPT !.lfree = FirstFree(u, p)] ELSE u

Gets(p, n) ==
  /\ given' = [x \in DOMAIN given \cup {p} |-> IF x = p THEN n ELSE given[x]]
  /\ handed' = handed + 1

GivesBack(p) ==
  /\ given' = [x \in DOMAIN given \ {p} |-> given[x]]
  /\ handed' = handed - 1

\* rt_malloc(n) returns p; when it returns RT_NULL nothing changes
Allocates(p, n) ==
  /\ n <= MemSize /\ Fits(heap, Clamped(n)) # {}
  /\ p = Lowest(Fits(heap, Clamped(n)))
  /\ heap' = Taken(heap, p, Clamped(n))
  /\ Gets(p, n)

Refuses(n) == n > MemSize \/ Fits(heap, Clamped(n)) = {}

\* the blocks the unfinished call of d is about
Busy(d) ==
  {p \in {job[d].old} : job[d].at # "none"} \cup {p \in {job[d].new} : job[d].at = "release"}

\* c calls about the block p, which no unfinished call of another is about
Callable(c, p) ==
  /\ job[c] = NoJob /\ p \in DOMAIN given
  /\ \A d \in Client : p \notin Busy(d)

Malloc(c, n) ==
  /\ job[c] = NoJob
  /\ \E p \in DOMAIN heap.mem : Allocates(p, n)
  /\ UNCHANGED job

-----------------------------------------------------------------------------
(* rt_free *)

Freed(h, p) ==
  PlugHoles([h EXCEPT !.mem[p].used = FALSE,
                      !.lfree = IF p < @ THEN p ELSE @,
                      !.used_mem = @ - (h.mem[p].next - p)], p)

Free(c, p) ==
  /\ Callable(c, p)
  /\ heap' = Freed(heap, p)
  /\ GivesBack(p)
  /\ UNCHANGED job

-----------------------------------------------------------------------------
(* rt_realloc; the new size is not raised to MinSize, and 0 means rt_free *)

Shrinks(p, n) == n + Header + MinSize < Room(heap, p)

\* the block is cut; lfree is moved only if the rest is joined to it
Shrunk(h, p, n) ==
  PlugHoles(Split([h EXCEPT !.used_mem = @ - (Room(h, p) - n)], p, n), p + Header + n)

ReallocShrink(c, p, n) ==
  /\ Callable(c, p) /\ n <= MemSize
  /\ Shrinks(p, n)
  /\ heap' = Shrunk(heap, p, n)
  /\ given' = [given EXCEPT ![p] = n]
  /\ UNCHANGED <<handed, job>>

\* the block has this size: only the client's idea of it changes
ReallocSame(c, p, n) ==
  /\ Callable(c, p) /\ n <= MemSize
  /\ Room(heap, p) = n
  /\ given' = [given EXCEPT ![p] = n]
  /\ UNCHANGED <<heap, handed, job>>

\* otherwise it moves, also to a block that is a little smaller: heap_sem is
\* released ...
ReallocMove(c, p, n) ==
  /\ Callable(c, p) /\ n <= MemSize
  /\ Room(heap, p) # n /\ ~Shrinks(p, n)
  /\ job' = [job EXCEPT ![c] = [at |-> "allocate", old |-> p, new |-> 0, size |-> n]]
  /\ UNCHANGED <<heap, given, handed>>

\* ... rt_malloc, which may fail ...
MoveAllocate(c) ==
  /\ job[c].at = "allocate"
  /\ \/ \E p \in DOMAIN heap.mem :
          /\ Allocates(p, job[c].size)
          /\ job' = [job EXCEPT ![c].at = "release", ![c].new = p]
     \/ /\ Refuses(job[c].size)
        /\ job' = [job EXCEPT ![c] = NoJob]
        /\ UNCHANGED <<heap, given, handed>>

MoveRelease_leaks(c) ==
  /\ job[c].at = "release"
  /\ GivesBack(job[c].old)
  /\ job' = [job EXCEPT ![c] = NoJob]
  /\ UNCHANGED heap

\* ... and rt_free of the old block after its contents are copied
MoveRelease(c) ==
  /\ job[c].at = "release"
  /\ heap' = Freed(heap, job[c].old)
  /\ GivesBack(job[c].old)
  /\ job' = [job EXCEPT ![c] = NoJob]

-----------------------------------------------------------------------------
HeapNext ==
  \E c \in Client :
    \/ \E n \in Request : Malloc(c, n)
    \/ \E p \in DOMAIN given : \/ Free(c, p)
                               \/ \E n \in Request : \/ ReallocShrink(c, p, n)
                                                     \/ ReallocSame(c, p, n)
                                                     \/ ReallocMove(c, p, n)
    \/ MoveAllocate(c) \/ MoveRelease(c)

HeapSpec == HeapInit /\ [][HeapNext]_heapVars

-----------------------------------------------------------------------------
(* The chain is sound: the blocks follow each other without gaps from 0 to   *)
(* heap_end, prev is the way back (heap_end's is never followed), no two     *)
(* neighbours are free, so free memory is never cut into pieces that cannot  *)
(* serve a request together; and lfree never points into the middle of a     *)
(* block that was joined or cut, nor at a used one: rt_malloc would follow a *)
(* header that is data by now.                                               *)
ChainSound ==
  LET m == heap.mem IN
  /\ HeapTypeOK
  /\ {0, End} \subseteq DOMAIN m /\ m[0].prev = 0 /\ m[End].used
  /\ \A p \in DOMAIN m \ {End} :
       LET n == m[p].next IN
       /\ n \in DOMAIN m /\ p + Header < n
       /\ \A q \in DOMAIN m : ~(p < q /\ q < n)
       /\ n # End => m[n].prev = p
       /\ m[p].used \/ m[n].used
  /\ heap.lfree \in DOMAIN m /\ (heap.lfree = End \/ ~m[heap.lfree].used)

\* what the blocks that clients hold take, headers included
Total(h, g) == MapThenSumSet(LAMBDA p : h.mem[p].next - p, DOMAIN g)

(* The used blocks are those that clients hold, each at least as large as it *)
(* was asked for: nothing leaks when a reallocation moves a block or fails,  *)
(* and a block is never handed out twice.  used_mem is the sum of them.       *)
UsedIsGiven ==
  /\ heap.used_mem = Total(heap, given)
  /\ DOMAIN given = {p \in DOMAIN heap.mem \ {End} : heap.mem[p].used}
  /\ \A p \in DOMAIN given : given[p] <= Room(heap, p)

-----------------------------------------------------------------------------
(* The regions clients see begin behind the headers.                         *)

RegionsOf(g) == [a \in {p + Header : p \in DOMAIN g} |-> g[a - Header]]

Abstract == INSTANCE Allocator WITH
  Bound <- MemSize + Header, Sizes <- Request, regions <- RegionsOf(given)

(* No two clients ever share memory: rt_malloc, rt_realloc and rt_free       *)
(* implement the abstract allocator.                                         *)
ImplementsAllocator == Abstract!AllocatorSpec

=============================================================================

------------------------------ MODULE Allocator ------------------------------
(***************************************************************************)
(* What a heap promises its clients: every region it hands out is inside   *)
(* the heap and overlaps no other one, and stays where it is until it is   *)
(* given back; its size changes only when its owner asks for it.           *)
(***************************************************************************)
EXTENDS Integers

CONSTANTS Bound, Sizes

VARIABLES
  regions,     \* regions[a]: the size of the region that begins at a
  handed       \* how many regions clients think they have

allocatorVars == <<regions, handed>>

Cells(a, n) == a .. a + n - 1

Fresh(a, n) ==
  /\ Cells(a, n) \subseteq 0 .. Bound - 1
  /\ \A b \in DOMAIN regions : Cells(b, regions[b]) \cap Cells(a, n) = {}

AllocatorInit == regions = [a \in {} |-> 0] /\ handed = 0

Hand(a, n) ==
  /\ a \notin DOMAIN regions /\ Fresh(a, n)
  /\ regions' = [b \in DOMAIN regions \cup {a} |-> IF b = a THEN n ELSE regions[b]]
  /\ handed' = handed + 1

GiveBack(a) ==
  /\ a \in DOMAIN regions
  /\ regions' = [b \in DOMAIN regions \ {a} |-> regions[b]]
  /\ handed' = handed - 1

\* to another size, in place
Resize(a, n) ==
  /\ a \in DOMAIN regions
  /\ Cells(a, n) \subseteq 0 .. Bound - 1
  /\ \A b \in DOMAIN regions \ {a} : Cells(b, regions[b]) \cap Cells(a, n) = {}
  /\ regions' = [regions EXCEPT ![a] = n]
  /\ UNCHANGED handed

AllocatorNext ==
  \/ \E a \in 0 .. Bound - 1, n \in Sizes : Hand(a, n) \/ Resize(a, n)
  \/ \E a \in DOMAIN regions : GiveBack(a)

AllocatorSpec == AllocatorInit /\ [][AllocatorNext]_allocatorVars

=============================================================================

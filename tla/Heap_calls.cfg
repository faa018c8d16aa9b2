\* Two threads that allocate, free and reallocate.
SPECIFICATION HeapSpec
CONSTANTS
  c1 = c1
  c2 = c2
  Client = {c1, c2}
  MemSize = 21
  Header = 3
  MinSize = 3
  Request = {1, 4, 8}
SYMMETRY Clients
INVARIANTS
  ChainSound
  UsedIsGiven
PROPERTIES
  ImplementsAllocator

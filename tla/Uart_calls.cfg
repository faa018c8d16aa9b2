\* A sender, a reader, the interrupt handler and the line.
SPECIFICATION UartFairSpec
CONSTANTS
  b1 = b1
  b2 = b2
  Byte = {b1, b2}
  NoByte = NoByte
  Buffer <- Buffers
  Size = 2
INVARIANTS
  RingsInStep
  NothingWaits
PROPERTIES
  TransmitsInOrder
  SendReturns

------------------------------- MODULE MCUart -------------------------------
(* A port with small rings. *)
EXTENDS Uart

CONSTANTS b1, b2

\* shorter and longer than the ring
Buffers == {<<b1>>, <<b2, b1, b2>>}

=============================================================================

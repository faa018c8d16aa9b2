-------------------------------- MODULE Uart --------------------------------
(***************************************************************************)
(* The UART driver of the board (src/BSP/UART/bsp_uart.c): a transmit and  *)
(* a receive ring between one thread of each side and the interrupt        *)
(* handler, which the USART calls as its enable bits and flags say.        *)
(*                                                                         *)
(* A masked section of a thread and a run of the handler are one action    *)
(* each: the handler takes much less than the time of a byte.  SET_BIT     *)
(* reads CR1 and writes it back, and the handler may run in between.       *)
(***************************************************************************)
EXTENDS Naturals, Sequences

CONSTANTS
  Byte, NoByte,
  Buffer,      \* what comsendbuf is called with: sequences of bytes
  Size         \* ustxbufsize, usrxbufsize

ASSUME UartAssumption ==
  /\ Size \in Nat \ {0} /\ NoByte \notin Byte
  /\ Buffer \subseteq Seq(Byte) \ {<< >>}

VARIABLES
  port,      \* UART_T, and the registers of the USART
  sender,    \* the call of comsendbuf: where it is, what is left, CR1 as read
  reader,    \* the call of comgetchar: the byte it has read, or none
  overrun    \* the receive ring has been full when a byte came

uartVars == <<port, sender, reader, overrun>>

Ring == [buf : [0 .. Size - 1 -> Byte \cup {NoByte}], write : 0 .. Size - 1,
         read : 0 .. Size - 1, count : 0 .. Size]

Port == [ tx : Ring, rx : Ring, sending : BOOLEAN,
          txeie : BOOLEAN, tcie : BOOLEAN,                  \* CR1
          tdr : Byte \cup {NoByte}, shift : Byte \cup {NoByte},
          tc : BOOLEAN, rdr : Byte \cup {NoByte} ]          \* TXE is tdr = NoByte

EmptyRing == [buf |-> [i \in 0 .. Size - 1 |-> NoByte], write |-> 0, read |-> 0, count |-> 0]

NoCall == [at |-> "idle", left |-> << >>, tcie |-> FALSE]

\* bsp_inituart
UartInit ==
  /\ port = [ tx |-> EmptyRing, rx |-> EmptyRing, sending |-> FALSE,
              txeie |-> FALSE, tcie |-> FALSE,
              tdr |-> NoByte, shift |-> NoByte, tc |-> FALSE, rdr |-> NoByte ]
  /\ sender = NoCall /\ reader = NoByte /\ overrun = FALSE

-----------------------------------------------------------------------------
(* Rings *)

After(i) == IF i + 1 >= Size THEN 0 ELSE i + 1

Pushed(r) == [r EXCEPT !.write = After(@), !.count = @ + 1]

\* a byte that was taken out is of no interest any more
Popped(r) == [r EXCEPT !.buf[r.read] = NoByte, !.read = After(@), !.count = @ - 1]

Oldest(r) == r.buf[r.read]

-----------------------------------------------------------------------------
(* uartsend *)

SendBegin(b) ==
  /\ sender.at = "idle"
  /\ sender' = [sender EXCEPT !.at = "test", !.left = b]
  /\ UNCHANGED <<port, reader, overrun>>

SendStore_anyRoom ==
  /\ sender.at = "test"
  /\ port' = [port EXCEPT !.tx.buf[port.tx.write] = Head(sender.left)]
  /\ sender' = [sender EXCEPT !.at = "advance"]
  /\ UNCHANGED <<reader, overrun>>

\* there is room: the byte is stored with interrupts enabled ...
SendStore ==
  /\ sender.at = "test" /\ port.tx.count < Size
  /\ port' = [port EXCEPT !.tx.buf[port.tx.write] = Head(sender.left)]
  /\ sender' = [sender EXCEPT !.at = "advance"]
  /\ UNCHANGED <<reader, overrun>>

\* ... then the index and the count follow
SendAdvance ==
  /\ sender.at = "advance"
  /\ port' = [port EXCEPT !.tx = Pushed(@)]
  /\ sender' = [sender EXCEPT !.left = Tail(@),
                              !.at = IF Tail(sender.left) = << >> THEN "enable" ELSE "test"]
  /\ UNCHANGED <<reader, overrun>>

\* the ring is full: wait ...
SendFull ==
  /\ sender.at = "test" /\ port.tx.count = Size
  /\ sender' = [sender EXCEPT !.at = "full"]
  /\ UNCHANGED <<port, reader, overrun>>

SendCheck_onlySpins ==
  /\ sender.at = "full"
  /\ sender' = [sender EXCEPT !.at = "test"]
  /\ UNCHANGED <<port, reader, overrun>>

\* ... and see to it that somebody empties it (which may have happened by now)
SendCheck ==
  /\ sender.at = "full"
  /\ sender' = [sender EXCEPT !.at = IF port.txeie THEN "test" ELSE "enable"]
  /\ UNCHANGED <<port, reader, overrun>>

\* SET_BIT(CR1, TXEIE) reads ...
SendReadCR1 ==
  /\ sender.at = "enable"
  /\ sender' = [sender EXCEPT !.at = "set", !.tcie = port.tcie]
  /\ UNCHANGED <<port, reader, overrun>>

\* ... and writes back
SendWriteCR1 ==
  /\ sender.at = "set"
  /\ port' = [port EXCEPT !.txeie = TRUE, !.tcie = sender.tcie]
  /\ sender' = IF sender.left = << >> THEN NoCall
               ELSE [NoCall EXCEPT !.at = "test", !.left = sender.left]
  /\ UNCHANGED <<reader, overrun>>

SendStep ==
  SendStore \/ SendAdvance \/ SendFull \/ SendCheck \/ SendReadCR1 \/ SendWriteCR1

-----------------------------------------------------------------------------
(* uartgetchar: the byte is read before the index moves *)

GetChar ==
  /\ reader = NoByte /\ port.rx.count > 0
  /\ reader' = Oldest(port.rx)
  /\ UNCHANGED <<port, sender, overrun>>

GetAdvance ==
  /\ reader # NoByte
  /\ port' = [port EXCEPT !.rx = Popped(@)]
  /\ reader' = NoByte
  /\ UNCHANGED <<sender, overrun>>

-----------------------------------------------------------------------------
(* UartIRQ.  The flags f are those at its entry.                             *)

Received_overtakes(u) ==
  [u EXCEPT !.rdr = NoByte, !.rx.buf[u.rx.write] = u.rdr,
            !.rx.write = After(@), !.rx.count = @ + 1]

\* a full ring is written over, from its write index on
Received(u) ==
  [u EXCEPT !.rdr = NoByte, !.rx.buf[u.rx.write] = u.rdr,
            !.rx.write = After(@), !.rx.count = IF @ < Size THEN @ + 1 ELSE @]

\* a write to DR while the line is idle goes to the shift register at once;
\* after a read of SR it clears TC
Transmitted(u) ==
  LET b == Oldest(u.tx)
      v == [u EXCEPT !.tx = Popped(@), !.tc = FALSE]
  IN IF v.shift = NoByte THEN [v EXCEPT !.shift = b] ELSE [v EXCEPT !.tdr = b]

DataEmpty_oneByOne(u) ==
  IF u.tx.count = 0 THEN [u EXCEPT !.txeie = FALSE, !.tcie = TRUE]
  ELSE [Transmitted(u) EXCEPT !.sending = TRUE, !.txeie = FALSE]

DataEmpty(u) ==
  IF u.tx.count = 0 THEN [u EXCEPT !.txeie = FALSE, !.tcie = TRUE]
  ELSE [Transmitted(u) EXCEPT !.sending = TRUE]

\* sendover is called here
Complete(u) ==
  IF u.tx.count = 0 THEN [u EXCEPT !.tcie = FALSE, !.sending = FALSE] ELSE Transmitted(u)

UartIRQ ==
  LET rxne == port.rdr # NoByte
      txe == port.tdr = NoByte /\ port.txeie
      tc == port.tc /\ port.tcie
      u == IF rxne THEN Received(port) ELSE port
      v == IF txe THEN DataEmpty(u) ELSE u
  IN /\ rxne \/ txe \/ tc
     /\ port' = IF tc THEN Complete(v) ELSE v
     /\ overrun' = (overrun \/ (rxne /\ port.rx.count = Size))
     /\ UNCHANGED <<sender, reader>>

-----------------------------------------------------------------------------
(* The line: a byte has left, a byte arrives (the handler is in time for it) *)

ShiftedOut ==
  /\ port.shift # NoByte
  /\ port' = [port EXCEPT !.shift = port.tdr, !.tdr = NoByte,
                          !.tc = @ \/ port.tdr = NoByte]
  /\ UNCHANGED <<sender, reader, overrun>>

Arrives(b) ==
  /\ port.rdr = NoByte
  /\ port' = [port EXCEPT !.rdr = b]
  /\ UNCHANGED <<sender, reader, overrun>>

UartNext ==
  \/ \E b \in Buffer : SendBegin(b)
  \/ SendStep \/ GetChar \/ GetAdvance \/ UartIRQ \/ ShiftedOut
  \/ \E b \in Byte : Arrives(b)

UartSpec == UartInit /\ [][UartNext]_uartVars

\* the USART works, its interrupt is served, and the sender is not starved
UartFairSpec ==
  UartSpec /\ WF_uartVars(UartIRQ) /\ WF_uartVars(ShiftedOut) /\ WF_uartVars(SendStep)

-----------------------------------------------------------------------------
Contents(r) == [i \in 1 .. r.count |-> r.buf[(r.read + i - 1) % Size]]

InStep(r) == r.write = (r.read + r.count) % Size

(* The indices and the count of a ring agree at every moment, with the       *)
(* handler between any two steps of the threads; the byte a reader has read  *)
(* is still the oldest one when it moves the index (until a full receive     *)
(* ring is written over: from then on the ring is out of step).              *)
RingsInStep ==
  /\ port \in Port
  /\ InStep(port.tx)
  /\ ~overrun => InStep(port.rx) /\ (reader # NoByte => port.rx.count > 0 /\ reader = Oldest(port.rx))

(* No byte waits for an interrupt that is off: whenever the transmit ring    *)
(* holds bytes and no call of comsendbuf is about to set TXEIE, it is set,   *)
(* although CR1 is changed by the thread and by the handler.                 *)
NothingWaits ==
  port.tx.count > 0 /\ sender.at = "idle" => port.txeie

(* comsendbuf returns, also when it is given more than the ring holds.       *)
SendReturns == sender.at # "idle" ~> sender.at = "idle"

\* what is between comsendbuf and the line, the oldest first
InTransit ==
  (IF port.shift = NoByte THEN << >> ELSE <<port.shift>>) \o
  (IF port.tdr = NoByte THEN << >> ELSE <<port.tdr>>) \o Contents(port.tx)

TxChannel == INSTANCE Channel WITH
  Client <- {"line"}, Mail <- Byte, UrgentMail <- {}, NoMail <- NoByte, Room <- Size + 2,
  Losable <- FALSE, queue <- InTransit, inHand <- [c \in {"line"} |-> NoByte]

(* Bytes leave the port in the order they were sent in, each once: the       *)
(* handler never writes DR while it is full, on none of its two paths.       *)
TransmitsInOrder == TxChannel!ChannelSpec

=============================================================================

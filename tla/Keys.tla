-------------------------------- MODULE Keys --------------------------------
(***************************************************************************)
(* The keys of the board (src/BSP/KEY/bsp_key.c): the SysTick interrupt    *)
(* samples the pins every 10 ms, filters them and puts key events into a   *)
(* ring that two tasks read, each with a read pointer of its own.          *)
(*                                                                         *)
(* Keys 0 and 1 are the pins K1 and K2, key 2 is both at once; KEY_COUNT   *)
(* is 4, but iskeydownfunc knows no fourth key: it is never down.          *)
(***************************************************************************)
EXTENDS Naturals, SequencesExt

CONSTANTS
  LongTime,      \* KEY_LONG_TIME, in scans
  RepeatSpeed,   \* the values of repeatspeed; 0: a key does not repeat
  FifoSize,      \* KEY_FIFO_SIZE
  MaxBehind      \* the events a reader may leave unread

\* A reader that leaves a whole ring of events unread finds it empty: the tasks
\* keep up with the user.
ASSUME KeysAssumption ==
  /\ LongTime \in Nat /\ RepeatSpeed \subseteq Nat
  /\ FifoSize \in Nat \ {0} /\ MaxBehind \in 0 .. FifoSize - 1

FilterTime == 2      \* KEY_FILTER_TIME
HardKey == {0, 1}    \* HARD_KEY_NUM is 2
Key == 0 .. 3
Reader == {"getkey", "getkey2"}

VARIABLES
  btn,      \* s_tbtn
  fifo,     \* s_tkey; at[r] is read or read2, found[r]: r has found a key in it
  seen,     \* history: how long each key has been sampled up or down
  unread    \* history: the events each reader has not read

keyVars == <<btn, fifo, seen, unread>>

\* what bsp_putkey_fifo is given for the event e of the key i
Code(i, e) == 3 * i + (CASE e = "down" -> 1 [] e = "up" -> 2 [] e = "long" -> 3)
KEY_NONE == 0

Button == [count : 0 .. 2 * FilterTime, state : {0, 1}, longcount : 0 .. LongTime,
           repeatspeed : RepeatSpeed, repeatcount : Nat]

KeysTypeOK ==
  /\ btn \in [Key -> Button]
  /\ fifo \in [buf : [0 .. FifoSize - 1 -> Nat], write : 0 .. FifoSize - 1,
               at : [Reader -> 0 .. FifoSize - 1], found : [Reader -> BOOLEAN]]

\* bsp_initkeyvar, where the parameters of single keys may be set
KeysInit ==
  /\ \E speed \in RepeatSpeed :
       btn = [i \in Key |-> [count |-> FilterTime \div 2, state |-> 0, longcount |-> 0,
                             repeatspeed |-> speed, repeatcount |-> 0]]
  /\ fifo = [buf |-> [n \in 0 .. FifoSize - 1 |-> KEY_NONE], write |-> 0,
             at |-> [r \in Reader |-> 0], found |-> [r \in Reader |-> FALSE]]
  /\ seen = [i \in Key |-> [down |-> FALSE, scans |-> 0]]
  /\ unread = [r \in Reader |-> << >>]

-----------------------------------------------------------------------------
\* iskeydownfunc: a single key counts only when no other one is pressed
IsKeyDown(pins, i) ==
  CASE i \in HardKey -> pins = {i}
    [] i = 2         -> pins = HardKey
    [] OTHER         -> FALSE

\* the filter has settled on a key that is down
Settled(b) == b.count = 2 * FilterTime

Lengthens(b) == b.longcount < LongTime

Repeats(b) == LongTime > 0 /\ ~Lengthens(b) /\ b.repeatspeed > 0

RepeatsNow(b) == Repeats(b) /\ b.repeatcount + 1 >= b.repeatspeed

Down(b) ==
  IF ~Settled(b)
  THEN [b EXCEPT !.count = IF @ < FilterTime THEN FilterTime ELSE @ + 1]
  ELSE [b EXCEPT !.state = 1,
                 !.longcount = IF Lengthens(b) THEN @ + 1 ELSE @,
                 !.repeatcount = IF RepeatsNow(b) THEN 0
                                 ELSE IF Repeats(b) THEN @ + 1 ELSE @]

DownEvents(b, i) ==
  IF ~Settled(b) THEN << >>
  ELSE (IF b.state = 0 THEN <<Code(i, "down")>> ELSE << >>)
    \o (IF b.longcount + 1 = LongTime THEN <<Code(i, "long")>> ELSE << >>)
    \o (IF RepeatsNow(b) THEN <<Code(i, "down")>> ELSE << >>)

Released(b) == b.count = 0

Up_keepsLong(b) ==
  [b EXCEPT !.count = IF @ > FilterTime THEN FilterTime ELSE IF @ # 0 THEN @ - 1 ELSE 0,
            !.state = IF Released(b) THEN 0 ELSE @]

Up(b) ==
  [b EXCEPT !.count = IF @ > FilterTime THEN FilterTime ELSE IF @ # 0 THEN @ - 1 ELSE 0,
            !.state = IF Released(b) THEN 0 ELSE @,
            !.longcount = 0, !.repeatcount = 0]

UpEvents(b, i) == IF Released(b) /\ b.state = 1 THEN <<Code(i, "up")>> ELSE << >>

\* bsp_detectkey
Detect(b, down) == IF down THEN Down(b) ELSE Up(b)
Detected(b, i, down) == IF down THEN DownEvents(b, i) ELSE UpEvents(b, i)

Following_wrapsLate(n) == IF n + 1 > FifoSize THEN 0 ELSE n + 1

Following(n) == IF n + 1 >= FifoSize THEN 0 ELSE n + 1

\* bsp_putkey_fifo: the ring is never full
Put(f, code) == [f EXCEPT !.buf = [@ EXCEPT ![f.write] = code], !.write = Following(@)]

Events(pins) ==
  FlattenSeq([n \in 1 .. 4 |-> Detected(btn[n - 1], n - 1, IsKeyDown(pins, n - 1))])

Sampled(s, down) ==
  [down |-> down,
   scans |-> IF s.scans = 0 \/ s.down # down THEN 1
             ELSE IF s.scans < LongTime + 2 * FilterTime THEN s.scans + 1 ELSE s.scans]

\* bsp_keyscan10ms, in the SysTick interrupt
KeyScan(pins) ==
  /\ \A r \in Reader : Len(unread[r]) + Len(Events(pins)) <= MaxBehind
  /\ btn' = [i \in Key |-> Detect(btn[i], IsKeyDown(pins, i))]
  /\ fifo' = FoldLeft(Put, fifo, Events(pins))
  /\ seen' = [i \in Key |-> Sampled(seen[i], IsKeyDown(pins, i))]
  /\ unread' = [r \in Reader |-> unread[r] \o Events(pins)]

-----------------------------------------------------------------------------
(* bsp_getkey, bsp_getkey2: KEY_NONE, or the pointers differ ...            *)
GetKeyTest(r) ==
  /\ ~fifo.found[r] /\ fifo.at[r] # fifo.write
  /\ fifo' = [fifo EXCEPT !.found[r] = TRUE]
  /\ UNCHANGED <<btn, seen, unread>>

(* ... and the key is read; a tick may come in between                      *)
GetKey(r) ==
  /\ fifo.found[r]
  /\ fifo' = [fifo EXCEPT !.found[r] = FALSE, !.at[r] = Following(@)]
  /\ unread' = [unread EXCEPT ![r] = IF @ = << >> THEN @ ELSE Tail(@)]
  /\ UNCHANGED <<btn, seen>>

\* bsp_clearkey, by the task that calls bsp_getkey
ClearKey ==
  /\ ~fifo.found["getkey"]
  /\ fifo' = [fifo EXCEPT !.at["getkey"] = fifo.write]
  /\ unread' = [unread EXCEPT !["getkey"] = << >>]
  /\ UNCHANGED <<btn, seen>>

KeyTask == (\E r \in Reader : GetKeyTest(r) \/ GetKey(r)) \/ ClearKey

-----------------------------------------------------------------------------
(* What a scan may report of each key.                                       *)
Debounced ==
  \A i \in Key :
    LET s == seen'[i]
        reports(e) == Contains(Detected(btn[i], i, s.down), Code(i, e))
    IN seen' # seen =>
      /\ btn'[i].state # btn[i].state
           => s.scans > FilterTime /\ s.down = (btn'[i].state = 1)
      /\ s.scans >= 2 * FilterTime => s.down = (btn'[i].state = 1)
      /\ reports("long") => s.down /\ s.scans >= LongTime + FilterTime
      /\ s.down /\ s.scans = LongTime + 2 * FilterTime
           => btn'[i].longcount = LongTime

(* Keys are debounced, from both sides: a key changes its state only after   *)
(* three samples in a row that say so, and has changed it after four; a key  *)
(* that is held without one sample to the contrary is reported as long once, *)
(* LongTime - 1 scans after its press counts, and earlier it never is.       *)
KeysDebounced == []KeysTypeOK /\ [][Debounced]_keyVars

(* Each of the two readers gets every event, in order and once, although the *)
(* interrupt puts keys in between its test and its read, and the other       *)
(* reader moves a pointer of its own.                                        *)
Pending(r) ==
  LET n == (fifo.write + FifoSize - fifo.at[r]) % FifoSize
  IN [m \in 1 .. n |-> fifo.buf[(fifo.at[r] + m - 1) % FifoSize]]

ReadersSeeAll == \A r \in Reader : Pending(r) = unread[r]

=============================================================================

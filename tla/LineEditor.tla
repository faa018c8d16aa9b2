----------------------------- MODULE LineEditor -----------------------------
(***************************************************************************)
(* What the user of the shell sees: a line of text with a cursor, and the  *)
(* last lines that were entered, a line entered twice in a row once.       *)
(* A line that reaches the size of the buffer is discarded; what is edited *)
(* then, until it is entered or another line is recalled, is left open.    *)
(***************************************************************************)
EXTENDS Naturals, SequencesExt

CONSTANTS
  Char, Command,     \* what is typed; the names Tab completes
  Size, Keep         \* of the buffer; how many lines are remembered

VARIABLES text, cur, past, at, spoilt

lineVars == <<text, cur, past, at, spoilt>>

LineInit == text = << >> /\ cur = 0 /\ past = << >> /\ at = 0 /\ spoilt = FALSE

Shows(t, n) == text' = t /\ cur' = Len(t) /\ at' = n /\ spoilt' = FALSE /\ UNCHANGED past

Edits(t, k) == ~spoilt /\ text' = t /\ cur' = k /\ UNCHANGED <<past, at, spoilt>>

Type(c) == Len(text) + 1 < Size /\ Edits(InsertAt(text, cur + 1, c), cur + 1)

Discard ==
  /\ ~spoilt /\ Len(text) + 1 = Size
  /\ text' = << >> /\ cur' = 0 /\ spoilt' = TRUE /\ UNCHANGED <<past, at>>

Erase == cur > 0 /\ Edits(RemoveAt(text, cur), cur - 1)

Move == \E k \in {cur - 1, cur + 1} \cap 0 .. Len(text) : Edits(text, k)

Complete ==
  LET names == {n \in Command : IsPrefix(text, n)}
      t == IF text = << >> \/ names = {} THEN text ELSE LongestCommonPrefix(names)
  IN Edits(t, Len(t))

Older == at > 0 /\ Shows(past[at], at - 1)

Newer ==
  LET n == IF at + 1 < Len(past) THEN at + 2 ELSE Len(past)
  IN past # << >> /\ Shows(past[n], n - 1)

LastOf(s) == SubSeq(s, IF Len(s) > Keep THEN Len(s) - Keep + 1 ELSE 1, Len(s))

Remembered(t) ==
  IF t = << >> \/ (past # << >> /\ past[Len(past)] = t) THEN past ELSE LastOf(Append(past, t))

Enter ==
  /\ past' = Remembered(text)
  /\ at' = Len(past') /\ text' = << >> /\ cur' = 0 /\ spoilt' = FALSE
  /\ ~spoilt

\* something is entered
EnterSpoilt ==
  /\ spoilt
  /\ \/ past' = past
     \/ \E n \in 1 .. Size - 1 : \E t \in [1 .. n -> Char] : past' = LastOf(Append(past, t))
  /\ at' = Len(past') /\ text' = << >> /\ cur' = 0 /\ spoilt' = FALSE

LineNext ==
  \/ \E c \in Char : Type(c)
  \/ Discard \/ Erase \/ Move \/ Complete \/ Older \/ Newer \/ Enter \/ EnterSpoilt

LineSpec == LineInit /\ [][LineNext]_lineVars

=============================================================================

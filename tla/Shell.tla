------------------------------- MODULE Shell -------------------------------
(***************************************************************************)
(* The line editor of the shell (src/rt-thread/components/finsh/shell.c,   *)
(* finsh_thread_entry): the thread tshell reads characters from the        *)
(* console, edits one fixed buffer in place and remembers the last         *)
(* commands.  The echo and the commands themselves are left out.           *)
(***************************************************************************)
EXTENDS Naturals, SequencesExt

CONSTANTS
  Printable,      \* characters that are typed; the last ones of control keys too
  Command,        \* the names of the commands
  CmdSize,        \* FINSH_CMD_SIZE
  HistoryLines    \* FINSH_HISTORY_LINES

NUL == "nul"

ASSUME ShellAssumption ==
  /\ CmdSize \in Nat \ {0} /\ HistoryLines \in Nat \ {0}
  /\ NUL \notin Printable
  /\ Command \subseteq Seq(Printable) \ {<< >>}
  /\ \A n \in Command : Len(n) < CmdSize

VARIABLES
  shell,      \* struct finsh_shell
  filled      \* history: line was filled, and is not clean yet

shellVars == <<shell, filled>>

Line == 0 .. CmdSize - 1

\* memset(line, 0, FINSH_CMD_SIZE)
Blank == [i \in Line |-> NUL]

\* rt_memset(shell, 0, ...) in finsh_system_init
ShellInit ==
  /\ shell = [stat |-> "normal", line |-> Blank, position |-> 0, curpos |-> 0,
              history |-> [n \in 0 .. HistoryLines - 1 |-> Blank], count |-> 0, current |-> 0]
  /\ filled = FALSE

-----------------------------------------------------------------------------
Terminated(l) == \E i \in Line : l[i] = NUL

\* strlen, of a terminated string
StrLen(l) == CHOOSE n \in Line : l[n] = NUL /\ \A i \in Line : i < n => l[i] # NUL

CString(l) == [i \in 1 .. StrLen(l) |-> l[i - 1]]

\* A character leaves the state of the control keys, and s is the new shell
Handled(s, f) == shell' = [s EXCEPT !.stat = "normal"] /\ filled' = f

\* a control key is ESC, '[' and a letter
KeyEscape ==
  shell' = [shell EXCEPT !.stat = "spec"] /\ UNCHANGED filled

KeyBracket ==
  shell.stat = "spec" /\ shell' = [shell EXCEPT !.stat = "func"] /\ UNCHANGED filled

FuncKey == shell.stat = "func"

Recalled_keepsCursor(n) ==
  [shell EXCEPT !.line = shell.history[n], !.current = n, !.position = StrLen(shell.history[n])]

\* the whole buffer is copied
Recalled(n) ==
  [shell EXCEPT !.line = shell.history[n], !.current = n,
                !.position = StrLen(shell.history[n]), !.curpos = StrLen(shell.history[n])]

UpKey ==
  /\ FuncKey
  /\ IF shell.current > 0 THEN Handled(Recalled(shell.current - 1), FALSE)
     ELSE Handled(shell, filled)

DownKey ==
  /\ FuncKey
  /\ IF shell.count = 0 THEN Handled(shell, filled)
     ELSE Handled(Recalled(IF shell.current + 1 < shell.count THEN shell.current + 1
                           ELSE shell.count - 1), FALSE)

LeftKey ==
  /\ FuncKey
  /\ Handled([shell EXCEPT !.curpos = IF @ > 0 THEN @ - 1 ELSE 0], filled)

RightKey ==
  /\ FuncKey
  /\ Handled([shell EXCEPT !.curpos = IF @ < shell.position THEN @ + 1 ELSE @], filled)

-----------------------------------------------------------------------------
\* c is not part of a control key
PlainKey(c) ==
  /\ shell.stat = "spec" => c # "["
  /\ shell.stat = "func" => c \notin {"A", "B", "C", "D"}

\* msh_auto_complete: as far as all names agree that begin like the line
Completed(l) ==
  LET names == {n \in Command : IsPrefix(CString(l), n)}
      common == LongestCommonPrefix(names)
  IN IF StrLen(l) = 0 \/ names = {} THEN l
     ELSE [i \in Line |-> IF i < Len(common) THEN common[i + 1] ELSE l[i]]

\* strlen runs past a buffer without a zero: what follows is not modelled
TabKey ==
  /\ Terminated(shell.line)
  /\ LET l == Completed(shell.line) IN
     /\ Terminated(l)
     /\ Handled([shell EXCEPT !.line = l, !.position = StrLen(l), !.curpos = StrLen(l)], filled)

Erased(l, k, p) ==
  [i \in Line |-> IF i = p THEN NUL ELSE IF k <= i /\ i < p THEN l[i + 1] ELSE l[i]]

BackspaceKey ==
  IF shell.curpos = 0 THEN Handled(shell, filled)
  ELSE Handled([shell EXCEPT !.line = Erased(@, shell.curpos - 1, shell.position - 1),
                             !.position = @ - 1, !.curpos = @ - 1], filled)

Typed(l, k, p, c) ==
  [i \in Line |-> IF i = k THEN c ELSE IF k < i /\ i <= p THEN l[i - 1] ELSE l[i]]

\* A line that reaches the end of the buffer is discarded: the positions are
\* set back, the buffer is not cleared.
TypeKey(c) ==
  LET full == shell.position + 1 >= CmdSize IN
  /\ PlainKey(c)
  /\ Handled([shell EXCEPT !.line = Typed(@, shell.curpos, shell.position, c),
                           !.position = IF full THEN 0 ELSE @ + 1,
                           !.curpos = IF full THEN 0 ELSE @ + 1], filled \/ full)

Kept(l, p) == [i \in Line |-> IF i < p THEN l[i] ELSE NUL]

PushHistory_always(s) ==
  LET h == s.history
      new == IF s.count < HistoryLines
             THEN [h EXCEPT ![s.count] = Kept(s.line, s.position)]
             ELSE [n \in 0 .. HistoryLines - 1 |->
                     IF n = HistoryLines - 1 THEN Kept(s.line, s.position) ELSE h[n + 1]]
      count == IF s.count < HistoryLines THEN s.count + 1 ELSE s.count
  IN IF s.position = 0 THEN [s EXCEPT !.current = s.count]
     ELSE [s EXCEPT !.history = new, !.count = count, !.current = count]

\* shell_push_history: not the command that was entered last
PushHistory(s) ==
  LET h == s.history
      last == IF s.count < HistoryLines THEN s.count - 1 ELSE HistoryLines - 1
      new == IF s.count < HistoryLines
             THEN [h EXCEPT ![s.count] = Kept(s.line, s.position)]
             ELSE [n \in 0 .. HistoryLines - 1 |->
                     IF n = HistoryLines - 1 THEN Kept(s.line, s.position) ELSE h[n + 1]]
      count == IF s.count < HistoryLines THEN s.count + 1 ELSE s.count
  IN IF s.position = 0 \/ (s.count > 0 /\ h[last] = s.line)
     THEN [s EXCEPT !.current = s.count]
     ELSE [s EXCEPT !.history = new, !.count = count, !.current = count]

\* the line is remembered, executed (msh_exec) and cleared
EnterKey ==
  Handled([PushHistory(shell) EXCEPT !.line = Blank, !.position = 0, !.curpos = 0], FALSE)

\* NUL and 0xFF
OtherKey == Handled(shell, filled)

ShellNext ==
  \/ KeyEscape \/ KeyBracket
  \/ UpKey \/ DownKey \/ LeftKey \/ RightKey
  \/ TabKey \/ BackspaceKey \/ EnterKey \/ OtherKey
  \/ \E c \in Printable : TypeKey(c)

ShellSpec == ShellInit /\ [][ShellNext]_shellVars

-----------------------------------------------------------------------------
Editor == INSTANCE LineEditor WITH
  Char <- Printable, Size <- CmdSize, Keep <- HistoryLines,
  text <- IF filled THEN << >> ELSE CString(shell.line),
  cur <- IF filled THEN 0 ELSE shell.curpos,
  past <- [n \in 1 .. shell.count |-> CString(shell.history[n - 1])],
  at <- shell.current, spoilt <- filled

(* The buffer, edited in place, is the line its user sees: inserting and     *)
(* erasing in the middle, completing, recalling and the control keys leave   *)
(* it terminated at line_position with the cursor inside, and the history    *)
(* holds the last commands, whole and in order.                              *)
ShellEdits == Editor!LineSpec

=============================================================================

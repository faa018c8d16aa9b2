\* The timers, the keys, the shell, the processor.
SPECIFICATION Spec
CONSTANTS
  t1 = t1
  t2 = t2
  t3 = t3
  Thread = {t1, t2, t3}
  NoThread = NoThread
  MaxNest = 2
  MaxSteps = 2
  Timer = {tm1}
  Period = {0, 1, 3}
  RuntimeTop = 4
  ScanEvery = 2
  MaxWait = 4
  LongTime = 2
  RepeatSpeed = {0, 2}
  FifoSize = 3
  MaxBehind = 2
  Printable = {"A", "["}
  Command <- Commands
  CmdSize = 3
  HistoryLines = 2
INVARIANTS
  TimeKept
  ReadersSeeAll
  ContextsKept
  CurrentRuns
PROPERTIES
  KeysDebounced
  ShellEdits
  SwitchHappens

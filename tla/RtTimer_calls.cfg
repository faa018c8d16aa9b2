\* Tasks interrupted anywhere and callbacks that call about timers, a counter
\* that wraps.
SPECIFICATION Spec
CONSTANTS
  t1 = t1
  t2 = t2
  t3 = t3
  c1 = c1
  c2 = c2
  None = None
  Timer = {t1, t2, t3}
  Task = {c1}
  Modulus = 8
  Times = {0, 1}
  SelfCalls = {"stop"}
  OtherCalls = {"start", "stop"}
  MaxWindow = 1
SYMMETRY Symmetric
INVARIANTS
  Sorted
  RefusedIsStopped
PROPERTIES
  EarlyFirst
  ImplementsCountdown

\* A callback that restarts its own timer.
SPECIFICATION Spec
CONSTANTS
  t1 = t1
  t2 = t2
  t3 = t3
  c1 = c1
  c2 = c2
  None = None
  Timer = {t1, t2}
  Task = {c1}
  Modulus = 16
  Times = {1, 3}
  SelfCalls = {"start"}
  OtherCalls = {}
  MaxWindow = 1
INVARIANTS
  RefusedIsStopped

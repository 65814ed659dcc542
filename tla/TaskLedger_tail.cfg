CONSTANTS
  t1 = t1  t2 = t2
  Task = {t1, t2}
  DependsOn <- MCDependsOn
  MaxCalls = 2
  Faults = {"crash", "tear"}
  MaxId = 4
SPECIFICATION Spec
INVARIANT Recoverable
CHECK_DEADLOCK FALSE

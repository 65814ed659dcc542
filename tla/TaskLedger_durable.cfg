CONSTANTS
  t1 = t1  t2 = t2
  Task = {t1, t2}
  DependsOn <- MCDependsOn
  MaxCalls = 2
  Faults = {"crash", "tear", "full", "ids"}
  MaxId = 6
SPECIFICATION Spec
INVARIANTS TypeOK Durable OncePerTask DependenciesMet NotifiedCommitted VersionOnce
CHECK_DEADLOCK FALSE

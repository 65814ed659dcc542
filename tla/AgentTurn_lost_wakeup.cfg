CONSTANTS
  n1 = n1  n2 = n2  s1 = s1  k1 = k1  t1 = t1  t2 = t2
  Msg = {n1, n2}
  Kind <- MCKind
  Caller = {c1, c2}
  Worker = {w1, w2}
  NoWorker = NoWorker
  Env = {"deliver"}
  IsRoot = FALSE
SPECIFICATION Spec
SYMMETRY MCSymmetry
INVARIANT NoStrandedMessage

CHECK_DEADLOCK FALSE

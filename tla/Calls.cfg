CONSTANTS
  c1 = c1  c2 = c2  c3 = c3
  k1 = k1  k2 = k2
  i1 = i1  i2 = i2
  user = user  policy = policy  tool = tool
  Call = {c1, c2, c3}
  CallId = {i1, i2}
  IdOf <- MCIdOf
  Key = {k1, k2}
  KeyOf <- MCKeyOf
  Tool = {tool}
  ToolOf <- MCToolOf
  Ext = {policy, user}
  Before <- MCBefore
  After <- MCAfter
  Native = Native
  Behind = {user, Native}
  Blockers = {policy}
  NoCall = NoCall
  Threshold = 1
  InOrder <- MCInOrder
  Cancellable = {c2}
  Request = {1, 2}
  Nobody = 0
  PipeSize = 1
  bi = bi  ext1 = ext1
  Builtins <- MCBuiltins
  Paths <- MCPaths
  Faulty = {bi}
  NativeTool = {n}
  ToolName <- MCToolName
  Override = {ext1}
  Start = start
  Reloader = {r1, r2}
  Dispatcher = {d1}
  Unlocked = Unlocked
  MaxLoads = 3
  Goroutine = {1, 2, 3}
  Loop = 9
  Subscriber <- MCSubscriber
  SelfSend = {}
  MaxWork = 3
  Writer = {w1, w2}
  MaxLogs = 2
  RingSize = 1
  QueueSize = 1
  MaxBatch = 2
SPECIFICATION CallsSpec
INVARIANTS CallsTypeOK NoPendingLeak BlockedNeverRuns LoadedOnce ToolsOfLoaded NoCircularWait LogKeptInOrder
PROPERTIES CallAnswered AwaitEnds CallEnds InitFirst
CHECK_DEADLOCK FALSE

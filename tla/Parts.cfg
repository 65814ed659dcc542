CONSTANTS
  AgentId = {"main", "a", "ab"}
  Root = "main"
  Parent <- MCParent
  MaxSpawns <- MCMaxSpawns
  TeamIds = {"main", "a"}
  MaxHeld = 1
  Addressed = {"a"}
  Moving = {"tree", "conversation", "harness", "transcript", "guard", "loop", "breaker"}
  Window = 40
  Reserve = 8
  MinKeep = 2
  Percent = 50
  Fixed = 8
  Notice = 3
  NoticeReserve = 4
  Marker = 1
  SummarySizes = {2, 12}
  Prompts <- MCPrompts
  Sizes = {20}
  Restored <- MCRestored
  MaxPasses = 2
  MaxSaid = 1
  MaxInputs = 2
  MaxWakes = 1
  MaxEsc = 2
  Owner = {"main", "sub"}
  MaxPieces = 2
  MaxTurns = 1
  MaxExtra = 1
  Caller = {"main", "main/a", "main/b"}
  MainAgent = "main"
  Scope = "subagents"
  Signature = {1, 2}
  WindowCfg = 4
  MinRepeatsCfg = 0
  MaxPeriodCfg = 2
  MaxCalls = 9
  c1 = c1  c2 = c2  c3 = c3  c4 = c4  k1 = k1
  tool = tool
  Call = {c1, c2, c3, c4}
  CallId = {c1, c2, c3, c4}
  IdOf <- MCIdOf
  Key = {k1}
  KeyOf <- MCKeyOf
  Tool = {tool}
  ToolOf <- MCToolOf
  Ext = {}
  Before <- MCChain
  After <- MCChain
  Native = Native
  Behind = {Native}
  Blockers = {}
  NoCall = NoCall
  Threshold = 2
  InOrder <- MCInOrder
  Cancellable = {c4}
  Opening <- MCOpening
  Recent = 2
  MaxSteps = 5
  MaxSteers = 3
SPECIFICATION PartsSpec
INVARIANTS PartsTypeOK NoneLeftBehind TeamIsClosed IndicatorGoesOff FlushIsSpent QuietShowsScene OneVoice NoLoopRuns  SteersStay
PROPERTIES KeepsTail WindsDown BreakerExact
CHECK_DEADLOCK FALSE

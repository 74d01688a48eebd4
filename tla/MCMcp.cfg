\* Two posts of any kind, one fault or crash, fail_orphans called at every start.
SPECIFICATION McpFairSpec
CONSTANTS
  send = send
  show = show
  key = key
  x = x
  y = y
  NoKey = NoKey
  OddKey = OddKey
  NoName = NoName
  UnknownTool = UnknownTool
  ConfirmPoll = ConfirmPoll
  NoRecord = NoRecord
  Calls = {c1, c2}
  Hooks = {c1}
  RecoversJobs = TRUE
  MaxFaults = 1
  Verbs = {send, show}
  Gated = {send}
  KeyRequired = {send}
  Keys = {key}
  Payloads = {x, y}
  Requests = {}
  Messages <- AnyMessage
INVARIANTS McpTypeOK WebhookTellsOutcome LateCallsOnlyReplay GatedRunsNeedYes ToolResultIsTrue
PROPERTIES PollsNeverReopen NeverBlocksOnDialog PendingEnds
\* The calls of a run are finitely many.
CHECK_DEADLOCK FALSE

\* One call, one failing read of the database.
SPECIFICATION McpFairSpec
CONSTANTS
  send = send
  show = show
  key = key
  x = x
  y = y
  NoKey = NoKey
  NoRecord = NoRecord
  Calls = {c1}
  Hooks = {c1}
  RecoversJobs = TRUE
  MaxFaults = 1
  Verbs = {send, show}
  Gated = {send}
  KeyRequired = {send}
  Keys = {key}
  Payloads = {x, y}
  Requests = {}
  OddKey = OddKey
  NoName = NoName
  UnknownTool = UnknownTool
  ConfirmPoll = ConfirmPoll
  Messages <- Keyed
PROPERTY TerminalIsFinal
\* The calls of a run are finitely many.
CHECK_DEADLOCK FALSE

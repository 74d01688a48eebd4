\* Two calls with one key at the same time, no faults.
SPECIFICATION McpSpec
CONSTANTS
  send = send
  show = show
  key = key
  x = x
  y = y
  NoKey = NoKey
  NoRecord = NoRecord
  Calls = {c1, c2}
  Hooks = {c1}
  RecoversJobs = TRUE
  MaxFaults = 0
  Verbs = {send, show}
  Gated = {send}
  KeyRequired = {send}
  Keys = {key}
  Payloads = {x, y}
  Requests = {}
  OddKey = OddKey
  NoName = NoName
  UnknownTool = UnknownTool
  ConfirmPoll = ConfirmPoll
  Messages <- Keyed
INVARIANT KeyRunsOnce
\* The calls of a run are finitely many.
CHECK_DEADLOCK FALSE

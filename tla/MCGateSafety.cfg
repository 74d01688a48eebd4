\* Two requests of any kind, time passing inside calls, one fault.
SPECIFICATION Spec
CONSTANTS
  read = read
  send = send
  record = record
  NoVerb = NoVerb
  Unknown = Unknown
  Threads = {r1, r2}
  Verbs = {read, send, record}
  Tier <- MCTier
  Direction <- MCDirection
  Risk <- MCRisk
  ConfirmationRequiredFor = {"high"}
  Calls <- AnyCall
  FailureLimit = 1
  WindowS = 1
  CooldownS = 1
  SlowCalls = TRUE
  MaxNow = 1
  MaxRows = 0
  MaxFaults = 1
SYMMETRY Symmetry
INVARIANTS GateTypeOK TrailIsLifecycle OwnApproval ReplyMatchesTrail RowsBackedByTrail AdmittedWhileClosed
PROPERTY NoNewRunWhileOpen
\* The requests of a run are finitely many: it stops when all have ended.
CHECK_DEADLOCK FALSE

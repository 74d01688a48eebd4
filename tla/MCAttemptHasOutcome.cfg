\* One request, no faults of the disk or the database.
SPECIFICATION Spec
CONSTANTS
  read = read
  send = send
  record = record
  NoVerb = NoVerb
  Unknown = Unknown
  Threads = {r1}
  Verbs = {read, send, record}
  Tier <- MCTier
  Direction <- MCDirection
  Risk <- MCRisk
  ConfirmationRequiredFor = {"high"}
  Calls <- TierA
  FailureLimit = 1
  WindowS = 1
  CooldownS = 1
  SlowCalls = FALSE
  MaxNow = 0
  MaxRows = 0
  MaxFaults = 0
INVARIANT AttemptHasOutcome
\* The requests of a run are finitely many: it stops when all have ended.
CHECK_DEADLOCK FALSE

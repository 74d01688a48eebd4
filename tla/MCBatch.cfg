\* One batch of up to three entries on two workers; a fault in those of one or two;
\* dialogs may stay open.
SPECIFICATION BatchFairSpec
CONSTANTS
  read = read
  look = look
  send = send
  NoVerb = NoVerb
  Unknown = Unknown
  Threads = {r1, r2, r3}
  Verbs = {read, look, send}
  Tier <- MCTier
  Direction <- MCDirection
  Risk <- MCRisk
  ConfirmationRequiredFor = {"medium"}
  Calls = {}
  FailureLimit = 1
  WindowS = 1
  CooldownS = 1
  SlowCalls = FALSE
  MaxNow = 0
  MaxRows = 0
  MaxFaults = 1
  PoolLimit = 2
  BatchIds = {b1}
  Bodies <- Posted
CONSTRAINT FaultsOfShort
INVARIANTS ItemsMatchEntries CheckedBeforeFirstLine NothingRunsOn
PROPERTIES BatchEnds OthersNeverStall
\* The requests of a run are finitely many: it stops when all have ended.
CHECK_DEADLOCK FALSE

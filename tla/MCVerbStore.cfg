\* Calls take no time: the breaker's arithmetic, with races at one instant.
SPECIFICATION StoreSpec
CONSTANTS
  NoVerb = NoVerb
  Verbs = {v1}
  Threads = {t1, t2}
  FailureLimit = 2
  WindowS = 3
  CooldownS = 2
  SlowCalls = FALSE
  MaxNow = 4
  MaxRows = 3
  MaxFaults = 1
SYMMETRY ThreadSymmetry
INVARIANTS StoreTypeOK EveryTripJustified NoMissedTrip
\* The bounds on the clock and on the rows stop the model.
CHECK_DEADLOCK FALSE

\* Two clients poll a queue of two while four lines come in.
SPECIFICATION FairSpec
CONSTANTS
  Capacity = 2
  MaxItems = 2
  Pollers = {c1, c2}
  MaxMade = 4
INVARIANTS StreamTypeOK FinalPollIsComplete
PROPERTIES IsLossyStream ReaderNeverBlocks
\* At the last line the child and the clients may be done.
CHECK_DEADLOCK FALSE

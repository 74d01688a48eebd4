\* A second run is started while the first one listens.
SPECIFICATION Spec
CONSTANTS
  NoRun = NoRun
  Runs = {i1, i2}
PROPERTY RecoveryEndsLeftovers
\* Each run happens once: the system stops when all are over.
CHECK_DEADLOCK FALSE

\* Three runs of the daemon, killed anywhere, one after another or at once.
SPECIFICATION Spec
CONSTANTS
  NoRun = NoRun
  Runs = {i1, i2, i3}
SYMMETRY Symmetry
INVARIANTS KnownTokenWorks WakeLockHeld
\* Each run happens once: the system stops when all are over.
CHECK_DEADLOCK FALSE

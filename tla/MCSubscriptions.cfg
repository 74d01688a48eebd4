\* Two subscriptions, one of them a script that _is_our_orphan does not recognise,
\* two DELETE handlers, two crashes or failed writes.
SPECIFICATION Spec
CONSTANTS
  NoPid = NoPid
  NoSub = NoSub
  Nobody = Nobody
  Subs = {s1, s2}
  Recognised = {s1}
  Deleters = {d1, d2}
  Pids = {p1, p2}
  MaxFaults = 2
SYMMETRY Symmetry
INVARIANTS StoppedIsDead RunningIsMonitored LiveIsOnFile TrackedOrphansEnd SparesRecycled
\* Each subscription is started once: the system stops when all are over.
CHECK_DEADLOCK FALSE

SPECIFICATION Spec
CONSTANTS
  Tickets <- Numbered
  Old <- Eldest
  Open <- Unclosed
  Restless <- Moving
  PageSize = 2
  Minute = 2
  Interval = 1
  LockLife = 1
  Syncs = {s1, s2}
  Faults = {"error", "crash", "expiry", "purge"}
  MaxTime = 5
  LongestSync = 1
  LastEvent = 1
  MaxChanges = 2
SYMMETRY Symmetry
INVARIANTS
  TypeOK
  NothingSlipsThrough
PROPERTIES
  SyncLoadsWhatStayed
CHECK_DEADLOCK FALSE

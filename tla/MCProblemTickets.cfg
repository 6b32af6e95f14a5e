SPECIFICATION FairSpec
CONSTANTS
  Requests = {r1, r2}
  NoRequest = NoRequest
  Jobs = {j1}
  MaxAttempts = 2
  MaxVersion = 3
  Faults = {"expiry", "crash", "db", "incomplete"}
INVARIANTS
  TypeOK
  HoldersHoldTheLock
  TicketsAreOnRecord
  LinkIsRecorded
  ReportsAreTrue
PROPERTIES
  LiveLinkSurvives
  SnapshotCatchesUp
CHECK_DEADLOCK FALSE

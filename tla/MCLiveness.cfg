SPECIFICATION FairSpec
CONSTANTS
  MaxRuns = 2
  Tickets = {t1}
  NoTicket = NoTicket
  MaxDepth = 100
  Workers = {w1, w2}
  NoWorker = NoWorker
  BatchLimit = 1
  Threshold = 1
  AutoDisable = TRUE
  Faults = {}
  Switches = {"pause"}
PROPERTIES
  PendingIsClaimed
  ClaimedIsFinished
CHECK_DEADLOCK FALSE

SPECIFICATION Spec
CONSTANTS
  MaxRuns = 3
  Tickets = {t1, t2}
  NoTicket = NoTicket
  MaxDepth = 100
  Workers = {w1}
  NoWorker = NoWorker
  BatchLimit = 2
  Threshold = 1
  AutoDisable = TRUE
  Faults = {}
  Switches = {}
SYMMETRY Symmetry
INVARIANTS
  RetryLine
  OneRecordedTicketPerChain
  SettlementsAgree
  ChainInv
PROPERTIES
  SettledForGood
CHECK_DEADLOCK FALSE

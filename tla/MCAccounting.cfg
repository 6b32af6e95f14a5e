SPECIFICATION Spec
CONSTANTS
  MaxRuns = 2
  Tickets = {t1, t2}
  NoTicket = NoTicket
  MaxDepth = 100
  Workers = {w1, w2}
  NoWorker = NoWorker
  BatchLimit = 2
  Threshold = 2
  AutoDisable = FALSE
  Faults = {"crash"}
  Switches = {"disable"}
SYMMETRY Symmetry
INVARIANTS
  FailedMeansNoTicket
  OpenLeafHasAWayOut
PROPERTIES
  UncertainStopsScheduler
  KeepsLedger
CHECK_DEADLOCK FALSE

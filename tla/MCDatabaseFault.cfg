SPECIFICATION Spec
CONSTANTS
  MaxRuns = 2
  Tickets = {t1, t2}
  NoTicket = NoTicket
  MaxDepth = 100
  Workers = {w1}
  NoWorker = NoWorker
  BatchLimit = 2
  Threshold = 2
  AutoDisable = TRUE
  Faults = {"db"}
  Switches = {}
PROPERTIES
  UncertainStopsScheduler
CHECK_DEADLOCK FALSE

SPECIFICATION Spec
CONSTANTS
  MaxRuns = 2
  Tickets = {t1, t2}
  NoTicket = NoTicket
  MaxDepth = 100
  Workers = {w1, w2}
  NoWorker = NoWorker
  BatchLimit = 2
  Threshold = 1
  AutoDisable = TRUE
  Faults = {"crash", "db", "partial"}
  Switches = {}
SYMMETRY Symmetry
INVARIANTS
  TypeOK
  OneTicketPerMarker
  ExclusiveClaim
  BooksNameOwnTicket
  PipelineInv
CHECK_DEADLOCK FALSE

SPECIFICATION Spec
CONSTANTS
  Ttl = 1
  PollInterval = 0
  MaxTime = 5
  MaxEvents = 3
  CloseDelay = 1
  FlapDelay = 0
  FlapThreshold = 1
  ReopenWindow = 1
  Evaluators = {e1, e2}
  AgentStates = {"open", "closed"}
  LostReplies = TRUE
  MaxVersion = 1
SYMMETRY Symmetry
CHECK_DEADLOCK FALSE
INVARIANTS LifecycleTypeOK DelayHasPassed NoPhantomResolution FlapsAreNewEvents

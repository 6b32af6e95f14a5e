SPECIFICATION Spec
CONSTANTS
  Ttl = 1
  PollInterval = 0
  MaxTime = 4
  MaxEvents = 2
  CloseDelay = 1
  FlapDelay = 1
  FlapThreshold = 1
  ReopenWindow = 1
  Evaluators = {e1}
  AgentStates = {}
  LostReplies = FALSE
  MaxVersion = 3
CHECK_DEADLOCK FALSE
INVARIANTS EveryCandidateHasWaited

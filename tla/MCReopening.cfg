SPECIFICATION Spec
CONSTANTS
  Ttl = 0
  PollInterval = 0
  MaxTime = 3
  MaxEvents = 1
  CloseDelay = 1
  FlapDelay = 1
  FlapThreshold = 1
  ReopenWindow = 0
  Evaluators = {e1}
  AgentStates = {"open", "closed"}
  LostReplies = TRUE
  MaxVersion = 3
CHECK_DEADLOCK FALSE
INVARIANTS CandidateHasWaited OfferWithinWindow

SPECIFICATION Spec
CONSTANTS
  Schedules <- ThreeSchedules
  MissedAge = 1
  CatchUpLimit = 1
  Retention = 1
  Passes = {p1, p2}
  Pages = {"switch", "cell", "form", "runs"}
  LastEdit = 2
  MaxManual = 1
  MaxTime = 4
SYMMETRY Symmetry
INVARIANTS
  TypeOK
  OccurrenceOnce
  NoOccurrenceSkipped
CHECK_DEADLOCK FALSE

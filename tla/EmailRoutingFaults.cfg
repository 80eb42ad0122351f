\* One email, with a fault at every point, every run being scheduled.
SPECIFICATION FairSpec
CONSTANTS
  Email = {e1}
  MaxTries = 2
  Faults = {"worklog", "rules", "trigger", "alert"}
INVARIANTS
  TypeOK
  ClosedTellsOutcome
  GreenIsSent
PROPERTIES
  OnlyAnswerIsLate
  EveryEmailEnds
CHECK_DEADLOCK FALSE

\* One email; nothing fails.
SPECIFICATION Spec
CONSTANTS
  Email = {e1}
  MaxTries = 2
  Faults = {}
PROPERTIES
  AnswerIsLogged
CHECK_DEADLOCK FALSE

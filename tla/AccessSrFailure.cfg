\* The ticket system refuses to create the SR of a password reset.
SPECIFICATION Spec
CONSTANTS
  f1 = f1  f2 = f2  q1 = q1  q2 = q2
  Request = {q1}
  MaxTries = 2
  Run = {f1}
  SrGiven = {}
  Named <- OneNew
  Faults = {"service"}
  Kinds = {"reset"}
INVARIANTS
  FailureIsPushed
CHECK_DEADLOCK FALSE

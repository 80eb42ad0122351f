\* A new request, and an email that updates it while its run is under way, or
\* another that exists; both may give an SR number.
SPECIFICATION Spec
CONSTANTS
  f1 = f1  f2 = f2  q1 = q1  q2 = q2
  Request = {q1, q2}
  MaxTries = 2
  Run = {f1, f2}
  SrGiven <- OwnOrForeign
  Named <- NewThenUpdate
  Faults = {"service"}
  Kinds = {"reset", "new user", "new service", "modify", "other"}
INVARIANTS
  TrackedIsReal
CHECK_DEADLOCK FALSE

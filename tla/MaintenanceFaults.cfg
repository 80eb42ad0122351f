\* Three emails on one change request, in any order and overlapping.
SPECIFICATION Spec
CONSTANTS
  Cr = {"cr"}
  Mail = {1, 2, 3}
  Worker = {"w"}
  MaxTries = 2
  MaxFaults = 2
INVARIANTS
  WarmedIsFresh
  DisableIsWarmed
CHECK_DEADLOCK FALSE

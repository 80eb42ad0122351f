\* Two runs that may overlap, over two alerts of one ticket or of two, with
\* all their fields or without, their numbers padded or not.  A behaviour ends
\* when its runs have.
SPECIFICATION Spec
CONSTANTS
  Alert = {a, b}
  Ticket = {t, u}
  Run = {r, s}
  MaxTries = 2
  MaxFaults = 2
SYMMETRY Symmetric
INVARIANTS
  GreenIsCalled
  CalledOnce
CHECK_DEADLOCK FALSE

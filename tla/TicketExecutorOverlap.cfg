\* Two overlapping executions on one ticket, two plans, two contexts.
SPECIFICATION Spec
CONSTANTS
  r1 = r1  r2 = r2  c1 = c1  c2 = c2  unlink = unlink  notify = notify
  Run = {r1, r2}
  NTickets = 1
  PageSize = 1
  MaxReadFailures = 1
  MaxAborts = 1
  Plan <- TwoPlans
  Lookups <- MCLookups
  Action <- MCAction
  Writes <- TwoPlanWrites
  Context = {c1, c2}
  Outcome <- OneOutcome
  Rule <- NoRules
  DefaultOutputs <- BothOutputs
  Mode = {"live"}
  Approved <- AllApproved
  Ambiguous = {}
  LacksFacts = {}
SYMMETRY Symmetric
INVARIANTS
  AtMostOnce
  OneTarget
  OnePlan
  InPlanOrder
  AnswerIsTrue
  LedgerIsTrue
PROPERTIES
  EndsOnce
  ImplementsLedger

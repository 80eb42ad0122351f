\* One execution at a time over two tickets on two pages, restarted and with
\* its switches changed between executions.
SPECIFICATION FairSpec
CONSTANTS
  r1 = r1  r2 = r2  c1 = c1  c2 = c2  unlink = unlink  notify = notify
  Run = {r1}
  NTickets = 2
  PageSize = 1
  MaxReadFailures = 2
  MaxAborts = 1
  Plan <- TwoKinds
  Lookups <- MCLookups
  Action <- MCAction
  Writes <- TwoKindWrites
  Context = {c1}
  Outcome <- MCOutcome
  Rule <- MCRule
  DefaultOutputs <- BothOutputs
  Mode = {"live", "stub"}
  Approved <- FirstApproved
  Ambiguous = {}
  LacksFacts = {2}
INVARIANTS
  TypeOK
  CompleteIsApplied
PROPERTIES
  FinishedStays
  Settles

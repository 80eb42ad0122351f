\* One request, in each of the flows, with everything that can fail, and
\* retries; Airflow schedules every task that can run.
SPECIFICATION FairSpec
CONSTANTS
  f1 = f1  f2 = f2  q1 = q1  q2 = q2
  Request = {q1}
  MaxTries = 2
  Run = {f1}
  SrGiven = {}
  Named <- OneNew
  Faults = {"worklog", "db", "service"}
  Kinds = {"reset", "new user", "new service", "modify", "other"}
INVARIANTS
  TypeOK
  ToldIsWritten
  AnnouncedIsNoted
  OneVerdictTold
  ToldIsTracked
  CompletedIsTold
PROPERTIES
  NoneForgotten
CHECK_DEADLOCK FALSE

\* One request of every kind, with everything that can fail, and retries;
\* Airflow schedules every task that can run.
SPECIFICATION FairSpec
CONSTANTS
  Runs = 3
  MaxTries = 2
  Faults = {"worklog", "db", "service", "itsm"}
  Kinds = {"awaiting", "reset", "new user", "new service", "modify"}
  Overlapping = {"awaiting"}
  Twice = {"modify"}
  Looks <- LooksOf
INVARIANTS
  TypeOK
  ToldIsWritten
  ClosedIsDone
  HandedOverAfterReminders
  HandoverIsTold
PROPERTIES
  NoneForgotten
  ImplementsLifecycle
CHECK_DEADLOCK FALSE

\* Every family, with failed tries and an older DAG that deletes a batch.
SPECIFICATION FairSpec
CONSTANTS
  Row = {1, 2}
  Families = {"task_history", "alert_history", "notification_audit", "ticketing_audit",
              "user_audit", "alert_audit"}
  Retention = {1}
  OlderRetention = 1
  BatchSize = 1
  MaxIterations = 1
  MaxTries = 2
  First = 2
  Last = 4
  MaxFaults = 1
  OlderRuns = 1
INVARIANTS
  SummariesKept
  ReportIsTrue
PROPERTIES
  RetiredOnly
  RetiredGoes

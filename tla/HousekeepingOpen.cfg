\* The older DAG next to housekeeping, on the alert history.
SPECIFICATION Spec
CONSTANTS
  Row = {1, 2}
  Families = {"alert_history"}
  Retention = {1}
  OlderRetention = 1
  BatchSize = 1
  MaxIterations = 1
  MaxTries = 2
  First = 2
  Last = 4
  MaxFaults = 0
  OlderRuns = 1
PROPERTY
  OpenEpisodesStay

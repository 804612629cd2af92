\* The script turns to the next run ID while the logs are exported.
SPECIFICATION Spec
CONSTANTS
  RunIds = {r1, r2}
  Logs = {l1, l2}
  NoId = NoId
  MaxVersions = 2
  MaxFailures = 0
INVARIANT LogsAreOfThisRun

\* Three versions of two run IDs, so that one comes back; the script fails once.
SPECIFICATION Spec
CONSTANTS
  RunIds = {r1, r2}
  Logs = {l1, l2}
  NoId = NoId
  MaxVersions = 3
  MaxFailures = 1
INVARIANT TypeOK
INVARIANT MarkerMeansComplete
INVARIANT NeverOlder
INVARIANT UndisturbedRunIsWhole
PROPERTY LogsArrive

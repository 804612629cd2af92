\* Four versions of the run ID file: enough for a version to be run three times.
SPECIFICATION Spec
CONSTANTS
  RunIds = {r1, r2}
  Empty = Empty
  Fault = Fault
  MaxWrites = 4
  MaxFailures = 1
  MaxCrashes = 1
INVARIANT TypeOK
INVARIANT AtMostThreeRuns
INVARIANT ExitsForCause
PROPERTY NewRunIdCompletes
PROPERTY NoCrashLoop

\* Is a run ID that was used before run when the file goes back to it?
SPECIFICATION Spec
CONSTANTS
  RunIds = {r1, r2}
  Empty = Empty
  Fault = Fault
  MaxWrites = 3
  MaxFailures = 0
  MaxCrashes = 0
PROPERTY AnyRunIdCompletes

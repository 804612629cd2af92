\* Two versions of the ConfigMap and two of the Secret, projected between any two reads.
SPECIFICATION Spec
CONSTANTS
  ConfigMaps <- MCConfigMaps
  Secrets <- MCSecrets
  RunIds = {"r1", "r2"}
  Empty = ""
  Fault = "fault"
  MaxConfigs = 2
  MaxSecrets = 2
  MaxFailures = 1
INVARIANT TypeOK
INVARIANT NothingOlderThanRunId
INVARIANT FailsForCause
INVARIANT RunsWhatWasConfigured
PROPERTY NewRunIdIsRun
CHECK_DEADLOCK FALSE

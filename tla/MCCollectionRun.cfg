\* Two collectors, one of two keys, and the diagnoser that reads both: safety, refinement and the end of the run.
SPECIFICATION Spec
CONSTANTS
  dns = dns
  kubeletcmd = kubeletcmd
  networkconfig = networkconfig
  k1 = k1
  k2 = k2
  Collectors = {dns, kubeletcmd}
  Diagnosers = {networkconfig}
  Keys = {k1, k2}
  Attempts <- MCAttempts
  Reads <- MCReads
INVARIANT TypeOK
INVARIANT DiagnosersReadSettledData
INVARIANT ZipHoldsEverything
INVARIANT FailuresIsolated
PROPERTY ImplementsPhases
PROPERTY RunEnds

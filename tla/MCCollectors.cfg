\* Every collector over small lists, with two failures in any steps, and the diagnosers.
SPECIFICATION DSpec
CONSTANTS
  Kinds = {"dns", "networkconfig", "iptables", "systemlogs", "networkoutbound", "nodelogs", "poddisruptionbudget", "podscontainerlogs", "helm", "kubeobjects", "systemperf", "smi"}
  NodeLogs <- MCNodeLogs
  Namespaces <- MCNamespaces
  PodsIn <- MCPodsIn
  ContainersOf <- MCContainersOf
  Objects <- MCObjects
  Described <- MCDescribed
  Releases <- MCReleases
  Nodes <- MCNodes
  Crds <- MCCrds
  InstancesOf <- MCInstancesOf
  ConfFiles <- MCConfFiles
  Commands <- MCCommands
  MaxPodsArgs <- MCMaxPodsArgs
  PluginArgs <- MCPluginArgs
  MaxFailures = 2
INVARIANT DiagnosersTypeOK
INVARIANT SuccessIsWhole
INVARIANT LostOnlyToNamesakes
INVARIANT DiagnosisIsOfTheNode
PROPERTY DiagnosisEnds
PROPERTY EndsOnceStarted

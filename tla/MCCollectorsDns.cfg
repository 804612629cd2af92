\* No step fails: has each of two common files its signal?
SPECIFICATION DSpec
CONSTANTS
  Kinds = {"dns"}
  NodeLogs <- MCNodeLogs
  Namespaces <- MCNamespaces
  PodsIn <- MCPodsIn
  ContainersOf <- MCContainersOf
  Objects <- MCObjects
  Described <- MCDescribed
  Releases <- MCReleases
  Nodes <- MCNodes
  Crds <- MCCrds
  InstancesOf <- MCInstancesOf
  ConfFiles <- DocumentedConfFiles
  Commands <- MCCommands
  MaxPodsArgs <- MCMaxPodsArgs
  PluginArgs <- MCPluginArgs
  MaxFailures = 0
INVARIANT DnsSignalsAreGenerated

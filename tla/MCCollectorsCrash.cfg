\* No step fails: does the collector of container logs return?
SPECIFICATION DSpec
CONSTANTS
  Kinds = {"podscontainerlogs"}
  NodeLogs <- MCNodeLogs
  Namespaces <- MCNamespaces
  PodsIn <- MCPodsIn
  ContainersOf <- MCContainersOf
  Objects <- MCObjects
  Described <- MCDescribed
  Releases <- MCReleases
  Nodes <- MCNodes
  Crds <- MCCrds
  InstancesOf <- MCInstancesOf
  ConfFiles <- MCConfFiles
  Commands <- MCCommands
  MaxPodsArgs <- MCMaxPodsArgs
  PluginArgs <- MCPluginArgs
  MaxFailures = 0
PROPERTY CollectEnds

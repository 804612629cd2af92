\* No error of the cluster: is every pod asked?
SPECIFICATION Spec
CONSTANTS
  m1 = m1
  m2 = m2
  osm = osm
  app = app
  web = web
  n1 = n1
  n2 = n2
  n3 = n3
  Meshes = {m1, m2}
  Namespaces = {osm, app, web}
  Names = {n1, n2, n3}
  Monitored <- MCMonitored
  Controller <- MCController
  NamesIn <- MCNamesIn
  Queries <- MCQueries
  NoPod = NoPod
  MaxRetries = 2
  MaxFailures = 0
INVARIANT EveryPodIsQueried

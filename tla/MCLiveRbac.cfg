CONSTANTS
  c1 = c1
  cm = cm
  ns = ns
  cluster = cluster
  mNs = mNs
  mCluster = mCluster
  s1 = s1
  d1 = d1
  d2 = d2
  d3 = d3
  None = None
  CRs = {c1}
  ConfigTargets = {cm}
  NamespacedTargets = {}
  ClusterTargets = {cluster}
  Manifests = {mCluster}
  Data = {d1, d2, d3}
  SAs = {s1}
  Failures = {}
  Faults = {"rbac", "error", "calm"}
  Render <- FailingRender
  Specs <- LiveSpecs
SPECIFICATION FairSpec
PROPERTIES TurnsGreen TerminatingEnds
CHECK_DEADLOCK FALSE

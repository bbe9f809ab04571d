CONSTANTS
  c1 = c1
  c2 = c2
  cm = cm
  cluster = cluster
  mCluster = mCluster
  s1 = s1
  d1 = d1
  d2 = d2
  None = None
  CRs = {c1, c2}
  ConfigTargets = {cm}
  NamespacedTargets = {}
  ClusterTargets = {cluster}
  Manifests = {mCluster}
  Data = {d1, d2}
  SAs = {s1}
  Failures = {}
  Faults = {"crash", "data", "tamper"}
  Render <- MCRender
  Specs <- SharedSpecs
SYMMETRY Symmetry
SPECIFICATION Spec
INVARIANTS SettledTellsTruth OutputsAreRecorded NothingOutlivesOwner
PROPERTY ControllerNeverChanges
CHECK_DEADLOCK FALSE

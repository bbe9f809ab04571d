CONSTANTS
  c1 = c1
  cm = cm
  ns = ns
  cluster = cluster
  mNs = mNs
  mCluster = mCluster
  s1 = s1
  d1 = d1
  d2 = d2
  d3 = d3
  None = None
  CRs = {c1}
  ConfigTargets = {cm}
  NamespacedTargets = {ns}
  ClusterTargets = {cluster}
  Manifests = {mNs, mCluster}
  Data = {d1, d2}
  SAs = {s1}
  Failures = {"TemplateLoadFailed", "RenderFailed"}
  Faults = {"race", "crash", "error"}
  Render <- MCRender
  Specs <- MoveSpecs
SPECIFICATION Spec
INVARIANTS TypeOK FinalizerInv FinalizerBeforeApply SettledTellsTruth
PROPERTY FinalizedOutputIsGone
CHECK_DEADLOCK FALSE

SPECIFICATION FairSagaSpec
CONSTANTS
  s1 = s1
  v1 = v1
  d1 = d1
  d2 = d2
  n1 = n1
  n2 = n2
  l1 = l1
  p1 = p1
  p2 = p2
  Slices = {s1}
  Versions = {v1}
  Deployments = {d1}
  Nodes = {n1, n2}
  Links = {l1}
  Ports = {p1, p2}
  SliceOf <- MCSliceOf
  LinkOf <- MCLinkOf
  NodeOf <- MCNodeOf
  Basic = {s1}
  NoVersion = NoVersion
  NoDeployment = NoDeployment
  MaxAttempts = 2
  LateCalls = {}
CHECK_DEADLOCK FALSE
PROPERTY WorkflowsEnd

SPECIFICATION RegSpec
CONSTANTS
  s1 = s1
  v1 = v1
  v2 = v2
  d1 = d1
  d2 = d2
  n1 = n1
  l1 = l1
  NoVersion = NoVersion
  Deployments = {d1, d2}
  Slices = {s1}
  Versions = {v1, v2}
  SliceOf <- MCVersionSlice
  Basic = {s1}
  Nodes = {n1}
  Links = {l1}
SYMMETRY MCSymmetry
INVARIANT TypeOK
INVARIANT UpdatingIffOneActive
INVARIANT VersionLockedWhileActive
INVARIANT ActiveVersionIsDeployed
INVARIANT ReservedOnlyIfApproved
PROPERTY OutcomesAreFinal
PROPERTY KeepsLease

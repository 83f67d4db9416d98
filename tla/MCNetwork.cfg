SPECIFICATION NetworkSpec
CONSTANTS
  s1 = s1
  s2 = s2
  d1 = d1
  d2 = d2
  d3 = d3
  l1 = l1
  l2 = l2
  l3 = l3
  p1 = p1
  p2 = p2
  p3 = p3
  p4 = p4
  a1 = a1
  a2 = a2
  Slices = {s1, s2}
  Deployments = {d1, d2, d3}
  Links = {l1, l2, l3}
  Ports = {p1, p2, p3, p4}
  Attempts = {a1, a2}
  SliceOf <- MCSliceOf
  LinksOf <- MCLinksOf
  Endpoints <- MCEndpoints
  PortsOf <- MCPortsOf
  MaxTag = 2
  MaxCtag = 3
  BlockSize = 32
  MaxIp = 4
  MaxLinks = 2
  NoDeployment = NoDeployment
SYMMETRY MCSymmetry
INVARIANT NetworkTypeOK
INVARIANT TagLockSuffices
INVARIANT PrivateSpaceDisjoint
 
PROPERTY RerunOnlyLowers

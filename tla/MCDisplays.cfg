SPECIFICATION DisplaySpec
CONSTANTS
  d1 = d1
  d2 = d2
  n1 = n1
  n2 = n2
  n3 = n3
  w1 = w1
  w2 = w2
  Deployments = {d1, d2}
  Nodes = {n1, n2, n3}
  Servers = {1, 2}
  Workers = {w1, w2}
  DeploymentOf <- MCDeploymentOf
  ServerOf <- MCServerOf
  Before <- MCBefore
  MaxDisplay = 2
  NoDeployment = NoDeployment
SYMMETRY MCSymmetry
INVARIANT DisplayTypeOK
INVARIANT AdvisoryLocksSuffice
INVARIANT AllocatorsProceed
PROPERTY DisplaysAreKept

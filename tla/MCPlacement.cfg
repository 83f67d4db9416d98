SPECIFICATION LedgerSpec
CONSTANTS
  d1 = d1
  d2 = d2
  d3 = d3
  n1 = n1
  n2 = n2
  n3 = n3
  n4 = n4
  u1 = u1
  a1 = a1
  a2 = a2
  Deployments = {d1, d2, d3}
  Nodes = {n1, n2, n3, n4}
  Users = {u1}
  Resources = {"vcpu", "ram"}
  ServerCount = 2
  Total <- MCTotal
  PlanOf <- MCPlan
  Demand <- MCDemand
  UserOf <- MCUser
  Quotas <- MCQuotas
  Attempts = {a1, a2}
  NoDeployment = NoDeployment
CHECK_DEADLOCK FALSE
SYMMETRY MCSymmetry
INVARIANT LedgerTypeOK
INVARIANT CountersWithinTotals
INVARIANT LedgerBalanced
INVARIANT PlacementIsIdempotent
INVARIANT SomeoneProceeds
INVARIANT QuotaExceededOnlyByOverlap
PROPERTY KeepsPromise

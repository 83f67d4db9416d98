SPECIFICATION AdapterSpec
CONSTANTS
  x = x
  y = y
  k = k
  l = l
  w1 = w1
  w2 = w2
  Vms = {x, y}
  Links = {k, l}
  Public = Public
  NoVm = NoVm
  NoLink = NoLink
  Servers = {1, 2}
  Workers = {w1, w2}
  Submitted <- MCSubmitted
  LateIn <- MCLateIn
SYMMETRY MCSymmetry
CHECK_DEADLOCK FALSE
INVARIANT AdapterTypeOK
INVARIANT RoundsAreLinksPortsVms
INVARIANT CompletedIsWired
 

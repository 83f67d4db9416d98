SPECIFICATION SessionSpec
CONSTANTS
  u1 = u1
  t1 = t1
  t2 = t2
  t3 = t3
  r1 = r1
  r3 = r3
  r2 = r2
  p1 = p1
  p2 = p2
  Users = {u1}
  Tokens = {t1, t2, t3}
  Requests = {r1, r2, r3}
  Profiles = {p1, p2}
  NoUser = NoUser
  NoToken = NoToken
  NoProfile = NoProfile
SYMMETRY MCSymmetry
INVARIANT SessionTypeOK
 
 

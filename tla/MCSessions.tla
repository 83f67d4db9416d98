----------------------------- MODULE MCSessions -----------------------------
EXTENDS AuthSessions, TLC
CONSTANTS u1, t1, t2, t3, r1, r2, r3, p1, p2
MCSymmetry == Permutations(Tokens) \cup Permutations(Requests) \cup Permutations(Profiles)
=============================================================================

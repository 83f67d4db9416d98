----------------------------- MODULE MCNetwork -----------------------------
(* d1 and d2 are deployments of slice s1, d3 is one of s2.                 *)
EXTENDS NetworkTags, TLC
CONSTANTS s1, s2, d1, d2, d3, l1, l2, l3, p1, p2, p3, p4, a1, a2

MCSliceOf == d1 :> s1 @@ d2 :> s1 @@ d3 :> s2
MCLinksOf == d1 :> <<l1>> @@ d2 :> <<l2, l3>> @@ d3 :> <<>>
MCEndpoints == l1 :> 2 @@ l2 :> 3 @@ l3 :> 2
MCPortsOf == d1 :> <<p1, p2>> @@ d2 :> <<>> @@ d3 :> <<p3, p4>>
MCSymmetry == Permutations({a1, a2})
=============================================================================

---------------------------- MODULE MCDisplays ----------------------------
(* d1 has a VM on each of two servers, d2 one on the second; two displays. *)
EXTENDS ComputeDisplays, TLC
CONSTANTS d1, d2, n1, n2, n3, w1, w2

MCDeploymentOf == n1 :> d1 @@ n2 :> d1 @@ n3 :> d2
MCServerOf == n1 :> 2 @@ n2 :> 1 @@ n3 :> 2
MCBefore == n1 :> {} @@ n2 :> {n1} @@ n3 :> {}
MCSymmetry == Permutations({w1, w2})
=============================================================================

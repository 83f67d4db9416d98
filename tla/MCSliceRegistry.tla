-------------------------- MODULE MCSliceRegistry --------------------------
(* A slice of a "basico" user with two versions; a plan has a VM and a     *)
(* link.                                                                   *)
EXTENDS SliceRegistry, TLC
CONSTANTS s1, v1, v2, d1, d2, n1, l1

MCVersionSlice == v1 :> s1 @@ v2 :> s1
MCSymmetry == Permutations({v1, v2}) \cup Permutations({d1, d2})
=============================================================================

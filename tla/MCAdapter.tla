------------------------------ MODULE MCAdapter ------------------------------
(* Two VMs on two links, and one public VM on a link with a private one.   *)
EXTENDS AdapterHosts, TLC
CONSTANTS x, y, k, l, w1, w2

MCOneLink ==
  <<[vms |-> {x, y}, public |-> {}, links |-> k :> {x, y}], x :> 1 @@ y :> 2>>
MCTwoLinks ==
  <<[vms |-> {x, y}, public |-> {}, links |-> k :> {x, y} @@ l :> {x, y}], x :> 1 @@ y :> 2>>
MCPublic ==
  <<[vms |-> {x, y}, public |-> {x}, links |-> k :> {x, y}], x :> 1 @@ y :> 1>>
MCSubmitted == {MCOneLink, MCTwoLinks, MCPublic}
MCLateIn == {MCOneLink}
MCSymmetry == Permutations({w1, w2})
=============================================================================

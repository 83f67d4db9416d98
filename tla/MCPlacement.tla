---------------------------- MODULE MCPlacement ----------------------------
(* Two servers, three deployments of one user; d1 has two VMs.             *)
EXTENDS PlacementLedger, TLC
CONSTANTS d1, d2, d3, n1, n2, n3, n4, u1, a1, a2

MCTotal == 1 :> [vcpu |-> 2, ram |-> 2] @@ 2 :> [vcpu |-> 2, ram |-> 1]
MCPlan == d1 :> <<n1, n2>> @@ d2 :> <<n3>> @@ d3 :> <<n4>>
MCDemand == n1 :> [vcpu |-> 1, ram |-> 1] @@ n2 :> [vcpu |-> 2, ram |-> 0]
         @@ n3 :> [vcpu |-> 1, ram |-> 1] @@ n4 :> [vcpu |-> 1, ram |-> 1]
MCUser == d1 :> u1 @@ d2 :> u1 @@ d3 :> u1
MCQuotas == {[vcpu |-> 3, ram |-> 2], [vcpu |-> 4, ram |-> 2]}
\* d2 and d3 differ in nothing but their node.
MCSwap == d2 :> d3 @@ d3 :> d2 @@ n3 :> n4 @@ n4 :> n3
MCSymmetry == Permutations({a1, a2}) \cup {MCSwap}
=============================================================================

---------------------------- MODULE MCDeploySaga ----------------------------
(* One slice of a "basico" or "avanzado" user: two VMs n1 and n2 on a link  *)
(* l1 by their ports p1 and p2, the smallest plan that creates anything.   *)
EXTENDS DeploySaga, TLC
CONSTANTS s1, v1, d1, d2, n1, n2, l1, p1, p2

MCSliceOf == v1 :> s1
MCLinkOf == p1 :> l1 @@ p2 :> l1
MCNodeOf == p1 :> n1 @@ p2 :> n2

\* The two VMs are interchangeable, each with its port.
MCSwapVms == n1 :> n2 @@ n2 :> n1 @@ p1 :> p2 @@ p2 :> p1
MCSymmetry == {MCSwapVms}
MCSymmetryAgain == {MCSwapVms} \cup Permutations({d1, d2})

\* Start requests and approval signals have no effect on a workflow that is past
\* its approval: states that differ only in those are the same.
MCAwaiting == {d \in Deployments : Pc(d) \in {"absent", "approval", "waiting"}}
MCView ==
  <<world, wf, inflight,
    {d \in starting : Pc(d) = "absent"},
    {p \in signalling : p[1] \in MCAwaiting},
    [d \in MCAwaiting |-> signal[d]]>>
=============================================================================

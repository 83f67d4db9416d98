---------------------------- MODULE DeployLease ----------------------------
(***************************************************************************)
(* What the Slice Manager promises about initial DEPLOYs, without versions, *)
(* approvals or inventory: a slice is lent to one deployment at a time, a  *)
(* deployment ends once, and after one that COMPLETED or FAILED the slice  *)
(* is never lent again.                                                    *)
(***************************************************************************)
CONSTANTS Slices, Deployments

Ends == {"REJECTED", "COMPENSATED", "COMPLETED", "FAILED"}

VARIABLES
  lease,   \* the deployments a slice is lent to
  result,  \* how a deployment ended, "none" until then
  spent    \* slices that can no longer be lent

leaseVars == <<lease, result, spent>>

LeaseTypeOK ==
  /\ lease \in [Slices -> SUBSET Deployments]
  /\ result \in [Deployments -> Ends \cup {"none"}]
  /\ spent \subseteq Slices

LeaseInit ==
  /\ lease = [s \in Slices |-> {}]
  /\ result = [d \in Deployments |-> "none"]
  /\ spent = {}

Idle(d) == result[d] = "none" /\ \A s \in Slices : d \notin lease[s]

Refuse(d) ==
  /\ Idle(d)
  /\ result' = [result EXCEPT ![d] = "REJECTED"]
  /\ UNCHANGED <<lease, spent>>

Lend(d, s) ==
  /\ Idle(d)
  /\ lease[s] = {} /\ s \notin spent
  /\ lease' = [lease EXCEPT ![s] = {d}]
  /\ UNCHANGED <<result, spent>>

Return(d, s, end) ==
  /\ d \in lease[s]
  /\ lease' = [lease EXCEPT ![s] = {}]
  /\ result' = [result EXCEPT ![d] = end]
  /\ \/ spent' = spent \cup {s}
     \/ end \in {"REJECTED", "COMPENSATED"} /\ UNCHANGED spent

LeaseNext ==
  \E d \in Deployments :
    \/ Refuse(d)
    \/ \E s \in Slices : Lend(d, s) \/ \E end \in Ends : Return(d, s, end)

LeaseSpec == LeaseInit /\ [][LeaseNext]_leaseVars
=============================================================================

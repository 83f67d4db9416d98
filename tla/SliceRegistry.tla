--------------------------- MODULE SliceRegistry ---------------------------
(***************************************************************************)
(* The rows the Slice Manager keeps in the schema slices.* about initial   *)
(* DEPLOYs, and the transactions that change them: one action per          *)
(* transaction of slice_lifecycle.py, slice_service.py and deployments.py. *)
(* Each transaction locks the rows it reads FOR UPDATE, so it is atomic.   *)
(*                                                                         *)
(* RegNext calls them in any order, as often as it likes: the internal     *)
(* HTTP API checks nothing about its caller but a token, and a request     *)
(* that timed out at the worker may still commit later.  What holds under  *)
(* RegSpec therefore holds whatever the deploy workflow does; the          *)
(* workflow's own order is module DeploySaga.                              *)
(*                                                                         *)
(* Node, link and port identities are derived from the deployment          *)
(* (identity_scope = "deployment:<id>"), so the inventory is indexed by    *)
(* the deployment that planned it.  Port rows live and die with their link *)
(* (ON DELETE CASCADE) and are not represented.                            *)
(***************************************************************************)
EXTENDS FiniteSets

CONSTANTS Slices, Versions, Deployments,
          Nodes, Links,      \* what a deployment's plan creates
          SliceOf,           \* the slice a version belongs to
          Basic,             \* slices whose owner has level "basico"
          NoVersion          \* SQL NULL in version_activa_id, target_version_id

ASSUME RegistryAssumption ==
  /\ SliceOf \in [Versions -> Slices]
  /\ Basic \subseteq Slices
  /\ NoVersion \notin Versions
  /\ Nodes \cap Links = {}

VARIABLES
  sliceState,     \* slice.estado
  activeVersion,  \* slice.version_activa_id
  versionState,   \* slice_version.estado_version
  estado,         \* deployment.estado
  target,         \* deployment.target_version_id
  workflowId,     \* deployment.workflow_id IS NOT NULL
  approval,       \* solicitud_aprobacion.estado
  nodes,          \* slice_nodo.estado_nodo
  links,          \* slice_enlace.estado
  reserva         \* reserva_nodo.estado of the deployment's rows

regVars == <<sliceState, activeVersion, versionState, estado, target, workflowId,
             approval, nodes, links, reserva>>

\* "absent" and "none" stand for a row that does not exist.
SliceStates == {"absent", "DRAFT", "UPDATING", "RUNNING", "STOPPED", "FAILED"}
VersionStates == {"absent", "DRAFT", "APPROVAL_PENDING", "DEPLOYING", "ACTIVE",
                  "INCONSISTENT", "ARCHIVED"}
Outcomes == {"REJECTED", "COMPENSATED", "COMPLETED", "FAILED"}
Estados == {"none", "PENDING", "IN_PROGRESS"} \cup Outcomes
Decisions == {"APPROVED", "REJECTED_BY_OPERATOR"}
Approvals == {"none", "PENDING", "REJECTED_BY_SYSTEM"} \cup Decisions
NodeStates == {"none", "PENDING", "RUNNING", "FAILED", "DELETED"}
LinkStates == {"none", "PENDING", "CREATED", "FAILED"}
ReservaStates == {"none", "RESERVED", "RELEASED"}

TypeOK ==
  /\ sliceState \in [Slices -> SliceStates]
  /\ activeVersion \in [Slices -> Versions \cup {NoVersion}]
  /\ versionState \in [Versions -> VersionStates]
  /\ estado \in [Deployments -> Estados]
  /\ target \in [Deployments -> Versions \cup {NoVersion}]
  /\ workflowId \in [Deployments -> BOOLEAN]
  /\ approval \in [Deployments -> Approvals]
  /\ nodes \in [Deployments -> [Nodes -> NodeStates]]
  /\ links \in [Deployments -> [Links -> LinkStates]]
  /\ reserva \in [Deployments -> ReservaStates]
  /\ \A d \in Deployments : estado[d] = "none" <=> target[d] = NoVersion

\* The slice that init.sql seeds is one more CreateSlice.
RegInit ==
  /\ sliceState = [s \in Slices |-> "absent"]
  /\ activeVersion = [s \in Slices |-> NoVersion]
  /\ versionState = [v \in Versions |-> "absent"]
  /\ estado = [d \in Deployments |-> "none"]
  /\ target = [d \in Deployments |-> NoVersion]
  /\ workflowId = [d \in Deployments |-> FALSE]
  /\ approval = [d \in Deployments |-> "none"]
  /\ nodes = [d \in Deployments |-> [n \in Nodes |-> "none"]]
  /\ links = [d \in Deployments |-> [l \in Links |-> "none"]]
  /\ reserva = [d \in Deployments |-> "none"]

-----------------------------------------------------------------------------
\* Reading the registry.

Exists(d) == estado[d] # "none"
Active(d) == estado[d] \in {"PENDING", "IN_PROGRESS"}
DeploymentsOf(s) == {d \in Deployments : Exists(d) /\ SliceOf[target[d]] = s}
ActiveOn(s) == {d \in DeploymentsOf(s) : Active(d)}

HasLiveVersionInventory(v) ==
  \E d \in Deployments :
    /\ target[d] = v
    /\ \/ \E n \in Nodes : nodes[d][n] \notin {"none", "DELETED"}
       \/ \E l \in Links : links[d][l] # "none"

VersionIsReferenced(v) ==
  \/ \E d \in Deployments : target[d] = v
  \/ \E s \in Slices : activeVersion[s] = v

\* _recalculate_slice_state, over the node states nd and active version av.
RecalculatedState(s, nd, av) ==
  LET states == UNION {{nd[d][n] : n \in Nodes} : d \in DeploymentsOf(s)}
  IN  IF av # NoVersion
      THEN IF "RUNNING" \in states THEN "RUNNING" ELSE "STOPPED"
      ELSE IF states \cap {"RUNNING", "FAILED"} # {} THEN "FAILED" ELSE "DRAFT"

-----------------------------------------------------------------------------
\* Slice and version lifecycle (slice_lifecycle.py).

CreateSlice(s, v) ==
  /\ sliceState[s] = "absent"
  /\ SliceOf[v] = s /\ versionState[v] = "absent"
  /\ sliceState' = [sliceState EXCEPT ![s] = "DRAFT"]
  /\ versionState' = [versionState EXCEPT ![v] = "DRAFT"]
  /\ UNCHANGED <<activeVersion, estado, target, workflowId, approval, nodes,
                 links, reserva>>

CreateVersion(v) ==
  /\ sliceState[SliceOf[v]] # "absent"
  /\ versionState[v] = "absent"
  /\ versionState' = [versionState EXCEPT ![v] = "DRAFT"]
  /\ UNCHANGED <<sliceState, activeVersion, estado, target, workflowId, approval,
                 nodes, links, reserva>>

DeleteVersion(v) ==
  /\ versionState[v] = "DRAFT"
  /\ ~VersionIsReferenced(v)
  /\ versionState' = [versionState EXCEPT ![v] = "absent"]
  /\ UNCHANGED <<sliceState, activeVersion, estado, target, workflowId, approval,
                 nodes, links, reserva>>

-----------------------------------------------------------------------------
\* Requesting and approving an initial DEPLOY (slice_service.py).

\* Mutant: only the version is looked at, not the slice's other deployments.
MutMayDeployVersionOnly(v) ==
  versionState[v] = "DRAFT" /\ ~HasLiveVersionInventory(v)

MayDeploy(v) ==
  /\ ActiveOn(SliceOf[v]) = {}
  /\ sliceState[SliceOf[v]] = "DRAFT"
  /\ activeVersion[SliceOf[v]] = NoVersion
  /\ versionState[v] = "DRAFT"
  /\ ~HasLiveVersionInventory(v)

\* Mutant: the refusal does not record the version it refused.
MutRejectedWithoutVersion(d, v) ==
  /\ ~Exists(d) /\ MayDeploy(v)
  /\ estado' = [estado EXCEPT ![d] = "REJECTED"]
  /\ approval' = [approval EXCEPT ![d] = "REJECTED_BY_SYSTEM"]
  /\ UNCHANGED <<sliceState, activeVersion, versionState, target, workflowId, nodes,
                 links, reserva>>

\* Admission (quota or zone) fails: the refusal is recorded, nothing else moves.
CreateRejectedDeployment(d, v) ==
  /\ ~Exists(d) /\ MayDeploy(v)
  /\ estado' = [estado EXCEPT ![d] = "REJECTED"]
  /\ target' = [target EXCEPT ![d] = v]
  /\ approval' = [approval EXCEPT ![d] = "REJECTED_BY_SYSTEM"]
  /\ UNCHANGED <<sliceState, activeVersion, versionState, workflowId, nodes, links,
                 reserva>>

CreatePendingDeployment(d, v) ==
  LET s == SliceOf[v]
      requiresApproval == s \in Basic
  IN
  /\ ~Exists(d) /\ MayDeploy(v)
  /\ estado' = [estado EXCEPT ![d] = "PENDING"]
  /\ target' = [target EXCEPT ![d] = v]
  /\ workflowId' = [workflowId EXCEPT ![d] = TRUE]
  /\ approval' = [approval EXCEPT ![d] = IF requiresApproval THEN "PENDING" ELSE "APPROVED"]
  /\ sliceState' = [sliceState EXCEPT ![s] = "UPDATING"]
  /\ versionState' = [versionState EXCEPT ![v] =
                        IF requiresApproval THEN "APPROVAL_PENDING" ELSE "DEPLOYING"]
  /\ UNCHANGED <<activeVersion, nodes, links, reserva>>

\* Mutant: a decision can be reversed.
MutDecideAgain(d, decision) ==
  /\ approval[d] # "none"
  /\ approval' = [approval EXCEPT ![d] = decision]
  /\ UNCHANGED <<sliceState, activeVersion, versionState, estado, target, workflowId,
                 nodes, links, reserva>>

\* decide_approval looks at the approval row only, never at deployment.estado.
\* Repeating the decision already taken is accepted and writes nothing.
DecideApproval(d, decision) ==
  /\ approval[d] \in {"PENDING", decision}
  /\ approval' = [approval EXCEPT ![d] = decision]
  /\ UNCHANGED <<sliceState, activeVersion, versionState, estado, target, workflowId,
                 nodes, links, reserva>>

-----------------------------------------------------------------------------
\* Transactions of the internal API the workflow drives (deployments.py).

StartAccepted(d) ==
  estado[d] = "IN_PROGRESS" \/ (estado[d] = "PENDING" /\ approval[d] = "APPROVED")

StartDeployment(d) ==
  /\ StartAccepted(d)
  /\ estado' = [estado EXCEPT ![d] = "IN_PROGRESS"]
  /\ versionState' = [versionState EXCEPT ![target[d]] =
       IF estado[d] = "PENDING" /\ @ = "APPROVAL_PENDING" THEN "DEPLOYING" ELSE @]
  /\ UNCHANGED <<sliceState, activeVersion, target, workflowId, approval, nodes,
                 links, reserva>>

\* INSERT ... ON CONFLICT (id) DO NOTHING: only missing rows appear.
CreateInventory(d) ==
  /\ Exists(d)
  /\ nodes' = [nodes EXCEPT ![d] =
       [n \in Nodes |-> IF @[n] = "none" THEN "PENDING" ELSE @[n]]]
  /\ links' = [links EXCEPT ![d] =
       [l \in Links |-> IF @[l] = "none" THEN "PENDING" ELSE @[l]]]
  /\ UNCHANGED <<sliceState, activeVersion, versionState, estado, target, workflowId,
                 approval, reserva>>

\* Mutant: the deployment's state is not looked at.
MutReserveAcceptedAnyState(d) ==
  /\ \A n \in Nodes : nodes[d][n] # "none"
  /\ reserva[d] # "RELEASED"

\* An existing reservation is returned as it is, a released one is refused; a plan
\* without VMs reserves nothing.
ReserveAccepted(d) ==
  /\ estado[d] = "IN_PROGRESS"
  /\ \A n \in Nodes : nodes[d][n] # "none"
  /\ reserva[d] # "RELEASED"

ReservePlacement(d) ==
  /\ ReserveAccepted(d)
  /\ reserva' = [reserva EXCEPT ![d] = IF Nodes = {} THEN @ ELSE "RESERVED"]
  /\ UNCHANGED <<sliceState, activeVersion, versionState, estado, target, workflowId,
                 approval, nodes, links>>

RollbackPlacement(d) ==
  /\ Exists(d)
  /\ reserva' = [reserva EXCEPT ![d] = IF @ = "RESERVED" THEN "RELEASED" ELSE @]
  /\ UNCHANGED <<sliceState, activeVersion, versionState, estado, target, workflowId,
                 approval, nodes, links>>

\* record_round_facts: every target's row must exist, or the whole round is refused.
FactsAccepted(d, good, bad) ==
  /\ Exists(d)
  /\ \A n \in Nodes \cap (good \cup bad) : nodes[d][n] # "none"
  /\ \A l \in Links \cap (good \cup bad) : links[d][l] # "none"

RecordRoundFacts(d, good, bad) ==
  /\ FactsAccepted(d, good, bad)
  /\ nodes' = [nodes EXCEPT ![d] =
       [n \in Nodes |-> IF n \in good THEN "RUNNING"
                        ELSE IF n \in bad THEN "FAILED" ELSE @[n]]]
  /\ links' = [links EXCEPT ![d] =
       [l \in Links |-> IF l \in good THEN "CREATED"
                        ELSE IF l \in bad THEN "FAILED" ELSE @[l]]]
  /\ UNCHANGED <<sliceState, activeVersion, versionState, estado, target, workflowId,
                 approval, reserva>>

-----------------------------------------------------------------------------
\* finish_deployment.  The same terminal outcome again is a no-op, another one
\* is refused.

FinishAccepted(d, outcome) == Active(d) \/ estado[d] = outcome

FinishRepeated(d, outcome) ==
  /\ outcome \in Outcomes
  /\ estado[d] = outcome
  /\ UNCHANGED regVars

\* Mutant: version_activa_id is not set.
MutFinishCompletedNoActive(d) ==
  LET v == target[d]
      s == SliceOf[v]
  IN
  /\ Active(d)
  /\ estado' = [estado EXCEPT ![d] = "COMPLETED"]
  /\ versionState' = [versionState EXCEPT ![v] = "ACTIVE"]
  /\ sliceState' = [sliceState EXCEPT ![s] = RecalculatedState(s, nodes, v)]
  /\ UNCHANGED <<activeVersion, target, workflowId, approval, nodes, links, reserva>>

FinishCompleted(d) ==
  LET v == target[d]
      s == SliceOf[v]
  IN
  /\ Active(d)
  /\ estado' = [estado EXCEPT ![d] = "COMPLETED"]
  /\ versionState' = [w \in Versions |->
       IF w = v THEN "ACTIVE"
       ELSE IF SliceOf[w] = s /\ versionState[w] = "ACTIVE" THEN "ARCHIVED"
       ELSE versionState[w]]
  /\ activeVersion' = [activeVersion EXCEPT ![s] = v]
  /\ sliceState' = [sliceState EXCEPT ![s] = RecalculatedState(s, nodes, v)]
  /\ UNCHANGED <<target, workflowId, approval, nodes, links, reserva>>

\* Mutant: the plan's links are not deleted.
MutFinishUndoneKeepsLinks(d, outcome) ==
  LET v == target[d]
      s == SliceOf[v]
      closed == [nodes EXCEPT ![d] =
                   [n \in Nodes |-> IF @[n] = "none" THEN "none" ELSE "DELETED"]]
  IN
  /\ outcome \in {"COMPENSATED", "REJECTED"}
  /\ Active(d)
  /\ estado' = [estado EXCEPT ![d] = outcome]
  /\ approval' = [approval EXCEPT ![d] =
       IF outcome = "REJECTED" /\ @ = "PENDING" THEN "REJECTED_BY_OPERATOR" ELSE @]
  /\ versionState' = [versionState EXCEPT ![v] = "DRAFT"]
  /\ nodes' = closed
  /\ sliceState' = [sliceState EXCEPT ![s] = RecalculatedState(s, closed, activeVersion[s])]
  /\ UNCHANGED <<activeVersion, target, workflowId, links, reserva>>

\* Mutant: a rejection leaves the version waiting for approval.
MutFinishUndoneKeepsVersion(d, outcome) ==
  LET v == target[d]
      s == SliceOf[v]
      closed == [nodes EXCEPT ![d] =
                   [n \in Nodes |-> IF @[n] = "none" THEN "none" ELSE "DELETED"]]
  IN
  /\ outcome \in {"COMPENSATED", "REJECTED"}
  /\ Active(d)
  /\ estado' = [estado EXCEPT ![d] = outcome]
  /\ approval' = [approval EXCEPT ![d] =
       IF outcome = "REJECTED" /\ @ = "PENDING" THEN "REJECTED_BY_OPERATOR" ELSE @]
  /\ versionState' = [versionState EXCEPT ![v] = IF outcome = "REJECTED" THEN @ ELSE "DRAFT"]
  /\ nodes' = closed
  /\ links' = [links EXCEPT ![d] = [l \in Links |-> "none"]]
  /\ sliceState' = [sliceState EXCEPT ![s] = RecalculatedState(s, closed, activeVersion[s])]
  /\ UNCHANGED <<activeVersion, target, workflowId, reserva>>

\* COMPENSATED and REJECTED undo the same rows; REJECTED also closes an
\* approval that is still open.
FinishUndone(d, outcome) ==
  LET v == target[d]
      s == SliceOf[v]
      closed == [nodes EXCEPT ![d] =
                   [n \in Nodes |-> IF @[n] = "none" THEN "none" ELSE "DELETED"]]
  IN
  /\ outcome \in {"COMPENSATED", "REJECTED"}
  /\ Active(d)
  /\ estado' = [estado EXCEPT ![d] = outcome]
  /\ approval' = [approval EXCEPT ![d] =
       IF outcome = "REJECTED" /\ @ = "PENDING" THEN "REJECTED_BY_OPERATOR" ELSE @]
  /\ versionState' = [versionState EXCEPT ![v] = "DRAFT"]
  /\ nodes' = closed
  /\ links' = [links EXCEPT ![d] = [l \in Links |-> "none"]]
  /\ sliceState' = [sliceState EXCEPT ![s] = RecalculatedState(s, closed, activeVersion[s])]
  /\ UNCHANGED <<activeVersion, target, workflowId, reserva>>

\* Mutant: the current state is not looked at.
MutFinishFailedAnyState(d) ==
  LET v == target[d]
      s == SliceOf[v]
  IN
  /\ Exists(d)
  /\ estado' = [estado EXCEPT ![d] = "FAILED"]
  /\ versionState' = [versionState EXCEPT ![v] = "INCONSISTENT"]
  /\ nodes' = [nodes EXCEPT ![d] =
       [n \in Nodes |-> IF @[n] \in {"none", "DELETED"} THEN @[n] ELSE "FAILED"]]
  /\ sliceState' = [sliceState EXCEPT ![s] = "FAILED"]
  /\ activeVersion' = [activeVersion EXCEPT ![s] = NoVersion]
  /\ UNCHANGED <<target, workflowId, approval, links, reserva>>

FinishFailed(d) ==
  LET v == target[d]
      s == SliceOf[v]
  IN
  /\ Active(d)
  /\ estado' = [estado EXCEPT ![d] = "FAILED"]
  /\ versionState' = [versionState EXCEPT ![v] = "INCONSISTENT"]
  /\ nodes' = [nodes EXCEPT ![d] =
       [n \in Nodes |-> IF @[n] \in {"none", "DELETED"} THEN @[n] ELSE "FAILED"]]
  /\ sliceState' = [sliceState EXCEPT ![s] = "FAILED"]
  /\ activeVersion' = [activeVersion EXCEPT ![s] = NoVersion]
  /\ UNCHANGED <<target, workflowId, approval, links, reserva>>

FinishDeployment(d, outcome) ==
  \/ FinishRepeated(d, outcome)
  \/ outcome = "COMPLETED" /\ FinishCompleted(d)
  \/ FinishUndone(d, outcome)
  \/ outcome = "FAILED" /\ FinishFailed(d)

-----------------------------------------------------------------------------
UserCall ==
  \/ \E s \in Slices, v \in Versions : CreateSlice(s, v)
  \/ \E v \in Versions : CreateVersion(v) \/ DeleteVersion(v)
  \/ \E d \in Deployments, v \in Versions :
       CreateRejectedDeployment(d, v) \/ CreatePendingDeployment(d, v)
  \/ \E d \in Deployments, decision \in Decisions : DecideApproval(d, decision)

InternalCall ==
  \E d \in Deployments :
    \/ StartDeployment(d)
    \/ CreateInventory(d)
    \/ ReservePlacement(d)
    \/ RollbackPlacement(d)
    \/ \E good \in SUBSET (Nodes \cup Links) :
         \E bad \in SUBSET ((Nodes \cup Links) \ good) : RecordRoundFacts(d, good, bad)
    \/ \E outcome \in Outcomes : FinishDeployment(d, outcome)

RegNext == UserCall \/ InternalCall

RegSpec == RegInit /\ [][RegNext]_regVars

-----------------------------------------------------------------------------
\* What the registry guarantees whatever its callers do.

\* A slice is UPDATING exactly while one deployment of it is active, and never
\* two: request_initial_deploy and finish_deployment keep slice.estado and
\* deployment.estado in step whatever is called in between.
UpdatingIffOneActive ==
  \A s \in Slices :
    /\ sliceState[s] = "UPDATING" <=> ActiveOn(s) # {}
    /\ \A d, e \in ActiveOn(s) : d = e

\* A version is in APPROVAL_PENDING or DEPLOYING exactly while an active
\* deployment targets it: no end of a deployment leaves its version locked
\* against editing, and none frees the version of a running one.
VersionLockedWhileActive ==
  \A v \in Versions :
    versionState[v] \in {"APPROVAL_PENDING", "DEPLOYING"}
      <=> \E d \in Deployments : Active(d) /\ target[d] = v

\* version_activa_id, estado_version = ACTIVE and the slice's state agree: at
\* most one ACTIVE version per slice, it is the referenced one, it was put there
\* by a COMPLETED deployment, and only then is the slice RUNNING or STOPPED.
ActiveVersionIsDeployed ==
  /\ \A s \in Slices :
       /\ activeVersion[s] # NoVersion =>
            /\ SliceOf[activeVersion[s]] = s
            /\ versionState[activeVersion[s]] = "ACTIVE"
            /\ \E d \in Deployments : estado[d] = "COMPLETED" /\ target[d] = activeVersion[s]
       /\ sliceState[s] \in {"RUNNING", "STOPPED"} <=> activeVersion[s] # NoVersion
  /\ \A v \in Versions : versionState[v] = "ACTIVE" => activeVersion[SliceOf[v]] = v

\* A reservation exists only for a deployment that was started, hence approved:
\* neither a refused nor a still pending request ever holds server capacity.
ReservedOnlyIfApproved ==
  \A d \in Deployments : reserva[d] # "none" => approval[d] = "APPROVED"

\* Outcomes, operator decisions and releases are final: no late or repeated call
\* turns a finished deployment into another, reverses a decision, or takes a
\* released reservation back.
FinalStep ==
  \A d \in Deployments :
    /\ estado[d] \in Outcomes => estado'[d] = estado[d]
    /\ approval[d] \notin {"none", "PENDING"} => approval'[d] = approval[d]
    /\ reserva[d] = "RELEASED" => reserva'[d] = "RELEASED"
OutcomesAreFinal == [][FinalStep]_regVars

\* The registry keeps the lending contract of DeployLease: whatever calls
\* arrive, a slice is lent to one deployment at a time, each deployment ends
\* once, and a slice whose deployment COMPLETED or FAILED is never lent again.
Lease == INSTANCE DeployLease WITH
  lease <- [s \in Slices |-> ActiveOn(s)],
  result <- [d \in Deployments |-> IF estado[d] \in Outcomes THEN estado[d] ELSE "none"],
  spent <- {s \in Slices : sliceState[s] \in {"RUNNING", "STOPPED", "FAILED"}}
KeepsLease == Lease!LeaseSpec
=============================================================================

---------------------------- MODULE DeployClaims ----------------------------
(***************************************************************************)
(* What the repository says of initial DEPLOYs and its code does not keep: *)
(* the recovery loop of the Slice Manager, who releases a reservation, and *)
(* what the Query Service's audit calls a leaked VNC display.              *)
(***************************************************************************)
EXTENDS DeploySaga

\* One round of the recovery loop for d: list_pending_workflows selects the
\* PENDING deployments whose workflow_id IS NULL, ensure_workflow_id sets it and
\* start_deploy follows the commit.
RecoverPending(d) ==
  /\ estado[d] = "PENDING" /\ ~workflowId[d]
  /\ workflowId' = [workflowId EXCEPT ![d] = TRUE]
  /\ starting' = starting \cup {d}
  /\ UNCHANGED <<sliceState, activeVersion, versionState, estado, target, approval,
                 nodes, links, reserva, resVars, wf, signalling, signal, inflight>>

\* The loop runs for ever, every call to Temporal is eventually made, and
\* Temporal is reachable again and again.
RecoverySpec ==
  /\ SagaInit /\ [][SagaNext \/ \E d \in Deployments : RecoverPending(d)]_sagaVars
  /\ \A d \in Deployments :
       /\ WF_sagaVars(WorkflowStep(d))
       /\ WF_sagaVars(RecoverPending(d))
       /\ SF_sagaVars(StartWorkflow(d))

\* recover_pending_workflows ("Could not recover pending deployment workflow" is
\* what it logs when Temporal refuses) starts the workflow of every deployment
\* that was committed PENDING and whose start_deploy never reached Temporal.
PendingIsStarted ==
  \A d \in Deployments :
    (estado[d] = "PENDING" /\ Pc(d) = "absent") ~> (Pc(d) # "absent")

\* The orchestrator releases the reservation of a failed provisioning (plan.md of
\* VM Placement): a COMPENSATED deployment holds no capacity.
CompensationReleases ==
  \A d \in Deployments : estado[d] = "COMPENSATED" => reserva[d] # "RESERVED"

\* The Query Service's consistency audit reports every DELETED node that has a
\* vnc_display as an orphan: a deployment that is undone leaves none behind.
NoOrphanDisplays ==
  \A d \in Deployments, n \in Nodes : nodes[d][n] = "DELETED" => n \notin display[d]
=============================================================================

----------------------------- MODULE DeploySaga -----------------------------
(***************************************************************************)
(* DeployWorkflow, the Temporal workflow of one initial DEPLOY, over the   *)
(* registry, the network and compute allocators and the Linux hosts it     *)
(* drives.                                                                 *)
(*                                                                         *)
(* Every activity is a remote call that Temporal repeats up to MaxAttempts *)
(* times: the call may be executed and answered, executed with the answer  *)
(* lost, not executed at all, or refused with an error that is not         *)
(* retried.  When an activity fails for good, the workflow compensates.    *)
(***************************************************************************)
EXTENDS SliceRegistry, Naturals

CONSTANTS Ports,        \* ATTACH_PORT actions of the plan
          LinkOf, NodeOf,  \* what a port attaches
          NoDeployment, \* SQL NULL in red_deployment_id
          MaxAttempts,  \* maximum_attempts of the retry policies
          LateCalls     \* calls that may still commit after their caller timed out

Actions == Links \cup Ports \cup Nodes
Branches == {"reserve", "network"}
Threads == Branches \cup {"main"}
Calls == Branches \cup {"start", "inventory", "compute"}

ASSUME SagaAssumption ==
  /\ LinkOf \in [Ports -> Links]
  /\ NodeOf \in [Ports -> Nodes]
  /\ NoDeployment \notin Deployments
  /\ MaxAttempts \in Nat \ {0}
  /\ LateCalls \subseteq Calls
  /\ Ports \cap (Nodes \cup Links) = {}
  \* The planner refuses a VM on no link and a link without endpoints.
  /\ \A n \in Nodes : \E p \in Ports : NodeOf[p] = n
  /\ \A l \in Links : \E p \in Ports : LinkOf[p] = l

VARIABLES
  wf,          \* the workflow of each deployment
  tagOwner,    \* slice.red_deployment_id; NULL together with vlan_stag
  display,     \* the deployment's nodes that have a vnc_display
  host,        \* plan actions whose result exists on the Linux hosts
  starting,    \* deployments a request handler is about to start in Temporal
  signalling,  \* decisions an approval handler is about to send
  signal,      \* the workflow's _approval
  inflight     \* calls whose caller no longer waits and that may still commit

resVars == <<tagOwner, display, host>>
world == <<regVars, resVars>>
sagaVars == <<regVars, resVars, wf, starting, signalling, signal, inflight>>

Forward == {"approval", "waiting", "reject", "start", "plan", "inventory",
            "allocate", "compute", "prepare", "round", "facts", "complete"}
Compensation == {"undo_compute", "undo_actions", "undo_network", "undo_placement",
                 "conclude"}
Results == {"REJECTED", "COMPENSATED", "COMPLETED", "FAILED"}
Stages == {"absent", "raised"} \cup Forward \cup Compensation \cup Results

Workflows ==
  [pc : Stages, tries : [Threads -> 0 .. MaxAttempts - 1],
   branch : [Branches -> {"idle", "run", "ok", "failed", "lost"}],
   round : 0 .. 3, pending : SUBSET Actions, good : SUBSET Actions,
   bad : SUBSET Actions, applied : SUBSET Actions, error : BOOLEAN]

SagaTypeOK ==
  /\ TypeOK
  /\ wf \in [Deployments -> Workflows]
  /\ tagOwner \in [Slices -> Deployments \cup {NoDeployment}]
  /\ display \in [Deployments -> SUBSET Nodes]
  /\ host \in [Deployments -> SUBSET Actions]
  /\ starting \subseteq Deployments
  /\ signalling \subseteq Deployments \X Decisions
  /\ signal \in [Deployments -> Decisions \cup {"none"}]
  /\ inflight \subseteq Deployments \X Calls

NewWorkflow ==
  [pc |-> "absent", tries |-> [t \in Threads |-> 0],
   branch |-> [b \in Branches |-> "idle"], round |-> 0, pending |-> {},
   good |-> {}, bad |-> {}, applied |-> {}, error |-> FALSE]

SagaInit ==
  /\ RegInit
  /\ wf = [d \in Deployments |-> NewWorkflow]
  /\ tagOwner = [s \in Slices |-> NoDeployment]
  /\ display = [d \in Deployments |-> {}]
  /\ host = [d \in Deployments |-> {}]
  /\ starting = {} /\ signalling = {} /\ inflight = {}
  /\ signal = [d \in Deployments |-> "none"]

-----------------------------------------------------------------------------
\* The plan: a topological order, links before the ports on them before the VMs
\* that use those ports; all actions of a round run in parallel.  A definition
\* without VMs has a plan without rounds.

PortsOf(n) == {p \in Ports : NodeOf[p] = n}
RoundOf(a) == IF a \in Links THEN 1 ELSE IF a \in Ports THEN 2 ELSE 3
Round(i) == {a \in Actions : RoundOf(a) = i}
LastRound == IF Actions = {} THEN 0 ELSE 3

-----------------------------------------------------------------------------
\* How an activity proceeds.

Pc(d) == wf[d].pc
TagOf(d) == tagOwner[SliceOf[target[d]]]

Goto(d, next) ==
  wf' = [wf EXCEPT ![d].pc = next, ![d].tries = [t \in Threads |-> 0]]

AfterUndoNetwork(d) ==
  IF wf[d].branch["reserve"] = "idle" THEN "conclude" ELSE "undo_placement"

\* Mutant: an error of the last finish_deployment is swallowed.
MutOnFailureSwallowed(d) ==
  CASE Pc(d) \in {"approval", "reject", "start", "plan", "undo_placement"} -> "conclude"
    [] Pc(d) \in {"inventory", "allocate"}              -> "undo_network"
    [] Pc(d) \in {"compute", "prepare", "facts", "complete"} -> "undo_compute"
    [] Pc(d) = "undo_compute"                           -> "undo_actions"
    [] Pc(d) = "undo_network"                           -> AfterUndoNetwork(d)
    [] Pc(d) = "conclude"                               -> "COMPENSATED"

\* Where a failure of the current activity leads: _compensate skips what was
\* never attempted, and goes on to the next undo when one fails.
OnFailure(d) ==
  CASE Pc(d) \in {"approval", "reject", "start", "plan", "undo_placement"} -> "conclude"
    [] Pc(d) \in {"inventory", "allocate"}              -> "undo_network"
    [] Pc(d) \in {"compute", "prepare", "facts", "complete"} -> "undo_compute"
    [] Pc(d) = "undo_compute"                           -> "undo_actions"
    [] Pc(d) = "undo_network"                           -> AfterUndoNetwork(d)
    [] Pc(d) = "conclude"                               -> "raised"

Fail(d) ==
  wf' = [wf EXCEPT ![d].pc = OnFailure(d),
                   ![d].tries = [t \in Threads |-> 0],
                   ![d].error = @ \/ Pc(d) \in Compensation]

\* Mutant: one attempt too many.
MutRetryOnceMore(d) ==
  IF wf[d].tries["main"] < MaxAttempts
  THEN wf' = [wf EXCEPT ![d].tries["main"] = @ + 1]
  ELSE Fail(d)

Retry(d) ==
  IF wf[d].tries["main"] + 1 < MaxAttempts
  THEN wf' = [wf EXCEPT ![d].tries["main"] = @ + 1]
  ELSE Fail(d)

\* A call that timed out at its caller may still be executed later.
Leftovers(d, call) == {{}} \cup {{<<d, c>>} : c \in {call} \cap LateCalls}
Abandon(d, call) == \E late \in Leftovers(d, call) : inflight' = inflight \cup late

\* One attempt of the activity the workflow waits for: executed and answered,
\* executed with the answer lost, refused, or not executed in time.
Attempt(d, call, accepted, Effect, next) ==
  /\ \/ accepted /\ Effect /\ (Goto(d, next) \/ Retry(d)) /\ UNCHANGED inflight
     \/ ~accepted /\ Fail(d) /\ UNCHANGED <<world, inflight>>
     \/ Retry(d) /\ Abandon(d, call) /\ UNCHANGED world
  /\ UNCHANGED <<starting, signalling, signal>>

-----------------------------------------------------------------------------
\* Requests, approvals and Temporal (slice_service.py, temporal_client.py).

UserRest == UNCHANGED <<resVars, wf, signal, inflight>>

Prepare ==
  /\ \/ \E s \in Slices, v \in Versions : CreateSlice(s, v)
     \/ \E v \in Versions : CreateVersion(v) \/ DeleteVersion(v)
     \/ \E d \in Deployments, v \in Versions : CreateRejectedDeployment(d, v)
  /\ UserRest /\ UNCHANGED <<starting, signalling>>

\* The row is committed first; the workflow is started afterwards.  Asking again
\* while the deployment is active starts the same workflow id once more.
RequestDeploy(d, v) ==
  /\ CreatePendingDeployment(d, v)
  /\ starting' = starting \cup {d}
  /\ UserRest /\ UNCHANGED signalling

RequestAgain(d) ==
  /\ Active(d)
  /\ starting' = starting \cup {d}
  /\ UserRest /\ UNCHANGED <<regVars, signalling>>

\* REJECT_DUPLICATE: a workflow that has ever run is not started again.
StartWorkflow(d) ==
  /\ d \in starting
  /\ starting' = starting \ {d}
  /\ IF Pc(d) = "absent" THEN Goto(d, "approval") ELSE UNCHANGED wf
  /\ UNCHANGED <<world, signalling, signal, inflight>>

\* Temporal unreachable, or the Slice Manager stops between commit and call.
LoseStart(d) ==
  /\ d \in starting
  /\ starting' = starting \ {d}
  /\ UNCHANGED <<world, wf, signalling, signal, inflight>>

ApproveDeployment(d, decision) ==
  /\ DecideApproval(d, decision)
  /\ signalling' = signalling \cup {<<d, decision>>}
  /\ UserRest /\ UNCHANGED starting

DeliverSignal(d, decision) ==
  /\ <<d, decision>> \in signalling
  /\ signalling' = signalling \ {<<d, decision>>}
  /\ signal' = IF Pc(d) \in {"absent", "raised"} \cup Results THEN signal
               ELSE [signal EXCEPT ![d] = decision]
  /\ UNCHANGED <<world, wf, starting, inflight>>

LoseSignal(d, decision) ==
  /\ <<d, decision>> \in signalling
  /\ signalling' = signalling \ {<<d, decision>>}
  /\ UNCHANGED <<world, wf, starting, signal, inflight>>

-----------------------------------------------------------------------------
\* run(): approval.

ReadApproval(d) ==
  /\ Pc(d) = "approval"
  /\ Attempt(d, "approval", TRUE, UNCHANGED world,
             CASE approval[d] = "PENDING"  -> "waiting"
               [] approval[d] = "APPROVED" -> "start"
               [] OTHER                    -> "reject")

\* Mutant: the wait has no timeout.
MutWaitForever(d) ==
  /\ Pc(d) = "waiting" /\ signal[d] # "none"
  /\ Goto(d, IF signal[d] = "APPROVED" THEN "start" ELSE "reject")
  /\ UNCHANGED <<world, starting, signalling, signal, inflight>>

\* wait_condition: the signal, or the timeout when no signal has arrived.
WaitForApproval(d) ==
  /\ Pc(d) = "waiting"
  /\ Goto(d, IF signal[d] = "APPROVED" THEN "start" ELSE "reject")
  /\ UNCHANGED <<world, starting, signalling, signal, inflight>>

Reject(d) ==
  /\ Pc(d) = "reject"
  /\ Attempt(d, "reject", FinishAccepted(d, "REJECTED"),
             FinishDeployment(d, "REJECTED") /\ UNCHANGED resVars, "REJECTED")

-----------------------------------------------------------------------------
\* run(): registry and allocators.

Start(d) ==
  /\ Pc(d) = "start"
  /\ Attempt(d, "start", StartAccepted(d), StartDeployment(d) /\ UNCHANGED resVars, "plan")

GetPlan(d) ==
  /\ Pc(d) = "plan"
  /\ Attempt(d, "plan", TRUE, UNCHANGED world, "inventory")

Inventory(d) ==
  /\ Pc(d) = "inventory"
  /\ Attempt(d, "inventory", Exists(d), CreateInventory(d) /\ UNCHANGED resVars, "allocate")

\* The slice keeps the S-TAG it has; a new one is recorded with its deployment.
NetworkAllocate(d) ==
  /\ tagOwner' = [tagOwner EXCEPT ![SliceOf[target[d]]] =
                    IF @ = NoDeployment THEN d ELSE @]
  /\ UNCHANGED <<regVars, display, host>>

ComputeAllocate(d) ==
  /\ display' = [display EXCEPT ![d] = @ \cup {n \in Nodes : nodes[d][n] = "PENDING"}]
  /\ UNCHANGED <<regVars, tagOwner, host>>

\* What each branch of the gather calls; exhausted capacity or tags refuse it.
BranchAccepted(d, b) ==
  \/ b = "reserve" /\ ReserveAccepted(d)
  \/ b = "network"
BranchEffect(d, b) ==
  \/ b = "reserve" /\ ReservePlacement(d) /\ UNCHANGED resVars
  \/ b = "network" /\ NetworkAllocate(d)
AlreadyHeld(d, b) ==
  \/ b = "reserve" /\ reserva[d] = "RESERVED"
  \/ b = "network" /\ TagOf(d) = d

\* reserve_placement and network_allocate run in parallel under one gather.
Fork(d) ==
  /\ Pc(d) = "allocate" /\ wf[d].branch["network"] = "idle"
  /\ wf' = [wf EXCEPT ![d].branch =
       [b \in Branches |-> IF b = "network" \/ Nodes # {} THEN "run" ELSE "idle"]]
  /\ UNCHANGED <<world, starting, signalling, signal, inflight>>

BranchDone(d, b) ==
  LET done == [wf[d].branch EXCEPT ![b] = "ok"]
      joined == \A c \in Branches : done[c] # "run"
  IN  /\ wf' = [wf EXCEPT ![d].branch = done, ![d].tries[b] = 0,
                          ![d].pc = IF joined THEN "compute" ELSE @]
      /\ UNCHANGED inflight

\* gather raises at the first failure; the other activity is not cancelled.
BranchFails(d, b, late) ==
  LET left == {c \in Branches \ {b} : wf[d].branch[c] = "run"}
  IN  /\ wf' = [wf EXCEPT ![d].branch = [c \in Branches |->
                             IF c = b THEN "failed" ELSE IF c \in left THEN "lost" ELSE @[c]],
                          ![d].tries = [t \in Threads |-> 0],
                          ![d].pc = OnFailure(d)]
      /\ inflight' = inflight \cup late \cup {<<d, c>> : c \in left}

BranchRetries(d, b, late) ==
  IF wf[d].tries[b] + 1 < MaxAttempts
  THEN wf' = [wf EXCEPT ![d].tries[b] = @ + 1] /\ inflight' = inflight \cup late
  ELSE BranchFails(d, b, late)

AttemptBranch(d, b) ==
  /\ Pc(d) = "allocate" /\ wf[d].branch[b] = "run"
  /\ \/ /\ BranchAccepted(d, b) /\ BranchEffect(d, b)
        /\ BranchDone(d, b) \/ BranchRetries(d, b, {})
     \/ /\ BranchAccepted(d, b) => ~AlreadyHeld(d, b)
        /\ BranchFails(d, b, {}) /\ UNCHANGED world
     \/ /\ \E late \in Leftovers(d, b) : BranchRetries(d, b, late)
        /\ UNCHANGED world
  /\ UNCHANGED <<starting, signalling, signal>>

\* A host may have run out of displays for nodes that have none yet.
Compute(d) ==
  /\ Pc(d) = "compute"
  /\ \E free \in BOOLEAN :
       Attempt(d, "compute", free \/ \A n \in Nodes : nodes[d][n] = "PENDING" => n \in display[d],
               ComputeAllocate(d), "prepare")

\* The next round is sent to the adapters, or there is none left.
NextRound(d) ==
  LET i == wf[d].round + 1
      more == i <= LastRound
  IN  wf' = [wf EXCEPT ![d].pc = IF more THEN "round" ELSE "complete",
                       ![d].round = IF more THEN i ELSE @,
                       ![d].pending = IF more THEN Round(i) ELSE {},
                       ![d].good = {},
                       ![d].tries = [t \in Threads |-> 0]]

\* The server directory and the adapter actions are computed, nothing is written.
PrepareActions(d) ==
  /\ Pc(d) = "prepare"
  /\ NextRound(d) \/ Fail(d)
  /\ UNCHANGED <<world, starting, signalling, signal, inflight>>

-----------------------------------------------------------------------------
\* run(): the rounds of adapter actions.

\* create_vm refuses when a TAP device of the VM is missing.
Runnable(d, a) == a \in Nodes => PortsOf(a) \subseteq host[d]

\* Mutant: the adapter does not look at the key.
MutHandledKeyIgnored(d, a, compensating) ==
  host' = [host EXCEPT ![d] = @ \cup {a}]

\* The request always carries the creating action: whether the adapter creates
\* or deletes is read from the "compensate:" part of the idempotency key.
\* delete_link deletes the bridge all links of the slice share.
Handled(d, a, compensating) ==
  host' = [e \in Deployments |->
    CASE ~compensating -> IF e = d THEN host[e] \cup {a} ELSE host[e]
      [] compensating /\ a \in Links ->
           IF Exists(e) /\ SliceOf[target[e]] = SliceOf[target[d]]
           THEN host[e] \ Links ELSE host[e]
      [] OTHER -> IF e = d THEN host[e] \ {a} ELSE host[e]]

\* A failed action may have left its result on the host.
ActionEnds(d, a) ==
  /\ Pc(d) = "round" /\ a \in wf[d].pending
  /\ \/ /\ Runnable(d, a) /\ Handled(d, a, FALSE)
        /\ wf' = [wf EXCEPT ![d].pending = @ \ {a}, ![d].good = @ \cup {a}]
     \/ /\ Handled(d, a, FALSE) \/ UNCHANGED host
        /\ wf' = [wf EXCEPT ![d].pending = @ \ {a}, ![d].bad = @ \cup {a}]
  /\ UNCHANGED <<regVars, tagOwner, display, starting, signalling, signal, inflight>>

\* applied.extend happens before the facts are recorded.
RoundEnds(d) ==
  /\ Pc(d) = "round" /\ wf[d].pending = {}
  /\ wf' = [wf EXCEPT ![d].pc = "facts", ![d].applied = @ \cup wf[d].good]
  /\ UNCHANGED <<world, starting, signalling, signal, inflight>>

\* Mutant: the failures of the last round are not looked at.
MutAfterFactsLastRound(d) ==
  IF wf[d].bad # {} /\ wf[d].round < LastRound THEN Fail(d) ELSE NextRound(d)

AfterFacts(d) == IF wf[d].bad # {} THEN Fail(d) ELSE NextRound(d)

RecordFacts(d) ==
  /\ Pc(d) = "facts"
  /\ \/ /\ RecordRoundFacts(d, wf[d].good, wf[d].bad) /\ UNCHANGED resVars
        /\ AfterFacts(d) \/ Retry(d)
     \/ /\ ~FactsAccepted(d, wf[d].good, wf[d].bad)
        /\ Fail(d) /\ UNCHANGED world
     \/ Retry(d) /\ UNCHANGED world
  /\ UNCHANGED <<starting, signalling, signal, inflight>>

Complete(d) ==
  /\ Pc(d) = "complete"
  /\ Attempt(d, "complete", FinishAccepted(d, "COMPLETED"),
             FinishDeployment(d, "COMPLETED") /\ UNCHANGED resVars, "COMPLETED")

-----------------------------------------------------------------------------
\* _compensate(): every undo is tried, a failed one only turns the outcome
\* from COMPENSATED into FAILED.

UndoCompute(d) ==
  /\ Pc(d) = "undo_compute"
  /\ Attempt(d, "undo_compute", TRUE,
             /\ display' = [display EXCEPT ![d] =
                              @ \ {n \in Nodes : nodes[d][n] = "PENDING"}]
             /\ UNCHANGED <<regVars, tagOwner, host>>,
             "undo_actions")

\* Mutant: applied is undone in the order it was applied.
MutUndoActionInOrder(d, a) ==
  /\ Pc(d) = "undo_actions" /\ a \in wf[d].applied
  /\ \A b \in wf[d].applied : RoundOf(b) >= RoundOf(a)
  /\ \/ Handled(d, a, TRUE) /\ wf' = [wf EXCEPT ![d].applied = @ \ {a}]
     \/ /\ Handled(d, a, TRUE) \/ UNCHANGED host
        /\ wf' = [wf EXCEPT ![d].applied = @ \ {a}, ![d].error = TRUE]
  /\ UNCHANGED <<regVars, tagOwner, display, starting, signalling, signal, inflight>>

\* reversed(applied): no action is undone before the later rounds are.
UndoAction(d, a) ==
  /\ Pc(d) = "undo_actions" /\ a \in wf[d].applied
  /\ \A b \in wf[d].applied : RoundOf(b) <= RoundOf(a)
  /\ \/ Handled(d, a, TRUE) /\ wf' = [wf EXCEPT ![d].applied = @ \ {a}]
     \/ /\ Handled(d, a, TRUE) \/ UNCHANGED host
        /\ wf' = [wf EXCEPT ![d].applied = @ \ {a}, ![d].error = TRUE]
  /\ UNCHANGED <<regVars, tagOwner, display, starting, signalling, signal, inflight>>

UndoActionsEnds(d) ==
  /\ Pc(d) = "undo_actions" /\ wf[d].applied = {}
  /\ Goto(d, "undo_network")
  /\ UNCHANGED <<world, starting, signalling, signal, inflight>>

UndoNetwork(d) ==
  /\ Pc(d) = "undo_network"
  /\ Attempt(d, "undo_network", TRUE,
             /\ tagOwner' = [s \in Slices |-> IF tagOwner[s] = d THEN NoDeployment
                                              ELSE tagOwner[s]]
             /\ UNCHANGED <<regVars, display, host>>,
             AfterUndoNetwork(d))

UndoPlacement(d) ==
  /\ Pc(d) = "undo_placement"
  /\ Attempt(d, "undo_placement", TRUE, RollbackPlacement(d) /\ UNCHANGED resVars, "conclude")

Outcome(d) == IF wf[d].error THEN "FAILED" ELSE "COMPENSATED"

Conclude(d) ==
  /\ Pc(d) = "conclude"
  /\ Attempt(d, "conclude", FinishAccepted(d, Outcome(d)),
             FinishDeployment(d, Outcome(d)) /\ UNCHANGED resVars, Outcome(d))

-----------------------------------------------------------------------------
\* A call nobody waits for any more: the activity the gather left behind keeps
\* its own retries, and a timed-out request may still be executed.

LateCall(d, call) ==
  /\ <<d, call>> \in inflight
  /\ \/ call \in Branches /\ BranchAccepted(d, call) /\ BranchEffect(d, call)
     \/ call = "start" /\ StartAccepted(d) /\ StartDeployment(d) /\ UNCHANGED resVars
     \/ call = "inventory" /\ CreateInventory(d) /\ UNCHANGED resVars
     \/ call = "compute" /\ ComputeAllocate(d)
  /\ UNCHANGED <<wf, starting, signalling, signal, inflight>>

-----------------------------------------------------------------------------
WorkflowStep(d) ==
  \/ ReadApproval(d) \/ WaitForApproval(d) \/ Reject(d)
  \/ Start(d) \/ GetPlan(d) \/ Inventory(d)
  \/ Fork(d) \/ \E b \in Branches : AttemptBranch(d, b)
  \/ Compute(d) \/ PrepareActions(d)
  \/ \E a \in Actions : ActionEnds(d, a) \/ UndoAction(d, a)
  \/ RoundEnds(d) \/ RecordFacts(d) \/ Complete(d)
  \/ UndoCompute(d) \/ UndoActionsEnds(d) \/ UndoNetwork(d) \/ UndoPlacement(d)
  \/ Conclude(d)

Request ==
  \/ Prepare
  \/ \E d \in Deployments : RequestAgain(d) \/ \E v \in Versions : RequestDeploy(d, v)
  \/ \E d \in Deployments, decision \in Decisions : ApproveDeployment(d, decision)

TemporalCall ==
  \E d \in Deployments :
    \/ StartWorkflow(d) \/ LoseStart(d)
    \/ \E decision \in Decisions : DeliverSignal(d, decision) \/ LoseSignal(d, decision)

SagaNext ==
  \/ Request \/ TemporalCall
  \/ \E d \in Deployments : WorkflowStep(d) \/ \E call \in Calls : LateCall(d, call)

SagaSpec == SagaInit /\ [][SagaNext]_sagaVars

\* Temporal keeps scheduling a workflow it has started.
FairSagaSpec == SagaSpec /\ \A d \in Deployments : WF_sagaVars(WorkflowStep(d))

-----------------------------------------------------------------------------
\* What a deployment guarantees.

HostedBy(d) == host[d] \ wf[d].bad

\* The workflow never returns a result the registry does not record.
ResultRecorded ==
  \A d \in Deployments : Pc(d) \in Results => estado[d] = Pc(d)

\* Without an approval nothing is started, placed, tagged or created: no
\* ordering of signals, timeouts and late calls deploys an unapproved request.
NothingBeforeApproval ==
  \A d \in Deployments : approval[d] # "APPROVED" =>
    /\ estado[d] \notin {"IN_PROGRESS", "COMPLETED", "FAILED"}
    /\ reserva[d] = "none" /\ display[d] = {} /\ host[d] = {}
    /\ \A s \in Slices : tagOwner[s] # d

\* When the workflow returns COMPLETED every action is on its host, every node
\* RUNNING, every link CREATED, the capacity reserved and the slice tagged.
CompletedIsDeployed ==
  \A d \in Deployments : Pc(d) = "COMPLETED" =>
    /\ host[d] = Actions /\ display[d] = Nodes
    /\ \A n \in Nodes : nodes[d][n] = "RUNNING"
    /\ \A l \in Links : links[d][l] = "CREATED"
    /\ Nodes # {} => reserva[d] = "RESERVED"
    /\ TagOf(d) # NoDeployment

\* When the workflow returns COMPENSATED nothing of the deployment is left but
\* what a failed action left on a host and what a call nobody waited for took.
CompensatedIsClean ==
  \A d \in Deployments : Pc(d) = "COMPENSATED" =>
    /\ HostedBy(d) = {}
    /\ reserva[d] = "RESERVED" => <<d, "reserve">> \in inflight
    /\ \A s \in Slices : tagOwner[s] = d => <<d, "network">> \in inflight

\* While a VM runs that no failure report disowned, its ports exist, its
\* capacity is reserved and the slice's S-TAG is still assigned.
VmKeepsItsResources ==
  \A d \in Deployments : ~wf[d].error =>
    \A n \in HostedBy(d) \cap Nodes :
      /\ PortsOf(n) \subseteq host[d]
      /\ reserva[d] = "RESERVED" /\ TagOf(d) # NoDeployment

\* A version that is DRAFT in a DRAFT slice can be deployed (again): no ended
\* deployment leaves inventory behind that request_initial_deploy would refuse,
\* unless a create_inventory request outlived the workflow that sent it.
Redeployable ==
  \A v \in Versions :
    versionState[v] = "DRAFT" /\ sliceState[SliceOf[v]] = "DRAFT"
      => \/ ~HasLiveVersionInventory(v)
         \/ \E d \in Deployments : target[d] = v /\ <<d, "inventory">> \in inflight

\* Every workflow that started ends, with a result or by raising.
WorkflowsEnd ==
  \A d \in Deployments :
    Pc(d) # "absent" ~> Pc(d) \in Results \cup {"raised"}
=============================================================================

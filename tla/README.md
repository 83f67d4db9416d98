# TLA+ models of the cloud orchestrator

The repository deploys *slices*, small virtual topologies of VMs and links, on
Linux servers. This directory holds TLA+ models of the parts that decide and
carry out an initial DEPLOY, and of the sessions of its users, the TLC
configurations that check them on small instances, and theorems that TLAPS proves
for every instance. Paths are relative
to `src/`; the models follow the code, not its comments.

## 1. The system

| Part | State it keeps | Operations | In TLA+ |
|---|---|---|---|
| Slice Manager (`Slice Manager/slice_manager`) | rows of `slices.*`: slice, version, deployment, approval, node, link, port, reservation | create slice/version, delete version, request and approve a deploy, and the internal API the workflow calls: start, inventory, reserve/rollback placement, round facts, finish | `SliceRegistry`, `DeployLease` |
| Temporal worker (`Slice Manager/temporal_worker`) | the workflow's local variables, kept by Temporal's history | `DeployWorkflow.run`, `_execute_round`, `_compensate`, `_finish`; activities that call the others | `DeploySaga` |
| Recovery loop (`slice_manager/app/main.py`) | none of its own | every few seconds, starts workflows of PENDING deployments | `DeployClaims` |
| Placement (`reserve_` and `rollback_deployment_placement`, `placement_simulator.py`) | counters of `servidor`, rows of `reserva_nodo`, quotas | reserve, release, admit | `PlacementLedger`, `CapacityPromise` |
| Planner (`slice_manager/app/planning`) | none | accepts a definition, builds its actions, their order and rounds | `DeployPlan` |
| Network Manager worker | `vlan_stag`, `red_deployment_id`, CIDRs, C-TAGs, IPs, MACs | `network_allocate`, `network_rollback` | `NetworkTags` |
| Computer Manager | `server_id`, `vnc_display` of nodes | `compute_allocate`, `rollback_compute` | `ComputeDisplays` |
| Linux adapter (`Adaptadores/ad_linux`) | bridges, cables, TAPs, disks and QEMU processes on the hosts | create/delete of links, ports and VMs | `AdapterHosts`; what is left on the hosts also in `DeploySaga` |
| AuthAuthz | users, refresh tokens | login, refresh, logout, user administration | `AuthSessions` |
| Query Service | none of its own | views; administration of quotas | the quota update, in `PlacementLedger` |
| VM Placement (Java) | the same reservation rows | reserve | no: section 7 |
| Network Manager HTTP API | none | topology, VLAN and address computation per request | no: section 7 |
| API gateway, CLI, frontend | none | proxying, user interface | no: nothing changes state |

How they interact. A request commits a PENDING deployment and *then* asks
Temporal to start `deployment-<id>`; an approval commits a decision and *then*
signals the workflow. The workflow drives everything else with activities: remote
calls that Temporal repeats a bounded number of times, each a transaction on the
shared database or a set of commands on a host. There is no other channel: the
services share the rows of `slices.*` and nothing else.

What is hard in it:

- a call may be executed though its caller saw a timeout, be executed again, or be
  executed long after the caller gave up;
- `asyncio.gather` raises at the first of `reserve_placement` and
  `network_allocate` that fails and leaves the other one running, while
  the compensation already undoes both;
- the approval's timeout races the operator, and the decision and its signal are
  two separate steps;
- the registry has to stay consistent although nothing in it knows in which order
  the workflow calls it;
- the compensation relies on a marker in the idempotency key, runs in a strict
  order, must go on after a failure, and reports FAILED exactly then;
- a compensated deployment leaves DELETED node rows behind, and the next
  deployment of the slice recomputes the slice's state over all of them;
- allocators read before they lock, lock in pieces (rows, advisory locks, entries of
  unique indexes) and rely on one another's order of doing so;
- an adapter handler is a thread that nothing stops: the host is changed by it while
  Temporal repeats it or undoes it;
- several refreshes, logouts and updates of one user meet row by row.

`PROJECT.json` lists these and the other hazards one by one, each at its line with
the properties that cover it.

What makes each part correct:

- *Registry*: slice, version and deployment states agree after every transaction;
  one active deployment per slice; outcomes, decisions and releases are final; no
  reservation without an approval.
- *Workflow*: the result it returns is the one recorded; COMPLETED means everything
  exists, COMPENSATED that nothing does; nothing is created unapproved; teardown
  never removes a resource a running VM uses; every workflow ends.
- *Recovery*: a deployment whose start was lost is started.
- *Placement*: counters equal the RESERVED rows and never exceed a server's total;
  repeating a call gives the same placement; the lock order leaves no deadlock.
- *Displays*: two VMs of one server never share a display; the answer a workflow
  used is the one that is stored.
- *Network*: one S-TAG per slice and cluster; links of a slice never overlap; an
  address once given is not moved up by a repetition; allocations never deadlock.
- *Planner and adapter*: rounds are links, ports, VMs; a deployment that completes is
  wired as planned whichever threads raced; what a compensation leaves has an author.
- *Refresh tokens*: at most one token of a family is usable, and a rotated one is
  worth what the user's row says.

## 2. The modules

### SliceRegistry

One action per transaction. The variables are columns: `sliceState`,
`activeVersion`, `versionState`, `estado`, `target`, `workflowId`, `approval`,
`nodes`, `links` and `reserva` (the reservation rows of a deployment, which are
always written and released together). `"absent"` and `"none"` mean that a row
does not exist. Every transaction takes `FOR UPDATE` locks on the rows its
decisions read, hence the granularity.

Inventory is indexed by the deployment that planned it, because node, link and
port identities are derived from `deployment:<id>`. Port rows are deleted with
their link by the database and carry no decision: they are left out. Of a
version the specification text is left out (`replace_version_spec` changes
nothing else). Quotas and server capacities appear as the choice between
`CreateRejectedDeployment` and `CreatePendingDeployment`, and between
accepting and refusing a reservation.

`RegNext` lets these calls happen in any order, any number of times, with any
legal argument. That is weaker than what the workflow does, and what the
internal HTTP API allows: what holds under `RegSpec` does not depend on the
workflow being right, nor on late and repeated requests.

### DeployLease

The abstract contract: a slice is lent to one deployment at a time, a deployment
ends once, and a slice whose deployment COMPLETED or FAILED is not lent again. It
knows nothing of versions, approvals, inventory or placement. `KeepsLease` in
`SliceRegistry` states that the registry implements it, with the refinement mapping
`lease[s]` = the active deployments of `s`, `result[d]` = the outcome, and
`spent` = the slices RUNNING, STOPPED or FAILED.

### DeploySaga

Extends `SliceRegistry` with the workflow record `wf[d]` (program counter,
attempts, the two branches of the gather, the round, what is applied and what
failed), the allocators (`tagOwner`, `display`), the hosts (`host`) and what is on
its way (`starting`, `signalling`, `signal`, `inflight`).

- `Attempt` is one attempt of an activity: executed and answered; executed with the
  answer lost; refused with an error that is not retried; not executed in time. The
  last two differ only in whether Temporal tries again. After `MaxAttempts` the
  activity fails and `OnFailure` says where the workflow goes: a translation of
  the `try`/`except` of `run` and of the four guarded blocks of `_compensate`.
- `Fork`, `AttemptBranch` and `BranchFails` are the gather. The call it abandons goes
  to `inflight`, from where `LateCall` may execute it at any later moment, any number
  of times.
- `LateCalls` names the other calls that may commit after their attempt timed out at
  the worker. Round facts, rollbacks and `finish_deployment` are not among them: a
  repeated `finish` is covered by the registry's own model, the rest is listed as a
  hazard. A late `compute_allocate` needs a second Computer Manager worker, since one
  worker runs its transactions one at a time on its event loop.
- Adapter actions of a round end in any order. A failed one may or may not have left
  its result on the host. `Handled` reads creation or deletion from the
  idempotency key as `_dispatch` does; deleting a link deletes the bridge that
  all links of the slice share.
- Rounds are links, then ports, then VMs: the topological order of every plan
  `_build_plan` produces. Plans have no point of no return (the planner asserts it),
  so the branch of `run` for one is unreachable and not modelled.
- Choices of data that no property reads (which server, which tag, which display) are
  not represented; running out of them is a refusal.

### DeployClaims

Adds the recovery loop, and states three things the repository says and the code does
not do (section 5).

### PlacementLedger and CapacityPromise

`PlacementLedger` opens up what the registry treats as one step. A transaction locks
the deployment's row, then the servers of the zone one after the other in id order
(those of its rows only, for a rollback), walks over its nodes and commits; it may be
lost anywhere before. Placing is the next-fit of `placement_simulator.py`: the search
for a node's server starts after the last one used and goes round once. The quota part
of `admission_failure` reads RESERVED rows only, so `Request` may admit what the
user's other PENDING deployments will exceed; `excused` is a history variable that
marks the users whose requests so overlapped or whose quota was lowered meanwhile.

`CapacityPromise` knows no transactions: a deployment takes its whole placement in one
step where it fits, and gives all of it back once. `KeepsPromise` states that the
transactions, with their locks, losses and repetitions, implement it.

### ComputeDisplays

`allocate_displays` statement by statement: the pending nodes are read first, then an
advisory lock is taken for each server in id order, then each node gets the lowest
display free on its server; occupied displays are read once per server. The registry
changes the same rows at any time (`CreateInventory`, `RecordRoundFacts`,
`FinishDeployment`), and so does `rollback_pending`. `overtaken` marks a call whose
deployment's displays others changed between its read and its commit, `revived` that a
DELETED node was set to another state: both are history that the properties name.

### NetworkTags

`network_allocate` and `network_rollback` row by row: the slice's row, the lowest free
S-TAG under an advisory lock, the reads, one UPDATE per link, then one per public port,
where the unique index makes an UPDATE wait for a transaction that has touched the
address. A private block is the first of its size at or after the last block's start
that overlaps none of the slice (`_first_free_subnet`). A rollback updates links, ports and then the slice.
Neither looks at the state of the deployment, so deployments that ended and that run
late meet.

The advisory locks of the Network Manager (by cluster) and of the Computer Manager (by
server) are numbers of the same PostgreSQL key space. They can delay each other; as
neither service holds both kinds, no cycle arises from it, and the models keep them
apart.

### DeployPlan and AdapterHosts

`DeployPlan` has no state: which definitions are accepted, the actions of their plan,
what each waits for, the rounds, and the servers an action addresses. `AdapterHosts`
carries out those rounds and their compensation on hosts: a handler is a thread with a
program counter whose commands create bridges, veth cables, VXLAN devices, TAPs, disks
and QEMU processes one by one, checking first what exists, as the handlers do. When an
activity gives up, its thread goes on and is *late*. Thread races the code can lose are
in the model: a bridge port attached while the link is deleted, a second `create_vm`
that finds TAP or VNC port busy, a `create_vm` that outlives the `delete_vm` of the
compensation, `delete_link` removing the bridge all links of the slice share. The
pidfile and the process it names are one thing in the model.

### AuthSessions

Users and refresh tokens by statement: a refresh locks its token's row and then the
user's; a login reads the user and inserts a token in two statements of their own;
`update_user` reads its target before its transaction, which locks the user's row and
then revokes the tokens. A refresh and an update that lock in opposite orders may wait
for each other; PostgreSQL then aborts one (`Abort`). `overlapped` marks users whom an
update changed between another update's read and write.

## 3. The runs

| Run | Specification and instance | What it shows |
|---|---|---|
| `registry` | `RegSpec`; one slice of a `basico` user with two versions, two deployments, one node, one link (129,597 states) | types, the agreement of slice, version and deployment states, live inventory and reservations, final outcomes, the refinement of `DeployLease` |
| `saga` | `SagaSpec`; one deployment of a `basico` user, two attempts per activity, every late call | what is true when the workflow returns, and while VMs run |
| `saga_again` | `SagaSpec`; two deployments of the same version of an `avanzado` user's slice, one attempt | the second deployment starts clean and is never blocked by the first |
| `saga_liveness` | `FairSagaSpec`; as `saga`, without late calls other than the gather's | every started workflow ends |
| `placement` | `LedgerSpec`; two servers that differ in memory, three deployments of one user, two database sessions, two quotas (101,666 states) | counters, rows and answers agree; no deadlock; quotas; the refinement of `CapacityPromise` |
| `displays` | `DisplaySpec`; two servers with two displays, two deployments that share one, two worker processes (262,985 states) | when the advisory locks suffice, and what an answered display is worth |
| `network` | `NetworkSpec`; two slices, one with two deployments, links of two sizes, four public ports for four addresses, two transactions (373,470 states) | S-TAGs, blocks, addresses, and which transactions can wait for each other |
| `sessions` | `SessionSpec`; one user, two profiles, three tokens, three requests (801,998 states) | one usable token per session, worth what the user's row says |
| `adapter` | `AdapterSpec`; two VMs on two hosts on one link, on two links, and one of them public; two adapter processes (4,195,914 states, the longest run: two to three minutes) | what a completed deployment has on its hosts, and what a compensation leaves |
| `pending_recovery` | `RecoverySpec` | violated: see section 5 |
| `compensation_releases` | `SagaSpec` | violated: see section 5 |
| `orphan_displays` | `SagaSpec`, one attempt | violated: see section 5 |

Why these bounds. The registry's decisions concern one slice: its version, its active
deployment, its earlier deployments. Two deployments are the least that can conflict
or follow one another, two versions the least for one to block the other, and one node
and one link are enough to tell a deployment's live rows from its deleted ones; that
slices do not interfere is what the theorems of section 4 say for any number of them. In
the saga the smallest plan that creates anything is two VMs on a link, because the
planner refuses a VM without link and a link with fewer than two endpoints. Two attempts
are the least at which "executed, but the answer was lost" is followed by a
repetition; the real maxima (3, 5 and 10) only repeat it. In `saga_again` one
attempt is enough, since its question is what one deployment leaves to the next.

In `placement` the servers have 2 and 2 vCPU, 2 and 1 units of memory, so that demands
are refused, placed round and shifted by the other session; two sessions are the least
that overlap, and three deployments the least for one to be placed, one to be
released and one to wait. In `displays` the server that both
deployments use has two displays, which repeated and overtaken calls exhaust, and which
DELETED nodes give back. In `network` the ranges (two S-TAGs, three C-TAGs,
a base of 32 addresses, four public addresses) are the smallest at which the pools run
out in one order and suffice in another. In `sessions` three requests let
a login, a refresh and an update of the same user overlap. In `adapter` threads
are late only in the definition with one link, one at a time: that is where every pair of
handlers meets; the other definitions show two links that share bridge and cable, and a
public link.

`MaxAttempts` is the only bound of a counter; `MaxDisplay`, `MaxTag`, `MaxCtag`, `BlockSize`,
`MaxIp` and `MaxLinks` are limits of the code with smaller values. `VIEW MCView` identifies states that differ
in start requests and signals for a workflow that is already past its approval: those
have no effect any more (`StartWorkflow` and `DeliverSignal` then only discard
them, and no later step reads `signal`). Symmetry swaps the two VMs, each with its port, and the
deployments or versions that the instance treats alike. Both are used in runs
that check invariants and action properties, never in the liveness run.
Symmetry of the other runs swaps sessions, workers, attempts or requests, and in
`placement` two deployments that differ in nothing but their node.
`CHECK_DEADLOCK FALSE` is set where the system really stops: once each deployment
has ended or was never started there may be nothing left to do. The other runs check
deadlock; who waits for whom inside a transaction is stated by `SomeoneProceeds`,
`AllocatorsProceed` and `DeadlocksHaveACause`.

Fairness. `WF(WorkflowStep(d))`: Temporal keeps scheduling a started workflow, every
activity attempt ends or times out, and the wait for the approval has a timeout. No
fairness is assumed of users, operators, signals or start requests. `RecoverySpec`
adds that the loop keeps running (`while True`) and that a start request keeps being
possible (strong fairness of `StartWorkflow`).

The properties, by what they relate:

- `UpdatingIffOneActive`, `VersionLockedWhileActive`, `ActiveVersionIsDeployed`: three
  columns in three tables that different transactions write.
- `ReservedOnlyIfApproved`, `NothingBeforeApproval`: an earlier decision and later
  resources, across every ordering of decision, signal, timeout and late call.
- `OutcomesAreFinal`, `KeepsLease`: what no transaction may do.
- `ResultRecorded`, `CompletedIsDeployed`, `CompensatedIsClean`: the result of
  the workflow against registry, allocators and hosts. `CompensatedIsClean`
  names its exceptions exactly: the remains of an action that failed, which the code
  never undoes, and what a call nobody waits for any more took.
- `VmKeepsItsResources`: the order of teardown, as long as no undo has failed.
- `Redeployable`: no ended deployment makes its DRAFT version undeployable, but for a
  `create_inventory` that outlived its workflow.
- `WorkflowsEnd`: with a result or by raising.
- `CountersWithinTotals`, `LedgerBalanced`, `PlacementIsIdempotent`, `KeepsPromise`: counters
  that two transactions add to and take from, against the rows they stand for and the
  answers that were given. `QuotaExceededOnlyByOverlap` names the two ways in which a
  quota is exceeded.
- `AdvisoryLocksSuffice`, `DisplaysAreKept`: a read before a lock, and what it is worth
  at the commit; each names its one exception.
- `TagLockSuffices`, `PrivateSpaceDisjoint`, `RerunOnlyLowers`: pools that are read in one
  statement and taken from in another.
- `SomeoneProceeds`, `AllocatorsProceed`: transactions that lock several servers always leave
  one that can go on. `DeadlocksHaveACause`: attempts that all wait for each other
  include an allocation and a rollback of the *same* deployment, or a repeated allocation that
  moves a port and waits for an address another one is giving up. PostgreSQL breaks both and
  Temporal repeats them; first allocations of different deployments never deadlock.
- `RoundsAreLinksPortsVms`, `CompletedIsWired`, `LeftoversHaveAnAuthor`: the plan against the hosts.
- `OneLiveTokenPerFamily`, `RotatedTokensAreCurrent`: rotation against every other writer
  of the same rows. The second names what escapes it: a login, whose read nothing protects,
  and an update that wrote back a profile another update had changed.

Every property of a passing run has a mutant in the module it is about
(`Mut...`, a plausible bug of one definition) under which TLC finds it violated.

## 4. The proofs

Each proof holds for every value of the constants that satisfies the module's named
assumption. `PROJECT.json` lists the theorems with the properties they state; the
temporal theorems all follow from an inductive invariant, with one lemma per action or
group of actions. `NumberFacts` holds what several of them share: that a nonempty set of
naturals has a least element and a finite one a greatest, and how `SumFunctionOnSet`
changes with its set and its function. The library's induction theorems cannot be
instantiated by the provers, so these facts are proved by well-foundedness, on the least
size of a counterexample.

**SliceRegistryProofs** (`RegistryAssumption`: each version belongs to a slice, NULL is no
version, nodes and links differ): `RegistryTypes`, `OneActiveDeployment`,
`VersionLock`, `ActiveVersion`, `ReservationNeedsApproval`, `Finality`, and
`Refinement`, `RegSpec => KeepsLease`.

None of the invariants is inductive alone: whether a slice may leave UPDATING
depends on its version and on all its deployments. The inductive invariant
is `RegInv`, the conjunction of the types, of the agreement of the three tables
(`UpdatingIffOneActive`, `VersionLockedWhileActive`, `ActiveVersionIsDeployed`, which need one another) and
of the fact that what left PENDING was approved. The argument: while a
deployment is active its slice is UPDATING, so `MayDeploy` refuses every other one; an
end of the deployment is the only step that makes the slice leave UPDATING, and it
moves the version in the same transaction. `RecalculatedState` never returns UPDATING, and
returns RUNNING or STOPPED exactly when there is an active version. The proof
that a step preserves the invariant has one step per transaction; the three ways a
deployment finishes share the lemma `FinishPreserves`. The
refinement proof maps a request to `Lend`, a refusal to `Refuse`, a finish to
`Return`, and every other transaction to a stutter.

**DeploySagaProofs** (`SagaAssumption`): `SagaUsesRegistry` shows that every step of workflows,
users, retries and late calls is a step of `RegNext` or leaves the registry's columns
alone, so that `SagaKeepsLease` and all theorems above hold in the saga.
`NothingUnapproved` needs to know why nothing can happen before an approval: the
workflow of an unapproved deployment is in one of the stages `Early`, none of its calls is
in flight and no signal says APPROVED (`Sealed`), and approvals are final.
`ResultsRecorded` needs, besides, what a round's actions are between two steps
(`RoundOK`). `SagaInv` is their conjunction with the types and the registry's invariant.

What the workflow promises when it ends needs a second inductive invariant, `DeployInv`,
which says, stage by stage, what the rows, hosts and calls of a deployment are
(`InOrder`): what the registry has recorded by then (`RegistryInOrder`), that a branch
of the gather that was not forked has taken nothing and has no call on its way
(`GatherInOrder`), that the hosts have what was applied and otherwise only what a failed
action may have left (`RoundsInOrder`), and what each part of the compensation has still to
remove as long as no part has failed (`UndoInOrder`). From it follow
`CompletedDeploys` (`CompletedIsDeployed`), `CompensationCleans` (`CompensatedIsClean`),
`VmsKeepTheirResources` (`VmKeepsItsResources`) and `DeploysAgain` (`Redeployable`).
Deployments of one slice share its bridge and its S-TAG, so a step of one can
change what another has. The lemma `OthersInOrder` shows what is left to
the others (`Elsewhere`): only the undoing of a deployment takes anything away, and a deployment that
undoes is alone on its slice, because a slice that a deployment COMPLETED or FAILED
on is never used by another (`SpentOnce`, `DeployedAlone`). TLC checked `DeployInv` on
an instance with one deployment and on one with two before it was proved.

**PlacementLedgerProofs** (`LedgerAssumption`: among others that a plan names each node once,
which `reserve_deployment_placement` checks): `WithinTotals` and `IdempotentPlacement`. While a
transaction holds a server's row nobody else changes its counters, so what its simulation
has left plus what it has given away is what the server has free (`TxOK`); the
deployment's row makes it the only transaction of its deployment (`OneTransaction`).
`SomeTransactionProceeds`: rows are locked upwards, so the transaction that holds the
greatest server anybody waits for does not wait itself. `CountersMatchRows`
(`LedgerBalanced`): only a commit changes counters and rows, by the same amounts, which
`BalanceInv` follows as a sum over the nodes a transaction has walked over.
`LedgerKeepsPromise` is the refinement: with the balance, what the simulation found free
is what `CapacityPromise` has free, so a commit is one step of it and every other step
a stutter. `QuotaHolds`: `QuotaInv` adds to a user's RESERVED rows those of a
request that was admitted and not placed; a second one at the same time sets `excused`.

**NetworkTagsProofs** (`NetworkAssumption`): `TagLock` and `PrivateSpace`. The slice's row makes
an allocation the only one of its slice (`OneAllocation`), so the blocks it has read
are at most given back while it runs, and the links it has placed are apart from
them and from each other (`Placed`); the advisory lock makes it the only holder of a
tag that is not stored yet (`OneTag`). A commit stores all links of its deployment or
none, because links are updated only while their rows exist and the rows' end waits for it. The
types include that every block found lies within the base.
`RerunsOnlyLower` and `CausesOfDeadlock` need a second invariant, `PortsInv`: stored addresses
of a deployment go upwards with its ports, a plan goes upwards too and starts from what
is free, its own addresses included, so the *i*-th planned address is never above the
*i*-th stored one. A transaction that waits for an address therefore holds lower ones, and a
circle of waiting allocations has to contain one that gives an address up. Stating this
for every instance showed that an earlier form of the property, which allowed an allocation and a
rollback of one deployment as the only cause, holds on the instance of `network` alone: a
port that moves while two transactions wait needs more ports than the run has.

**ComputeDisplaysProofs** (`DisplayAssumption`): `LocksSuffice` and `DisplaysKept`. A worker
holds the lock of every server whose displays it has looked at (`CallOK`), so what it read
there covers what is occupied until it commits (`Seen`); nodes read before the locks
are as they were as long as the call is not overtaken (`UpToDate`).
`SomeAllocatorProceeds`, for finitely many servers, is the argument of lock order again.

**DeployPlanProofs** (`PlanAssumption`): `RoundsOfAPlan` and `LinksThenPortsThenVms`: the rounds of every
accepted definition are its links, then its ports, then its VMs, whatever the adapter's
threads do meanwhile. This is the order that `DeploySaga` takes for granted.
`HostTypes`, `CompletedDeploymentsAreWired` and `LeftoversAreAccountedFor` rest on `HostInv`,
which says what a thread at a given step vouches for: a creating one for the devices of the
steps it has behind it (`Built`), an undoing one for their absence (`Gone`), and of
everything found on a host which pending, applied or suspect action put it there
(`Accounted`). While the workflow goes forward nothing is removed, so what a finished
round built stays (`Made`, `Cabled`); once it undoes, only late threads add, and their actions are
suspect. The bridge that links share is the delicate part (`BridgeBy`, `CableBy`).

**AuthSessionsProofs** (`SessionAssumption`): `OneLiveToken` and `RotatedAreCurrent`, for any
number of users, tokens and overlapping requests: who holds which row (`Locks`)
decides which of two transactions sees the other's changes, and a held token is still
live when its holder rotates it.

Only model-checked: `WorkflowsEnd`, since liveness under fairness is out of the prover's
reach, and the properties that the three runs of section 5 find violated.

## 5. Where the code and the repository's own words differ

- `PendingIsStarted` (run `pending_recovery`). The recovery loop exists to start
  workflows whose start was lost, but it selects rows with `workflow_id IS NULL`, and
  the transaction that inserts a deployment sets `workflow_id`. The loop never
  finds a row; the deployment stays PENDING and its slice UPDATING until the owner
  asks again.
- `CompensationReleases` (run `compensation_releases`). The plan of VM Placement leaves
  the release of reservations to the orchestrator's compensation. When
  `network_allocate` fails first, the abandoned `reserve_placement` may commit between
  `rollback_placement` and `finish_deployment`: the deployment is COMPENSATED
  and its capacity stays RESERVED.
- `NoOrphanDisplays` (run `orphan_displays`). The Query Service's audit counts DELETED
  nodes with a `vnc_display` as leaks. The ordinary compensation leaves such rows:
  `rollback_pending` clears the displays of PENDING nodes only, and by then the nodes
  of a recorded round are RUNNING or FAILED.

Met while modelling, and modelled as the code has it, without a run of its own:

- `AuthAuthz/app/main.py:211` says that reuse of a revoked token annuls its family. The
  UPDATE that does so (212-225, and 240-245 for an inactive user) is followed by a `raise` inside
  `conn.transaction()`, which rolls it back: a refused refresh changes nothing.
- A logout that meets a refresh of the same token revokes the old token; the one the
  refresh inserts stays live.
- A link that a definition names `public` has the same derived identity as the link of
  the public VMs. `_insert_planned_inventory` (`deployments.py:416-437`) inserts
  with ON CONFLICT DO NOTHING, so the first row stays and public access has none.
  `PlanAssumption` leaves this name out.
- The Query Service's `get_user_quota` counts other rows than the admission does.
- `destroy_slice_host` and `delete_slice_network` of the adapter are dispatched by no
  workflow.

## 6. Plan

What would add most next, in this order:

1. `LockOrder`: the row locks of every registry transaction, to say which requests, starts
   and ends can wait for each other (the hazard at `deployments.py:65`).
2. `AdapterHosts` as a refinement of the `host` of `DeploySaga`.

## 7. Not modelled

- The Java placement service: the workflow does not call it, and its SQL names columns
  that `DB/init.sql` does not have.
- Network Manager's HTTP API and topology engine: computation over one request,
  used by no step of a deployment.
- The Query Service but for `update_admin_quota`: the rest are views, and
  interventions whose SQL names columns, states or tables the schema does not have.
- Of AuthAuthz the limiter of failed logins, passwords, expiry and the contents of
  access tokens; of the adapter `destroy_slice_host`, `delete_slice_network`, disk images and
  seeds; of the network MACs (a hash) and private addresses (the first of their block).
- Which pid a pidfile names once the host has given it to another process.
- Gateway, CLI, frontend, monitoring and container set-up (no state), the texts and
  metadata of specifications, logs and error messages, and the admission rules of
  users and zones, which are a choice in the model.

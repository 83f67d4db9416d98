-------------------------- MODULE PlacementLedger --------------------------
(***************************************************************************)
(* Server capacity: the counters of slices.servidor, the reservation rows  *)
(* of slices.reserva_nodo, the two transactions that change them           *)
(* (reserve_ and rollback_deployment_placement with the placement          *)
(* simulation), and the quota admission that reads them.                   *)
(*                                                                         *)
(* A transaction runs in several steps: it locks the deployment, then the  *)
(* rows of the servers one after the other in id order, then walks over    *)
(* its nodes, and commits.  Several run at once (attempts of a Temporal    *)
(* activity, reservations of other deployments), and any may be lost       *)
(* before it commits.  Other transactions on a deployment are atomic: they *)
(* start by locking its row.                                               *)
(*                                                                         *)
(* Servers are the ACTIVE servers of one zone, numbered in id order.       *)
(***************************************************************************)
EXTENDS Integers, Sequences, FiniteSets, FiniteSetsExt

CONSTANTS Deployments, Nodes, Users,
          Resources,      \* vcpu, vram_mb, vdisk_mb
          ServerCount,
          Total,          \* total_cpu_cores, total_ram_mb, total_disk_mb
          PlanOf,         \* plan.reservation.allocate, the nodes in order
          Demand,         \* what the flavor of a node takes
          UserOf,
          Quotas,         \* what an administrator may set a quota to
          Attempts,       \* database sessions of the Slice Manager
          NoDeployment

Servers == 1..ServerCount
Amounts == [Resources -> Nat]
NoAmounts == [r \in Resources |-> 0]
NoServer == 0

ASSUME LedgerAssumption ==
  /\ ServerCount \in Nat
  /\ Total \in [Servers -> Amounts]
  /\ PlanOf \in [Deployments -> Seq(Nodes)]
  /\ \A d \in Deployments : IsInjective(PlanOf[d])   \* "duplicate node allocations"
  /\ Demand \in [Nodes -> Amounts]
  /\ UserOf \in [Deployments -> Users]
  /\ Quotas \subseteq Amounts
  /\ NoDeployment \notin Deployments

VARIABLES
  estado,      \* deployment.estado
  inventory,   \* the slice_nodo rows of the deployment exist
  quota,       \* auth.cuota.prometido, or the user's override
  reserva,     \* reserva_nodo.estado of the deployment's rows
  host,        \* reserva_nodo.servidor_id of a node's rows
  reserved,    \* servidor.vcpu_reserved, vram_mb_reserved, vdisk_mb_reserved
  tx,          \* the open transactions
  answered,    \* allocations returned to the workflow
  excused      \* history: users whose quota was lowered or admitted against twice

ledgerVars == <<estado, inventory, quota, reserva, host, reserved, tx, answered, excused>>
registryVars == <<estado, inventory>>
rowVars == <<reserva, host, reserved, answered>>

Outcomes == {"COMPLETED", "COMPENSATED", "REJECTED", "FAILED"}
Estados == {"none", "PENDING", "IN_PROGRESS"} \cup Outcomes
Placements == [Nodes -> Servers \cup {NoServer}]
Nowhere == [n \in Nodes |-> NoServer]

\* want: servers still to lock; held: servers locked; at: nodes already walked.
Transactions ==
  [pc : {"idle", "reserve", "rollback"}, dep : Deployments \cup {NoDeployment},
   want : SUBSET Servers, held : SUBSET Servers, at : Nat, next : Nat,
   remaining : [Servers -> Amounts], amounts : [Servers -> Amounts],
   placed : Placements]

Idle == [pc |-> "idle", dep |-> NoDeployment, want |-> {}, held |-> {}, at |-> 0,
         next |-> 0, remaining |-> [s \in Servers |-> NoAmounts],
         amounts |-> [s \in Servers |-> NoAmounts], placed |-> Nowhere]

LedgerTypeOK ==
  /\ estado \in [Deployments -> Estados]
  /\ inventory \in [Deployments -> BOOLEAN]
  /\ quota \in [Users -> Amounts]
  /\ reserva \in [Deployments -> {"none", "RESERVED", "RELEASED"}]
  /\ host \in [Deployments -> Placements]
  /\ reserved \in [Servers -> Amounts]
  /\ tx \in [Attempts -> Transactions]
  /\ answered \in [Deployments -> SUBSET Placements]
  /\ excused \in [Users -> BOOLEAN]

LedgerInit ==
  /\ estado = [d \in Deployments |-> "none"]
  /\ inventory = [d \in Deployments |-> FALSE]
  /\ quota \in [Users -> Quotas]
  /\ reserva = [d \in Deployments |-> "none"]
  /\ host = [d \in Deployments |-> Nowhere]
  /\ reserved = [s \in Servers |-> NoAmounts]
  /\ tx = [a \in Attempts |-> Idle]
  /\ answered = [d \in Deployments |-> {}]
  /\ excused = [u \in Users |-> FALSE]

-----------------------------------------------------------------------------
NodesOf(d) == {PlanOf[d][i] : i \in 1..Len(PlanOf[d])}
Active(d) == estado[d] \in {"PENDING", "IN_PROGRESS"}

\* Rows locked by an open transaction.
Unlocked(d) == \A a \in Attempts : tx[a].dep # d
ServerUnlocked(s) == \A a \in Attempts : s \notin tx[a].held

DemandFor(r) == [n \in Nodes |-> Demand[n][r]]
PlanDemand(d, r) == SumFunctionOnSet(DemandFor(r), NodesOf(d))
\* What the RESERVED rows of a server add up to.
ShareOf(d, place, s, r) ==
  SumFunctionOnSet(DemandFor(r), {n \in NodesOf(d) : place[n] = s})
RowsOn(s, r) ==
  SumFunctionOnSet([d \in Deployments |-> ShareOf(d, host[d], s, r)],
                   {d \in Deployments : reserva[d] = "RESERVED"})
\* What the RESERVED rows of a user's slices add up to.
Usage(u, r) ==
  SumFunctionOnSet([d \in Deployments |-> PlanDemand(d, r)],
                   {d \in Deployments : UserOf[d] = u /\ reserva[d] = "RESERVED"})

-----------------------------------------------------------------------------
\* Admission and the deployment's own transactions.

\* Mutant: the request alone is compared with the quota.
MutOverQuotaAlone(d) ==
  \E r \in Resources : PlanDemand(d, r) > quota[UserOf[d]][r]

OverQuota(d) ==
  \E r \in Resources :
    Usage(UserOf[d], r) + PlanDemand(d, r) > quota[UserOf[d]][r]

\* request_initial_deploy with admission_failure.  An approval, where one is
\* needed, is part of the wait between PENDING and IN_PROGRESS.
Request(d) ==
  /\ estado[d] = "none"
  /\ estado' = [estado EXCEPT ![d] = IF OverQuota(d) THEN "REJECTED" ELSE "PENDING"]
  /\ excused' = [excused EXCEPT ![UserOf[d]] =
       \/ @
       \/ /\ ~OverQuota(d)
          /\ \E e \in Deployments :
               UserOf[e] = UserOf[d] /\ Active(e) /\ reserva[e] = "none"]
  /\ UNCHANGED <<inventory, quota, tx, rowVars>>

\* update_admin_quota of the Query Service.
UpdateAdminQuota(u, q) ==
  /\ q # quota[u]
  /\ quota' = [quota EXCEPT ![u] = q]
  /\ excused' = [excused EXCEPT ![u] = @ \/ \E r \in Resources : q[r] < quota[u][r]]
  /\ UNCHANGED <<registryVars, tx, rowVars>>

StartDeployment(d) ==
  /\ estado[d] = "PENDING" /\ Unlocked(d)
  /\ estado' = [estado EXCEPT ![d] = "IN_PROGRESS"]
  /\ UNCHANGED <<inventory, quota, excused, tx, rowVars>>

\* The rows stay when the deployment ends, whatever their state.
CreateInventory(d) ==
  /\ estado[d] # "none" /\ Unlocked(d)
  /\ inventory' = [inventory EXCEPT ![d] = TRUE]
  /\ UNCHANGED <<estado, quota, excused, tx, rowVars>>

FinishDeployment(d, outcome) ==
  /\ Active(d) /\ Unlocked(d)
  /\ estado' = [estado EXCEPT ![d] = outcome]
  /\ UNCHANGED <<inventory, quota, excused, tx, rowVars>>

-----------------------------------------------------------------------------
\* reserve_deployment_placement.

ReserveAccepted(d) ==
  /\ estado[d] = "IN_PROGRESS" /\ inventory[d] /\ Unlocked(d)

\* Rows that exist are the answer again.
ReserveAgain(d) ==
  /\ ReserveAccepted(d) /\ reserva[d] = "RESERVED"
  /\ answered' = [answered EXCEPT ![d] = @ \cup {host[d]}]
  /\ UNCHANGED <<registryVars, quota, excused, tx, reserva, host, reserved>>

\* Mutant: rows that exist are not looked at.
MutBeginReserveBlindly(a, d) ==
  /\ tx[a].pc = "idle" /\ ReserveAccepted(d) /\ PlanOf[d] # <<>>
  /\ tx' = [tx EXCEPT ![a] = [Idle EXCEPT !.pc = "reserve", !.dep = d, !.want = Servers]]
  /\ UNCHANGED <<registryVars, quota, excused, rowVars>>

\* Released rows are refused, and a plan without nodes reserves nothing.
BeginReserve(a, d) ==
  /\ tx[a].pc = "idle" /\ ReserveAccepted(d) /\ PlanOf[d] # <<>>
  /\ reserva[d] = "none"
  /\ tx' = [tx EXCEPT ![a] = [Idle EXCEPT !.pc = "reserve", !.dep = d, !.want = Servers]]
  /\ UNCHANGED <<registryVars, quota, excused, rowVars>>

Available(s) == [r \in Resources |-> Total[s][r] - reserved[s][r]]

\* Mutant: SELECT without FOR UPDATE.
MutLockServerUnlocked(a) ==
  /\ tx[a].want # {}
  /\ LET s == Min(tx[a].want) IN
       tx' = [tx EXCEPT ![a].want = @ \ {s}, ![a].remaining[s] = Available(s)]
  /\ UNCHANGED <<registryVars, quota, excused, rowVars>>

\* Mutant: a rollback locks the servers from the highest id down.
MutLockServerRollbackDown(a) ==
  /\ tx[a].want # {}
  /\ LET s == IF tx[a].pc = "rollback" THEN Max(tx[a].want) ELSE Min(tx[a].want) IN
       /\ ServerUnlocked(s)
       /\ tx' = [tx EXCEPT ![a].want = @ \ {s}, ![a].held = @ \cup {s},
                           ![a].remaining[s] = Available(s)]
  /\ UNCHANGED <<registryVars, quota, excused, rowVars>>

\* SELECT ... ORDER BY id FOR UPDATE: a row is read once it is locked.
LockServer(a) ==
  /\ tx[a].want # {}
  /\ LET s == Min(tx[a].want) IN
       /\ ServerUnlocked(s)
       /\ tx' = [tx EXCEPT ![a].want = @ \ {s}, ![a].held = @ \cup {s},
                           ![a].remaining[s] = Available(s)]
  /\ UNCHANGED <<registryVars, quota, excused, rowVars>>

Locked(a, op) == tx[a].pc = op /\ tx[a].want = {}
Plan(a) == PlanOf[tx[a].dep]
NextNode(a) == Plan(a)[tx[a].at + 1]

\* Mutant: one resource with room is enough.
MutFitsAny(a, n, s) == \E r \in Resources : tx[a].remaining[s][r] >= Demand[n][r]

Fits(a, n, s) == \A r \in Resources : tx[a].remaining[s][r] >= Demand[n][r]
\* How far server s is from the one whose turn it is.
Offset(a, s) == IF s > tx[a].next THEN s - tx[a].next ELSE s + ServerCount - tx[a].next
\* simulate_deploy_placement: the first server with room, starting after the
\* one that took the last node and wrapping around.
FirstFit(a, n) ==
  {s \in Servers : Fits(a, n, s)
                   /\ \A t \in Servers : Fits(a, n, t) => Offset(a, s) <= Offset(a, t)}

Plus(x, y) == [r \in Resources |-> x[r] + y[r]]
Minus(x, y) == [r \in Resources |-> x[r] - y[r]]

PlaceNode(a) ==
  /\ Locked(a, "reserve") /\ tx[a].at < Len(Plan(a))
  /\ \E s \in FirstFit(a, NextNode(a)) :
       tx' = [tx EXCEPT ![a] =
                [tx[a] EXCEPT !.at = @ + 1, !.next = s,
                          !.remaining[s] = Minus(@, Demand[NextNode(a)]),
                          !.amounts[s] = Plus(@, Demand[NextNode(a)]),
                          !.placed[NextNode(a)] = s]]
  /\ UNCHANGED <<registryVars, quota, excused, rowVars>>

\* InsufficientPlacementCapacity rolls the transaction back.
InsufficientCapacity(a) ==
  /\ Locked(a, "reserve") /\ tx[a].at < Len(Plan(a))
  /\ FirstFit(a, NextNode(a)) = {}
  /\ tx' = [tx EXCEPT ![a] = Idle]
  /\ UNCHANGED <<registryVars, quota, excused, rowVars>>

CommitReserve(a) ==
  LET d == tx[a].dep IN
  /\ Locked(a, "reserve") /\ tx[a].at = Len(Plan(a))
  /\ reserva' = [reserva EXCEPT ![d] = "RESERVED"]
  /\ host' = [host EXCEPT ![d] = tx[a].placed]
  /\ reserved' = [s \in Servers |-> Plus(reserved[s], tx[a].amounts[s])]
  /\ answered' = [answered EXCEPT ![d] = @ \cup {tx[a].placed}]
  /\ tx' = [tx EXCEPT ![a] = Idle]
  /\ UNCHANGED <<registryVars, quota, excused>>

-----------------------------------------------------------------------------
\* rollback_deployment_placement.  Without RESERVED rows it changes nothing.

BeginRollback(a, d) ==
  /\ tx[a].pc = "idle" /\ estado[d] # "none" /\ Unlocked(d)
  /\ reserva[d] = "RESERVED"
  /\ tx' = [tx EXCEPT ![a] = [Idle EXCEPT !.pc = "rollback", !.dep = d,
                                          !.want = {host[d][n] : n \in NodesOf(d)}]]
  /\ UNCHANGED <<registryVars, quota, excused, rowVars>>

\* Mutant: two turns of the loop are skipped as one.
MutCountReleasedSkips(a) ==
  /\ Locked(a, "rollback") /\ tx[a].at < Len(Plan(a))
  /\ tx' = [tx EXCEPT ![a] =
              [tx[a] EXCEPT !.at = Len(Plan(a)),
                        !.amounts[host[tx[a].dep][NextNode(a)]] =
                           Plus(@, Demand[NextNode(a)])]]
  /\ UNCHANGED <<registryVars, quota, excused, rowVars>>

\* One turn of the loop over the released rows.
CountReleased(a) ==
  /\ Locked(a, "rollback") /\ tx[a].at < Len(Plan(a))
  /\ tx' = [tx EXCEPT ![a] =
              [tx[a] EXCEPT !.at = @ + 1,
                        !.amounts[host[tx[a].dep][NextNode(a)]] =
                           Plus(@, Demand[NextNode(a)])]]
  /\ UNCHANGED <<registryVars, quota, excused, rowVars>>

\* The counters are decremented only where they stay non-negative.
Covered(a) ==
  \A s \in Servers, r \in Resources : reserved[s][r] >= tx[a].amounts[s][r]

\* Mutant: the rows are released, the counters forgotten.
MutCommitRollbackRowsOnly(a) ==
  /\ Locked(a, "rollback") /\ tx[a].at = Len(Plan(a)) /\ Covered(a)
  /\ reserva' = [reserva EXCEPT ![tx[a].dep] = "RELEASED"]
  /\ tx' = [tx EXCEPT ![a] = Idle]
  /\ UNCHANGED <<registryVars, quota, excused, host, answered, reserved>>

CommitRollback(a) ==
  /\ Locked(a, "rollback") /\ tx[a].at = Len(Plan(a)) /\ Covered(a)
  /\ reserva' = [reserva EXCEPT ![tx[a].dep] = "RELEASED"]
  /\ reserved' = [s \in Servers |-> Minus(reserved[s], tx[a].amounts[s])]
  /\ tx' = [tx EXCEPT ![a] = Idle]
  /\ UNCHANGED <<registryVars, quota, excused, host, answered>>

\* The process or its connection is lost; "counters are inconsistent" ends a
\* transaction in the same way.
Abort(a) ==
  /\ tx[a].pc # "idle"
  /\ tx' = [tx EXCEPT ![a] = Idle]
  /\ UNCHANGED <<registryVars, quota, excused, rowVars>>

-----------------------------------------------------------------------------
TransactionStep(a) ==
  \/ LockServer(a)
  \/ PlaceNode(a) \/ InsufficientCapacity(a) \/ CommitReserve(a)
  \/ CountReleased(a) \/ CommitRollback(a)

LedgerNext ==
  \/ \E d \in Deployments :
       \/ Request(d) \/ StartDeployment(d) \/ CreateInventory(d) \/ ReserveAgain(d)
       \/ \E outcome \in Outcomes : FinishDeployment(d, outcome)
       \/ \E a \in Attempts : BeginReserve(a, d) \/ BeginRollback(a, d)
  \/ \E u \in Users, q \in Quotas : UpdateAdminQuota(u, q)
  \/ \E a \in Attempts : TransactionStep(a) \/ Abort(a)

LedgerSpec == LedgerInit /\ [][LedgerNext]_ledgerVars

-----------------------------------------------------------------------------
\* No server is promised more than it has, whatever reservations and rollbacks
\* overlap: the simulation of one transaction never uses capacity another one
\* is about to take.
CountersWithinTotals ==
  \A s \in Servers, r \in Resources : reserved[s][r] <= Total[s][r]

\* The counters of a server are the sum of its RESERVED rows: repeated and
\* abandoned attempts neither book nor free a node twice.
LedgerBalanced ==
  \A s \in Servers, r \in Resources : reserved[s][r] = RowsOn(s, r)

\* Every answer ever given for a deployment names the servers its rows name, so
\* the workflow of a lost answer sees the same placement in the next one; and a
\* released reservation is never taken back by an attempt still under way.
PlacementIsIdempotent ==
  \A d \in Deployments :
    /\ answered[d] \subseteq {host[d]}
    /\ answered[d] # {} => reserva[d] # "none"
    /\ \A a \in Attempts :
         reserva[d] = "RELEASED" /\ tx[a].dep = d => tx[a].pc # "reserve"

\* Transactions that wait for each other's servers always leave one that can go
\* on: the common lock order excludes a deadlock.
Blocked(a) == tx[a].want # {} /\ ~ServerUnlocked(Min(tx[a].want))
SomeoneProceeds ==
  (\E a \in Attempts : tx[a].pc # "idle") =>
     \E a \in Attempts : tx[a].pc # "idle" /\ ~Blocked(a)

\* A user's RESERVED rows exceed the quota only when two of the user's requests
\* were admitted before the first was placed, or the quota was lowered meanwhile.
QuotaExceededOnlyByOverlap ==
  \A u \in Users, r \in Resources : Usage(u, r) > quota[u][r] => excused[u]

\* However their steps overlap and wherever they are lost, the transactions act
\* like single steps: a whole placement that fits is taken, or given back, at once.
Promise == INSTANCE CapacityPromise WITH
  Servers <- Servers, Placements <- Placements, Share <- ShareOf
KeepsPromise == Promise!PromiseSpec
=============================================================================

----------------------- MODULE PlacementLedgerProofs -----------------------
(***************************************************************************)
(* Proofs, for any servers, deployments, plans and concurrent attempts:    *)
(* capacity, balance, quotas, lock order, and what reservations promise.   *)
(*                                                                         *)
(* The argument: while a transaction holds a server's row nobody else      *)
(* changes its counters, so what the simulation has left plus what it has  *)
(* given away is what the server has free (TxOK); the deployment's row     *)
(* makes it the only transaction of its deployment, so the rows it found   *)
(* are those it changes.                                                   *)
(*                                                                         *)
(* More builds on it.  Rows are locked upwards, so the holder of the       *)
(* greatest server waited for can go on.  What a transaction is about to   *)
(* book is a sum over the nodes it has walked over (BalanceInv), so the    *)
(* counters stay sums over the rows and a commit is one step of            *)
(* CapacityPromise.  QuotaInv counts what was requested and not yet placed.*)
(***************************************************************************)
EXTENDS PlacementLedger, NumberFacts, TLAPS

\* What an open transaction x knows.
TxOK(x) ==
  /\ x.pc = "idle" => x = Idle
  /\ x.pc # "idle" => x.dep \in Deployments /\ x.at <= Len(PlanOf[x.dep])
  /\ x.pc = "reserve" =>
       /\ reserva[x.dep] = "none" /\ x.want \cup x.held = Servers
       /\ \A i \in 1..x.at : x.placed[PlanOf[x.dep][i]] \in Servers
       /\ \A s \in x.held, r \in Resources :
            x.remaining[s][r] + x.amounts[s][r] = Total[s][r] - reserved[s][r]
  /\ x.pc = "rollback" =>
       /\ reserva[x.dep] = "RESERVED"
       /\ x.want \cup x.held = {host[x.dep][n] : n \in NodesOf(x.dep)}
  /\ \A s \in Servers \ x.held, r \in Resources : x.amounts[s][r] = 0

OneTransaction ==
  \A a, b \in Attempts : tx[a].dep \in Deployments /\ tx[a].dep = tx[b].dep => a = b
OneLocker == \A a, b \in Attempts : a # b => tx[a].held \cap tx[b].held = {}
Hosts ==
  \A d \in Deployments : reserva[d] = "RESERVED" => \A n \in NodesOf(d) : host[d][n] \in Servers

TxInv == (\A a \in Attempts : TxOK(tx[a])) /\ OneTransaction /\ OneLocker /\ Hosts
LedgerInv == LedgerTypeOK /\ TxInv /\ CountersWithinTotals /\ PlacementIsIdempotent

-----------------------------------------------------------------------------
\* The servers' numbers have a least one: ORDER BY id has a first row.
LEMMA LeastServer ==
  ASSUME NEW S \in SUBSET Servers, S # {}
  PROVE  Min(S) \in S
BY LeastNumber, LedgerAssumption DEF Servers

\* A record that no transaction has open.
LEMMA IdleIsFine ==
  ASSUME LedgerTypeOK
  PROVE  /\ Idle \in Transactions /\ TxOK(Idle)
         /\ Idle.dep = NoDeployment /\ Idle.held = {} /\ Idle.pc = "idle"
<1>1. Idle \in Transactions
  BY LedgerAssumption DEF Idle, Transactions, Amounts, NoAmounts, Placements, Nowhere, NoServer
<1>2. TxOK(Idle)
  BY DEF Idle, TxOK, NoAmounts
<1> QED
  BY <1>1, <1>2 DEF Idle

\* Steps inside a transaction keep the invariant, if what the transaction then
\* knows is true, and nobody else holds what it holds.
LEMMA TxKept ==
  ASSUME LedgerInv, NEW a \in Attempts, NEW next \in Transactions,
         tx' = [tx EXCEPT ![a] = next],
         UNCHANGED <<registryVars, quota, excused, rowVars>>,
         TxOK(next),
         next.dep \in Deployments => \A b \in Attempts \ {a} : tx[b].dep # next.dep,
         \A b \in Attempts \ {a} : tx[b].held \cap next.held = {},
         next.pc = "reserve" => reserva[next.dep] # "RELEASED"
  PROVE  LedgerInv'
<1>1. tx' \in [Attempts -> Transactions] /\ tx'[a] = next
      /\ \A b \in Attempts \ {a} : tx'[b] = tx[b]
  BY DEF LedgerInv, LedgerTypeOK
<1>2. UNCHANGED <<estado, inventory, quota, reserva, host, reserved, answered, excused>>
  BY DEF registryVars, rowVars
<1>3. LedgerTypeOK'
  BY <1>1, <1>2 DEF LedgerInv, LedgerTypeOK
<1>4. ASSUME NEW b \in Attempts
      PROVE  TxOK(tx[b])'
<2> PICK x \in Transactions : x = tx'[b] /\ TxOK(x)
  BY <1>1 DEF LedgerInv, LedgerTypeOK, TxInv
<2>1. TxOK(x)'
  BY <1>2 DEF TxOK
<2> QED
  BY <2>1 DEF TxOK
<1>5. OneTransaction' /\ OneLocker'
  BY <1>1 DEF LedgerInv, TxInv, OneTransaction, OneLocker
<1>6. Hosts' /\ CountersWithinTotals'
  BY <1>2 DEF LedgerInv, TxInv, Hosts, CountersWithinTotals
<1>7. PlacementIsIdempotent'
  BY <1>1, <1>2 DEF LedgerInv, PlacementIsIdempotent
<1> QED
  BY <1>3, <1>4, <1>5, <1>6, <1>7 DEF LedgerInv, TxInv

\* reserve_deployment_placement and rollback_deployment_placement before they touch
\* a server: nothing is known yet but the state of the rows.
LEMMA Begins ==
  ASSUME LedgerInv, NEW a \in Attempts, NEW d \in Deployments,
         BeginReserve(a, d) \/ BeginRollback(a, d)
  PROVE  LedgerInv'
<1>1. d # NoDeployment /\ \A b \in Attempts : tx[b].dep # d
  BY LedgerAssumption DEF BeginReserve, ReserveAccepted, BeginRollback, Unlocked
<1>2. PlanOf[d] \in Seq(Nodes) /\ Len(PlanOf[d]) \in Nat
  BY LedgerAssumption
<1>3. CASE BeginReserve(a, d)
<2> DEFINE next == [Idle EXCEPT !.pc = "reserve", !.dep = d, !.want = Servers]
<2>1. next \in Transactions
  BY IdleIsFine DEF LedgerInv, Transactions
<2>2. /\ next.pc = "reserve" /\ next.dep = d /\ next.want = Servers /\ next.held = {}
      /\ next.at = 0 /\ next.amounts = [s \in Servers |-> NoAmounts]
  BY DEF Idle
<2>3. tx' = [tx EXCEPT ![a] = next]
  BY <1>3 DEF BeginReserve
<2> HIDE DEF next
<2>4. reserva[d] = "none"
  BY <1>3 DEF BeginReserve
<2>5. TxOK(next)
  BY <1>2, <2>2, <2>4 DEF TxOK, NoAmounts
<2>6. UNCHANGED <<registryVars, quota, excused, rowVars>>
  BY <1>3 DEF BeginReserve
<2> QED
  BY <1>1, <2>1, <2>2, <2>3, <2>4, <2>5, <2>6, TxKept
<1>4. CASE BeginRollback(a, d)
<2> DEFINE hosts == {host[d][n] : n \in NodesOf(d)}
           next == [Idle EXCEPT !.pc = "rollback", !.dep = d, !.want = hosts]
<2>1. reserva[d] = "RESERVED" /\ hosts \subseteq Servers
  BY <1>4 DEF BeginRollback, LedgerInv, TxInv, Hosts
<2>2. tx' = [tx EXCEPT ![a] = next]
  BY <1>4 DEF BeginRollback
<2> HIDE DEF hosts
<2>3. next \in Transactions
  BY <2>1, IdleIsFine DEF LedgerInv, Transactions
<2>4. /\ next.pc = "rollback" /\ next.dep = d /\ next.want = hosts /\ next.held = {}
      /\ next.at = 0 /\ next.amounts = [s \in Servers |-> NoAmounts]
  BY DEF Idle
<2> HIDE DEF next
<2>5. TxOK(next)
  BY <1>2, <2>1, <2>4 DEF TxOK, NoAmounts, hosts
<2>6. UNCHANGED <<registryVars, quota, excused, rowVars>>
  BY <1>4 DEF BeginRollback
<2> QED
  BY <1>1, <2>2, <2>3, <2>4, <2>5, <2>6, TxKept
<1> QED
  BY <1>3, <1>4, LedgerAssumption

\* A transaction that ends without a commit leaves nothing behind.
LEMMA Ends ==
  ASSUME LedgerInv, NEW a \in Attempts, InsufficientCapacity(a) \/ Abort(a)
  PROVE  LedgerInv'
<1>1. tx' = [tx EXCEPT ![a] = Idle] /\ UNCHANGED <<registryVars, quota, excused, rowVars>>
  BY DEF InsufficientCapacity, Abort
<1>2. NoDeployment \notin Deployments
  BY LedgerAssumption
<1>3. LedgerTypeOK
  BY DEF LedgerInv
<1>4. /\ Idle \in Transactions /\ TxOK(Idle)
      /\ Idle.dep = NoDeployment /\ Idle.held = {} /\ Idle.pc = "idle"
  BY <1>3, IdleIsFine
<1> QED
  BY <1>1, <1>2, <1>4, TxKept

\* SELECT ... FOR UPDATE of the next server: what the transaction reads there is
\* what is free, and it has given nothing of it away.
LEMMA Locks ==
  ASSUME LedgerInv, NEW a \in Attempts, LockServer(a)
  PROVE  LedgerInv'
<1> DEFINE s == Min(tx[a].want)
           next == [tx[a] EXCEPT !.want = @ \ {s}, !.held = @ \cup {s},
                                 !.remaining[s] = Available(s)]
<1>1. tx[a] \in Transactions /\ TxOK(tx[a])
  BY DEF LedgerInv, LedgerTypeOK, TxInv
<1>2. tx[a].want \in SUBSET Servers /\ tx[a].want # {}
  BY <1>1 DEF Transactions, LockServer
<1>3. s \in tx[a].want /\ s \in Servers
  BY <1>2, LeastServer
<1>4. \A b \in Attempts : s \notin tx[b].held
  BY DEF LockServer, ServerUnlocked
<1>5. tx' = [tx EXCEPT ![a] = next]
  BY DEF LockServer
<1>6. UNCHANGED <<registryVars, quota, excused, rowVars>>
  BY DEF LockServer
<1> HIDE DEF s
<1>7. Available(s) \in Amounts /\ \A r \in Resources : Available(s)[r] = Total[s][r] - reserved[s][r]
  BY <1>3, LedgerAssumption
     DEF Available, Amounts, LedgerInv, LedgerTypeOK, CountersWithinTotals
<1>8. next \in Transactions
  BY <1>1, <1>3, <1>7 DEF Transactions
<1>9. /\ next.pc = tx[a].pc /\ next.dep = tx[a].dep /\ next.want = tx[a].want \ {s}
      /\ next.held = tx[a].held \cup {s} /\ next.at = tx[a].at
      /\ next.amounts = tx[a].amounts /\ next.placed = tx[a].placed
      /\ next.remaining = [tx[a].remaining EXCEPT ![s] = Available(s)]
  BY <1>1 DEF Transactions
<1> HIDE DEF next
<1>10. next.pc # "idle"
  BY <1>1, <1>2, <1>9 DEF TxOK, Idle
<1>11. ASSUME next.pc = "reserve", NEW v \in next.held, NEW r \in Resources
       PROVE  next.remaining[v][r] + next.amounts[v][r] = Total[v][r] - reserved[v][r]
<2>1. v \in Servers
  BY <1>3, <1>1, <1>9, <1>11 DEF Transactions
<2>2. CASE v = s
<3>1. tx[a].amounts[s][r] = 0
  BY <1>1, <1>3, <1>4 DEF TxOK
<3>2. next.remaining[s] = Available(s) /\ Available(s)[r] \in Nat
  BY <1>1, <1>3, <1>7, <1>9 DEF Transactions, Amounts
<3> QED
  BY <1>7, <1>9, <2>2, <3>1, <3>2
<2>3. CASE v # s
<3>1. next.remaining[v] = tx[a].remaining[v] /\ v \in tx[a].held
  BY <1>1, <1>9, <1>11, <2>1, <2>3 DEF Transactions
<3> QED
  BY <1>1, <1>9, <1>11, <3>1 DEF TxOK
<2> QED
  BY <2>2, <2>3
<1>12. next.want \cup next.held = tx[a].want \cup tx[a].held
  BY <1>3, <1>9
<1>13. TxOK(next)
  BY <1>1, <1>9, <1>10, <1>11, <1>12 DEF TxOK
<1>14. next.dep \in Deployments => \A b \in Attempts \ {a} : tx[b].dep # next.dep
  BY <1>9 DEF LedgerInv, TxInv, OneTransaction
<1>15. \A b \in Attempts \ {a} : tx[b].held \cap next.held = {}
  BY <1>4, <1>9 DEF LedgerInv, TxInv, OneLocker
<1>16. next.pc = "reserve" => reserva[next.dep] # "RELEASED"
  BY <1>1, <1>9 DEF TxOK
<1> QED
  BY <1>5, <1>6, <1>8, <1>13, <1>14, <1>15, <1>16, TxKept

\* The node whose turn it is, in a plan that is not over.
LEMMA NextIsInPlan ==
  ASSUME LedgerInv, NEW a \in Attempts, tx[a].pc # "idle", tx[a].at < Len(Plan(a))
  PROVE  /\ tx[a].dep \in Deployments /\ tx[a].at \in Nat
         /\ Plan(a) = PlanOf[tx[a].dep] /\ Len(Plan(a)) \in Nat
         /\ NextNode(a) \in NodesOf(tx[a].dep) /\ NextNode(a) \in Nodes
         /\ NextNode(a) = PlanOf[tx[a].dep][tx[a].at + 1]
         /\ Demand[NextNode(a)] \in Amounts
<1>1. tx[a].dep \in Deployments /\ tx[a].at \in Nat
  BY DEF LedgerInv, LedgerTypeOK, TxInv, TxOK, Transactions
<1>2. Plan(a) \in Seq(Nodes) /\ Plan(a) = PlanOf[tx[a].dep]
  BY <1>1, LedgerAssumption DEF Plan
<1>3. tx[a].at + 1 \in 1..Len(Plan(a)) /\ Len(Plan(a)) \in Nat
  BY <1>1, <1>2
<1>4. NextNode(a) \in Nodes
  BY <1>2, <1>3 DEF NextNode
<1>5. NextNode(a) \in NodesOf(tx[a].dep)
  BY <1>2, <1>3 DEF NextNode, NodesOf
<1>6. Demand[NextNode(a)] \in Amounts
  BY <1>4, LedgerAssumption
<1> QED
  BY <1>1, <1>2, <1>3, <1>4, <1>5, <1>6 DEF NextNode

\* simulate_deploy_placement: what a node takes is taken from what is left, so the
\* sum stays, and nothing left is negative.
LEMMA Places ==
  ASSUME LedgerInv, NEW a \in Attempts, PlaceNode(a)
  PROVE  LedgerInv'
<1> DEFINE n == NextNode(a)
<1>1. PICK s \in FirstFit(a, n) :
        tx' = [tx EXCEPT ![a] =
                [tx[a] EXCEPT !.at = @ + 1, !.next = s,
                          !.remaining[s] = Minus(@, Demand[n]),
                          !.amounts[s] = Plus(@, Demand[n]),
                          !.placed[n] = s]]
  BY DEF PlaceNode
<1>2. s \in Servers /\ \A r \in Resources : tx[a].remaining[s][r] >= Demand[n][r]
  BY <1>1 DEF FirstFit, Fits
<1>3. /\ tx[a].pc = "reserve" /\ tx[a].want = {} /\ tx[a].at < Len(Plan(a))
      /\ UNCHANGED <<registryVars, quota, excused, rowVars>>
  BY DEF PlaceNode, Locked
<1>4. /\ tx[a].dep \in Deployments /\ tx[a].at \in Nat
      /\ Plan(a) = PlanOf[tx[a].dep] /\ Len(Plan(a)) \in Nat /\ n \in Nodes
      /\ n = PlanOf[tx[a].dep][tx[a].at + 1]
      /\ Demand[n] \in Amounts
  BY <1>3, NextIsInPlan
<1> HIDE DEF n
<1>5. tx[a] \in Transactions /\ TxOK(tx[a])
  BY DEF LedgerInv, LedgerTypeOK, TxInv
<1>6. /\ tx[a].remaining \in [Servers -> Amounts] /\ tx[a].amounts \in [Servers -> Amounts]
      /\ tx[a].placed \in Placements /\ tx[a].held = Servers
  BY <1>3, <1>5 DEF Transactions, TxOK
<1> DEFINE left == Minus(tx[a].remaining[s], Demand[n])
           given == Plus(tx[a].amounts[s], Demand[n])
           remaining == [tx[a].remaining EXCEPT ![s] = left]
           amounts == [tx[a].amounts EXCEPT ![s] = given]
           placed == [tx[a].placed EXCEPT ![n] = s]
           next == [tx[a] EXCEPT !.at = @ + 1, !.next = s,
                                 !.remaining[s] = left, !.amounts[s] = given,
                                 !.placed[n] = s]
<1>7. tx' = [tx EXCEPT ![a] = next]
  BY <1>1
<1>b. ASSUME NEW r \in Resources
      PROVE  /\ tx[a].remaining[s][r] \in Nat /\ tx[a].amounts[s][r] \in Nat
             /\ Demand[n][r] \in Nat /\ tx[a].remaining[s][r] >= Demand[n][r]
  BY <1>2, <1>4, <1>6 DEF Amounts
<1>8. /\ left \in Amounts /\ given \in Amounts
      /\ \A r \in Resources : /\ left[r] = tx[a].remaining[s][r] - Demand[n][r]
                              /\ given[r] = tx[a].amounts[s][r] + Demand[n][r]
  BY <1>b DEF Amounts, Minus, Plus
<1> HIDE DEF left, given
<1>9. /\ remaining \in [Servers -> Amounts] /\ amounts \in [Servers -> Amounts]
      /\ placed \in Placements
      /\ remaining[s] = left /\ amounts[s] = given
      /\ \A v \in Servers \ {s} : remaining[v] = tx[a].remaining[v] /\ amounts[v] = tx[a].amounts[v]
      /\ placed[n] = s /\ \A m \in Nodes \ {n} : placed[m] = tx[a].placed[m]
  BY <1>2, <1>4, <1>6, <1>8 DEF Placements
<1>a. /\ next.pc = tx[a].pc /\ next.dep = tx[a].dep /\ next.want = tx[a].want
      /\ next.held = tx[a].held /\ next.at = tx[a].at + 1
      /\ next.remaining = remaining /\ next.amounts = amounts /\ next.placed = placed
  BY <1>5 DEF Transactions
<1>10. next \in Transactions
<2>1. s \in Nat /\ tx[a].at + 1 \in Nat
  BY <1>2, <1>4, LedgerAssumption DEF Servers
<2> QED
  BY <1>5, <1>9, <2>1 DEF Transactions
<1> HIDE DEF next, remaining, amounts, placed
<1>11. /\ next.pc = "reserve" /\ next.dep = tx[a].dep /\ next.want = {} /\ next.held = Servers
       /\ next.at = tx[a].at + 1 /\ next.remaining = remaining /\ next.amounts = amounts
       /\ next.placed = placed
  BY <1>3, <1>6, <1>a
<1>12. ASSUME NEW i \in 1..next.at
       PROVE  placed[PlanOf[tx[a].dep][i]] \in Servers
<2>1. CASE i = tx[a].at + 1
  BY <1>2, <1>4, <1>9, <2>1
<2>2. CASE i # tx[a].at + 1
<3>1. i \in 1..tx[a].at
  BY <1>4, <1>11, <2>2
<3>2. tx[a].placed[PlanOf[tx[a].dep][i]] \in Servers
  BY <1>3, <1>5, <3>1 DEF TxOK
<3>3. PlanOf[tx[a].dep][i] \in Nodes
<4>1. PlanOf[tx[a].dep] \in Seq(Nodes) /\ i \in 1..Len(PlanOf[tx[a].dep])
  BY <1>3, <1>4, <3>1, LedgerAssumption
<4> QED
  BY <4>1
<3> QED
  BY <1>2, <1>9, <3>2, <3>3
<2> QED
  BY <2>1, <2>2
<1>13. ASSUME NEW v \in Servers, NEW r \in Resources
       PROVE  remaining[v][r] + amounts[v][r] = Total[v][r] - reserved[v][r]
<2>1. tx[a].remaining[v][r] + tx[a].amounts[v][r] = Total[v][r] - reserved[v][r]
  BY <1>3, <1>5, <1>6 DEF TxOK
<2>2. CASE v # s
  BY <1>9, <2>1, <2>2
<2>3. CASE v = s
<3>1. tx[a].remaining[s][r] \in Nat /\ tx[a].amounts[s][r] \in Nat /\ Demand[n][r] \in Nat
  BY <1>2, <1>4, <1>6 DEF Amounts
<3> QED
  BY <1>8, <1>9, <2>1, <2>3, <3>1
<2> QED
  BY <2>2, <2>3
<1>14. TxOK(next)
  BY <1>3, <1>4, <1>5, <1>11, <1>12, <1>13 DEF TxOK
<1>15. \A b \in Attempts \ {a} : tx[b].dep # next.dep
  BY <1>4, <1>11 DEF LedgerInv, TxInv, OneTransaction
<1>16. \A b \in Attempts \ {a} : tx[b].held \cap next.held = {}
  BY <1>6, <1>11 DEF LedgerInv, TxInv, OneLocker
<1>17. reserva[next.dep] # "RELEASED"
  BY <1>3, <1>5, <1>11 DEF TxOK
<1> QED
  BY <1>3, <1>7, <1>10, <1>14, <1>15, <1>16, <1>17, TxKept

\* The loop of the rollback gives back to servers whose rows it holds.
LEMMA Counts ==
  ASSUME LedgerInv, NEW a \in Attempts, CountReleased(a)
  PROVE  LedgerInv'
<1> DEFINE n == NextNode(a)
           s == host[tx[a].dep][n]
           given == Plus(tx[a].amounts[s], Demand[n])
           amounts == [tx[a].amounts EXCEPT ![s] = given]
           next == [tx[a] EXCEPT !.at = @ + 1, !.amounts[s] = given]
<1>1. /\ tx[a].pc = "rollback" /\ tx[a].want = {} /\ tx[a].at < Len(Plan(a))
      /\ UNCHANGED <<registryVars, quota, excused, rowVars>>
      /\ tx' = [tx EXCEPT ![a] = next]
  BY DEF CountReleased, Locked
<1>2. /\ tx[a].dep \in Deployments /\ tx[a].at \in Nat
      /\ Plan(a) = PlanOf[tx[a].dep] /\ Len(Plan(a)) \in Nat
      /\ n \in NodesOf(tx[a].dep) /\ Demand[n] \in Amounts
  BY <1>1, NextIsInPlan
<1> HIDE DEF n
<1>3. tx[a] \in Transactions /\ TxOK(tx[a])
  BY DEF LedgerInv, LedgerTypeOK, TxInv
<1>4. s \in tx[a].held /\ s \in Servers
  BY <1>1, <1>2, <1>3 DEF TxOK, Transactions
<1> HIDE DEF s
<1>5. given \in Amounts
  BY <1>2, <1>3, <1>4 DEF Transactions, Amounts, Plus
<1> HIDE DEF given
<1>6. /\ amounts \in [Servers -> Amounts]
      /\ \A v \in Servers \ {s} : amounts[v] = tx[a].amounts[v]
  BY <1>3, <1>4, <1>5 DEF Transactions
<1>7. next \in Transactions
<2>1. tx[a].at + 1 \in Nat
  BY <1>2
<2> QED
  BY <1>3, <1>6, <2>1 DEF Transactions
<1>8. /\ next.pc = "rollback" /\ next.dep = tx[a].dep /\ next.want = tx[a].want
      /\ next.held = tx[a].held /\ next.at = tx[a].at + 1 /\ next.amounts = amounts
  BY <1>1, <1>3 DEF Transactions
<1> HIDE DEF next, amounts
<1>9. \A v \in Servers \ next.held, r \in Resources : next.amounts[v][r] = 0
  BY <1>3, <1>4, <1>6, <1>8 DEF TxOK
<1>10. TxOK(next)
  BY <1>1, <1>2, <1>3, <1>8, <1>9 DEF TxOK
<1>11. \A b \in Attempts \ {a} : tx[b].dep # next.dep
  BY <1>2, <1>8 DEF LedgerInv, TxInv, OneTransaction
<1>12. \A b \in Attempts \ {a} : tx[b].held \cap next.held = {}
  BY <1>8 DEF LedgerInv, TxInv, OneLocker
<1> QED
  BY <1>1, <1>7, <1>8, <1>10, <1>11, <1>12, TxKept

\* Everything a transaction that is not one of these commits leaves alone.
LEMMA OthersKept ==
  ASSUME LedgerInv, NEW a \in Attempts, NEW d \in Deployments, tx[a].dep = d,
         tx' = [tx EXCEPT ![a] = Idle],
         \A e \in Deployments \ {d} : reserva'[e] = reserva[e] /\ host'[e] = host[e],
         \A s \in Servers \ tx[a].held : reserved'[s] = reserved[s],
         reserva'[d] = "RESERVED" => \A n \in NodesOf(d) : host'[d][n] \in Servers
  PROVE  TxInv'
<1>1. tx'[a] = Idle /\ \A b \in Attempts \ {a} : tx'[b] = tx[b]
  BY DEF LedgerInv, LedgerTypeOK
<1>2. LedgerTypeOK /\ TxInv /\ d # NoDeployment /\ NoDeployment \notin Deployments
  BY LedgerAssumption DEF LedgerInv
<1>3. TxOK(tx[a])'
<2>1. TxOK(Idle)'
  BY DEF TxOK, Idle, NoAmounts
<2> QED
  BY <1>1, <2>1 DEF TxOK
<1>4. ASSUME NEW b \in Attempts \ {a}
      PROVE  TxOK(tx[b])'
<2> PICK x \in Transactions : x = tx[b] /\ x = tx'[b] /\ TxOK(x)
  BY <1>1, <1>2 DEF LedgerTypeOK, TxInv
<2>1. x.pc # "idle" => x.dep \in Deployments \ {d}
  BY <1>2 DEF TxInv, TxOK, OneTransaction
<2>2. x.held \subseteq Servers \ tx[a].held
  BY <1>2 DEF TxInv, OneLocker, Transactions
<2>3. TxOK(x)'
<3>1. x.pc # "idle" => reserva'[x.dep] = reserva[x.dep] /\ host'[x.dep] = host[x.dep]
  BY <2>1
<3>2. \A s \in x.held : reserved'[s] = reserved[s]
  BY <2>2
<3> QED
  BY <3>1, <3>2 DEF TxOK
<2> QED
  BY <2>3 DEF TxOK
<1>5. OneTransaction' /\ OneLocker'
  BY <1>1, <1>2, IdleIsFine DEF TxInv, OneTransaction, OneLocker
<1>6. Hosts'
  BY <1>2 DEF TxInv, Hosts
<1> QED
  BY <1>3, <1>4, <1>5, <1>6 DEF TxInv

\* The reservation's COMMIT: the rows name the servers the simulation chose, and
\* the counters grow by what was free when they were read.
LEMMA ReserveCommits ==
  ASSUME LedgerInv, NEW a \in Attempts, CommitReserve(a)
  PROVE  LedgerInv'
<1> DEFINE d == tx[a].dep
<1>1. /\ tx[a].pc = "reserve" /\ tx[a].want = {} /\ tx[a].at = Len(Plan(a))
      /\ reserva' = [reserva EXCEPT ![d] = "RESERVED"]
      /\ host' = [host EXCEPT ![d] = tx[a].placed]
      /\ reserved' = [s \in Servers |-> Plus(reserved[s], tx[a].amounts[s])]
      /\ answered' = [answered EXCEPT ![d] = answered[d] \cup {tx[a].placed}]
      /\ tx' = [tx EXCEPT ![a] = Idle]
      /\ UNCHANGED <<registryVars, quota, excused>>
  BY DEF CommitReserve, Locked
<1>2. LedgerTypeOK /\ TxInv /\ CountersWithinTotals /\ PlacementIsIdempotent
  BY DEF LedgerInv
<1>3. tx[a] \in Transactions /\ TxOK(tx[a])
  BY <1>2 DEF LedgerTypeOK, TxInv
<1>4. d \in Deployments /\ tx[a].held = Servers /\ reserva[d] = "none"
  BY <1>1, <1>3 DEF TxOK
<1>5. /\ tx[a].placed \in Placements
      /\ tx[a].amounts \in [Servers -> Amounts] /\ tx[a].remaining \in [Servers -> Amounts]
  BY <1>3 DEF Transactions
<1> HIDE DEF d
<1>6. ASSUME NEW s \in Servers, NEW r \in Resources
      PROVE  reserved'[s][r] \in Nat /\ reserved'[s][r] <= Total[s][r]
<2>1. tx[a].remaining[s][r] + tx[a].amounts[s][r] = Total[s][r] - reserved[s][r]
  BY <1>1, <1>3, <1>4 DEF TxOK
<2>2. /\ tx[a].remaining[s][r] \in Nat /\ tx[a].amounts[s][r] \in Nat
      /\ reserved[s][r] \in Nat /\ Total[s][r] \in Nat
  BY <1>2, <1>5, LedgerAssumption DEF LedgerTypeOK, Amounts
<2>3. reserved'[s][r] = reserved[s][r] + tx[a].amounts[s][r]
  BY <1>1 DEF Plus
<2> QED
  BY <2>1, <2>2, <2>3
<1>7. reserved' \in [Servers -> Amounts]
<2>1. \A s \in Servers : reserved'[s] = [r \in Resources |-> reserved[s][r] + tx[a].amounts[s][r]]
  BY <1>1 DEF Plus
<2>2. \A s \in Servers : reserved'[s] \in Amounts
  BY <1>6, <2>1 DEF Amounts
<2> QED
  BY <1>1, <2>2
<1>8. LedgerTypeOK'
  BY <1>1, <1>2, <1>4, <1>5, <1>7, IdleIsFine DEF LedgerTypeOK, registryVars
<1>9. \A n \in NodesOf(d) : tx[a].placed[n] \in Servers
<2>1. \A i \in 1..tx[a].at : tx[a].placed[PlanOf[d][i]] \in Servers
  BY <1>1, <1>3 DEF TxOK, d
<2> QED
  BY <1>1, <2>1 DEF NodesOf, Plan, d
<1>10. /\ \A e \in Deployments \ {d} : reserva'[e] = reserva[e] /\ host'[e] = host[e]
       /\ reserva'[d] = "RESERVED" /\ host'[d] = tx[a].placed
       /\ answered'[d] = answered[d] \cup {tx[a].placed}
       /\ \A e \in Deployments \ {d} : answered'[e] = answered[e]
  BY <1>1, <1>2, <1>4 DEF LedgerTypeOK
<1>11. TxInv'
  BY <1>1, <1>4, <1>9, <1>10, OthersKept DEF d
<1>12. CountersWithinTotals'
  BY <1>6 DEF CountersWithinTotals
<1>13. PlacementIsIdempotent'
<2>1. answered[d] = {}
  BY <1>2, <1>4 DEF PlacementIsIdempotent
<2>2. tx'[a] = Idle /\ \A b \in Attempts \ {a} : tx'[b] = tx[b]
  BY <1>1, <1>2 DEF LedgerTypeOK
<2> QED
  BY <1>2, <1>10, <2>1, <2>2 DEF PlacementIsIdempotent, Idle
<1> QED
  BY <1>8, <1>11, <1>12, <1>13 DEF LedgerInv

\* The rollback's COMMIT: what the rows took is taken off, where it is there.
LEMMA RollbackCommits ==
  ASSUME LedgerInv, NEW a \in Attempts, CommitRollback(a)
  PROVE  LedgerInv'
<1> DEFINE d == tx[a].dep
<1>1. /\ tx[a].pc = "rollback" /\ tx[a].want = {} /\ tx[a].at = Len(Plan(a)) /\ Covered(a)
      /\ reserva' = [reserva EXCEPT ![d] = "RELEASED"]
      /\ reserved' = [s \in Servers |-> Minus(reserved[s], tx[a].amounts[s])]
      /\ tx' = [tx EXCEPT ![a] = Idle]
      /\ UNCHANGED <<registryVars, quota, excused, host, answered>>
  BY DEF CommitRollback, Locked
<1>2. LedgerTypeOK /\ TxInv /\ CountersWithinTotals /\ PlacementIsIdempotent
  BY DEF LedgerInv
<1>3. tx[a] \in Transactions /\ TxOK(tx[a])
  BY <1>2 DEF LedgerTypeOK, TxInv
<1>4. d \in Deployments /\ reserva[d] = "RESERVED" /\ tx[a].amounts \in [Servers -> Amounts]
  BY <1>1, <1>3 DEF TxOK, Transactions
<1> HIDE DEF d
<1>5. ASSUME NEW s \in Servers, NEW r \in Resources
      PROVE  /\ reserved'[s][r] \in Nat /\ reserved'[s][r] <= Total[s][r]
             /\ reserved'[s][r] = reserved[s][r] - tx[a].amounts[s][r]
<2>1. /\ tx[a].amounts[s][r] \in Nat /\ reserved[s][r] \in Nat /\ Total[s][r] \in Nat
  BY <1>2, <1>4, LedgerAssumption DEF LedgerTypeOK, Amounts
<2>2. reserved[s][r] >= tx[a].amounts[s][r] /\ reserved[s][r] <= Total[s][r]
  BY <1>1, <1>2 DEF Covered, CountersWithinTotals
<2>3. reserved'[s][r] = reserved[s][r] - tx[a].amounts[s][r]
  BY <1>1 DEF Minus
<2> QED
  BY <2>1, <2>2, <2>3
<1>6. \A s \in Servers : reserved'[s] = [r \in Resources |-> reserved[s][r] - tx[a].amounts[s][r]]
  BY <1>1 DEF Minus
<1>7. reserved' \in [Servers -> Amounts]
<2>1. \A s \in Servers : reserved'[s] \in Amounts
  BY <1>5, <1>6 DEF Amounts
<2> QED
  BY <1>1, <2>1
<1>8. LedgerTypeOK'
  BY <1>1, <1>2, <1>4, <1>7, IdleIsFine DEF LedgerTypeOK, registryVars
<1>9. ASSUME NEW s \in Servers \ tx[a].held
      PROVE  reserved'[s] = reserved[s]
<2>1. \A r \in Resources : tx[a].amounts[s][r] = 0 /\ reserved[s][r] \in Nat
  BY <1>2, <1>3 DEF TxOK, LedgerTypeOK, Amounts
<2>2. \A r \in Resources : reserved'[s][r] = reserved[s][r]
  BY <1>5, <2>1
<2>3. reserved[s] \in Amounts /\ reserved'[s] \in Amounts
  BY <1>2, <1>7 DEF LedgerTypeOK
<2> QED
  BY <2>2, <2>3 DEF Amounts
<1>10. /\ \A e \in Deployments \ {d} : reserva'[e] = reserva[e] /\ host'[e] = host[e]
       /\ reserva'[d] = "RELEASED"
  BY <1>1, <1>2, <1>4 DEF LedgerTypeOK
<1>11. TxInv'
  BY <1>1, <1>4, <1>9, <1>10, OthersKept DEF d
<1>12. CountersWithinTotals'
  BY <1>5 DEF CountersWithinTotals
<1>13. PlacementIsIdempotent'
<2>1. tx'[a] = Idle /\ \A b \in Attempts \ {a} : tx'[b] = tx[b] /\ tx[b].dep # d
  BY <1>1, <1>2, <1>4 DEF LedgerTypeOK, TxInv, OneTransaction, d
<2> QED
  BY <1>1, <1>2, <1>10, <2>1 DEF PlacementIsIdempotent, Idle
<1> QED
  BY <1>8, <1>11, <1>12, <1>13 DEF LedgerInv

\* What the registry and the administrator do leaves servers and rows alone.
LEMMA RegistryKeeps ==
  ASSUME LedgerInv, UNCHANGED <<tx, reserva, host, reserved>>, LedgerTypeOK',
         \A d \in Deployments : answered'[d] \in {answered[d], answered[d] \cup {host[d]}},
         \A d \in Deployments : answered'[d] # answered[d] => reserva[d] # "none"
  PROVE  LedgerInv'
<1>1. TxInv'
  BY DEF LedgerInv, TxInv, TxOK, OneTransaction, OneLocker, Hosts
<1>2. CountersWithinTotals'
  BY DEF LedgerInv, CountersWithinTotals
<1>3. PlacementIsIdempotent'
  BY DEF LedgerInv, PlacementIsIdempotent
<1> QED
  BY <1>1, <1>2, <1>3 DEF LedgerInv

\* The invariant is inductive.
LEMMA LedgerInductive ==
  ASSUME LedgerInv, [LedgerNext]_ledgerVars
  PROVE  LedgerInv'
<1>1. ASSUME NEW d \in Deployments, Request(d)
      PROVE  LedgerInv'
<2> DEFINE u == UserOf[d]
           twice == \/ excused[u]
                    \/ /\ ~OverQuota(d)
                       /\ \E e \in Deployments :
                            UserOf[e] = UserOf[d] /\ Active(e) /\ reserva[e] = "none"
           outcome == IF OverQuota(d) THEN "REJECTED" ELSE "PENDING"
<2>1. excused' = [excused EXCEPT ![u] = twice] /\ estado' = [estado EXCEPT ![d] = outcome]
  BY <1>1 DEF Request
<2>2. twice \in BOOLEAN /\ outcome \in Estados
  BY DEF Estados, Outcomes
<2> HIDE DEF twice, outcome
<2>3. UNCHANGED <<inventory, quota, tx, reserva, host, reserved, answered>>
  BY <1>1 DEF Request, rowVars
<2>4. LedgerTypeOK'
  BY <2>1, <2>2, <2>3 DEF LedgerInv, LedgerTypeOK
<2> QED
  BY <2>3, <2>4, RegistryKeeps
<1>2. ASSUME NEW d \in Deployments, StartDeployment(d)
      PROVE  LedgerInv'
<2>1. LedgerTypeOK'
  BY <1>2 DEF LedgerInv, LedgerTypeOK, StartDeployment, rowVars, Estados
<2> QED
  BY <1>2, <2>1, RegistryKeeps DEF StartDeployment, rowVars
<1>3. ASSUME NEW d \in Deployments, CreateInventory(d)
      PROVE  LedgerInv'
<2>1. LedgerTypeOK'
  BY <1>3 DEF LedgerInv, LedgerTypeOK, CreateInventory, rowVars
<2> QED
  BY <1>3, <2>1, RegistryKeeps DEF CreateInventory, rowVars
<1>4. ASSUME NEW d \in Deployments, NEW outcome \in Outcomes, FinishDeployment(d, outcome)
      PROVE  LedgerInv'
<2>1. LedgerTypeOK'
  BY <1>4 DEF LedgerInv, LedgerTypeOK, FinishDeployment, rowVars, Estados
<2> QED
  BY <1>4, <2>1, RegistryKeeps DEF FinishDeployment, rowVars
<1>5. ASSUME NEW d \in Deployments, ReserveAgain(d)
      PROVE  LedgerInv'
<2>1. /\ reserva[d] = "RESERVED"
      /\ answered' = [answered EXCEPT ![d] = answered[d] \cup {host[d]}]
      /\ UNCHANGED <<estado, inventory, quota, excused, tx, reserva, host, reserved>>
  BY <1>5 DEF ReserveAgain, registryVars
<2>2. LedgerTypeOK'
  BY <2>1 DEF LedgerInv, LedgerTypeOK
<2>3. \A e \in Deployments : answered'[e] = IF e = d THEN answered[d] \cup {host[d]} ELSE answered[e]
  BY <2>1 DEF LedgerInv, LedgerTypeOK
<2> QED
  BY <2>1, <2>2, <2>3, RegistryKeeps
<1>6. ASSUME NEW u \in Users, NEW q \in Quotas, UpdateAdminQuota(u, q)
      PROVE  LedgerInv'
<2> DEFINE lowered == excused[u] \/ \E r \in Resources : q[r] < quota[u][r]
<2>1. /\ excused' = [excused EXCEPT ![u] = lowered] /\ quota' = [quota EXCEPT ![u] = q]
      /\ UNCHANGED <<estado, inventory, tx, reserva, host, reserved, answered>>
  BY <1>6 DEF UpdateAdminQuota, registryVars, rowVars
<2>2. lowered \in BOOLEAN /\ q \in Amounts
  BY LedgerAssumption
<2> HIDE DEF lowered
<2>3. LedgerTypeOK'
  BY <2>1, <2>2 DEF LedgerInv, LedgerTypeOK
<2> QED
  BY <2>1, <2>3, RegistryKeeps
<1>7. CASE UNCHANGED ledgerVars
<2>1. LedgerTypeOK'
  BY <1>7 DEF LedgerInv, LedgerTypeOK, ledgerVars
<2> QED
  BY <1>7, <2>1, RegistryKeeps DEF ledgerVars
<1>8. ASSUME NEW a \in Attempts, TransactionStep(a) \/ Abort(a)
      PROVE  LedgerInv'
  BY <1>8, Locks, Places, Ends, ReserveCommits, Counts, RollbackCommits DEF TransactionStep
<1>9. ASSUME NEW d \in Deployments, NEW a \in Attempts, BeginReserve(a, d) \/ BeginRollback(a, d)
      PROVE  LedgerInv'
  BY <1>9, Begins
<1> QED
  BY <1>1, <1>2, <1>3, <1>4, <1>5, <1>6, <1>7, <1>8, <1>9 DEF LedgerNext

-----------------------------------------------------------------------------
\* The inductive invariant holds of every behaviour of reservations, rollbacks and
\* the other transactions.
THEOREM LedgerInvariant == LedgerSpec => []LedgerInv
<1>1. LedgerInit => LedgerInv
<2> SUFFICES ASSUME LedgerInit
             PROVE  LedgerInv
  OBVIOUS
<2>1. /\ NoAmounts \in Amounts /\ Nowhere \in Placements
      /\ \A r \in Resources : NoAmounts[r] = 0
  BY DEF NoAmounts, Amounts, Nowhere, Placements, NoServer
<2>2. Idle \in Transactions
  BY <2>1, LedgerAssumption DEF Idle, Transactions
<2>3. LedgerTypeOK
  BY <2>1, <2>2, LedgerAssumption DEF LedgerInit, LedgerTypeOK, Estados
<2>4. \A a \in Attempts : tx[a] = Idle /\ TxOK(tx[a])
  BY <2>3, IdleIsFine DEF LedgerInit
<2>5. TxInv
  BY <2>3, <2>4, IdleIsFine, LedgerAssumption
     DEF LedgerInit, TxInv, OneTransaction, OneLocker, Hosts
<2>6. CountersWithinTotals
<3> SUFFICES ASSUME NEW s \in Servers, NEW r \in Resources
             PROVE  reserved[s][r] <= Total[s][r]
  BY DEF CountersWithinTotals
<3>1. reserved[s][r] = 0 /\ Total[s][r] \in Nat
  BY <2>1, LedgerAssumption DEF LedgerInit, Amounts
<3> QED
  BY <3>1
<2>7. PlacementIsIdempotent
  BY DEF LedgerInit, PlacementIsIdempotent
<2> QED
  BY <2>3, <2>5, <2>6, <2>7 DEF LedgerInv
<1> QED
  BY <1>1, LedgerInductive, PTL DEF LedgerSpec

\* The ledger's variables keep their types: no counter is ever negative.
THEOREM LedgerTypes == LedgerSpec => []LedgerTypeOK
<1>1. LedgerInv => LedgerTypeOK
  BY DEF LedgerInv
<1> QED
  BY <1>1, LedgerInvariant, PTL

\* No server is ever promised more than it has (reserve_deployment_placement).
THEOREM WithinTotals == LedgerSpec => []CountersWithinTotals
<1>1. LedgerInv => CountersWithinTotals
  BY DEF LedgerInv
<1> QED
  BY <1>1, LedgerInvariant, PTL

\* A deployment's placement is chosen once: every answer for it is the same, and
\* none is given after its release.
THEOREM IdempotentPlacement == LedgerSpec => []PlacementIsIdempotent
<1>1. LedgerInv => PlacementIsIdempotent
  BY DEF LedgerInv
<1> QED
  BY <1>1, LedgerInvariant, PTL

-----------------------------------------------------------------------------
\* ORDER BY id: whatever a transaction still has to lock comes after all it holds.
LockOrder == \A a \in Attempts : \A s \in tx[a].held, t \in tx[a].want : s < t

\* Every step keeps the order: a lock taken is the least one wanted.
LEMMA LockOrderKept ==
  ASSUME LedgerInv, LockOrder, [LedgerNext]_ledgerVars
  PROVE  LockOrder'
<1>1. CASE UNCHANGED tx
  BY <1>1 DEF LockOrder
<1>2. tx \in [Attempts -> Transactions]
  BY DEF LedgerInv, LedgerTypeOK
<1>3. ASSUME NEW a \in Attempts, NEW next, tx' = [tx EXCEPT ![a] = next],
             next.held = {} \/ next.want = {}
      PROVE  LockOrder'
  BY <1>2, <1>3 DEF LockOrder
<1>4. ASSUME NEW a \in Attempts, LockServer(a)
      PROVE  LockOrder'
<2> DEFINE s == Min(tx[a].want)
<2>1. tx[a].want \in SUBSET Servers /\ tx[a].want # {} /\ tx[a].held \in SUBSET Servers
  BY <1>2, <1>4 DEF LockServer, Transactions
<2>2. Servers \subseteq Nat
  BY LedgerAssumption DEF Servers
<2>3. s \in tx[a].want /\ \A t \in tx[a].want : s <= t
  BY <2>1, <2>2, LeastNumber
<2>4. tx' = [tx EXCEPT ![a].want = @ \ {s}, ![a].held = @ \cup {s},
                       ![a].remaining[s] = Available(s)]
  BY <1>4 DEF LockServer
<2> HIDE DEF s
<2>5. tx'[a].want = tx[a].want \ {s} /\ tx'[a].held = tx[a].held \cup {s}
      /\ \A b \in Attempts \ {a} : tx'[b] = tx[b]
  BY <1>2, <2>4 DEF Transactions
<2>6. ASSUME NEW u \in tx'[a].held, NEW t \in tx'[a].want
      PROVE  u < t
<3>1. t \in tx[a].want /\ t # s /\ s <= t /\ s \in Nat /\ t \in Nat
  BY <2>1, <2>2, <2>3, <2>5, <2>6
<3>2. CASE u = s
  BY <3>1, <3>2
<3>3. CASE u \in tx[a].held
  BY <3>1, <3>3 DEF LockOrder
<3> QED
  BY <2>5, <2>6, <3>2, <3>3
<2> QED
  BY <2>5, <2>6 DEF LockOrder
<1>5. ASSUME NEW a \in Attempts, PlaceNode(a) \/ CountReleased(a)
      PROVE  LockOrder'
<2>1. tx[a].want = {}
  BY <1>5 DEF PlaceNode, CountReleased, Locked
<2>2. tx[a] \in Transactions
  BY <1>2
<2>3. CASE PlaceNode(a)
<3>1. PICK s \in FirstFit(a, NextNode(a)) :
        tx' = [tx EXCEPT ![a] =
                [tx[a] EXCEPT !.at = @ + 1, !.next = s,
                          !.remaining[s] = Minus(@, Demand[NextNode(a)]),
                          !.amounts[s] = Plus(@, Demand[NextNode(a)]),
                          !.placed[NextNode(a)] = s]]
  BY <2>3 DEF PlaceNode
<3> DEFINE next == [tx[a] EXCEPT !.at = @ + 1, !.next = s,
                          !.remaining[s] = Minus(@, Demand[NextNode(a)]),
                          !.amounts[s] = Plus(@, Demand[NextNode(a)]),
                          !.placed[NextNode(a)] = s]
<3>2. next.want = tx[a].want
  BY <2>2 DEF Transactions
<3> QED
  BY <1>3, <2>1, <3>1, <3>2
<2>4. CASE CountReleased(a)
<3> DEFINE next == [tx[a] EXCEPT !.at = @ + 1,
                                 !.amounts[host[tx[a].dep][NextNode(a)]] =
                                   Plus(@, Demand[NextNode(a)])]
<3>1. tx' = [tx EXCEPT ![a] = next]
  BY <2>4 DEF CountReleased
<3>2. next.want = tx[a].want
  BY <2>2 DEF Transactions
<3> HIDE DEF next
<3> QED
  BY <1>3, <2>1, <3>1, <3>2
<2> QED
  BY <1>5, <2>3, <2>4
<1>6. ASSUME NEW a \in Attempts,
             InsufficientCapacity(a) \/ Abort(a) \/ CommitReserve(a) \/ CommitRollback(a)
      PROVE  LockOrder'
<2>1. tx' = [tx EXCEPT ![a] = Idle] /\ Idle.held = {}
  BY <1>6 DEF InsufficientCapacity, Abort, CommitReserve, CommitRollback, Idle
<2> QED
  BY <2>1, <1>3
<1>7. ASSUME NEW a \in Attempts, NEW d \in Deployments, BeginReserve(a, d) \/ BeginRollback(a, d)
      PROVE  LockOrder'
<2>1. \A p, w : [Idle EXCEPT !.pc = p, !.dep = d, !.want = w].held = {}
  BY DEF Idle
<2> QED
  BY <1>3, <1>7, <2>1 DEF BeginReserve, BeginRollback
<1> QED
  BY <1>1, <1>4, <1>5, <1>6, <1>7
     DEF LedgerNext, ledgerVars, TransactionStep, Request, StartDeployment, CreateInventory,
         FinishDeployment, ReserveAgain, UpdateAdminQuota

\* Transactions that wait for each other's servers always leave one that can go on:
\* of those that wait, the one whose next server has the greatest number waits for
\* a transaction that would wait for a greater one still.
THEOREM SomeTransactionProceeds == LedgerSpec => []SomeoneProceeds
<1>1. LedgerInit => LockOrder
  BY DEF LedgerInit, LockOrder, Idle
<1>2. LedgerInv /\ LockOrder => SomeoneProceeds
<2> SUFFICES ASSUME LedgerInv, LockOrder, ~SomeoneProceeds
             PROVE  FALSE
  OBVIOUS
<2> DEFINE waiting == {a \in Attempts : tx[a].pc # "idle"}
           awaited == {Min(tx[a].want) : a \in waiting}
<2>1. ASSUME NEW a \in waiting
      PROVE  /\ Min(tx[a].want) \in Servers
             /\ \E b \in waiting : Min(tx[a].want) < Min(tx[b].want)
<3>1. tx[a].want # {} /\ ~ServerUnlocked(Min(tx[a].want))
  BY <2>1 DEF SomeoneProceeds, Blocked
<3>2. PICK b \in Attempts : Min(tx[a].want) \in tx[b].held
  BY <3>1 DEF ServerUnlocked
<3>3. b \in waiting
  BY <3>2 DEF LedgerInv, TxInv, TxOK, Idle
<3>4. tx[b].want # {}
  BY <3>3 DEF SomeoneProceeds, Blocked
<3>5. Min(tx[a].want) \in tx[a].want /\ Min(tx[b].want) \in tx[b].want
      /\ tx[a].want \in SUBSET Servers
  BY <3>1, <3>4, LeastServer DEF LedgerInv, LedgerTypeOK, Transactions
<3>6. Min(tx[a].want) < Min(tx[b].want)
  BY <3>2, <3>5 DEF LockOrder
<3> QED
  BY <3>3, <3>5, <3>6
<2>2. awaited # {} /\ awaited \in SUBSET Servers
  BY <2>1 DEF SomeoneProceeds
<2> HIDE DEF awaited
<2>n. awaited \in SUBSET Nat /\ ServerCount \in Nat /\ \A k \in awaited : k <= ServerCount
  BY <2>2, LedgerAssumption DEF Servers
<2>3. PICK m \in awaited : \A k \in awaited : k <= m
  BY <2>2, <2>n, GreatestNumber
<2>4. PICK a \in waiting : m = Min(tx[a].want)
  BY <2>3 DEF awaited
<2>5. PICK b \in waiting : Min(tx[a].want) < Min(tx[b].want)
  BY <2>1
<2>6. Min(tx[b].want) \in awaited
  BY DEF awaited
<2>7. m \in Nat /\ Min(tx[b].want) \in Nat
  BY <2>n, <2>3, <2>6
<2> QED
  BY <2>3, <2>4, <2>5, <2>6, <2>7
<1> QED
  BY <1>1, <1>2, LockOrderKept, LedgerInvariant, PTL DEF LedgerSpec

-----------------------------------------------------------------------------
\* The nodes a transaction has walked over, and what they take of a server.
Walked(d, k) == {PlanOf[d][i] : i \in 1..k}
ShareOfNodes(ns, place, s, r) ==
  SumFunctionOnSet(DemandFor(r), {n \in ns : place[n] = s})
TakenBy(n, place, s, r) == IF place[n] = s THEN Demand[n][r] ELSE 0
Where(x) == IF x.pc = "reserve" THEN x.placed ELSE host[x.dep]
\* What transaction x is about to book or give back is what its walk came upon.
Booked(x) ==
  x.pc # "idle" =>
    \A s \in Servers, r \in Resources :
      x.amounts[s][r] = ShareOfNodes(Walked(x.dep, x.at), Where(x), s, r)
ReservedSet == {d \in Deployments : reserva[d] = "RESERVED"}
BalanceInv ==
  (\A a \in Attempts : Booked(tx[a])) /\ IsFiniteSet(ReservedSet) /\ LedgerBalanced

\* A walk meets a node once, and in the end all nodes of the plan.
LEMMA Walks ==
  ASSUME NEW d \in Deployments, NEW k \in Nat, k <= Len(PlanOf[d])
  PROVE  /\ Walked(d, k) \subseteq Nodes /\ IsFiniteSet(Walked(d, k))
         /\ Walked(d, 0) = {} /\ (k = Len(PlanOf[d]) => Walked(d, k) = NodesOf(d))
         /\ k < Len(PlanOf[d]) =>
              /\ PlanOf[d][k + 1] \in Nodes \ Walked(d, k)
              /\ Walked(d, k + 1) = Walked(d, k) \cup {PlanOf[d][k + 1]}
<1>1. PlanOf[d] \in Seq(Nodes) /\ IsInjective(PlanOf[d]) /\ Len(PlanOf[d]) \in Nat
  BY LedgerAssumption
<1>2. \A i \in 1..Len(PlanOf[d]) : PlanOf[d][i] \in Nodes
  BY <1>1
<1>3. \A i, j \in 1..Len(PlanOf[d]) : PlanOf[d][i] = PlanOf[d][j] => i = j
  BY <1>1 DEF IsInjective
<1>4. 1..k \subseteq 1..Len(PlanOf[d])
  BY <1>1
<1>5. Walked(d, k) \subseteq Nodes
  BY <1>2, <1>4 DEF Walked
<1>6. IsFiniteSet(Walked(d, k))
<2> DEFINE f == [i \in 1..k |-> PlanOf[d][i]]
<2>1. f \in Surjection(1..k, Walked(d, k))
  BY DEF Surjection, Walked
<2>2. IsFiniteSet(1..k)
  BY FS_Interval
<2> QED
  BY <2>1, <2>2, FS_Surjection
<1>7. Walked(d, 0) = {} /\ (k = Len(PlanOf[d]) => Walked(d, k) = NodesOf(d))
  BY DEF Walked, NodesOf
<1>8. ASSUME k < Len(PlanOf[d])
      PROVE  /\ PlanOf[d][k + 1] \in Nodes \ Walked(d, k)
             /\ Walked(d, k + 1) = Walked(d, k) \cup {PlanOf[d][k + 1]}
<2>1. k + 1 \in 1..Len(PlanOf[d]) /\ k + 1 \notin 1..k /\ 1..(k + 1) = 1..k \cup {k + 1}
  BY <1>1, <1>8
<2>2. PlanOf[d][k + 1] \in Nodes \ Walked(d, k)
  BY <1>2, <1>3, <1>4, <2>1 DEF Walked
<2>3. Walked(d, k + 1) = Walked(d, k) \cup {PlanOf[d][k + 1]}
  BY <2>1 DEF Walked
<2> QED
  BY <2>2, <2>3
<1> QED
  BY <1>5, <1>6, <1>7, <1>8

\* What a set of nodes takes is a natural number, and no node takes nothing.
LEMMA ShareType ==
  ASSUME NEW ns \in SUBSET Nodes, IsFiniteSet(ns), NEW place, NEW s, NEW r \in Resources
  PROVE  /\ IsFiniteSet({n \in ns : place[n] = s})
         /\ NatValued(DemandFor(r), {n \in ns : place[n] = s})
         /\ ShareOfNodes(ns, place, s, r) \in Nat
         /\ ShareOfNodes({}, place, s, r) = 0
<1>1. IsFiniteSet({n \in ns : place[n] = s})
  BY FS_Subset
<1>2. NatValued(DemandFor(r), {n \in ns : place[n] = s})
  BY LedgerAssumption DEF NatValued, DemandFor, Amounts
<1>3. {n \in {} : place[n] = s} = {}
  OBVIOUS
<1> QED
  BY <1>1, <1>2, <1>3, SumType, SumEmpty DEF ShareOfNodes

\* A node more counts on its own server and nowhere else.
LEMMA ShareGrows ==
  ASSUME NEW ns \in SUBSET Nodes, IsFiniteSet(ns), NEW n \in Nodes \ ns,
         NEW place, NEW before, \A m \in ns : place[m] = before[m],
         NEW s, NEW r \in Resources
  PROVE  ShareOfNodes(ns \cup {n}, place, s, r) =
           ShareOfNodes(ns, before, s, r) + TakenBy(n, place, s, r)
<1> DEFINE old == {m \in ns : before[m] = s}
           new == {m \in ns \cup {n} : place[m] = s}
<1>1. IsFiniteSet(old) /\ NatValued(DemandFor(r), old) /\ ShareOfNodes(ns, before, s, r) \in Nat
  BY ShareType
<1>2. CASE place[n] = s
<2>1. new = old \cup {n} /\ n \notin old
  BY <1>2
<2>2. NatValued(DemandFor(r), old \cup {n}) /\ DemandFor(r)[n] = Demand[n][r]
  BY LedgerAssumption DEF NatValued, DemandFor, Amounts
<2>3. SumFunctionOnSet(DemandFor(r), old \cup {n})
        = SumFunctionOnSet(DemandFor(r), old) + Demand[n][r]
  BY <1>1, <2>1, <2>2, SumAdd
<2> QED
  BY <1>2, <2>1, <2>3 DEF ShareOfNodes, TakenBy
<1>3. CASE place[n] # s
<2>1. new = old
  BY <1>3
<2> QED
  BY <1>1, <1>3, <2>1 DEF ShareOfNodes, TakenBy
<1> QED
  BY <1>2, <1>3

\* Steps that leave the rows alone keep the balance, if transaction a still knows
\* what it is about to book.
LEMMA BalanceKept ==
  ASSUME LedgerInv, BalanceInv, NEW a \in Attempts, NEW next,
         tx' = [tx EXCEPT ![a] = next], Booked(next), UNCHANGED <<reserva, host, reserved>>
  PROVE  BalanceInv'
<1>1. tx'[a] = next /\ \A b \in Attempts \ {a} : tx'[b] = tx[b]
  BY DEF LedgerInv, LedgerTypeOK
<1>2. ASSUME NEW b \in Attempts
      PROVE  Booked(tx[b])'
<2> PICK x : x = tx'[b] /\ Booked(x)
  BY <1>1 DEF BalanceInv
<2> QED
  BY DEF Booked, Where
<1>3. IsFiniteSet(ReservedSet)' /\ LedgerBalanced'
  BY DEF BalanceInv, ReservedSet, LedgerBalanced, RowsOn
<1> QED
  BY <1>2, <1>3 DEF BalanceInv

\* A walk begins with nothing.
LEMMA BeginsBooked ==
  ASSUME LedgerInv, BalanceInv, NEW a \in Attempts, NEW d \in Deployments,
         BeginReserve(a, d) \/ BeginRollback(a, d)
  PROVE  BalanceInv'
<1>1. ASSUME NEW p, NEW w
      PROVE  Booked([Idle EXCEPT !.pc = p, !.dep = d, !.want = w])
<2> DEFINE x == [Idle EXCEPT !.pc = p, !.dep = d, !.want = w]
<2>1. x.dep = d /\ x.at = 0 /\ x.amounts = [s \in Servers |-> NoAmounts]
  BY DEF Idle
<2> HIDE DEF x
<2>2. Walked(d, 0) = {}
  BY DEF Walked
<2>3. ASSUME NEW s \in Servers, NEW r \in Resources
      PROVE  ShareOfNodes({}, Where(x), s, r) = 0
<3>1. IsFiniteSet({})
  BY FS_EmptySet
<3> QED
  BY <3>1, ShareType
<2>4. Booked(x)
  BY <2>1, <2>2, <2>3 DEF Booked, NoAmounts
<2> QED
  BY <2>4 DEF x
<1>2. UNCHANGED <<reserva, host, reserved>>
  BY DEF BeginReserve, BeginRollback, rowVars
<1>3. CASE BeginReserve(a, d)
<2>1. tx' = [tx EXCEPT ![a] = [Idle EXCEPT !.pc = "reserve", !.dep = d, !.want = Servers]]
  BY <1>3 DEF BeginReserve
<2> QED
  BY <1>1, <1>2, <2>1, BalanceKept
<1>4. CASE BeginRollback(a, d)
<2>1. tx' = [tx EXCEPT ![a] = [Idle EXCEPT !.pc = "rollback", !.dep = d,
                                           !.want = {host[d][n] : n \in NodesOf(d)}]]
  BY <1>4 DEF BeginRollback
<2> QED
  BY <1>1, <1>2, <2>1, BalanceKept
<1> QED
  BY <1>3, <1>4

\* simulate_deploy_placement adds what the node takes where the node goes.
LEMMA PlacesBooked ==
  ASSUME LedgerInv, BalanceInv, NEW a \in Attempts, PlaceNode(a)
  PROVE  BalanceInv'
<1> DEFINE n == NextNode(a)
           d == tx[a].dep
<1>1. PICK s \in FirstFit(a, n) :
        tx' = [tx EXCEPT ![a] =
                [tx[a] EXCEPT !.at = @ + 1, !.next = s,
                          !.remaining[s] = Minus(@, Demand[n]),
                          !.amounts[s] = Plus(@, Demand[n]),
                          !.placed[n] = s]]
  BY DEF PlaceNode
<1> DEFINE next == [tx[a] EXCEPT !.at = @ + 1, !.next = s,
                                 !.remaining[s] = Minus(@, Demand[n]),
                                 !.amounts[s] = Plus(@, Demand[n]),
                                 !.placed[n] = s]
<1>2. /\ tx[a].pc = "reserve" /\ tx[a].at < Len(Plan(a)) /\ UNCHANGED <<reserva, host, reserved>>
      /\ s \in Servers
  BY DEF PlaceNode, Locked, rowVars, FirstFit
<1>3. /\ d \in Deployments /\ tx[a].at \in Nat /\ Plan(a) = PlanOf[d] /\ Len(PlanOf[d]) \in Nat
      /\ n = PlanOf[d][tx[a].at + 1] /\ n \in Nodes
      /\ Demand[n] \in Amounts
  BY <1>2, NextIsInPlan
<1>4. tx[a] \in Transactions /\ Booked(tx[a])
  BY DEF LedgerInv, LedgerTypeOK, BalanceInv
<1> HIDE DEF n
<1>5. /\ next.pc = "reserve" /\ next.dep = d /\ next.at = tx[a].at + 1
      /\ next.amounts = [tx[a].amounts EXCEPT ![s] = Plus(tx[a].amounts[s], Demand[n])]
      /\ next.placed = [tx[a].placed EXCEPT ![n] = s]
      /\ tx[a].amounts \in [Servers -> Amounts] /\ tx[a].placed \in Placements
  BY <1>2, <1>4 DEF Transactions
<1>6. tx' = [tx EXCEPT ![a] = next]
  BY <1>1
<1> HIDE DEF next, d
<1>7. /\ Walked(d, tx[a].at) \subseteq Nodes /\ IsFiniteSet(Walked(d, tx[a].at))
      /\ n \in Nodes \ Walked(d, tx[a].at)
      /\ Walked(d, tx[a].at + 1) = Walked(d, tx[a].at) \cup {n}
  BY <1>2, <1>3, Walks
<1>8. next.placed[n] = s /\ \A m \in Walked(d, tx[a].at) : next.placed[m] = tx[a].placed[m]
  BY <1>3, <1>5, <1>7 DEF Placements
<1>9. ASSUME NEW v \in Servers, NEW r \in Resources
      PROVE  next.amounts[v][r] = ShareOfNodes(Walked(d, next.at), next.placed, v, r)
<2>1. tx[a].amounts[v][r] = ShareOfNodes(Walked(d, tx[a].at), tx[a].placed, v, r)
  BY <1>2, <1>4 DEF Booked, Where, d
<2> DEFINE ns == Walked(d, tx[a].at)
           place == next.placed
           before == tx[a].placed
<2>g. /\ ns \in SUBSET Nodes /\ IsFiniteSet(ns) /\ n \in Nodes \ ns
      /\ \A m \in ns : place[m] = before[m]
  BY <1>7, <1>8
<2> HIDE DEF ns, place, before
<2>h. ShareOfNodes(ns \cup {n}, place, v, r)
        = ShareOfNodes(ns, before, v, r) + TakenBy(n, place, v, r)
  BY <2>g, ShareGrows
<2>2. ShareOfNodes(Walked(d, next.at), next.placed, v, r)
        = tx[a].amounts[v][r] + (IF s = v THEN Demand[n][r] ELSE 0)
  BY <1>5, <1>7, <1>8, <2>1, <2>h DEF ns, place, before, TakenBy
<2>3. tx[a].amounts[v][r] \in Nat /\ Demand[n][r] \in Nat
  BY <1>3, <1>5 DEF Amounts
<2>4. CASE v = s
  BY <1>2, <1>5, <2>2, <2>3, <2>4 DEF Plus
<2>5. CASE v # s
  BY <1>5, <2>2, <2>3, <2>5
<2> QED
  BY <2>4, <2>5
<1>10. Booked(next)
  BY <1>5, <1>9 DEF Booked, Where
<1> QED
  BY <1>2, <1>6, <1>10, BalanceKept

\* The loop of the rollback adds what the node takes where its rows are.
LEMMA CountsBooked ==
  ASSUME LedgerInv, BalanceInv, NEW a \in Attempts, CountReleased(a)
  PROVE  BalanceInv'
<1> DEFINE n == NextNode(a)
           d == tx[a].dep
           s == host[d][n]
           next == [tx[a] EXCEPT !.at = @ + 1, !.amounts[s] = Plus(@, Demand[n])]
<1>1. /\ tx[a].pc = "rollback" /\ tx[a].at < Len(Plan(a)) /\ UNCHANGED <<reserva, host, reserved>>
      /\ tx' = [tx EXCEPT ![a] = next]
  BY DEF CountReleased, Locked, rowVars
<1>2. /\ d \in Deployments /\ tx[a].at \in Nat /\ Plan(a) = PlanOf[d] /\ Len(PlanOf[d]) \in Nat
      /\ n = PlanOf[d][tx[a].at + 1] /\ n \in NodesOf(d)
      /\ Demand[n] \in Amounts
  BY <1>1, NextIsInPlan
<1>3. tx[a] \in Transactions /\ Booked(tx[a]) /\ TxOK(tx[a]) /\ Hosts
  BY DEF LedgerInv, LedgerTypeOK, TxInv, BalanceInv
<1>4. s \in Servers
  BY <1>1, <1>2, <1>3 DEF Hosts, TxOK
<1> HIDE DEF n, s
<1>5. /\ next.pc = "rollback" /\ next.dep = d /\ next.at = tx[a].at + 1
      /\ next.amounts = [tx[a].amounts EXCEPT ![s] = Plus(tx[a].amounts[s], Demand[n])]
      /\ tx[a].amounts \in [Servers -> Amounts]
  BY <1>1, <1>3 DEF Transactions
<1> HIDE DEF next, d
<1>6. /\ Walked(d, tx[a].at) \subseteq Nodes /\ IsFiniteSet(Walked(d, tx[a].at))
      /\ n \in Nodes \ Walked(d, tx[a].at)
      /\ Walked(d, tx[a].at + 1) = Walked(d, tx[a].at) \cup {n}
  BY <1>1, <1>2, Walks
<1>7. ASSUME NEW v \in Servers, NEW r \in Resources
      PROVE  next.amounts[v][r] = ShareOfNodes(Walked(d, next.at), host[d], v, r)
<2>1. tx[a].amounts[v][r] = ShareOfNodes(Walked(d, tx[a].at), host[d], v, r)
  BY <1>1, <1>3 DEF Booked, Where, d
<2> DEFINE ns == Walked(d, tx[a].at)
           place == host[d]
<2>g. ns \in SUBSET Nodes /\ IsFiniteSet(ns) /\ n \in Nodes \ ns /\ s = place[n]
  BY <1>6 DEF s, d
<2> HIDE DEF ns, place
<2>h. ShareOfNodes(ns \cup {n}, place, v, r)
        = ShareOfNodes(ns, place, v, r) + TakenBy(n, place, v, r)
  BY <2>g, ShareGrows
<2>2. ShareOfNodes(Walked(d, next.at), host[d], v, r)
        = tx[a].amounts[v][r] + (IF s = v THEN Demand[n][r] ELSE 0)
  BY <1>5, <1>6, <2>1, <2>g, <2>h DEF ns, place, TakenBy
<2>3. tx[a].amounts[v][r] \in Nat /\ Demand[n][r] \in Nat
  BY <1>2, <1>5 DEF Amounts
<2>4. CASE v = s
  BY <1>4, <1>5, <2>2, <2>3, <2>4 DEF Plus
<2>5. CASE v # s
  BY <1>5, <2>2, <2>3, <2>5
<2> QED
  BY <2>4, <2>5
<1>8. Booked(next)
  BY <1>5, <1>7 DEF Booked, Where
<1> QED
  BY <1>1, <1>8, BalanceKept

\* At the end of its walk a transaction holds the share of its deployment.
LEMMA WalkIsShare ==
  ASSUME LedgerInv, BalanceInv, NEW a \in Attempts, tx[a].pc # "idle",
         tx[a].at = Len(Plan(a)), NEW s \in Servers, NEW r \in Resources
  PROVE  /\ tx[a].dep \in Deployments
         /\ tx[a].amounts[s][r] = ShareOf(tx[a].dep, Where(tx[a]), s, r)
<1>1. tx[a].dep \in Deployments /\ tx[a].at \in Nat
  BY DEF LedgerInv, LedgerTypeOK, TxInv, TxOK, Transactions
<1>2. Walked(tx[a].dep, tx[a].at) = NodesOf(tx[a].dep)
  BY <1>1 DEF Walked, NodesOf, Plan
<1>3. tx[a].amounts[s][r] = ShareOfNodes(NodesOf(tx[a].dep), Where(tx[a]), s, r)
  BY <1>2 DEF BalanceInv, Booked
<1> QED
  BY <1>1, <1>3 DEF ShareOfNodes, ShareOf

\* The share of a deployment is a natural number.
LEMMA DeploymentShare ==
  ASSUME NEW d \in Deployments, NEW place, NEW s, NEW r \in Resources
  PROVE  ShareOf(d, place, s, r) \in Nat
<1>1. Len(PlanOf[d]) \in Nat
  BY LedgerAssumption
<1>2. NodesOf(d) \in SUBSET Nodes /\ IsFiniteSet(NodesOf(d))
  BY <1>1, Walks
<1>3. ShareOf(d, place, s, r) = ShareOfNodes(NodesOf(d), place, s, r)
  BY DEF ShareOf, ShareOfNodes
<1> QED
  BY <1>2, <1>3, ShareType

\* Where the rows of one deployment are written, the transactions of the others
\* still know what they are about to book.
LEMMA OthersBooked ==
  ASSUME LedgerInv, BalanceInv, NEW a \in Attempts, NEW d \in Deployments, tx[a].dep = d,
         tx' = [tx EXCEPT ![a] = Idle], \A e \in Deployments \ {d} : host'[e] = host[e]
  PROVE  \A b \in Attempts : Booked(tx[b])'
<1>1. tx'[a] = Idle /\ Idle.pc = "idle" /\ \A b \in Attempts \ {a} : tx'[b] = tx[b]
  BY DEF LedgerInv, LedgerTypeOK, Idle
<1>3. ASSUME NEW b \in Attempts \ {a}
      PROVE  Booked(tx[b])'
<2> PICK x : x = tx[b] /\ x = tx'[b] /\ Booked(x)
  BY <1>1 DEF BalanceInv
<2>1. x.pc # "idle" => host'[x.dep] = host[x.dep]
  BY DEF LedgerInv, TxInv, TxOK, OneTransaction
<2>2. Booked(x)'
  BY <2>1 DEF Booked, Where
<2> QED
  BY <2>2 DEF Booked, Where
<1>4. Booked(tx[a])'
  BY <1>1 DEF Booked
<1> QED
  BY <1>3, <1>4

\* The reservation's COMMIT adds the share of one deployment to both sides.
LEMMA ReserveBalances ==
  ASSUME LedgerInv, BalanceInv, NEW a \in Attempts, CommitReserve(a)
  PROVE  BalanceInv'
<1> DEFINE d == tx[a].dep
<1>1. /\ tx[a].pc = "reserve" /\ tx[a].at = Len(Plan(a))
      /\ reserva' = [reserva EXCEPT ![d] = "RESERVED"]
      /\ host' = [host EXCEPT ![d] = tx[a].placed]
      /\ reserved' = [s \in Servers |-> Plus(reserved[s], tx[a].amounts[s])]
      /\ tx' = [tx EXCEPT ![a] = Idle]
  BY DEF CommitReserve, Locked
<1>2. d \in Deployments /\ reserva[d] = "none" /\ LedgerTypeOK
  BY <1>1 DEF LedgerInv, TxInv, TxOK
<1>3. /\ reserva'[d] = "RESERVED" /\ host'[d] = tx[a].placed
      /\ \A e \in Deployments \ {d} : reserva'[e] = reserva[e] /\ host'[e] = host[e]
  BY <1>1, <1>2 DEF LedgerTypeOK
<1>4. \A b \in Attempts : Booked(tx[b])'
  BY <1>1, <1>2, <1>3, OthersBooked
<1>5. \A s \in Servers, r \in Resources : tx[a].amounts[s][r] = ShareOf(d, tx[a].placed, s, r)
  BY <1>1, WalkIsShare DEF Where
<1> HIDE DEF d
<1>6. ReservedSet' = ReservedSet \cup {d} /\ d \notin ReservedSet
  BY <1>2, <1>3 DEF ReservedSet
<1>7. IsFiniteSet(ReservedSet) /\ IsFiniteSet(ReservedSet')
  BY <1>6, FS_AddElement DEF BalanceInv
<1>8. ASSUME NEW s \in Servers, NEW r \in Resources
      PROVE  reserved'[s][r] = RowsOn(s, r)'
<2> DEFINE before == [e \in Deployments |-> ShareOf(e, host[e], s, r)]
           after == [e \in Deployments |-> ShareOf(e, host'[e], s, r)]
<2>1. \A e \in Deployments : after[e] \in Nat /\ before[e] \in Nat
  BY DeploymentShare
<2>2. after[d] = tx[a].amounts[s][r] /\ \A e \in ReservedSet : after[e] = before[e]
  BY <1>2, <1>3, <1>5, <1>6 DEF ReservedSet
<2>3. NatValued(after, ReservedSet \cup {d}) /\ NatValued(before, ReservedSet)
  BY <1>2, <2>1 DEF NatValued, ReservedSet
<2>4. RowsOn(s, r) = SumFunctionOnSet(before, ReservedSet)
      /\ RowsOn(s, r)' = SumFunctionOnSet(after, ReservedSet')
  BY DEF RowsOn, ReservedSet
<2> HIDE DEF before, after
<2>5. SumFunctionOnSet(before, ReservedSet) = SumFunctionOnSet(after, ReservedSet)
  BY <1>7, <2>2, <2>3, SumSame
<2>6. SumFunctionOnSet(after, ReservedSet \cup {d})
        = SumFunctionOnSet(after, ReservedSet) + after[d]
  BY <1>6, <1>7, <2>3, SumAdd
<2>7. reserved[s][r] = RowsOn(s, r)
  BY DEF BalanceInv, LedgerBalanced
<2>8. reserved'[s][r] = reserved[s][r] + tx[a].amounts[s][r]
  BY <1>1 DEF Plus
<2> QED
  BY <1>6, <2>2, <2>4, <2>5, <2>6, <2>7, <2>8
<1> QED
  BY <1>4, <1>7, <1>8 DEF BalanceInv, LedgerBalanced

\* The rollback's COMMIT takes it off both.
LEMMA RollbackBalances ==
  ASSUME LedgerInv, BalanceInv, NEW a \in Attempts, CommitRollback(a)
  PROVE  BalanceInv'
<1> DEFINE d == tx[a].dep
<1>1. /\ tx[a].pc = "rollback" /\ tx[a].at = Len(Plan(a))
      /\ reserva' = [reserva EXCEPT ![d] = "RELEASED"]
      /\ reserved' = [s \in Servers |-> Minus(reserved[s], tx[a].amounts[s])]
      /\ tx' = [tx EXCEPT ![a] = Idle] /\ host' = host
  BY DEF CommitRollback, Locked
<1>2. d \in Deployments /\ reserva[d] = "RESERVED" /\ LedgerTypeOK
  BY <1>1 DEF LedgerInv, TxInv, TxOK
<1>3. reserva'[d] = "RELEASED" /\ \A e \in Deployments \ {d} : reserva'[e] = reserva[e]
  BY <1>1, <1>2 DEF LedgerTypeOK
<1>4. \A b \in Attempts : Booked(tx[b])'
  BY <1>1, <1>2, OthersBooked
<1>5. \A s \in Servers, r \in Resources : tx[a].amounts[s][r] = ShareOf(d, host[d], s, r)
  BY <1>1, WalkIsShare DEF Where
<1> HIDE DEF d
<1>6. ReservedSet' = ReservedSet \ {d} /\ d \in ReservedSet
  BY <1>2, <1>3 DEF ReservedSet
<1>7. IsFiniteSet(ReservedSet) /\ IsFiniteSet(ReservedSet')
  BY <1>6, FS_RemoveElement DEF BalanceInv
<1>8. ASSUME NEW s \in Servers, NEW r \in Resources
      PROVE  reserved'[s][r] = RowsOn(s, r)'
<2> DEFINE rows == [e \in Deployments |-> ShareOf(e, host[e], s, r)]
<2>1. NatValued(rows, ReservedSet) /\ rows[d] = tx[a].amounts[s][r]
  BY <1>2, <1>5, DeploymentShare DEF NatValued, ReservedSet
<2>2. RowsOn(s, r) = SumFunctionOnSet(rows, ReservedSet)
      /\ RowsOn(s, r)' = SumFunctionOnSet(rows, ReservedSet')
  BY <1>1 DEF RowsOn, ReservedSet
<2>3. rows[d] \in Nat
  BY <1>6, <2>1 DEF NatValued
<2> HIDE DEF rows
<2>4. SumFunctionOnSet(rows, ReservedSet) = SumFunctionOnSet(rows, ReservedSet \ {d}) + rows[d]
  BY <1>6, <1>7, <2>1, SumRemove
<2>5. SumFunctionOnSet(rows, ReservedSet \ {d}) \in Nat
<3>1. NatValued(rows, ReservedSet \ {d})
  BY <2>1 DEF NatValued
<3> QED
  BY <1>6, <1>7, <3>1, SumType
<2>6. reserved[s][r] = RowsOn(s, r)
  BY DEF BalanceInv, LedgerBalanced
<2>7. reserved'[s][r] = reserved[s][r] - tx[a].amounts[s][r]
  BY <1>1 DEF Minus
<2> QED
  BY <1>6, <2>1, <2>2, <2>3, <2>4, <2>5, <2>6, <2>7
<1> QED
  BY <1>4, <1>7, <1>8 DEF BalanceInv, LedgerBalanced

LEMMA BalanceInductive ==
  ASSUME LedgerInv, BalanceInv, [LedgerNext]_ledgerVars
  PROVE  BalanceInv'
<1>1. CASE UNCHANGED <<tx, reserva, host, reserved>>
<2>1. (\A a \in Attempts : Booked(tx[a]))'
  BY <1>1 DEF BalanceInv, Booked, Where
<2>2. IsFiniteSet(ReservedSet)' /\ LedgerBalanced'
  BY <1>1 DEF BalanceInv, ReservedSet, LedgerBalanced, RowsOn
<2> QED
  BY <2>1, <2>2 DEF BalanceInv
<1>2. ASSUME NEW a \in Attempts, LockServer(a)
      PROVE  BalanceInv'
<2> DEFINE s == Min(tx[a].want)
           next == [tx[a] EXCEPT !.want = @ \ {s}, !.held = @ \cup {s},
                                 !.remaining[s] = Available(s)]
<2>1. tx' = [tx EXCEPT ![a] = next] /\ UNCHANGED <<reserva, host, reserved>>
  BY <1>2 DEF LockServer, rowVars
<2> HIDE DEF s
<2>2. tx[a] \in Transactions /\ Booked(tx[a])
  BY DEF LedgerInv, LedgerTypeOK, BalanceInv
<2>3. next.pc = tx[a].pc /\ next.dep = tx[a].dep /\ next.at = tx[a].at
      /\ next.amounts = tx[a].amounts /\ next.placed = tx[a].placed
  BY <2>2 DEF Transactions
<2> HIDE DEF next
<2>4. Booked(next)
  BY <2>2, <2>3 DEF Booked, Where
<2> QED
  BY <2>1, <2>4, BalanceKept
<1>3. ASSUME NEW a \in Attempts, InsufficientCapacity(a) \/ Abort(a)
      PROVE  BalanceInv'
<2>1. tx' = [tx EXCEPT ![a] = Idle] /\ UNCHANGED <<reserva, host, reserved>>
  BY <1>3 DEF InsufficientCapacity, Abort, rowVars
<2>2. Booked(Idle)
  BY DEF Booked, Idle
<2> QED
  BY <2>1, <2>2, BalanceKept
<1> QED
  BY <1>1, <1>2, <1>3, BeginsBooked, PlacesBooked, CountsBooked, ReserveBalances, RollbackBalances
     DEF LedgerNext, ledgerVars, TransactionStep, Request, StartDeployment, CreateInventory,
         FinishDeployment, ReserveAgain, UpdateAdminQuota, rowVars

\* The walks and the counters are in balance in every behaviour.
LEMMA Balance == LedgerSpec => []BalanceInv
<1>1. LedgerInit => BalanceInv
<2> SUFFICES ASSUME LedgerInit
             PROVE  BalanceInv
  OBVIOUS
<2>1. \A a \in Attempts : Booked(tx[a])
  BY DEF LedgerInit, Booked, Idle
<2>2. ReservedSet = {} /\ IsFiniteSet(ReservedSet)
  BY FS_EmptySet DEF LedgerInit, ReservedSet
<2>3. \A s \in Servers, r \in Resources : RowsOn(s, r) = 0
  BY <2>2, SumEmpty DEF RowsOn, ReservedSet
<2>4. LedgerBalanced
  BY <2>3 DEF LedgerInit, LedgerBalanced, NoAmounts
<2> QED
  BY <2>1, <2>2, <2>4 DEF BalanceInv
<1> QED
  BY <1>1, BalanceInductive, LedgerInvariant, PTL DEF LedgerSpec

\* The counters of a server are the sum of its RESERVED rows: an attempt that is
\* repeated, lost or refused books and frees nothing, and none of them twice.
THEOREM CountersMatchRows == LedgerSpec => []LedgerBalanced
<1>1. BalanceInv => LedgerBalanced
  BY DEF BalanceInv
<1> QED
  BY <1>1, Balance, PTL

-----------------------------------------------------------------------------
\* However the steps of the transactions overlap and wherever they are lost, they
\* act like single steps: a commit is the whole of a placement taken, where there is
\* room for it, or given back, and nothing else touches rows or counters.
LEMMA CommitTakes ==
  ASSUME LedgerInv, BalanceInv, LedgerInv', NEW a \in Attempts, CommitReserve(a)
  PROVE  Promise!PromiseNext
<1> DEFINE d == tx[a].dep
           place == tx[a].placed
<1>1. /\ tx[a].pc = "reserve" /\ tx[a].at = Len(Plan(a))
      /\ reserva' = [reserva EXCEPT ![d] = "RESERVED"]
      /\ host' = [host EXCEPT ![d] = place]
      /\ reserved' = [s \in Servers |-> Plus(reserved[s], tx[a].amounts[s])]
  BY DEF CommitReserve, Locked
<1>2. /\ d \in Deployments /\ reserva[d] = "none" /\ place \in Placements
      /\ CountersWithinTotals'
  BY <1>1 DEF LedgerInv, LedgerTypeOK, TxInv, TxOK, Transactions
<1>3. \A s \in Servers, r \in Resources : tx[a].amounts[s][r] = ShareOf(d, place, s, r)
  BY <1>1, WalkIsShare DEF Where
<1> HIDE DEF d, place
<1>4. reserved' = [s \in Servers |-> [r \in Resources |-> reserved[s][r] + ShareOf(d, place, s, r)]]
<2>1. \A s \in Servers :
        Plus(reserved[s], tx[a].amounts[s])
          = [r \in Resources |-> reserved[s][r] + ShareOf(d, place, s, r)]
  BY <1>3 DEF Plus
<2> QED
  BY <1>1, <2>1
<1>5. \A s \in Servers, r \in Resources : reserved'[s][r] <= Total[s][r]
  BY <1>2 DEF CountersWithinTotals
<1>6. Promise!Take(d, place)
  BY <1>1, <1>2, <1>4, <1>5 DEF Promise!Take
<1> QED
  BY <1>2, <1>6 DEF Promise!PromiseNext

LEMMA CommitGivesBack ==
  ASSUME LedgerInv, BalanceInv, NEW a \in Attempts, CommitRollback(a)
  PROVE  Promise!PromiseNext
<1> DEFINE d == tx[a].dep
<1>1. /\ tx[a].pc = "rollback" /\ tx[a].at = Len(Plan(a))
      /\ reserva' = [reserva EXCEPT ![d] = "RELEASED"] /\ host' = host
      /\ reserved' = [s \in Servers |-> Minus(reserved[s], tx[a].amounts[s])]
  BY DEF CommitRollback, Locked
<1>2. d \in Deployments /\ reserva[d] = "RESERVED"
  BY <1>1 DEF LedgerInv, TxInv, TxOK
<1>3. \A s \in Servers, r \in Resources : tx[a].amounts[s][r] = ShareOf(d, host[d], s, r)
  BY <1>1, WalkIsShare DEF Where
<1> HIDE DEF d
<1>4. reserved' = [s \in Servers |->
                     [r \in Resources |-> reserved[s][r] - ShareOf(d, host[d], s, r)]]
<2>1. \A s \in Servers :
        Minus(reserved[s], tx[a].amounts[s])
          = [r \in Resources |-> reserved[s][r] - ShareOf(d, host[d], s, r)]
  BY <1>3 DEF Minus
<2> QED
  BY <1>1, <2>1
<1>5. Promise!GiveBack(d)
  BY <1>1, <1>2, <1>4 DEF Promise!GiveBack
<1> QED
  BY <1>2, <1>5 DEF Promise!PromiseNext

\* Placement keeps the promise: the ledger's specification implements CapacityPromise.
THEOREM LedgerKeepsPromise == LedgerSpec => KeepsPromise
<1>1. LedgerInit => Promise!PromiseInit
<2> SUFFICES ASSUME LedgerInit
             PROVE  Promise!PromiseInit
  OBVIOUS
<2>1. Nowhere \in Placements
  BY DEF Nowhere, Placements
<2> QED
  BY <2>1 DEF LedgerInit, Promise!PromiseInit, NoAmounts
<1>2. LedgerInv /\ LedgerInv' /\ BalanceInv /\ [LedgerNext]_ledgerVars
        => [Promise!PromiseNext]_(Promise!promiseVars)
<2> SUFFICES ASSUME LedgerInv, LedgerInv', BalanceInv, [LedgerNext]_ledgerVars
             PROVE  Promise!PromiseNext \/ UNCHANGED <<reserva, host, reserved>>
  BY DEF Promise!promiseVars
<2> QED
  BY CommitTakes, CommitGivesBack
     DEF LedgerNext, ledgerVars, TransactionStep, Request, StartDeployment, CreateInventory,
         FinishDeployment, ReserveAgain, UpdateAdminQuota, BeginReserve, BeginRollback,
         LockServer, PlaceNode, InsufficientCapacity, CountReleased, Abort, rowVars
<1> QED
  BY <1>1, <1>2, LedgerInvariant, Balance, PTL DEF LedgerSpec, KeepsPromise, Promise!PromiseSpec

-----------------------------------------------------------------------------
\* What counts against the quota of a user sooner or later: rows, and admitted
\* deployments whose rows are still to come.
Commitments(u) ==
  {d \in Deployments : /\ UserOf[d] = u
                       /\ \/ reserva[d] = "RESERVED"
                          \/ Active(d) /\ reserva[d] = "none"}
Demands(r) == [d \in Deployments |-> PlanDemand(d, r)]
QuotaInv ==
  /\ \A a \in Attempts : tx[a].pc = "reserve" => estado[tx[a].dep] = "IN_PROGRESS"
  /\ \A u \in Users :
       /\ IsFiniteSet(Commitments(u))
       /\ ~excused[u] =>
            \A r \in Resources : SumFunctionOnSet(Demands(r), Commitments(u)) <= quota[u][r]

\* What plans take is a natural number, of one plan and of any finite set.
LEMMA DemandsAreNumbers ==
  ASSUME NEW S \in SUBSET Deployments, NEW r \in Resources
  PROVE  /\ NatValued(Demands(r), S)
         /\ IsFiniteSet(S) => SumFunctionOnSet(Demands(r), S) \in Nat
         /\ \A d \in S : Demands(r)[d] = PlanDemand(d, r)
<1>1. ASSUME NEW d \in Deployments
      PROVE  PlanDemand(d, r) \in Nat
<2>1. Len(PlanOf[d]) \in Nat
  BY LedgerAssumption
<2>2. NodesOf(d) \in SUBSET Nodes /\ IsFiniteSet(NodesOf(d))
  BY <2>1, Walks
<2>3. NatValued(DemandFor(r), NodesOf(d))
  BY <2>2, LedgerAssumption DEF NatValued, DemandFor, Amounts
<2> QED
  BY <2>2, <2>3, SumType DEF PlanDemand
<1>2. NatValued(Demands(r), S)
  BY <1>1 DEF NatValued, Demands
<1>3. IsFiniteSet(S) => SumFunctionOnSet(Demands(r), S) \in Nat
  BY <1>2, SumType
<1> QED
  BY <1>2, <1>3 DEF Demands

\* Where no user commits to more, and no quota falls unexcused, the invariant stays.
LEMMA NothingCommitted ==
  ASSUME LedgerInv, LedgerInv', QuotaInv, NEW u \in Users,
         Commitments(u)' \subseteq Commitments(u), excused[u] => excused'[u],
         ~excused'[u] => \A r \in Resources : quota[u][r] <= quota'[u][r]
  PROVE  /\ IsFiniteSet(Commitments(u))'
         /\ ~excused'[u] =>
              \A r \in Resources : SumFunctionOnSet(Demands(r), Commitments(u)') <= quota'[u][r]
<1>1. IsFiniteSet(Commitments(u)) /\ IsFiniteSet(Commitments(u)')
  BY FS_Subset DEF QuotaInv
<1>2. ASSUME ~excused'[u], NEW r \in Resources
      PROVE  SumFunctionOnSet(Demands(r), Commitments(u)') <= quota'[u][r]
<2>1. Commitments(u) \in SUBSET Deployments /\ Commitments(u)' \in SUBSET Deployments
  BY DEF Commitments
<2>2. SumFunctionOnSet(Demands(r), Commitments(u)') <= SumFunctionOnSet(Demands(r), Commitments(u))
  BY <1>1, <2>1, DemandsAreNumbers, SumSubset
<2>3. SumFunctionOnSet(Demands(r), Commitments(u)) <= quota[u][r]
  BY <1>2 DEF QuotaInv
<2>4. SumFunctionOnSet(Demands(r), Commitments(u)) \in Nat
      /\ SumFunctionOnSet(Demands(r), Commitments(u)') \in Nat
  BY <1>1, <2>1, DemandsAreNumbers
<2>5. quota[u][r] \in Nat /\ quota'[u][r] \in Nat /\ quota[u][r] <= quota'[u][r]
  BY <1>2 DEF LedgerInv, LedgerTypeOK, Amounts
<2> QED
  BY <2>2, <2>3, <2>4, <2>5
<1> QED
  BY <1>1, <1>2

\* Admission: with nothing else of the user on its way, the request fits beside the
\* user's rows; otherwise the user is excused.
LEMMA AdmissionFits ==
  ASSUME LedgerInv, LedgerInv', QuotaInv, NEW d \in Deployments, Request(d), NEW u \in Users
  PROVE  /\ IsFiniteSet(Commitments(u))'
         /\ ~excused'[u] =>
              \A r \in Resources : SumFunctionOnSet(Demands(r), Commitments(u)') <= quota'[u][r]
<1>1. /\ estado[d] = "none" /\ UNCHANGED <<quota, reserva>>
      /\ estado' = [estado EXCEPT ![d] = IF OverQuota(d) THEN "REJECTED" ELSE "PENDING"]
  BY DEF Request, rowVars
<1>2. LedgerTypeOK /\ UserOf[d] \in Users
  BY LedgerAssumption DEF LedgerInv
<1>3. \A e \in Deployments \ {d} : estado'[e] = estado[e]
      /\ estado'[d] = IF OverQuota(d) THEN "REJECTED" ELSE "PENDING"
  BY <1>1, <1>2 DEF LedgerTypeOK
<1>4. /\ excused[u] => excused'[u]
      /\ u = UserOf[d] /\ ~excused'[u] /\ ~OverQuota(d) =>
           \A e \in Deployments : UserOf[e] = u /\ Active(e) => reserva[e] # "none"
<2> DEFINE twice == /\ ~OverQuota(d)
                    /\ \E e \in Deployments :
                         UserOf[e] = UserOf[d] /\ Active(e) /\ reserva[e] = "none"
<2>1. excused' = [excused EXCEPT ![UserOf[d]] = excused[UserOf[d]] \/ twice]
  BY DEF Request
<2> HIDE DEF twice
<2>2. excused \in [Users -> BOOLEAN]
  BY <1>2 DEF LedgerTypeOK
<2>3. (excused[u] => excused'[u]) /\ (u = UserOf[d] /\ ~excused'[u] => ~twice)
  BY <1>2, <2>1, <2>2
<2> QED
  BY <2>3 DEF twice
<1>5. Commitments(u)' \subseteq Commitments(u) \cup {d}
  BY <1>1, <1>3 DEF Commitments, Active
<1>6. CASE u # UserOf[d] \/ OverQuota(d)
<2>1. Commitments(u)' \subseteq Commitments(u)
  BY <1>1, <1>3, <1>6 DEF Commitments, Active
<2>2. \A r \in Resources : quota[u][r] <= quota'[u][r]
  BY <1>1, <1>2 DEF LedgerTypeOK, Amounts
<2> QED
  BY <1>4, <2>1, <2>2, NothingCommitted
<1>7. CASE u = UserOf[d] /\ ~OverQuota(d)
<2> DEFINE rows == {e \in Deployments : UserOf[e] = UserOf[d] /\ reserva[e] = "RESERVED"}
<2>0. rows \subseteq Commitments(u)
  BY <1>7 DEF Commitments, Active
<2>1. IsFiniteSet(Commitments(u)) /\ rows \subseteq Commitments(u)
  BY <2>0 DEF QuotaInv
<2>2. IsFiniteSet(Commitments(u)') /\ IsFiniteSet(rows) /\ IsFiniteSet(rows \cup {d})
<3>1. IsFiniteSet(rows) /\ IsFiniteSet(Commitments(u) \cup {d})
  BY <2>1, FS_Subset, FS_AddElement
<3> QED
  BY <1>5, <3>1, FS_Subset, FS_AddElement
<2>3. ASSUME ~excused'[u], NEW r \in Resources
      PROVE  SumFunctionOnSet(Demands(r), Commitments(u)') <= quota'[u][r]
<3>1. Commitments(u)' \in SUBSET (rows \cup {d})
  BY <1>1, <1>3, <1>4, <1>7, <2>3 DEF Commitments, Active
<3>2. rows \cup {d} \in SUBSET Deployments /\ rows \in SUBSET Deployments
  OBVIOUS
<3>3. Usage(UserOf[d], r) = SumFunctionOnSet(Demands(r), rows)
  BY DEF Usage, Demands
<3> HIDE DEF rows
<3>4. SumFunctionOnSet(Demands(r), Commitments(u)')
        <= SumFunctionOnSet(Demands(r), rows \cup {d})
  BY <2>2, <3>1, <3>2, DemandsAreNumbers, SumSubset
<3>5. SumFunctionOnSet(Demands(r), rows \cup {d})
        <= SumFunctionOnSet(Demands(r), rows) + PlanDemand(d, r)
<4>1. NatValued(Demands(r), rows \cup {d}) /\ Demands(r)[d] = PlanDemand(d, r)
  BY <3>2, DemandsAreNumbers
<4>2. PlanDemand(d, r) \in Nat /\ SumFunctionOnSet(Demands(r), rows) \in Nat
  BY <2>2, <3>2, <4>1, DemandsAreNumbers DEF NatValued
<4>3. CASE d \in rows
<5>1. rows \cup {d} = rows
  BY <4>3
<5>2. SumFunctionOnSet(Demands(r), rows \cup {d}) = SumFunctionOnSet(Demands(r), rows)
  BY <5>1
<5> QED
  BY <4>2, <5>2
<4>4. CASE d \notin rows
<5>1. SumFunctionOnSet(Demands(r), rows \cup {d}) = SumFunctionOnSet(Demands(r), rows) + Demands(r)[d]
  BY <2>2, <4>1, <4>4, SumAdd
<5> QED
  BY <4>1, <4>2, <5>1
<4> QED
  BY <4>3, <4>4
<3>6. ~(Usage(UserOf[d], r) + PlanDemand(d, r) > quota[u][r])
  BY <1>7 DEF OverQuota
<3>7. /\ SumFunctionOnSet(Demands(r), rows) \in Nat /\ PlanDemand(d, r) \in Nat
      /\ SumFunctionOnSet(Demands(r), rows \cup {d}) \in Nat
      /\ SumFunctionOnSet(Demands(r), Commitments(u)') \in Nat
<4>1. Commitments(u)' \in SUBSET Deployments /\ {d} \in SUBSET Deployments
  BY <3>1, <3>2
<4>2. PlanDemand(d, r) \in Nat
  BY <4>1, DemandsAreNumbers DEF NatValued
<4> QED
  BY <2>2, <3>2, <4>1, <4>2, DemandsAreNumbers
<3>8. quota'[u][r] = quota[u][r] /\ quota[u][r] \in Nat
  BY <1>1, <1>2 DEF LedgerTypeOK, Amounts
<3> QED
  BY <3>3, <3>4, <3>5, <3>6, <3>7, <3>8
<2> QED
  BY <2>2, <2>3
<1> QED
  BY <1>6, <1>7

\* A reservation under way keeps its deployment in progress: what would end it
\* waits for the deployment's row.
LEMMA ReservesInProgress ==
  ASSUME LedgerInv, QuotaInv, [LedgerNext]_ledgerVars, NEW a \in Attempts, tx'[a].pc = "reserve"
  PROVE  estado'[tx'[a].dep] = "IN_PROGRESS"
<1>1. tx \in [Attempts -> Transactions] /\ estado \in [Deployments -> Estados]
  BY DEF LedgerInv, LedgerTypeOK
<1>2. CASE UNCHANGED <<estado, tx>>
  BY <1>2 DEF QuotaInv
<1>3. ASSUME UNCHANGED tx, NEW d \in Deployments, NEW e, estado' = [estado EXCEPT ![d] = e],
             Unlocked(d) \/ estado[d] = "none"
      PROVE  estado'[tx'[a].dep] = "IN_PROGRESS"
<2>1. estado[tx[a].dep] = "IN_PROGRESS" /\ tx[a].dep \in Deployments
  BY <1>3 DEF QuotaInv, LedgerInv, TxInv, TxOK
<2>2. tx[a].dep # d
  BY <1>3, <2>1 DEF Unlocked
<2> QED
  BY <1>1, <1>3, <2>1, <2>2
<1>4. ASSUME UNCHANGED estado, NEW b \in Attempts, NEW next, tx' = [tx EXCEPT ![b] = next],
             next.pc = "reserve" => \/ next.pc = tx[b].pc /\ next.dep = tx[b].dep
                                    \/ estado[next.dep] = "IN_PROGRESS"
      PROVE  estado'[tx'[a].dep] = "IN_PROGRESS"
  BY <1>1, <1>4 DEF QuotaInv
<1>5. ASSUME NEW d \in Deployments, NEW outcome \in Outcomes,
             \/ Request(d) \/ StartDeployment(d) \/ FinishDeployment(d, outcome)
             \/ CreateInventory(d) \/ ReserveAgain(d)
      PROVE  estado'[tx'[a].dep] = "IN_PROGRESS"
  BY <1>2, <1>3, <1>5
     DEF Request, StartDeployment, FinishDeployment, CreateInventory, ReserveAgain, registryVars
<1>6. ASSUME NEW u \in Users, NEW q \in Quotas, UpdateAdminQuota(u, q)
      PROVE  estado'[tx'[a].dep] = "IN_PROGRESS"
  BY <1>2, <1>6 DEF UpdateAdminQuota, registryVars
<1>7. ASSUME NEW b \in Attempts, NEW d \in Deployments, BeginReserve(b, d)
      PROVE  estado'[tx'[a].dep] = "IN_PROGRESS"
<2> DEFINE next == [Idle EXCEPT !.pc = "reserve", !.dep = d, !.want = Servers]
<2>1. next.dep = d /\ tx' = [tx EXCEPT ![b] = next] /\ UNCHANGED estado
      /\ estado[d] = "IN_PROGRESS"
  BY <1>7 DEF BeginReserve, ReserveAccepted, Idle, registryVars
<2> HIDE DEF next
<2> QED
  BY <1>4, <2>1
<1>8. ASSUME NEW b \in Attempts, NEW d \in Deployments, BeginRollback(b, d)
      PROVE  estado'[tx'[a].dep] = "IN_PROGRESS"
<2> DEFINE next == [Idle EXCEPT !.pc = "rollback", !.dep = d,
                                !.want = {host[d][n] : n \in NodesOf(d)}]
<2>1. next.pc = "rollback" /\ tx' = [tx EXCEPT ![b] = next] /\ UNCHANGED estado
  BY <1>8 DEF BeginRollback, Idle, registryVars
<2> HIDE DEF next
<2> QED
  BY <1>4, <2>1
<1>9. ASSUME NEW b \in Attempts,
             InsufficientCapacity(b) \/ Abort(b) \/ CommitReserve(b) \/ CommitRollback(b)
      PROVE  estado'[tx'[a].dep] = "IN_PROGRESS"
<2>1. tx' = [tx EXCEPT ![b] = Idle] /\ UNCHANGED estado /\ Idle.pc = "idle"
  BY <1>9 DEF InsufficientCapacity, Abort, CommitReserve, CommitRollback, registryVars, Idle
<2> QED
  BY <1>4, <2>1
<1>10. ASSUME NEW b \in Attempts, LockServer(b)
       PROVE  estado'[tx'[a].dep] = "IN_PROGRESS"
<2> DEFINE s == Min(tx[b].want)
           next == [tx[b] EXCEPT !.want = @ \ {s}, !.held = @ \cup {s},
                                 !.remaining[s] = Available(s)]
<2>1. tx' = [tx EXCEPT ![b] = next] /\ UNCHANGED estado
  BY <1>10 DEF LockServer, registryVars
<2> HIDE DEF s
<2>2. tx[b] \in Transactions
  BY <1>1
<2>3. next.pc = tx[b].pc /\ next.dep = tx[b].dep
  BY <2>2 DEF Transactions
<2> HIDE DEF next
<2> QED
  BY <1>4, <2>1, <2>3
<1>11. ASSUME NEW b \in Attempts, PlaceNode(b)
       PROVE  estado'[tx'[a].dep] = "IN_PROGRESS"
<2> DEFINE n == NextNode(b)
<2>1. PICK s \in FirstFit(b, n) :
        tx' = [tx EXCEPT ![b] =
                [tx[b] EXCEPT !.at = @ + 1, !.next = s,
                          !.remaining[s] = Minus(@, Demand[n]),
                          !.amounts[s] = Plus(@, Demand[n]),
                          !.placed[n] = s]]
  BY <1>11 DEF PlaceNode
<2> DEFINE next == [tx[b] EXCEPT !.at = @ + 1, !.next = s,
                          !.remaining[s] = Minus(@, Demand[n]),
                          !.amounts[s] = Plus(@, Demand[n]),
                          !.placed[n] = s]
<2>2. tx[b] \in Transactions /\ UNCHANGED estado
  BY <1>1, <1>11 DEF PlaceNode, registryVars
<2>3. next.pc = tx[b].pc /\ next.dep = tx[b].dep
  BY <2>2 DEF Transactions
<2>4. tx' = [tx EXCEPT ![b] = next]
  BY <2>1
<2> HIDE DEF next
<2> QED
  BY <1>4, <2>2, <2>3, <2>4
<1>12. ASSUME NEW b \in Attempts, CountReleased(b)
       PROVE  estado'[tx'[a].dep] = "IN_PROGRESS"
<2> DEFINE next == [tx[b] EXCEPT !.at = @ + 1,
                                 !.amounts[host[tx[b].dep][NextNode(b)]] =
                                   Plus(@, Demand[NextNode(b)])]
<2>1. tx' = [tx EXCEPT ![b] = next] /\ UNCHANGED estado
  BY <1>12 DEF CountReleased, registryVars
<2>2. tx[b] \in Transactions
  BY <1>1
<2>3. next.pc = tx[b].pc /\ next.dep = tx[b].dep
  BY <2>2 DEF Transactions
<2> HIDE DEF next
<2> QED
  BY <1>4, <2>1, <2>3
<1>13. "FAILED" \in Outcomes
  BY DEF Outcomes
<1>14. ASSUME NEW b \in Attempts, TransactionStep(b) \/ Abort(b)
       PROVE  estado'[tx'[a].dep] = "IN_PROGRESS"
  BY <1>9, <1>10, <1>11, <1>12, <1>14 DEF TransactionStep
<1>15. CASE UNCHANGED ledgerVars
  BY <1>2, <1>15 DEF ledgerVars
<1> QED
  BY <1>5, <1>6, <1>7, <1>8, <1>13, <1>14, <1>15 DEF LedgerNext

\* Every step keeps the invariant: only admission commits a user to more.
LEMMA QuotaInductive ==
  ASSUME LedgerInv, LedgerInv', QuotaInv, [LedgerNext]_ledgerVars
  PROVE  QuotaInv'
<1> DEFINE WithinQuota(u) ==
      /\ IsFiniteSet(Commitments(u))'
      /\ ~excused'[u] =>
           \A r \in Resources : SumFunctionOnSet(Demands(r), Commitments(u)') <= quota'[u][r]
<1>1. LedgerTypeOK /\ \A u \in Users, r \in Resources : quota[u][r] <= quota[u][r]
  BY DEF LedgerInv, LedgerTypeOK, Amounts
<1>2. ASSUME NEW u \in Users, UNCHANGED <<quota, excused>>, Commitments(u)' \subseteq Commitments(u)
      PROVE  WithinQuota(u)
  BY <1>1, <1>2, NothingCommitted
<1>3. ASSUME NEW u \in Users, UNCHANGED <<estado, reserva, quota, excused>>
      PROVE  WithinQuota(u)
  BY <1>2, <1>3 DEF Commitments, Active
<1>4. ASSUME NEW u \in Users, NEW d \in Deployments, NEW outcome \in Outcomes,
             StartDeployment(d) \/ FinishDeployment(d, outcome)
      PROVE  WithinQuota(u)
<2>1. UNCHANGED <<quota, excused, reserva>> /\ Active(d)
      /\ \E e : estado' = [estado EXCEPT ![d] = e]
  BY <1>4 DEF StartDeployment, FinishDeployment, rowVars, Active
<2>2. \A e \in Deployments : Active(e)' => Active(e)
  BY <1>1, <2>1 DEF LedgerTypeOK, Active
<2>3. Commitments(u)' \subseteq Commitments(u)
  BY <2>1, <2>2 DEF Commitments
<2> QED
  BY <1>2, <2>1, <2>3
<1>5. ASSUME NEW u \in Users, NEW a \in Attempts, CommitReserve(a) \/ CommitRollback(a)
      PROVE  WithinQuota(u)
<2> DEFINE d == tx[a].dep
<2>1. /\ UNCHANGED <<estado, quota, excused>>
      /\ \/ tx[a].pc = "reserve" /\ reserva' = [reserva EXCEPT ![d] = "RESERVED"]
         \/ tx[a].pc = "rollback" /\ reserva' = [reserva EXCEPT ![d] = "RELEASED"]
  BY <1>5 DEF CommitReserve, CommitRollback, Locked, registryVars
<2>2. d \in Deployments
  BY <2>1 DEF LedgerInv, TxInv, TxOK
<2>3. tx[a].pc = "reserve" => Active(d) /\ reserva[d] = "none"
  BY DEF QuotaInv, Active, LedgerInv, TxInv, TxOK
<2> HIDE DEF d
<2>4. Commitments(u)' \subseteq Commitments(u)
  BY <1>1, <2>1, <2>2, <2>3 DEF LedgerTypeOK, Commitments, Active
<2> QED
  BY <1>2, <2>1, <2>4
<1>6. ASSUME NEW u \in Users, NEW v \in Users, NEW q \in Quotas, UpdateAdminQuota(v, q)
      PROVE  WithinQuota(u)
<2> DEFINE lowered == \E r \in Resources : q[r] < quota[v][r]
<2>1. /\ quota' = [quota EXCEPT ![v] = q]
      /\ excused' = [excused EXCEPT ![v] = excused[v] \/ lowered]
      /\ UNCHANGED <<estado, reserva>>
  BY <1>6 DEF UpdateAdminQuota, registryVars, rowVars
<2>2. Commitments(u)' \subseteq Commitments(u)
  BY <2>1 DEF Commitments, Active
<2> HIDE DEF lowered
<2>3. (excused[u] => excused'[u]) /\ (u = v /\ ~excused'[u] => ~lowered)
  BY <1>1, <2>1 DEF LedgerTypeOK
<2>4. ~excused'[u] => \A r \in Resources : quota[u][r] <= quota'[u][r]
<3>1. CASE u # v
  BY <1>1, <2>1, <3>1 DEF LedgerTypeOK
<3>2. CASE u = v
<4>1. quota'[u] = q /\ q \in Amounts /\ quota[u] \in Amounts
  BY <1>1, <2>1, <3>2, LedgerAssumption DEF LedgerTypeOK
<4>2. \A r \in Resources : q[r] \in Nat /\ quota[u][r] \in Nat
  BY <4>1 DEF Amounts
<4> QED
  BY <2>3, <3>2, <4>1, <4>2 DEF lowered
<3> QED
  BY <3>1, <3>2
<2> QED
  BY <2>2, <2>3, <2>4, NothingCommitted
<1>7. ASSUME NEW u \in Users, NEW d \in Deployments, Request(d)
      PROVE  WithinQuota(u)
  BY <1>7, AdmissionFits
<1>8. ASSUME NEW u \in Users
      PROVE  WithinQuota(u)
<2> HIDE DEF WithinQuota
<2>1. ASSUME NEW d \in Deployments, CreateInventory(d) \/ ReserveAgain(d)
      PROVE  WithinQuota(u)
  BY <1>3, <2>1 DEF CreateInventory, ReserveAgain, registryVars, rowVars
<2>2. ASSUME NEW a \in Attempts, NEW d \in Deployments, BeginReserve(a, d) \/ BeginRollback(a, d)
      PROVE  WithinQuota(u)
  BY <1>3, <2>2 DEF BeginReserve, BeginRollback, registryVars, rowVars
<2>3. ASSUME NEW a \in Attempts, TransactionStep(a) \/ Abort(a)
      PROVE  WithinQuota(u)
  BY <1>3, <1>5, <2>3
     DEF TransactionStep, LockServer, PlaceNode, InsufficientCapacity, CountReleased, Abort,
         registryVars, rowVars
<2>4. CASE UNCHANGED ledgerVars
  BY <1>3, <2>4 DEF ledgerVars
<2>5. "FAILED" \in Outcomes
  BY DEF Outcomes
<2> QED
  BY <1>4, <1>6, <1>7, <2>1, <2>2, <2>3, <2>4, <2>5 DEF LedgerNext
<1>9. \A a \in Attempts : tx'[a].pc = "reserve" => estado'[tx'[a].dep] = "IN_PROGRESS"
  BY ReservesInProgress
<1> QED
  BY <1>8, <1>9 DEF QuotaInv

\* A user's RESERVED rows exceed the quota only when two of the user's requests were
\* admitted before the first was placed, or the quota was lowered meanwhile
\* (admission_failure compares rows, and rows come later).
THEOREM QuotaHolds == LedgerSpec => []QuotaExceededOnlyByOverlap
<1>1. LedgerInit => QuotaInv
<2> SUFFICES ASSUME LedgerInit
             PROVE  QuotaInv
  OBVIOUS
<2>1. \A a \in Attempts : tx[a].pc # "reserve"
  BY DEF LedgerInit, Idle
<2>2. \A u \in Users : Commitments(u) = {}
  BY DEF LedgerInit, Commitments, Active
<2>3. \A u \in Users, r \in Resources : quota[u][r] \in Nat
  BY LedgerAssumption DEF LedgerInit, Amounts
<2>4. IsFiniteSet({}) /\ \A r \in Resources : SumFunctionOnSet(Demands(r), {}) = 0
  BY FS_EmptySet, SumEmpty
<2>5. ASSUME NEW u \in Users, NEW r \in Resources
      PROVE  SumFunctionOnSet(Demands(r), Commitments(u)) <= quota[u][r]
<3>1. SumFunctionOnSet(Demands(r), Commitments(u)) = 0
  BY <2>2, <2>4
<3> QED
  BY <2>3, <3>1
<2>6. \A u \in Users : IsFiniteSet(Commitments(u))
  BY <2>2, <2>4
<2> QED
  BY <2>1, <2>5, <2>6 DEF QuotaInv
<1>2. LedgerInv /\ QuotaInv => QuotaExceededOnlyByOverlap
<2> SUFFICES ASSUME LedgerInv, QuotaInv, NEW u \in Users, NEW r \in Resources,
                    ~excused[u]
             PROVE  ~(Usage(u, r) > quota[u][r])
  BY DEF QuotaExceededOnlyByOverlap
<2> DEFINE rows == {d \in Deployments : UserOf[d] = u /\ reserva[d] = "RESERVED"}
<2>1. rows \in SUBSET Commitments(u) /\ Commitments(u) \in SUBSET Deployments
  BY DEF Commitments, Active
<2>2. IsFiniteSet(Commitments(u))
      /\ SumFunctionOnSet(Demands(r), Commitments(u)) <= quota[u][r]
  BY DEF QuotaInv
<2>3. Usage(u, r) = SumFunctionOnSet(Demands(r), rows)
  BY DEF Usage, Demands
<2> HIDE DEF rows
<2>4. SumFunctionOnSet(Demands(r), rows) <= SumFunctionOnSet(Demands(r), Commitments(u))
  BY <2>1, <2>2, DemandsAreNumbers, SumSubset
<2>5. IsFiniteSet(rows) /\ rows \in SUBSET Deployments
  BY <2>1, <2>2, FS_Subset
<2>6. /\ SumFunctionOnSet(Demands(r), rows) \in Nat
      /\ SumFunctionOnSet(Demands(r), Commitments(u)) \in Nat
  BY <2>1, <2>2, <2>5, DemandsAreNumbers
<2>7. quota[u][r] \in Nat
  BY DEF LedgerInv, LedgerTypeOK, Amounts
<2> QED
  BY <2>2, <2>3, <2>4, <2>6, <2>7
<1> QED
  BY <1>1, <1>2, QuotaInductive, LedgerInvariant, PTL DEF LedgerSpec
=============================================================================

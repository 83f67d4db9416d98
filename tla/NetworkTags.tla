---------------------------- MODULE NetworkTags ----------------------------
(***************************************************************************)
(* Network resources: network_allocate and network_rollback of the Network *)
(* Manager's worker, with the rules of NetworkAllocator.                   *)
(*                                                                         *)
(* An allocation locks its deployment and slice, takes the lowest S-TAG    *)
(* free in the cluster under an advisory lock, reads what other            *)
(* deployments use, and updates its links and then its public ports one by *)
(* one.  A rollback updates links, ports and slice in this order.  Neither *)
(* looks at the state of the deployment.                                   *)
(*                                                                         *)
(* One cluster.  MACs are a hash of the port's identity and collide or do  *)
(* not: they are left out, as are the addresses of private ports, which    *)
(* are the first of their link's block.                                    *)
(***************************************************************************)
EXTENDS Integers, Sequences, FiniteSets, FiniteSetsExt

CONSTANTS Slices, Deployments, Links, Ports, Attempts,
          SliceOf,
          LinksOf,      \* the private links of a deployment, ORDER BY name
          Endpoints,    \* how many ports a private link has
          PortsOf,      \* the public ports of a deployment, in their order
          MaxTag,       \* S-TAGs 100..999, numbered from 1
          MaxCtag,      \* C-TAGs 2..1999, numbered from 1
          BlockSize,    \* addresses of private_base
          MaxIp,        \* public addresses, from the second host on
          MaxLinks,     \* 32
          NoDeployment

Sizes == {8, 16, 32, 64, 128, 256}

ASSUME NetworkAssumption ==
  /\ SliceOf \in [Deployments -> Slices]
  /\ LinksOf \in [Deployments -> Seq(Links)]
  /\ Endpoints \in [Links -> Nat \ {0}]
  /\ PortsOf \in [Deployments -> Seq(Ports)]
  /\ MaxTag \in Nat /\ MaxCtag \in Nat /\ MaxIp \in Nat /\ MaxLinks \in Nat
  /\ BlockSize \in Sizes
  /\ NoDeployment \notin Deployments
  \* Identities of links are derived from their deployment.
  /\ \A d, e \in Deployments : \A i \in 1..Len(LinksOf[d]), j \in 1..Len(LinksOf[e]) :
       LinksOf[d][i] = LinksOf[e][j] => d = e
  \* Those of ports from their link, so from their deployment, and their node.
  /\ \A d, e \in Deployments : \A i \in 1..Len(PortsOf[d]), j \in 1..Len(PortsOf[e]) :
       PortsOf[d][i] = PortsOf[e][j] => d = e /\ i = j

VARIABLES
  deployment,  \* "none", "active" (also once COMPLETED or FAILED) or "undone"
  rows,        \* the link and port rows of the deployment exist
  stag,        \* slice.vlan_stag, 0 for NULL
  owner,       \* slice.red_deployment_id
  ctag,        \* slice_enlace.vlan_ctag, 0 for NULL
  block,       \* slice_enlace.cidr as <<first address, size>>, or NoBlock
  ip,          \* slice_enlace_puerto.ip of public ports, 0 for NULL
  tx           \* the open transactions

netVars == <<deployment, rows, stag, owner, ctag, block, ip, tx>>
stored == <<stag, owner, ctag, block, ip>>

Null == 0
NoBlock == <<0, 0>>
Blocks == {b \in (0..BlockSize) \X Sizes : b[1] + b[2] <= BlockSize}

\* tag: the S-TAG taken, NULL unless the advisory lock is held; ip: the public
\* addresses chosen; links, ports: how many rows were updated.
Idle == [pc |-> "idle", dep |-> NoDeployment, tag |-> Null,
         links |-> 0, ports |-> 0, ctag |-> [l \in Links |-> Null],
         block |-> [l \in Links |-> NoBlock], ip |-> [p \in Ports |-> Null]]
AllocateSteps == {"tag", "read", "update"}
RollbackSteps == {"undo ports", "undo slice"}
Transactions ==
  [pc : {"idle"} \cup AllocateSteps \cup RollbackSteps,
   dep : Deployments \cup {NoDeployment}, tag : 0..MaxTag,
   links : Nat, ports : Nat, ctag : [Links -> 0..MaxCtag],
   block : [Links -> Blocks \cup {NoBlock}], ip : [Ports -> 0..MaxIp]]

NetworkTypeOK ==
  /\ deployment \in [Deployments -> {"none", "active", "undone"}]
  /\ rows \in [Deployments -> BOOLEAN]
  /\ stag \in [Slices -> 0..MaxTag]
  /\ owner \in [Slices -> Deployments \cup {NoDeployment}]
  /\ ctag \in [Links -> 0..MaxCtag]
  /\ block \in [Links -> Blocks \cup {NoBlock}]
  /\ ip \in [Ports -> 0..MaxIp]
  /\ tx \in [Attempts -> Transactions]

NetworkInit ==
  /\ deployment = [d \in Deployments |-> "none"]
  /\ rows = [d \in Deployments |-> FALSE]
  /\ stag = [s \in Slices |-> Null]
  /\ owner = [s \in Slices |-> NoDeployment]
  /\ ctag = [l \in Links |-> Null]
  /\ block = [l \in Links |-> NoBlock]
  /\ ip = [p \in Ports |-> Null]
  /\ tx = [a \in Attempts |-> Idle]

-----------------------------------------------------------------------------
LinkSet(d) == {LinksOf[d][i] : i \in 1..Len(LinksOf[d])}
PortSet(d) == {PortsOf[d][i] : i \in 1..Len(PortsOf[d])}

\* The links and ports an allocation finds: none where the rows are gone.
LinksOfTx(a) == IF rows[tx[a].dep] THEN LinksOf[tx[a].dep] ELSE <<>>
PortsOfTx(a) == IF rows[tx[a].dep] THEN PortsOf[tx[a].dep] ELSE <<>>

\* Rows that open transactions hold.
HoldsSlice(a, s) == tx[a].pc \in AllocateSteps /\ SliceOf[tx[a].dep] = s
HoldsLinks(a, d) == tx[a].dep = d /\ (tx[a].pc \in RollbackSteps \/ tx[a].links > 0)
HoldsPorts(a, d) == tx[a].dep = d /\ (tx[a].pc = "undo slice" \/ tx[a].ports > 0)
HoldsRows(a, d) == HoldsSlice(a, SliceOf[d]) \/ HoldsLinks(a, d) \/ HoldsPorts(a, d)

\* Entries of uq_puerto_ip_publica: the new and the replaced address of each
\* port the transaction has updated.
Touches(a, x) ==
  /\ x # Null
  /\ \E i \in 1..tx[a].ports :
       LET p == PortsOf[tx[a].dep][i] IN x \in {tx[a].ip[p], ip[p]}

-----------------------------------------------------------------------------
\* The registry's part: deployments come and go, and their rows with them.

RequestDeployment(d) ==
  /\ deployment[d] = "none"
  /\ \A e \in Deployments : SliceOf[e] = SliceOf[d] => deployment[e] \in {"none", "undone"}
  /\ \A a \in Attempts : ~HoldsSlice(a, SliceOf[d])
  /\ deployment' = [deployment EXCEPT ![d] = "active"]
  /\ UNCHANGED <<rows, stored, tx>>

CreateInventory(d) ==
  /\ deployment[d] # "none" /\ ~rows[d]
  /\ \A a \in Attempts : ~HoldsRows(a, d)
  /\ rows' = [rows EXCEPT ![d] = TRUE]
  /\ UNCHANGED <<deployment, stored, tx>>

\* finish_deployment, COMPENSATED or REJECTED: the links are deleted, and their
\* ports with them.  COMPLETED and FAILED keep the rows, and the slice for themselves.
FinishUndone(d) ==
  /\ deployment[d] = "active" /\ \A a \in Attempts : ~HoldsRows(a, d)
  /\ deployment' = [deployment EXCEPT ![d] = "undone"]
  /\ rows' = [rows EXCEPT ![d] = FALSE]
  /\ ctag' = [l \in Links |-> IF l \in LinkSet(d) THEN Null ELSE ctag[l]]
  /\ block' = [l \in Links |-> IF l \in LinkSet(d) THEN NoBlock ELSE block[l]]
  /\ ip' = [p \in Ports |-> IF p \in PortSet(d) THEN Null ELSE ip[p]]
  /\ UNCHANGED <<stag, owner, tx>>

-----------------------------------------------------------------------------
\* network_allocate.

\* SELECT ... FOR UPDATE OF d, s.
BeginAllocate(a, d) ==
  LET s == SliceOf[d] IN
  /\ tx[a] = Idle /\ deployment[d] # "none"
  /\ \A b \in Attempts : ~HoldsSlice(b, s)
  /\ tx' = [tx EXCEPT ![a].dep = d, ![a].pc = IF stag[s] = Null THEN "tag" ELSE "read"]
  /\ UNCHANGED <<deployment, rows, stored>>

HoldsCluster(a) == tx[a].tag # Null
FreeTags == (1..MaxTag) \ {stag[s] : s \in Slices}

\* Mutant: no advisory lock.
MutTakeTagUnlocked(a) ==
  /\ tx[a].pc = "tag"
  /\ FreeTags # {}
  /\ tx' = [tx EXCEPT ![a].pc = "read", ![a].tag = Min(FreeTags)]
  /\ UNCHANGED <<deployment, rows, stored>>

\* pg_advisory_xact_lock(cluster) and the lowest free tag; without one the
\* transaction fails (Abort).
TakeTag(a) ==
  /\ tx[a].pc = "tag" /\ \A b \in Attempts : ~HoldsCluster(b)
  /\ FreeTags # {}
  /\ tx' = [tx EXCEPT ![a].pc = "read", ![a].tag = Min(FreeTags)]
  /\ UNCHANGED <<deployment, rows, stored>>

\* Mutant: the addresses of the own deployment count as used.
MutOthersAddresses(d) == {ip[p] : p \in Ports} \ {Null}

\* used_ips: without a lock on the other slices.
OthersAddresses(d) == {ip[p] : p \in Ports \ PortSet(d)} \ {Null}

FreeAddresses(d) == (1..MaxIp) \ OthersAddresses(d)
\* The nth of a set of addresses, upwards.
Nth(free, n) == CHOOSE x \in free : Cardinality({y \in free : y <= x}) = n

\* Mutant: the free addresses are walked in no particular order.
MutReadUsedUnordered(a) ==
  LET d == tx[a].dep
      ports == {PortsOfTx(a)[i] : i \in 1..Len(PortsOfTx(a))}
  IN
  /\ tx[a].pc = "read" /\ Len(LinksOfTx(a)) <= MaxLinks
  /\ \E plan \in [Ports -> 0..MaxIp] :
       /\ \A p \in Ports : IF p \in ports THEN plan[p] \in FreeAddresses(d) ELSE plan[p] = Null
       /\ \A p, q \in ports : p # q => plan[p] # plan[q]
       /\ tx' = [tx EXCEPT ![a].pc = "update", ![a].ip = plan]
  /\ UNCHANGED <<deployment, rows, stored>>

\* The reads, and _allocate_public_ips: the lowest addresses, upwards.
ReadUsed(a) ==
  LET ports == PortsOfTx(a)
      free == FreeAddresses(tx[a].dep)
  IN
  /\ tx[a].pc = "read" /\ Len(LinksOfTx(a)) <= MaxLinks
  /\ Len(ports) <= Cardinality(free)
  /\ tx' = [tx EXCEPT ![a].pc = "update", ![a].ip = [p \in Ports |->
       IF \E i \in 1..Len(ports) : ports[i] = p
       THEN Nth(free, CHOOSE i \in 1..Len(ports) : ports[i] = p) ELSE Null]]
  /\ UNCHANGED <<deployment, rows, stored>>

\* How far the updates are: links first, then ports.
AtLink(a) == tx[a].pc = "update" /\ tx[a].links < Len(LinksOfTx(a))
AtPort(a) ==
  /\ tx[a].pc = "update" /\ tx[a].links = Len(LinksOfTx(a))
  /\ tx[a].ports < Len(PortsOfTx(a))
Updated(a) ==
  /\ tx[a].pc = "update" /\ tx[a].links = Len(LinksOfTx(a))
  /\ tx[a].ports = Len(PortsOfTx(a))

\* Links of the slice whose blocks and C-TAGs are taken: those of other
\* deployments, and those this allocation has just placed.
OtherLinks(d) ==
  UNION {LinkSet(e) : e \in {f \in Deployments \ {d} : SliceOf[f] = SliceOf[d]}}
UsedBlocks(a) ==
  ({block[l] : l \in OtherLinks(tx[a].dep)} \cup {tx[a].block[l] : l \in Links}) \ {NoBlock}
UsedCtags(a) ==
  {ctag[l] : l \in OtherLinks(tx[a].dep)} \cup {tx[a].ctag[l] : l \in Links}

FreeCtags(a) == (1..MaxCtag) \ UsedCtags(a)

\* _private_prefix: twice the smallest power of two with room for the ports, the
\* network and the broadcast address, and no more than the base.
Fitting(n) == {z \in Sizes \cup {4} : z >= n + 2}
PrivateSize(n) ==
  IF Fitting(n) = {} \/ 2 * Min(Fitting(n)) > BlockSize THEN BlockSize ELSE 2 * Min(Fitting(n))

Overlap(x, y) == x[1] < y[1] + y[2] /\ y[1] < x[1] + x[2]

\* Mutant: only an equal block counts as used.
MutFreeBlocks(a, z, start) ==
  {b \in Blocks : b[2] = z /\ b[1] % z = 0 /\ b[1] >= start /\ b \notin UsedBlocks(a)}

\* Mutant: a block may lie beyond the base.
MutFreeBlocksPastEnd(a, z, start) ==
  {b \in (0..BlockSize) \X {z} : b[1] % z = 0 /\ b[1] >= start
                                 /\ \A u \in UsedBlocks(a) : ~Overlap(b, u)}

\* _first_free_subnet takes the first of these; start: where the last one began.
FreeBlocks(a, z, start) ==
  {b \in Blocks : b[2] = z /\ b[1] % z = 0 /\ b[1] >= start
                  /\ \A u \in UsedBlocks(a) : ~Overlap(b, u)}
FirstBlock(free) == CHOOSE b \in free : \A c \in free : b[1] <= c[1]
LastStart(a) ==
  IF tx[a].links = 0 THEN 0 ELSE tx[a].block[LinksOf[tx[a].dep][tx[a].links]][1]

AllocateLink(a) ==
  LET l == LinksOf[tx[a].dep][tx[a].links + 1]
      size == PrivateSize(Endpoints[l])
      free == FreeBlocks(a, size, LastStart(a))
  IN
  /\ AtLink(a)
  /\ \A b \in Attempts \ {a} : ~HoldsLinks(b, tx[a].dep)
  /\ free # {} /\ FreeCtags(a) # {} /\ size >= Endpoints[l] + 2
  /\ tx' = [tx EXCEPT ![a].links = @ + 1, ![a].block[l] = FirstBlock(free),
                      ![a].ctag[l] = Min(FreeCtags(a))]
  /\ UNCHANGED <<deployment, rows, stored>>

NextPort(a) == PortsOf[tx[a].dep][tx[a].ports + 1]
NextAddress(a) == tx[a].ip[NextPort(a)]
\* The address of a port as the transaction sees it.
Entry(a, q) ==
  IF \E i \in 1..tx[a].ports : PortsOf[tx[a].dep][i] = q THEN tx[a].ip[q] ELSE ip[q]

\* The index makes the UPDATE wait for a transaction that touched the address,
\* and refuses an address that another port has.
UpdatePort(a) ==
  /\ AtPort(a)
  /\ \A b \in Attempts \ {a} : ~HoldsPorts(b, tx[a].dep) /\ ~Touches(b, NextAddress(a))
  /\ \A q \in Ports : NextAddress(a) = Entry(a, q) => q = NextPort(a)
  /\ tx' = [tx EXCEPT ![a].ports = @ + 1]
  /\ UNCHANGED <<deployment, rows, stored>>

TagTaken(a) ==
  tx[a].tag # Null /\ \E s \in Slices \ {SliceOf[tx[a].dep]} : stag[s] = tx[a].tag

CommitAllocate(a) ==
  LET d == tx[a].dep
      s == SliceOf[d]
  IN
  /\ Updated(a) /\ ~TagTaken(a)
  /\ stag' = [stag EXCEPT ![s] = IF tx[a].tag = Null THEN @ ELSE tx[a].tag]
  /\ owner' = [owner EXCEPT ![s] = IF tx[a].tag = Null THEN @ ELSE d]
  /\ ctag' = [l \in Links |-> IF tx[a].ctag[l] # Null THEN tx[a].ctag[l] ELSE ctag[l]]
  /\ block' = [l \in Links |-> IF tx[a].block[l] # NoBlock THEN tx[a].block[l] ELSE block[l]]
  /\ ip' = [p \in Ports |-> IF tx[a].ip[p] # Null THEN tx[a].ip[p] ELSE ip[p]]
  /\ tx' = [tx EXCEPT ![a] = Idle]
  /\ UNCHANGED <<deployment, rows>>

-----------------------------------------------------------------------------
\* network_rollback.

BeginRollback(a, d) ==
  /\ tx[a] = Idle /\ deployment[d] # "none"
  /\ \A b \in Attempts : ~HoldsLinks(b, d)
  /\ tx' = [tx EXCEPT ![a].dep = d, ![a].pc = "undo ports"]
  /\ UNCHANGED <<deployment, rows, stored>>

UndoPorts(a) ==
  /\ tx[a].pc = "undo ports"
  /\ \A b \in Attempts \ {a} : ~HoldsPorts(b, tx[a].dep)
  /\ tx' = [tx EXCEPT ![a].pc = "undo slice"]
  /\ UNCHANGED <<deployment, rows, stored>>

\* The slice's row is looked for, and waited for, where the deployment owns it.
CommitRollback(a) ==
  LET d == tx[a].dep
      s == SliceOf[d]
  IN
  /\ tx[a].pc = "undo slice"
  /\ owner[s] = d => \A b \in Attempts \ {a} : ~HoldsSlice(b, s)
  /\ ctag' = [l \in Links |-> IF l \in LinkSet(d) THEN Null ELSE ctag[l]]
  /\ block' = [l \in Links |-> IF l \in LinkSet(d) THEN NoBlock ELSE block[l]]
  /\ ip' = [p \in Ports |-> IF p \in PortSet(d) THEN Null ELSE ip[p]]
  /\ stag' = [stag EXCEPT ![s] = IF owner[s] = d THEN Null ELSE @]
  /\ owner' = [owner EXCEPT ![s] = IF @ = d THEN NoDeployment ELSE @]
  /\ tx' = [tx EXCEPT ![a] = Idle]
  /\ UNCHANGED <<deployment, rows>>

\* A pool is exhausted, an index refuses a row, the server breaks a deadlock, or
\* the process is lost.
Abort(a) ==
  /\ tx[a] # Idle
  /\ tx' = [tx EXCEPT ![a] = Idle]
  /\ UNCHANGED <<deployment, rows, stored>>

-----------------------------------------------------------------------------
AttemptStep(a) ==
  \/ \E d \in Deployments : BeginAllocate(a, d) \/ BeginRollback(a, d)
  \/ TakeTag(a) \/ ReadUsed(a) \/ AllocateLink(a) \/ UpdatePort(a)
  \/ CommitAllocate(a)
  \/ UndoPorts(a) \/ CommitRollback(a)
  \/ Abort(a)

NetworkNext ==
  \/ \E d \in Deployments :
       RequestDeployment(d) \/ CreateInventory(d) \/ FinishUndone(d)
  \/ \E a \in Attempts : AttemptStep(a)

NetworkSpec == NetworkInit /\ [][NetworkNext]_netVars

-----------------------------------------------------------------------------
\* The advisory lock alone keeps slices from taking the same S-TAG: the unique
\* index never refuses one.
TagLockSuffices == \A a \in Attempts : ~TagTaken(a)

\* The private links of a slice never overlap, those of a deployment that
\* runs late included: no index would notice that one block contains another.
PrivateSpaceDisjoint ==
  \A d, e \in Deployments : SliceOf[d] = SliceOf[e] =>
    \A k \in LinkSet(d), l \in LinkSet(e) :
      k # l /\ block[k] # NoBlock /\ block[l] # NoBlock =>
        ~Overlap(block[k], block[l]) /\ ctag[k] # ctag[l]

\* Repeating network_allocate never moves a public port to a higher address: the
\* address it has stays available to it.
RerunOnlyLowers ==
  [][\A p \in Ports : ip[p] # Null /\ ip'[p] # Null => ip'[p] <= ip[p]]_netVars

\* What an attempt is waiting for.
WaitsFor(a, b) ==
  LET d == tx[a].dep IN
  /\ a # b
  /\ \/ tx[a].pc = "tag" /\ HoldsCluster(b)
     \/ AtLink(a) /\ HoldsLinks(b, d)
     \/ /\ AtPort(a)
        /\ HoldsPorts(b, d) \/ Touches(b, NextAddress(a))
     \/ tx[a].pc = "undo ports" /\ HoldsPorts(b, d)
     \/ tx[a].pc = "undo slice" /\ owner[SliceOf[d]] = d /\ HoldsSlice(b, SliceOf[d])

\* b has moved a port away from address x, which nobody gets before b ends.
GivesUp(b, x) ==
  \E i \in 1..tx[b].ports :
    LET p == PortsOf[tx[b].dep][i] IN ip[p] = x /\ tx[b].ip[p] # x

\* Attempts that all wait for one another include an allocation and a rollback of
\* the same deployment, or a repeated allocation that moves a port: first
\* allocations of different deployments never deadlock, though they meet on
\* addresses they chose without a lock.
DeadlocksHaveACause ==
  \A waiting \in (SUBSET Attempts) \ {{}} :
    (\A a \in waiting : \E b \in waiting : WaitsFor(a, b)) =>
      \E a, b \in waiting :
        \/ /\ tx[a].dep = tx[b].dep
           /\ tx[a].pc \in AllocateSteps /\ tx[b].pc \in RollbackSteps
        \/ AtPort(a) /\ GivesUp(b, NextAddress(a))
=============================================================================

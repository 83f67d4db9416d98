-------------------------- MODULE NetworkTagsProofs -------------------------
(***************************************************************************)
(* Proofs, for any number of slices, deployments, links and overlapping    *)
(* attempts, that no two slices take the same S-TAG, no two links of a     *)
(* slice overlap, repeated allocations only lower public addresses, and    *)
(* transactions deadlock for one of two reasons only.                      *)
(*                                                                         *)
(* The argument: the slice's row makes an allocation the only one of its   *)
(* slice (OneAllocation), so the blocks and C-TAGs it read are only ever   *)
(* given back meanwhile; the advisory lock makes it the only one that      *)
(* holds a tag not yet stored (OneTag).                                    *)
(*                                                                         *)
(* Public ports need a second invariant on top (PortInv): plans go upwards *)
(* and start from what is free, the own addresses included, so they never  *)
(* exceed them (NthBelow).  An allocation that waits for an address holds  *)
(* lower ones only: transactions that wait for one another would want ever *)
(* higher addresses.                                                       *)
(***************************************************************************)
EXTENDS NetworkTags, NumberFacts, FiniteSetTheorems, TLAPS

Apart(b, t, c, u) == ~Overlap(b, c) /\ t # u

\* The links transaction x has placed: the first x.links of its deployment, apart
\* from one another and from those of the slice's other deployments.
Placed(x) ==
  /\ x.links # 0 =>
       /\ x.pc = "update" /\ x.dep \in Deployments /\ rows[x.dep]
       /\ x.links <= Len(LinksOf[x.dep])
  /\ \A l \in Links :
       /\ x.block[l] # NoBlock <=> \E i \in 1..x.links : LinksOf[x.dep][i] = l
       /\ x.block[l] # NoBlock <=> x.ctag[l] # Null
  /\ \A k, l \in Links : k # l /\ x.block[k] # NoBlock /\ x.block[l] # NoBlock =>
       Apart(x.block[k], x.ctag[k], x.block[l], x.ctag[l])
  /\ \A k \in Links, l \in OtherLinks(x.dep) : x.block[k] # NoBlock /\ block[l] # NoBlock =>
       Apart(x.block[k], x.ctag[k], block[l], ctag[l])

TxOK(x) ==
  /\ x.pc = "idle" => x = Idle
  /\ x.pc # "idle" => x.dep \in Deployments
  /\ x.tag # Null =>
       /\ x.pc \in {"read", "update"}
       /\ \A s \in Slices \ {SliceOf[x.dep]} : stag[s] # x.tag
  /\ Placed(x)

OneAllocation ==
  \A a, b \in Attempts :
    /\ tx[a].pc \in AllocateSteps /\ tx[b].pc \in AllocateSteps
    /\ SliceOf[tx[a].dep] = SliceOf[tx[b].dep]
    => a = b
OneTag == \A a, b \in Attempts : tx[a].tag # Null /\ tx[b].tag # Null => a = b

NetworkInv ==
  /\ NetworkTypeOK /\ OneAllocation /\ OneTag /\ PrivateSpaceDisjoint
  /\ \A a \in Attempts : TxOK(tx[a])

-----------------------------------------------------------------------------
\* What the allocator's helpers return.

\* Blocks are apart both ways or not at all.
LEMMA OverlapSymmetric ==
  ASSUME NEW b, NEW c, NEW t, NEW u
  PROVE  Apart(b, t, c, u) <=> Apart(c, u, b, t)
  BY DEF Apart, Overlap

\* The first free block is one of the free ones.
LEMMA FirstIsFree ==
  ASSUME NEW free \in SUBSET Blocks, free # {}
  PROVE  FirstBlock(free) \in free
<1> DEFINE starts == {b[1] : b \in free}
<1>1. \A b \in free : b[1] \in Nat
  BY NetworkAssumption DEF Blocks, Sizes
<1>2. starts \in SUBSET Nat /\ starts # {}
  BY <1>1
<1>3. Min(starts) \in starts /\ \A y \in starts : Min(starts) <= y
  BY <1>2, LeastNumber
<1>4. PICK b \in free : b[1] = Min(starts)
  BY <1>3
<1>5. \A c \in free : b[1] <= c[1]
  BY <1>3, <1>4
<1> QED
  BY <1>5 DEF FirstBlock

Upto(free, x) == {y \in free : y <= x}

\* The nth of a finite set of numbers exists: a least n without one leads to the
\* one after the (n - 1)th.
LEMMA NthExists ==
  ASSUME NEW free \in SUBSET Nat, IsFiniteSet(free),
         NEW n \in 1..Cardinality(free)
  PROVE  Nth(free, n) \in free /\ Cardinality(Upto(free, Nth(free, n))) = n
<1> DEFINE upto(x) == Upto(free, x)
           missing == {m \in 1..Cardinality(free) : \A x \in free : Cardinality(upto(x)) # m}
<1>1. Cardinality(free) \in Nat
  BY FS_CardinalityType
<1>2. \A x : IsFiniteSet(upto(x))
  BY FS_Subset DEF Upto
<1>3. missing = {}
  <2>1. SUFFICES ASSUME missing # {} PROVE FALSE
    OBVIOUS
  <2>2. missing \in SUBSET Nat
    BY <1>1
  <2> DEFINE m == Min(missing)
  <2>3. m \in missing /\ \A k \in missing : m <= k
    BY <2>1, <2>2, LeastNumber
  <2> HIDE DEF missing
  <2>4. m \in 1..Cardinality(free) /\ \A x \in free : Cardinality(upto(x)) # m
    BY <2>3 DEF missing
  <2> HIDE DEF m
  <2>5. \E before \in SUBSET free :
          /\ Cardinality(before) = m - 1
          /\ \A y \in before, z \in free \ before : y < z
    <3>1. CASE m = 1
      BY <3>1, FS_EmptySet
    <3>2. CASE m # 1
      <4>1. m - 1 \in 1..Cardinality(free)
        BY <1>1, <2>4, <3>2
      <4>2. m - 1 \notin missing
        BY <2>2, <2>3, <2>4, <4>1
      <4>3. PICK x \in free : Cardinality(upto(x)) = m - 1
        BY <4>1, <4>2 DEF missing
      <4>4. \A y \in upto(x), z \in free \ upto(x) : y < z
        BY DEF Upto
      <4>5. upto(x) \in SUBSET free
        BY DEF Upto
      <4> QED
        BY <4>3, <4>4, <4>5
    <3> QED
      BY <3>1, <3>2
  <2>6. PICK before \in SUBSET free :
          /\ Cardinality(before) = m - 1
          /\ \A y \in before, z \in free \ before : y < z
    BY <2>5
  <2>7. free \ before # {}
    <3>1. Cardinality(before) # Cardinality(free)
      BY <1>1, <2>4, <2>6
    <3>2. SUFFICES ASSUME free \ before = {} PROVE FALSE
      OBVIOUS
    <3>3. \A y : y \in free <=> y \in before
      BY <3>2, <2>6
    <3> QED
      BY <3>1, <3>3
  <2> DEFINE z == Min(free \ before)
  <2>8. z \in free \ before /\ \A y \in free \ before : z <= y
    BY <2>7, LeastNumber
  <2> HIDE DEF z
  <2>9. upto(z) = before \cup {z}
    <3>1. \A y \in before : y < z
      BY <2>6, <2>8
    <3>2. \A y \in free \ before : y <= z <=> y = z
      BY <2>8
    <3>3. \A y \in free : y <= z <=> y \in before \cup {z}
      BY <2>8, <3>1, <3>2
    <3>4. before \cup {z} \in SUBSET free
      BY <2>6, <2>8
    <3> QED
      BY <3>3, <3>4 DEF Upto
  <2>10. IsFiniteSet(before)
    BY FS_Subset
  <2>11. Cardinality(before \cup {z}) = m
    <3>1. Cardinality(before \cup {z}) = Cardinality(before) + 1
      BY <2>8, <2>10, FS_AddElement
    <3> QED
      BY <1>1, <2>4, <2>6, <3>1
  <2> QED
    BY <2>4, <2>8, <2>9, <2>11
<1>4. \E x \in free : Cardinality(upto(x)) = n
  BY <1>3
<1> QED
  BY <1>4 DEF Nth, Upto

\* Among the addresses, the nth is the first with n addresses up to it.
LEMMA NthIsFirst ==
  ASSUME NEW free \in SUBSET Nat, IsFiniteSet(free), NEW n \in 1..Cardinality(free),
         NEW z \in Nat, Cardinality(Upto(free, z)) >= n
  PROVE  Nth(free, n) <= z
<1> DEFINE nth == Nth(free, n)
<1>1. nth \in free /\ nth \in Nat /\ Cardinality(Upto(free, nth)) = n
  BY NthExists
<1>2. IsFiniteSet(Upto(free, nth)) /\ IsFiniteSet(Upto(free, z))
  BY FS_Subset DEF Upto
<1> HIDE DEF nth
<1>3. SUFFICES ASSUME z < nth PROVE FALSE
  BY <1>1 DEF nth
<1>4. Upto(free, z) \in SUBSET Upto(free, nth)
  <2>1. ASSUME NEW y \in free, y <= z PROVE y <= nth
    <3>1. y \in Nat
      OBVIOUS
    <3> QED
      BY <1>1, <1>3, <2>1, <3>1
  <2> QED
    BY <2>1 DEF Upto
<1>5. /\ Cardinality(Upto(free, z)) \in Nat
      /\ Cardinality(Upto(free, z)) <= Cardinality(Upto(free, nth))
      /\ Cardinality(Upto(free, nth)) = Cardinality(Upto(free, z)) =>
           Upto(free, nth) = Upto(free, z)
  BY <1>2, <1>4, FS_Subset, FS_CardinalityType
<1>6. n \in Nat
  BY FS_CardinalityType
<1>7. Upto(free, nth) = Upto(free, z)
  BY <1>1, <1>5, <1>6
<1>8. nth \in Upto(free, nth) /\ nth \notin Upto(free, z)
  BY <1>1, <1>3 DEF Upto
<1> QED
  BY <1>7, <1>8

\* Addresses are handed out upwards.
LEMMA NthAscends ==
  ASSUME NEW free \in SUBSET Nat, IsFiniteSet(free),
         NEW m \in 1..Cardinality(free), NEW n \in 1..Cardinality(free), m < n
  PROVE  Nth(free, m) < Nth(free, n)
<1> DEFINE mth == Nth(free, m)
           nth == Nth(free, n)
<1>1. /\ mth \in Nat /\ Cardinality(Upto(free, mth)) = m
      /\ nth \in Nat /\ Cardinality(Upto(free, nth)) = n
  BY NthExists
<1>2. m \in Nat /\ n \in Nat
  BY FS_CardinalityType
<1>3. mth <= nth
  <2> HIDE DEF nth
  <2> QED
    BY <1>1, <1>2, NthIsFirst
<1>4. mth # nth
  BY <1>1, <1>2
<1> QED
  BY <1>1, <1>3, <1>4

\* Whoever has n addresses among the free ones, each at most z, is given nothing
\* above z for its nth.
LEMMA NthBelow ==
  ASSUME NEW free \in SUBSET Nat, IsFiniteSet(free), NEW n \in 1..Cardinality(free),
         NEW z \in Nat, NEW own \in [1..n -> free],
         \A i, j \in 1..n : i < j => own[i] < own[j], \A i \in 1..n : own[i] <= z
  PROVE  Nth(free, n) <= z
<1>1. IsFiniteSet(Upto(free, z))
  BY FS_Subset DEF Upto
<1>2. n \in Nat /\ Cardinality(Upto(free, z)) \in Nat
  BY <1>1, FS_CardinalityType
<1>3. SUFFICES ASSUME Cardinality(Upto(free, z)) < n PROVE FALSE
  BY <1>2, NthIsFirst
<1>4. IsFiniteSet(1..n) /\ Cardinality(1..n) = n
  BY <1>2, FS_Interval
<1>5. own \in [1..n -> Upto(free, z)]
  BY DEF Upto
<1>6. PICK i, j \in 1..n : i # j /\ own[i] = own[j]
  BY <1>1, <1>3, <1>4, <1>5, FS_PigeonHole
<1>7. i \in Nat /\ j \in Nat /\ own[i] \in Nat
  <2>1. \A k \in 1..n : k \in Nat
    BY <1>2
  <2>2. own[i] \in free
    BY <1>6
  <2> QED
    BY <2>1, <2>2
<1>8. own[i] < own[j] \/ own[j] < own[i]
  BY <1>6, <1>7
<1> QED
  BY <1>6, <1>7, <1>8

-----------------------------------------------------------------------------
\* Steps that change one transaction only.

\* A transaction that has placed nothing has its links in order.
LEMMA NothingPlaced ==
  ASSUME NEW x, x.links = 0, \A l \in Links : x.block[l] = NoBlock /\ x.ctag[l] = Null
  PROVE  Placed(x)
<1>1. \A i \in 1..x.links : FALSE
  OBVIOUS
<1> QED
  BY <1>1 DEF Placed

LEMMA IdleIsOK == Idle \in Transactions /\ TxOK(Idle)
<1>1. Idle \in Transactions
  BY NetworkAssumption DEF Idle, Transactions, Null
<1>2. /\ Idle.pc = "idle" /\ Idle.tag = Null /\ Idle.links = 0
      /\ \A l \in Links : Idle.block[l] = NoBlock /\ Idle.ctag[l] = Null
  BY DEF Idle
<1>3. Placed(Idle)
  BY <1>2, NothingPlaced
<1> QED
  BY <1>1, <1>2, <1>3 DEF TxOK

\* A transaction may move to any state that is in order, if no other one allocates
\* for its slice or holds a tag where it does.
LEMMA TxChange ==
  ASSUME NetworkInv, NEW a \in Attempts, NEW next \in Transactions, TxOK(next),
         tx' = [tx EXCEPT ![a] = next], UNCHANGED <<deployment, rows, stored>>,
         next.pc \in AllocateSteps =>
           \A b \in Attempts \ {a} : ~HoldsSlice(b, SliceOf[next.dep]),
         next.tag # Null => \A b \in Attempts \ {a} : tx[b].tag = Null
  PROVE  NetworkInv'
<1>1. /\ deployment' = deployment /\ rows' = rows /\ stag' = stag /\ owner' = owner
      /\ ctag' = ctag /\ block' = block /\ ip' = ip
  BY DEF stored
<1>2. tx \in [Attempts -> Transactions]
  BY DEF NetworkInv, NetworkTypeOK
<1>3. tx'[a] = next /\ \A b \in Attempts \ {a} : tx'[b] = tx[b]
  BY <1>2
<1>4. NetworkTypeOK'
  BY <1>1, <1>2 DEF NetworkInv, NetworkTypeOK
<1>5. OneAllocation'
  BY <1>3 DEF NetworkInv, OneAllocation, HoldsSlice
<1>6. OneTag'
  BY <1>3 DEF NetworkInv, OneTag
<1>7. PrivateSpaceDisjoint'
  BY <1>1 DEF NetworkInv, PrivateSpaceDisjoint, Overlap, LinkSet
<1>8. ASSUME NEW x, TxOK(x) PROVE TxOK(x)'
  BY <1>1, <1>8 DEF TxOK, Placed, OtherLinks, LinkSet, Apart, Overlap
<1>9. \A b \in Attempts : TxOK(tx[b])'
  <2>1. \A b \in Attempts : TxOK(tx'[b])
    BY <1>3 DEF NetworkInv
  <2> QED
    BY <1>1, <2>1 DEF TxOK, Placed, OtherLinks, LinkSet, Apart, Overlap
<1> QED
  BY <1>4, <1>5, <1>6, <1>7, <1>9 DEF NetworkInv

LEMMA BeginAllocateKeeps ==
  ASSUME NetworkInv, NEW a \in Attempts, NEW d \in Deployments, BeginAllocate(a, d)
  PROVE  NetworkInv'
<1> DEFINE step == IF stag[SliceOf[d]] = Null THEN "tag" ELSE "read"
           next == [Idle EXCEPT !.dep = d, !.pc = step]
<1>1. tx \in [Attempts -> Transactions] /\ tx[a] = Idle
  BY DEF NetworkInv, NetworkTypeOK, BeginAllocate
<1>2. step \in {"tag", "read"}
  OBVIOUS
<1>3. /\ next.pc = step /\ next.dep = d /\ next.tag = Null /\ next.links = 0
      /\ \A l \in Links : next.block[l] = NoBlock /\ next.ctag[l] = Null
  BY DEF Idle
<1>4. next \in Transactions
  BY <1>2, IdleIsOK DEF Transactions, AllocateSteps
<1>5. tx' = [tx EXCEPT ![a] = next] /\ UNCHANGED <<deployment, rows, stored>>
  BY <1>1 DEF BeginAllocate
<1>6. \A b \in Attempts \ {a} : ~HoldsSlice(b, SliceOf[d])
  BY DEF BeginAllocate
<1> HIDE DEF step, next
<1>7. Placed(next)
  BY <1>3, NothingPlaced
<1>8. TxOK(next)
  BY <1>2, <1>3, <1>7 DEF TxOK
<1> QED
  BY <1>3, <1>4, <1>5, <1>6, <1>8, TxChange

LEMMA BeginRollbackKeeps ==
  ASSUME NetworkInv, NEW a \in Attempts, NEW d \in Deployments, BeginRollback(a, d)
  PROVE  NetworkInv'
<1> DEFINE next == [Idle EXCEPT !.dep = d, !.pc = "undo ports"]
<1>1. tx \in [Attempts -> Transactions] /\ tx[a] = Idle
  BY DEF NetworkInv, NetworkTypeOK, BeginRollback
<1>2. /\ next.pc = "undo ports" /\ next.dep = d /\ next.tag = Null /\ next.links = 0
      /\ \A l \in Links : next.block[l] = NoBlock /\ next.ctag[l] = Null
  BY DEF Idle
<1>3. next \in Transactions
  BY IdleIsOK DEF Transactions, RollbackSteps
<1>4. tx' = [tx EXCEPT ![a] = next] /\ UNCHANGED <<deployment, rows, stored>>
  BY <1>1 DEF BeginRollback
<1> HIDE DEF next
<1>5. Placed(next)
  BY <1>2, NothingPlaced
<1>6. TxOK(next)
  BY <1>2, <1>5 DEF TxOK
<1> QED
  BY <1>2, <1>3, <1>4, <1>6, TxChange DEF AllocateSteps

\* A transaction in the middle of an allocation keeps the slice for itself.
LEMMA StillAlone ==
  ASSUME NetworkInv, NEW a \in Attempts, tx[a].pc \in AllocateSteps
  PROVE  \A b \in Attempts \ {a} : ~HoldsSlice(b, SliceOf[tx[a].dep])
BY DEF NetworkInv, OneAllocation, HoldsSlice

\* The lock of the cluster, or the tag of a transaction, is no other one's.
LEMMA StillTagged ==
  ASSUME NetworkInv, NEW a \in Attempts
  PROVE  tx[a].tag # Null => \A b \in Attempts \ {a} : tx[b].tag = Null
BY DEF NetworkInv, OneTag

LEMMA TakeTagKeeps ==
  ASSUME NetworkInv, NEW a \in Attempts, TakeTag(a)
  PROVE  NetworkInv'
<1> DEFINE x == tx[a]
           tag == Min(FreeTags)
           next == [x EXCEPT !.pc = "read", !.tag = tag]
<1>1. tx \in [Attempts -> Transactions] /\ x \in Transactions /\ TxOK(x)
  BY DEF NetworkInv, NetworkTypeOK
<1>2. FreeTags \in SUBSET Nat /\ FreeTags # {}
  BY DEF TakeTag, FreeTags
<1>3. tag \in FreeTags
  BY <1>2, LeastNumber
<1>4. tag \in 0..MaxTag /\ \A s \in Slices : stag[s] # tag
  <2> HIDE DEF tag
  <2> QED
    BY <1>3, NetworkAssumption DEF FreeTags
<1>5. x.pc = "tag" /\ \A b \in Attempts : tx[b].tag = Null
  BY DEF TakeTag, HoldsCluster
<1>6. tx' = [tx EXCEPT ![a] = next] /\ UNCHANGED <<deployment, rows, stored>>
  BY <1>1 DEF TakeTag
<1> HIDE DEF x, tag
<1>7. /\ next.pc = "read" /\ next.dep = x.dep /\ next.tag = tag /\ next.links = x.links
      /\ next.block = x.block /\ next.ctag = x.ctag
  BY <1>1 DEF Transactions
<1>8. next \in Transactions
  BY <1>1, <1>4 DEF Transactions, AllocateSteps
<1> HIDE DEF next
<1>9. Placed(x) /\ x.links = 0 /\ x.dep \in Deployments
  BY <1>1, <1>5 DEF TxOK, Placed
<1>10. Placed(next)
  BY <1>7, <1>9 DEF Placed
<1>11. TxOK(next)
  BY <1>4, <1>7, <1>9, <1>10 DEF TxOK
<1>12. \A b \in Attempts \ {a} : ~HoldsSlice(b, SliceOf[x.dep])
  BY <1>5, StillAlone DEF AllocateSteps, x
<1> QED
  BY <1>5, <1>6, <1>7, <1>8, <1>11, <1>12, TxChange

LEMMA ReadUsedKeeps ==
  ASSUME NetworkInv, NEW a \in Attempts, ReadUsed(a)
  PROVE  NetworkInv'
<1> DEFINE x == tx[a]
           ports == PortsOfTx(a)
           free == FreeAddresses(x.dep)
           place(p) == CHOOSE i \in 1..Len(ports) : ports[i] = p
           plan == [p \in Ports |-> IF \E i \in 1..Len(ports) : ports[i] = p
                                    THEN Nth(free, place(p)) ELSE Null]
           next == [x EXCEPT !.pc = "update", !.ip = plan]
<1>1. tx \in [Attempts -> Transactions] /\ x \in Transactions /\ TxOK(x)
  BY DEF NetworkInv, NetworkTypeOK
<1>2. x.pc = "read" /\ Len(ports) <= Cardinality(free)
  BY DEF ReadUsed
<1>3. tx' = [tx EXCEPT ![a] = next] /\ UNCHANGED <<deployment, rows, stored>>
  BY <1>1 DEF ReadUsed
<1>4. x.dep \in Deployments
  BY <1>1, <1>2 DEF TxOK
<1>5. ports \in Seq(Ports)
  BY <1>4, NetworkAssumption DEF PortsOfTx
<1>6. free \in SUBSET (1..MaxIp) /\ IsFiniteSet(free) /\ Cardinality(free) \in Nat
  <2>1. free \in SUBSET (1..MaxIp)
    BY DEF FreeAddresses
  <2>2. IsFiniteSet(1..MaxIp)
    BY NetworkAssumption, FS_Interval
  <2> QED
    BY <2>1, <2>2, FS_Subset, FS_CardinalityType
<1> HIDE DEF x, ports, free
<1>7. plan \in [Ports -> 0..MaxIp]
  <2> SUFFICES ASSUME NEW p \in Ports, \E i \in 1..Len(ports) : ports[i] = p
               PROVE  Nth(free, place(p)) \in 0..MaxIp
    BY NetworkAssumption DEF Null
  <2>1. place(p) \in 1..Len(ports)
    OBVIOUS
  <2> HIDE DEF place
  <2>2. place(p) \in 1..Cardinality(free)
    BY <1>2, <1>5, <1>6, <2>1
  <2>3. free \in SUBSET Nat
    BY <1>6
  <2>4. Nth(free, place(p)) \in free
    BY <1>6, <2>2, <2>3, NthExists
  <2>5. Nth(free, place(p)) \in 1..MaxIp
    BY <1>6, <2>4
  <2> QED
    BY <2>5, NetworkAssumption
<1> HIDE DEF plan
<1>8. /\ next.pc = "update" /\ next.dep = x.dep /\ next.tag = x.tag
      /\ next.links = x.links /\ next.block = x.block /\ next.ctag = x.ctag
  BY <1>1 DEF Transactions
<1>9. next \in Transactions
  BY <1>1, <1>7 DEF Transactions, AllocateSteps
<1> HIDE DEF next
<1>10. Placed(next)
  BY <1>1, <1>8 DEF TxOK, Placed
<1>11. TxOK(next)
  BY <1>1, <1>4, <1>8, <1>10 DEF TxOK
<1>12. \A b \in Attempts \ {a} : ~HoldsSlice(b, SliceOf[x.dep])
  BY <1>2, StillAlone DEF AllocateSteps, x
<1>13. x.tag # Null => \A b \in Attempts \ {a} : tx[b].tag = Null
  BY StillTagged DEF x
<1> QED
  BY <1>3, <1>8, <1>9, <1>11, <1>12, <1>13, TxChange

LEMMA UpdatePortKeeps ==
  ASSUME NetworkInv, NEW a \in Attempts, UpdatePort(a)
  PROVE  NetworkInv'
<1> DEFINE x == tx[a]
           next == [x EXCEPT !.ports = x.ports + 1]
<1>1. tx \in [Attempts -> Transactions] /\ x \in Transactions /\ TxOK(x)
  BY DEF NetworkInv, NetworkTypeOK
<1>2. x.pc = "update"
  BY DEF UpdatePort, AtPort
<1>3. tx' = [tx EXCEPT ![a] = next] /\ UNCHANGED <<deployment, rows, stored>>
  BY <1>1 DEF UpdatePort
<1> HIDE DEF x
<1>4. /\ next.pc = x.pc /\ next.dep = x.dep /\ next.tag = x.tag
      /\ next.links = x.links /\ next.block = x.block /\ next.ctag = x.ctag
  BY <1>1 DEF Transactions
<1>5. next \in Transactions
  <2>1. x.ports + 1 \in Nat
    BY <1>1 DEF Transactions
  <2> QED
    BY <1>1, <2>1 DEF Transactions
<1> HIDE DEF next
<1>6. Placed(next)
  BY <1>1, <1>4 DEF TxOK, Placed
<1>7. TxOK(next)
  BY <1>1, <1>2, <1>4, <1>6 DEF TxOK
<1>8. \A b \in Attempts \ {a} : ~HoldsSlice(b, SliceOf[x.dep])
  BY <1>2, StillAlone DEF AllocateSteps, x
<1>9. x.tag # Null => \A b \in Attempts \ {a} : tx[b].tag = Null
  BY StillTagged DEF x
<1> QED
  BY <1>3, <1>4, <1>5, <1>7, <1>8, <1>9, TxChange

LEMMA UndoPortsKeeps ==
  ASSUME NetworkInv, NEW a \in Attempts, UndoPorts(a)
  PROVE  NetworkInv'
<1> DEFINE x == tx[a]
           next == [x EXCEPT !.pc = "undo slice"]
<1>1. tx \in [Attempts -> Transactions] /\ x \in Transactions /\ TxOK(x)
  BY DEF NetworkInv, NetworkTypeOK
<1>2. x.pc = "undo ports"
  BY DEF UndoPorts
<1>3. tx' = [tx EXCEPT ![a] = next] /\ UNCHANGED <<deployment, rows, stored>>
  BY <1>1 DEF UndoPorts
<1> HIDE DEF x
<1>4. /\ next.pc = "undo slice" /\ next.dep = x.dep /\ next.tag = x.tag
      /\ next.links = x.links /\ next.block = x.block /\ next.ctag = x.ctag
  BY <1>1 DEF Transactions
<1>5. next \in Transactions
  BY <1>1 DEF Transactions, RollbackSteps
<1> HIDE DEF next
<1>6. x.links = 0 /\ x.tag = Null /\ x.dep \in Deployments
  BY <1>1, <1>2 DEF TxOK, Placed
<1>7. Placed(next)
  <2>1. \A i \in 1..x.links : FALSE
    BY <1>6
  <2>2. \A l \in Links : x.block[l] = NoBlock /\ x.ctag[l] = Null
    BY <1>1, <2>1 DEF TxOK, Placed
  <2> QED
    BY <1>4, <1>6, <2>2, NothingPlaced
<1>8. TxOK(next)
  BY <1>4, <1>6, <1>7 DEF TxOK
<1> QED
  BY <1>3, <1>4, <1>5, <1>6, <1>8, TxChange DEF AllocateSteps

LEMMA AbortKeeps ==
  ASSUME NetworkInv, NEW a \in Attempts, Abort(a)
  PROVE  NetworkInv'
<1>1. Idle.pc = "idle" /\ Idle.tag = Null
  BY DEF Idle
<1> QED
  BY <1>1, IdleIsOK, TxChange DEF Abort, AllocateSteps

-----------------------------------------------------------------------------
\* The next link of an allocation: its block is apart from every used one.
LEMMA AllocateLinkKeeps ==
  ASSUME NetworkInv, NEW a \in Attempts, AllocateLink(a)
  PROVE  NetworkInv'
<1> DEFINE x == tx[a]
           d == x.dep
           l == LinksOf[d][x.links + 1]
           free == FreeBlocks(a, PrivateSize(Endpoints[l]), LastStart(a))
           b == FirstBlock(free)
           t == Min(FreeCtags(a))
           next == [x EXCEPT !.links = x.links + 1, !.block = [x.block EXCEPT ![l] = b],
                             !.ctag = [x.ctag EXCEPT ![l] = t]]
<1>1. tx \in [Attempts -> Transactions] /\ x \in Transactions /\ TxOK(x)
  BY DEF NetworkInv, NetworkTypeOK
<1>2. /\ x.pc = "update" /\ x.links < Len(LinksOfTx(a))
      /\ free # {} /\ FreeCtags(a) # {}
  BY DEF AllocateLink, AtLink
<1>3. tx' = [tx EXCEPT ![a] = next] /\ UNCHANGED <<deployment, rows, stored>>
  BY <1>1 DEF AllocateLink, Transactions
<1>4. d \in Deployments /\ Placed(x)
  BY <1>1, <1>2 DEF TxOK
<1>5. x.links \in Nat /\ x.block \in [Links -> Blocks \cup {NoBlock}]
      /\ x.ctag \in [Links -> 0..MaxCtag]
  BY <1>1 DEF Transactions
<1>6. rows[d] /\ x.links + 1 \in 1..Len(LinksOf[d])
  <2>1. rows[d]
    BY <1>2, <1>5 DEF LinksOfTx
  <2>2. x.links < Len(LinksOf[d])
    BY <1>2, <2>1 DEF LinksOfTx
  <2>3. Len(LinksOf[d]) \in Nat
    BY <1>4, NetworkAssumption
  <2> QED
    BY <1>5, <2>1, <2>2, <2>3
<1>7. l \in Links
  BY <1>4, <1>6, NetworkAssumption
<1>8. b \in Blocks /\ \A u \in UsedBlocks(a) : ~Overlap(b, u)
  <2>1. free \in SUBSET Blocks
    BY DEF FreeBlocks
  <2>2. b \in free
    <3> HIDE DEF free
    <3> QED
      BY <1>2, <2>1, FirstIsFree
  <2> HIDE DEF b
  <2> QED
    BY <2>2 DEF FreeBlocks
<1>9. t \in 1..MaxCtag /\ t \notin UsedCtags(a)
  <2>1. FreeCtags(a) \in SUBSET Nat
    BY DEF FreeCtags
  <2>2. t \in FreeCtags(a)
    BY <1>2, <2>1, LeastNumber
  <2> HIDE DEF t
  <2> QED
    BY <2>2 DEF FreeCtags
<1>10. b # NoBlock /\ t # Null
  <2>1. \A c \in Blocks : c[2] # 0
    BY DEF Blocks, Sizes
  <2>2. NoBlock[2] = 0
    BY DEF NoBlock
  <2> HIDE DEF b, t
  <2>3. b # NoBlock
    BY <1>8, <2>1, <2>2
  <2> QED
    BY <1>9, <2>3 DEF Null
<1>11. \A k \in Links : x.block[k] # NoBlock => Apart(b, t, x.block[k], x.ctag[k])
  BY <1>8, <1>9 DEF UsedBlocks, UsedCtags, Apart
<1>12. \A k \in OtherLinks(d) : block[k] # NoBlock => Apart(b, t, block[k], ctag[k])
  BY <1>8, <1>9 DEF UsedBlocks, UsedCtags, Apart
<1>13. \A s \in Slices \ {SliceOf[d]} : x.tag # Null => stag[s] # x.tag
  BY <1>1 DEF TxOK
<1>14. \A c \in Attempts \ {a} : ~HoldsSlice(c, SliceOf[d])
  BY <1>2, StillAlone DEF AllocateSteps
<1>15. x.tag # Null => \A c \in Attempts \ {a} : tx[c].tag = Null
  BY StillTagged
<1>16. \A i \in 1..(x.links + 1) : i = x.links + 1 \/ i \in 1..x.links
  BY <1>5
<1>17. 1..x.links \in SUBSET 1..(x.links + 1) /\ x.links + 1 \in 1..(x.links + 1)
  BY <1>5
<1>18. LinksOf[d][x.links + 1] = l
  OBVIOUS
<1> HIDE DEF x, d, l, free, b, t
<1>19. /\ next.pc = "update" /\ next.dep = d /\ next.tag = x.tag
       /\ next.links = x.links + 1
       /\ next.block = [x.block EXCEPT ![l] = b] /\ next.ctag = [x.ctag EXCEPT ![l] = t]
  BY <1>1, <1>2 DEF Transactions, d
<1>20. next.block[l] = b /\ next.ctag[l] = t
  BY <1>5, <1>7, <1>19
<1>21. \A k \in Links \ {l} : next.block[k] = x.block[k] /\ next.ctag[k] = x.ctag[k]
  BY <1>5, <1>7, <1>19
<1>22. next \in Transactions
  <2>1. x.links + 1 \in Nat
    BY <1>5
  <2>2. [x.block EXCEPT ![l] = b] \in [Links -> Blocks \cup {NoBlock}]
    BY <1>5, <1>8
  <2>3. t \in 0..MaxCtag
    BY <1>9, NetworkAssumption
  <2>4. [x.ctag EXCEPT ![l] = t] \in [Links -> 0..MaxCtag]
    BY <1>5, <2>3
  <2> QED
    BY <1>1, <2>1, <2>2, <2>4 DEF Transactions
<1> HIDE DEF next
<1>23. \A k \in Links :
         /\ x.block[k] # NoBlock <=> \E i \in 1..x.links : LinksOf[d][i] = k
         /\ x.block[k] # NoBlock <=> x.ctag[k] # Null
  BY <1>4 DEF Placed, d
<1>24. Placed(next)
  <2>1. next.links # 0 =>
          /\ next.pc = "update" /\ next.dep \in Deployments /\ rows[next.dep]
          /\ next.links <= Len(LinksOf[next.dep])
    BY <1>4, <1>6, <1>19
  <2>2. ASSUME NEW k \in Links
        PROVE  /\ next.block[k] # NoBlock <=>
                    \E i \in 1..next.links : LinksOf[next.dep][i] = k
               /\ next.block[k] # NoBlock <=> next.ctag[k] # Null
    <3>1. CASE k = l
      BY <1>10, <1>17, <1>18, <1>19, <1>20, <3>1
    <3>2. CASE k # l
      BY <1>16, <1>17, <1>18, <1>19, <1>21, <1>23, <3>2
    <3> QED
      BY <3>1, <3>2
  <2>3. ASSUME NEW j \in Links, NEW k \in Links, j # k,
               next.block[j] # NoBlock, next.block[k] # NoBlock
        PROVE  Apart(next.block[j], next.ctag[j], next.block[k], next.ctag[k])
    <3>1. CASE j = l
      BY <1>11, <1>20, <1>21, <2>3, <3>1
    <3>2. CASE k = l
      BY <1>11, <1>20, <1>21, <2>3, <3>2, OverlapSymmetric
    <3>3. CASE j # l /\ k # l
      <4>1. next.block[j] = x.block[j] /\ next.ctag[j] = x.ctag[j]
            /\ next.block[k] = x.block[k] /\ next.ctag[k] = x.ctag[k]
        BY <1>21, <3>3
      <4> QED
        BY <1>4, <2>3, <4>1 DEF Placed
    <3> QED
      BY <3>1, <3>2, <3>3
  <2>4. ASSUME NEW j \in Links, NEW k \in OtherLinks(next.dep),
               next.block[j] # NoBlock, block[k] # NoBlock
        PROVE  Apart(next.block[j], next.ctag[j], block[k], ctag[k])
    <3>1. CASE j = l
      BY <1>12, <1>19, <1>20, <2>4, <3>1
    <3>2. CASE j # l
      <4>1. next.block[j] = x.block[j] /\ next.ctag[j] = x.ctag[j]
        BY <1>21, <3>2
      <4>2. k \in OtherLinks(x.dep)
        BY <1>19 DEF d
      <4> QED
        BY <1>4, <2>4, <4>1, <4>2 DEF Placed
    <3> QED
      BY <3>1, <3>2
  <2> QED
    BY <2>1, <2>2, <2>3, <2>4 DEF Placed
<1>25. TxOK(next)
  BY <1>4, <1>13, <1>19, <1>24 DEF TxOK
<1> QED
  BY <1>3, <1>14, <1>15, <1>19, <1>22, <1>25, TxChange

-----------------------------------------------------------------------------
\* Steps of the registry, and the two commits.

\* Clearing links and rows keeps another transaction in order, as long as its own
\* rows and slice's tag stay.
LEMMA ClearingKeeps ==
  ASSUME NEW a, TxOK(tx[a]), tx'[a] = tx[a],
         tx[a].links # 0 => rows'[tx[a].dep] = rows[tx[a].dep],
         \A s \in Slices : stag'[s] \in {Null, stag[s]},
         \A l \in Links : block'[l] = NoBlock
                          \/ (block'[l] = block[l] /\ ctag'[l] = ctag[l])
  PROVE  TxOK(tx[a])'
<1> DEFINE x == tx[a]
<1>1. \A l \in OtherLinks(x.dep) : l \in Links
  BY NetworkAssumption DEF OtherLinks, LinkSet
<1>2. Placed(x)
  BY DEF TxOK
<1>3. \A k \in Links, l \in OtherLinks(x.dep) : x.block[k] # NoBlock /\ block'[l] # NoBlock =>
        Apart(x.block[k], x.ctag[k], block'[l], ctag'[l])
  BY <1>1, <1>2 DEF Placed
<1>4. Placed(tx[a])'
  BY <1>2, <1>3 DEF Placed, Apart, Overlap, OtherLinks, LinkSet
<1>5. \A s \in Slices \ {SliceOf[x.dep]} : x.tag # Null => stag'[s] # x.tag
  BY DEF TxOK
<1> QED
  BY <1>4, <1>5 DEF TxOK

LEMMA ClearingKeepsApart ==
  ASSUME PrivateSpaceDisjoint,
         \A l \in Links : block'[l] = NoBlock
                          \/ (block'[l] = block[l] /\ ctag'[l] = ctag[l])
  PROVE  PrivateSpaceDisjoint'
<1>1. \A d \in Deployments : LinkSet(d) \in SUBSET Links
  BY NetworkAssumption DEF LinkSet
<1>2. ASSUME NEW d \in Deployments, NEW e \in Deployments, SliceOf[d] = SliceOf[e],
             NEW k \in LinkSet(d), NEW l \in LinkSet(e),
             k # l, block'[k] # NoBlock, block'[l] # NoBlock
      PROVE  ~Overlap(block'[k], block'[l]) /\ ctag'[k] # ctag'[l]
  <2>1. /\ block'[k] = block[k] /\ ctag'[k] = ctag[k]
        /\ block'[l] = block[l] /\ ctag'[l] = ctag[l]
    BY <1>1, <1>2
  <2> QED
    BY <1>2, <2>1 DEF PrivateSpaceDisjoint
<1> QED
  BY <1>2 DEF PrivateSpaceDisjoint, LinkSet, Overlap

LEMMA RequestKeeps ==
  ASSUME NetworkInv, NEW d \in Deployments, RequestDeployment(d)
  PROVE  NetworkInv'
<1>1. /\ rows' = rows /\ stag' = stag /\ owner' = owner
      /\ ctag' = ctag /\ block' = block /\ ip' = ip /\ tx' = tx
  BY DEF RequestDeployment, stored
<1>2. deployment' \in [Deployments -> {"none", "active", "undone"}]
  BY DEF NetworkInv, NetworkTypeOK, RequestDeployment
<1>3. NetworkTypeOK' /\ OneAllocation' /\ OneTag' /\ PrivateSpaceDisjoint'
  <2>1. NetworkTypeOK'
    BY <1>1, <1>2 DEF NetworkInv, NetworkTypeOK
  <2>2. OneAllocation' /\ OneTag'
    BY <1>1 DEF NetworkInv, OneAllocation, OneTag
  <2>3. PrivateSpaceDisjoint'
    BY <1>1 DEF NetworkInv, PrivateSpaceDisjoint, LinkSet, Overlap
  <2> QED
    BY <2>1, <2>2, <2>3
<1>4. \A a \in Attempts : TxOK(tx[a])'
  BY <1>1 DEF NetworkInv, TxOK, Placed, OtherLinks, LinkSet, Apart, Overlap
<1> QED
  BY <1>3, <1>4, <1>1 DEF NetworkInv

LEMMA CreateInventoryKeeps ==
  ASSUME NetworkInv, NEW d \in Deployments, CreateInventory(d)
  PROVE  NetworkInv'
<1>1. /\ deployment' = deployment /\ stag' = stag /\ owner' = owner
      /\ ctag' = ctag /\ block' = block /\ ip' = ip /\ tx' = tx
  BY DEF CreateInventory, stored
<1>2. rows' = [rows EXCEPT ![d] = TRUE]
  BY DEF CreateInventory
<1>3. rows \in [Deployments -> BOOLEAN]
  BY DEF NetworkInv, NetworkTypeOK
<1>4. rows' \in [Deployments -> BOOLEAN]
  BY <1>2, <1>3
<1>5. \A e \in Deployments : rows[e] => rows'[e] = rows[e]
  BY <1>2, <1>3
<1>6. NetworkTypeOK' /\ OneAllocation' /\ OneTag' /\ PrivateSpaceDisjoint'
  <2>1. NetworkTypeOK'
    BY <1>1, <1>4 DEF NetworkInv, NetworkTypeOK
  <2>2. OneAllocation' /\ OneTag'
    BY <1>1 DEF NetworkInv, OneAllocation, OneTag
  <2>3. PrivateSpaceDisjoint'
    BY <1>1 DEF NetworkInv, PrivateSpaceDisjoint, LinkSet, Overlap
  <2> QED
    BY <2>1, <2>2, <2>3
<1>7. ASSUME NEW a \in Attempts PROVE TxOK(tx[a])'
  <2>1. TxOK(tx[a]) /\ tx[a].links \in Nat
    BY DEF NetworkInv, NetworkTypeOK, Transactions
  <2>2. tx[a].links # 0 => rows'[tx[a].dep] = rows[tx[a].dep]
    BY <1>5, <2>1 DEF TxOK, Placed
  <2> QED
    BY <1>1, <2>1, <2>2, ClearingKeeps
<1> QED
  BY <1>6, <1>7 DEF NetworkInv

\* What clears the links of d: the end of a deployment, and its rollback.
LEMMA ClearedLinks ==
  ASSUME NEW d \in Deployments,
         ctag' = [l \in Links |-> IF l \in LinkSet(d) THEN Null ELSE ctag[l]],
         block' = [l \in Links |-> IF l \in LinkSet(d) THEN NoBlock ELSE block[l]],
         ip' = [p \in Ports |-> IF p \in PortSet(d) THEN Null ELSE ip[p]],
         NetworkTypeOK
  PROVE  /\ ctag' \in [Links -> 0..MaxCtag]
         /\ block' \in [Links -> Blocks \cup {NoBlock}]
         /\ ip' \in [Ports -> 0..MaxIp]
         /\ \A l \in Links : block'[l] = NoBlock
                             \/ (block'[l] = block[l] /\ ctag'[l] = ctag[l])
BY NetworkAssumption DEF NetworkTypeOK, Null

LEMMA FinishKeeps ==
  ASSUME NetworkInv, NEW d \in Deployments, FinishUndone(d)
  PROVE  NetworkInv'
<1>1. stag' = stag /\ owner' = owner /\ tx' = tx
  BY DEF FinishUndone
<1>2. /\ ctag' \in [Links -> 0..MaxCtag]
      /\ block' \in [Links -> Blocks \cup {NoBlock}]
      /\ ip' \in [Ports -> 0..MaxIp]
      /\ \A l \in Links : block'[l] = NoBlock
                          \/ (block'[l] = block[l] /\ ctag'[l] = ctag[l])
  BY ClearedLinks DEF FinishUndone, NetworkInv
<1>3. /\ deployment' \in [Deployments -> {"none", "active", "undone"}]
      /\ rows' \in [Deployments -> BOOLEAN]
  BY DEF NetworkInv, NetworkTypeOK, FinishUndone
<1>4. NetworkTypeOK' /\ OneAllocation' /\ OneTag'
  BY <1>1, <1>2, <1>3 DEF NetworkInv, NetworkTypeOK, OneAllocation, OneTag
<1>5. PrivateSpaceDisjoint'
  BY <1>2, ClearingKeepsApart DEF NetworkInv
<1>6. \A s \in Slices : stag'[s] \in {Null, stag[s]}
  BY <1>1
<1>7. ASSUME NEW a \in Attempts PROVE TxOK(tx[a])'
  <2>1. TxOK(tx[a]) /\ tx[a].links \in Nat
    BY DEF NetworkInv, NetworkTypeOK, Transactions
  <2>2. tx[a].links # 0 => tx[a].dep # d
    BY <2>1 DEF FinishUndone, HoldsRows, HoldsLinks
  <2>3. tx[a].links # 0 => tx[a].dep \in Deployments
    BY <2>1 DEF TxOK, Placed
  <2>4. \A e \in Deployments \ {d} : rows'[e] = rows[e]
    BY DEF FinishUndone, NetworkInv, NetworkTypeOK
  <2>5. tx[a].links # 0 => rows'[tx[a].dep] = rows[tx[a].dep]
    BY <2>2, <2>3, <2>4
  <2> QED
    BY <1>1, <1>2, <1>6, <2>1, <2>5, ClearingKeeps
<1> QED
  BY <1>4, <1>5, <1>7 DEF NetworkInv

\* A transaction that ends leaves the others as they are.
LEMMA EndOfOne ==
  ASSUME NetworkInv, NEW a \in Attempts, tx' = [tx EXCEPT ![a] = Idle]
  PROVE  /\ tx' \in [Attempts -> Transactions]
         /\ OneAllocation' /\ OneTag'
         /\ tx'[a] = Idle /\ \A b \in Attempts \ {a} : tx'[b] = tx[b]
<1>1. Idle.pc = "idle" /\ Idle.tag = Null
  BY DEF Idle
<1>2. tx \in [Attempts -> Transactions]
  BY DEF NetworkInv, NetworkTypeOK
<1>3. tx'[a] = Idle /\ \A b \in Attempts \ {a} : tx'[b] = tx[b]
  BY <1>2
<1>4. tx' \in [Attempts -> Transactions]
  BY <1>2, IdleIsOK
<1>5. OneAllocation'
  BY <1>1, <1>3 DEF NetworkInv, OneAllocation, AllocateSteps
<1>6. OneTag'
  BY <1>1, <1>3 DEF NetworkInv, OneTag
<1> QED
  BY <1>3, <1>4, <1>5, <1>6

\* An idle transaction is in order whatever the rows are.
LEMMA IdleStaysOK ==
  ASSUME NEW a, tx'[a] = Idle
  PROVE  TxOK(tx[a])'
<1>1. /\ Idle.pc = "idle" /\ Idle.tag = Null /\ Idle.links = 0
      /\ \A l \in Links : Idle.block[l] = NoBlock /\ Idle.ctag[l] = Null
  BY DEF Idle
<1>2. \A i \in 1..Idle.links : FALSE
  BY <1>1
<1>3. Placed(tx[a])'
  BY <1>1, <1>2 DEF Placed
<1> QED
  BY <1>1, <1>3 DEF TxOK

LEMMA CommitRollbackKeeps ==
  ASSUME NetworkInv, NEW a \in Attempts, CommitRollback(a)
  PROVE  NetworkInv'
<1> DEFINE d == tx[a].dep
           s == SliceOf[d]
<1>1. tx \in [Attempts -> Transactions] /\ TxOK(tx[a])
  BY DEF NetworkInv, NetworkTypeOK
<1>2. d \in Deployments
  BY <1>1 DEF CommitRollback, TxOK
<1>3. s \in Slices
  BY <1>2, NetworkAssumption
<1>4. deployment' = deployment /\ rows' = rows /\ tx' = [tx EXCEPT ![a] = Idle]
  BY DEF CommitRollback
<1>5. /\ tx' \in [Attempts -> Transactions] /\ OneAllocation' /\ OneTag'
      /\ tx'[a] = Idle /\ \A b \in Attempts \ {a} : tx'[b] = tx[b]
  BY <1>4, EndOfOne
<1>6. /\ ctag' \in [Links -> 0..MaxCtag]
      /\ block' \in [Links -> Blocks \cup {NoBlock}]
      /\ ip' \in [Ports -> 0..MaxIp]
      /\ \A l \in Links : block'[l] = NoBlock
                          \/ (block'[l] = block[l] /\ ctag'[l] = ctag[l])
  BY <1>2, ClearedLinks DEF CommitRollback, NetworkInv
<1>7. stag \in [Slices -> 0..MaxTag] /\ owner \in [Slices -> Deployments \cup {NoDeployment}]
  BY DEF NetworkInv, NetworkTypeOK
<1>8. /\ stag' \in [Slices -> 0..MaxTag]
      /\ \A r \in Slices : stag'[r] \in {Null, stag[r]}
  <2>1. \/ stag' = stag
        \/ stag' = [stag EXCEPT ![s] = Null]
    BY <1>3, <1>7 DEF CommitRollback
  <2>2. 0 \in 0..MaxTag
    BY NetworkAssumption
  <2> HIDE DEF s
  <2>3. stag' \in [Slices -> 0..MaxTag]
    BY <1>3, <1>7, <2>1, <2>2 DEF Null
  <2>4. \A r \in Slices : stag'[r] \in {Null, stag[r]}
    BY <1>3, <1>7, <2>1
  <2> QED
    BY <2>3, <2>4
<1>9. owner' \in [Slices -> Deployments \cup {NoDeployment}]
  BY <1>3, <1>7 DEF CommitRollback
<1>10. NetworkTypeOK'
  BY <1>4, <1>5, <1>6, <1>8, <1>9 DEF NetworkInv, NetworkTypeOK
<1>11. PrivateSpaceDisjoint'
  BY <1>6, ClearingKeepsApart DEF NetworkInv
<1>12. ASSUME NEW b \in Attempts PROVE TxOK(tx[b])'
  <2>1. CASE b = a
    BY <1>5, <2>1, IdleStaysOK
  <2>2. CASE b # a
    <3>1. TxOK(tx[b]) /\ tx[b].links \in Nat
      BY DEF NetworkInv, NetworkTypeOK, Transactions
    <3>2. rows'[tx[b].dep] = rows[tx[b].dep]
      BY <1>4
    <3>3. tx'[b] = tx[b]
      BY <1>5, <2>2
    <3> QED
      BY <1>6, <1>8, <3>1, <3>2, <3>3, ClearingKeeps
  <2> QED
    BY <2>1, <2>2
<1> QED
  BY <1>5, <1>10, <1>11, <1>12 DEF NetworkInv

\* The commit of an allocation stores all links of its deployment or none, and the
\* tag that it alone holds.
LEMMA CommitAllocateKeeps ==
  ASSUME NetworkInv, NEW a \in Attempts, CommitAllocate(a)
  PROVE  NetworkInv'
<1> DEFINE x == tx[a]
           d == x.dep
           s == SliceOf[d]
<1>1. tx \in [Attempts -> Transactions] /\ x \in Transactions /\ TxOK(x)
  BY DEF NetworkInv, NetworkTypeOK
<1>2. d \in Deployments /\ Placed(x)
  BY <1>1 DEF CommitAllocate, Updated, TxOK
<1>3. s \in Slices
  BY <1>2, NetworkAssumption
<1>4. deployment' = deployment /\ rows' = rows /\ tx' = [tx EXCEPT ![a] = Idle]
  BY DEF CommitAllocate
<1>5. /\ tx' \in [Attempts -> Transactions] /\ OneAllocation' /\ OneTag'
      /\ tx'[a] = Idle /\ \A b \in Attempts \ {a} : tx'[b] = tx[b]
  BY <1>4, EndOfOne
<1>6. /\ x.tag \in 0..MaxTag /\ x.ctag \in [Links -> 0..MaxCtag]
      /\ x.block \in [Links -> Blocks \cup {NoBlock}] /\ x.ip \in [Ports -> 0..MaxIp]
      /\ x.links \in Nat
  BY <1>1 DEF Transactions
<1>7. /\ stag \in [Slices -> 0..MaxTag] /\ owner \in [Slices -> Deployments \cup {NoDeployment}]
      /\ ctag \in [Links -> 0..MaxCtag] /\ block \in [Links -> Blocks \cup {NoBlock}]
      /\ ip \in [Ports -> 0..MaxIp]
  BY DEF NetworkInv, NetworkTypeOK
<1>8. \A l \in Links : x.block[l] # NoBlock <=> x.ctag[l] # Null
  BY <1>2 DEF Placed
<1>9. \A l \in Links :
        \/ x.block[l] # NoBlock /\ block'[l] = x.block[l] /\ ctag'[l] = x.ctag[l]
        \/ x.block[l] = NoBlock /\ block'[l] = block[l] /\ ctag'[l] = ctag[l]
  BY <1>8 DEF CommitAllocate
<1>10. \/ x.tag = Null /\ stag' = stag /\ owner' = owner
       \/ /\ x.tag # Null
          /\ stag' = [stag EXCEPT ![s] = x.tag] /\ owner' = [owner EXCEPT ![s] = d]
  BY <1>3, <1>7 DEF CommitAllocate
<1>11. NetworkTypeOK'
  <2>1. ctag' \in [Links -> 0..MaxCtag]
    BY <1>6, <1>7 DEF CommitAllocate
  <2>2. block' \in [Links -> Blocks \cup {NoBlock}]
    BY <1>6, <1>7 DEF CommitAllocate
  <2>3. ip' \in [Ports -> 0..MaxIp]
    BY <1>6, <1>7 DEF CommitAllocate
  <2> HIDE DEF x, d, s
  <2>4. stag' \in [Slices -> 0..MaxTag]
    BY <1>3, <1>6, <1>7, <1>10
  <2>5. owner' \in [Slices -> Deployments \cup {NoDeployment}]
    BY <1>2, <1>3, <1>7, <1>10
  <2> QED
    BY <1>4, <1>5, <2>1, <2>2, <2>3, <2>4, <2>5 DEF NetworkInv, NetworkTypeOK
<1>12. \A e \in Deployments : LinkSet(e) \in SUBSET Links
  BY NetworkAssumption DEF LinkSet
<1>13. x.links # 0 => \A l \in LinkSet(d) : x.block[l] # NoBlock
  <2> SUFFICES ASSUME x.links # 0, NEW l \in LinkSet(d) PROVE x.block[l] # NoBlock
    OBVIOUS
  <2>1. rows[d]
    BY <1>2 DEF Placed
  <2>2. x.links = Len(LinksOf[d])
    BY <2>1 DEF CommitAllocate, Updated, LinksOfTx
  <2>3. PICK i \in 1..Len(LinksOf[d]) : LinksOf[d][i] = l
    BY DEF LinkSet
  <2> QED
    BY <1>2, <1>12, <2>2, <2>3 DEF Placed
<1>14. \A l \in Links : x.block[l] # NoBlock => x.links # 0 /\ l \in LinkSet(d)
  <2> SUFFICES ASSUME NEW l \in Links, x.block[l] # NoBlock
               PROVE  x.links # 0 /\ l \in LinkSet(d)
    OBVIOUS
  <2>1. PICK i \in 1..x.links : LinksOf[d][i] = l
    BY <1>2 DEF Placed
  <2>2. x.links # 0
    BY <1>6, <2>1
  <2>3. x.links <= Len(LinksOf[d]) /\ Len(LinksOf[d]) \in Nat
    BY <1>2, <2>2, NetworkAssumption DEF Placed
  <2>4. i \in 1..Len(LinksOf[d])
    BY <1>6, <2>1, <2>3
  <2> QED
    BY <2>1, <2>2, <2>4 DEF LinkSet
<1>15. \A e \in Deployments : \A l \in LinkSet(e) : l \in LinkSet(d) => e = d
  BY <1>2, NetworkAssumption DEF LinkSet
<1>16. PrivateSpaceDisjoint'
  <2>1. ASSUME NEW e \in Deployments, NEW f \in Deployments, SliceOf[e] = SliceOf[f],
               NEW k \in LinkSet(e), NEW l \in LinkSet(f),
               k # l, block'[k] # NoBlock, block'[l] # NoBlock
        PROVE  Apart(block'[k], ctag'[k], block'[l], ctag'[l])
    <3>1. k \in Links /\ l \in Links
      BY <1>12, <2>1
    <3>2. CASE x.block[k] # NoBlock /\ x.block[l] # NoBlock
      <4>1. /\ block'[k] = x.block[k] /\ ctag'[k] = x.ctag[k]
            /\ block'[l] = x.block[l] /\ ctag'[l] = x.ctag[l]
        BY <1>9, <3>1, <3>2
      <4>2. Apart(x.block[k], x.ctag[k], x.block[l], x.ctag[l])
        BY <1>2, <2>1, <3>1, <3>2 DEF Placed
      <4> QED
        BY <4>1, <4>2
    <3>3. CASE x.block[k] # NoBlock /\ x.block[l] = NoBlock
      <4>1. /\ block'[k] = x.block[k] /\ ctag'[k] = x.ctag[k]
            /\ block'[l] = block[l] /\ ctag'[l] = ctag[l]
        BY <1>9, <3>1, <3>3
      <4>2. e = d
        BY <1>14, <1>15, <2>1, <3>1, <3>3
      <4>3. f # d
        BY <1>13, <1>14, <2>1, <3>1, <3>3
      <4>4. l \in OtherLinks(d)
        BY <2>1, <4>2, <4>3 DEF OtherLinks
      <4>5. Apart(x.block[k], x.ctag[k], block[l], ctag[l])
        BY <1>2, <2>1, <3>1, <3>3, <4>1, <4>4 DEF Placed
      <4> QED
        BY <4>1, <4>5
    <3>4. CASE x.block[k] = NoBlock /\ x.block[l] # NoBlock
      <4>1. /\ block'[l] = x.block[l] /\ ctag'[l] = x.ctag[l]
            /\ block'[k] = block[k] /\ ctag'[k] = ctag[k]
        BY <1>9, <3>1, <3>4
      <4>2. f = d
        BY <1>14, <1>15, <2>1, <3>1, <3>4
      <4>3. e # d
        BY <1>13, <1>14, <2>1, <3>1, <3>4
      <4>4. k \in OtherLinks(d)
        BY <2>1, <4>2, <4>3 DEF OtherLinks
      <4>5. Apart(x.block[l], x.ctag[l], block[k], ctag[k])
        BY <1>2, <2>1, <3>1, <3>4, <4>1, <4>4 DEF Placed
      <4> QED
        BY <4>1, <4>5, OverlapSymmetric
    <3>5. CASE x.block[k] = NoBlock /\ x.block[l] = NoBlock
      <4>1. /\ block'[k] = block[k] /\ ctag'[k] = ctag[k]
            /\ block'[l] = block[l] /\ ctag'[l] = ctag[l]
        BY <1>9, <3>1, <3>5
      <4>2. Apart(block[k], ctag[k], block[l], ctag[l])
        BY <2>1, <4>1 DEF NetworkInv, PrivateSpaceDisjoint, Apart
      <4> QED
        BY <4>1, <4>2
    <3> QED
      BY <3>2, <3>3, <3>4, <3>5
  <2>2. \A e, f \in Deployments : SliceOf[e] = SliceOf[f] =>
          \A k \in LinkSet(e), l \in LinkSet(f) :
            k # l /\ block'[k] # NoBlock /\ block'[l] # NoBlock =>
              ~Overlap(block'[k], block'[l]) /\ ctag'[k] # ctag'[l]
    BY <2>1 DEF Apart
  <2> QED
    BY <2>2 DEF PrivateSpaceDisjoint, LinkSet, Overlap
<1>17. ASSUME NEW b \in Attempts PROVE TxOK(tx[b])'
  <2>1. CASE b = a
    BY <1>5, <2>1, IdleStaysOK
  <2>2. CASE b # a
    <3> DEFINE y == tx[b]
    <3>1. tx'[b] = y /\ TxOK(y) /\ y \in Transactions
      BY <1>5, <2>2 DEF NetworkInv, NetworkTypeOK
    <3>2. y.tag # Null => \A r \in Slices \ {SliceOf[y.dep]} : stag'[r] # y.tag
      <4>1. y.tag # Null => x.tag = Null
        BY <2>2 DEF NetworkInv, OneTag
      <4>2. y.tag # Null => stag' = stag
        BY <1>10, <4>1
      <4> QED
        BY <3>1, <4>2 DEF TxOK
    <3>3. ASSUME NEW k \in Links, NEW l \in OtherLinks(y.dep),
                 y.block[k] # NoBlock, block'[l] # NoBlock
          PROVE  Apart(y.block[k], y.ctag[k], block'[l], ctag'[l])
      <4>1. y.pc = "update" /\ y.dep \in Deployments
        <5>1. PICK i \in 1..y.links : LinksOf[y.dep][i] = k
          BY <3>1, <3>3 DEF TxOK, Placed
        <5>2. y.links # 0
          BY <3>1, <5>1 DEF Transactions
        <5> QED
          BY <3>1, <5>2 DEF TxOK, Placed
      <4>2. SliceOf[y.dep] # s
        BY <2>2, <4>1 DEF CommitAllocate, Updated, NetworkInv, OneAllocation, AllocateSteps
      <4>3. PICK e \in Deployments : SliceOf[e] = SliceOf[y.dep] /\ l \in LinkSet(e)
        BY <3>3 DEF OtherLinks
      <4>4. l \in Links /\ l \notin LinkSet(d)
        BY <1>12, <1>15, <4>2, <4>3
      <4>5. block'[l] = block[l] /\ ctag'[l] = ctag[l]
        BY <1>9, <1>14, <4>4
      <4> QED
        BY <3>1, <3>3, <4>5 DEF TxOK, Placed
    <3>4. Placed(tx[b])'
      <4>1. Placed(y)
        BY <3>1 DEF TxOK
      <4>2. rows' = rows
        BY <1>4
      <4> QED
        BY <3>1, <3>3, <4>1, <4>2 DEF Placed, Apart, Overlap, OtherLinks, LinkSet
    <3> QED
      BY <3>1, <3>2, <3>4 DEF TxOK
  <2> QED
    BY <2>1, <2>2
<1> QED
  BY <1>5, <1>11, <1>16, <1>17 DEF NetworkInv

-----------------------------------------------------------------------------
LEMMA NetworkInitOK == NetworkInit => NetworkInv
<1> SUFFICES ASSUME NetworkInit PROVE NetworkInv
  OBVIOUS
<1>1. NetworkTypeOK
  BY IdleIsOK, NetworkAssumption DEF NetworkInit, NetworkTypeOK, Null
<1>2. \A a \in Attempts : tx[a] = Idle
  BY DEF NetworkInit
<1>3. Idle.pc = "idle" /\ Idle.tag = Null
  BY DEF Idle
<1>4. OneAllocation /\ OneTag
  BY <1>2, <1>3 DEF OneAllocation, OneTag, AllocateSteps
<1>5. PrivateSpaceDisjoint
  <2>1. \A l \in Links : block[l] = NoBlock
    BY DEF NetworkInit
  <2>2. \A d \in Deployments : LinkSet(d) \in SUBSET Links
    BY NetworkAssumption DEF LinkSet
  <2> QED
    BY <2>1, <2>2 DEF PrivateSpaceDisjoint
<1>6. \A a \in Attempts : TxOK(tx[a])
  BY <1>2, IdleIsOK
<1> QED
  BY <1>1, <1>4, <1>5, <1>6 DEF NetworkInv

LEMMA NetworkStepOK == NetworkInv /\ [NetworkNext]_netVars => NetworkInv'
<1> SUFFICES ASSUME NetworkInv, [NetworkNext]_netVars PROVE NetworkInv'
  OBVIOUS
<1>1. CASE UNCHANGED netVars
  <2>1. /\ deployment' = deployment /\ rows' = rows /\ stag' = stag /\ owner' = owner
        /\ ctag' = ctag /\ block' = block /\ ip' = ip /\ tx' = tx
    BY <1>1 DEF netVars
  <2>2. NetworkTypeOK' /\ OneAllocation' /\ OneTag'
    BY <2>1 DEF NetworkInv, NetworkTypeOK, OneAllocation, OneTag
  <2>3. PrivateSpaceDisjoint'
    BY <2>1 DEF NetworkInv, PrivateSpaceDisjoint, LinkSet, Overlap
  <2>4. \A a \in Attempts : TxOK(tx[a])'
    BY <2>1 DEF NetworkInv, TxOK, Placed, OtherLinks, LinkSet, Apart, Overlap
  <2> QED
    BY <2>2, <2>3, <2>4 DEF NetworkInv
<1>2. ASSUME NEW d \in Deployments,
             RequestDeployment(d) \/ CreateInventory(d) \/ FinishUndone(d)
      PROVE  NetworkInv'
  BY <1>2, RequestKeeps, CreateInventoryKeeps, FinishKeeps
<1>3. ASSUME NEW a \in Attempts, AttemptStep(a) PROVE NetworkInv'
  <2>1. ASSUME NEW d \in Deployments, BeginAllocate(a, d) \/ BeginRollback(a, d)
        PROVE  NetworkInv'
    BY <2>1, BeginAllocateKeeps, BeginRollbackKeeps
  <2>2. CASE TakeTag(a)
    BY <2>2, TakeTagKeeps
  <2>3. CASE ReadUsed(a)
    BY <2>3, ReadUsedKeeps
  <2>4. CASE AllocateLink(a)
    BY <2>4, AllocateLinkKeeps
  <2>5. CASE UpdatePort(a)
    BY <2>5, UpdatePortKeeps
  <2>6. CASE CommitAllocate(a)
    BY <2>6, CommitAllocateKeeps
  <2>7. CASE UndoPorts(a)
    BY <2>7, UndoPortsKeeps
  <2>8. CASE CommitRollback(a)
    BY <2>8, CommitRollbackKeeps
  <2>9. CASE Abort(a)
    BY <2>9, AbortKeeps
  <2> QED
    BY <1>3, <2>1, <2>2, <2>3, <2>4, <2>5, <2>6, <2>7, <2>8, <2>9 DEF AttemptStep
<1> QED
  BY <1>1, <1>2, <1>3 DEF NetworkNext

\* The inductive invariant holds in every behaviour of the allocator.
THEOREM NetworkInvariant == NetworkSpec => []NetworkInv
<1>1. NetworkInit => NetworkInv
  BY NetworkInitOK
<1>2. NetworkInv /\ [NetworkNext]_netVars => NetworkInv'
  BY NetworkStepOK
<1> QED
  BY <1>1, <1>2, PTL DEF NetworkSpec

\* The columns and the transactions stay within their types: above all, the blocks
\* that the search finds lie within the base, whatever was taken before.
THEOREM NetworkTypes == NetworkSpec => []NetworkTypeOK
<1>1. NetworkInv => NetworkTypeOK
  BY DEF NetworkInv
<1> QED
  BY <1>1, NetworkInvariant, PTL

\* No transaction ever holds a tag that another slice has stored: of any number of
\* overlapping allocations none is refused by the unique index.
THEOREM TagLock == NetworkSpec => []TagLockSuffices
<1>1. NetworkInv => TagLockSuffices
  <2> SUFFICES ASSUME NetworkInv, NEW a \in Attempts, TagTaken(a) PROVE FALSE
    BY DEF TagLockSuffices
  <2>1. TxOK(tx[a])
    BY DEF NetworkInv
  <2> QED
    BY <2>1 DEF TxOK, TagTaken
<1> QED
  BY <1>1, NetworkInvariant, PTL

\* The links of a slice have disjoint blocks and different C-TAGs, though each block
\* is chosen in one transaction and stored by another statement.
THEOREM PrivateSpace == NetworkSpec => []PrivateSpaceDisjoint
<1>1. NetworkInv => PrivateSpaceDisjoint
  BY DEF NetworkInv
<1> QED
  BY <1>1, NetworkInvariant, PTL
-----------------------------------------------------------------------------
\* Public ports.

Port(d, i) == PortsOf[d][i]

\* No two ports have the same stored address (uq_puerto_ip_publica).
AddressesUnique == \A p, q \in Ports : p # q /\ ip[p] # Null => ip[p] # ip[q]

\* The stored addresses of a deployment are those of its first ports, upwards.
StoredUpwards ==
  \A d \in Deployments : \A i, j \in 1..Len(PortsOf[d]) :
    i < j /\ ip[Port(d, j)] # Null =>
      ip[Port(d, i)] # Null /\ ip[Port(d, i)] < ip[Port(d, j)]

\* The plan of transaction x: an address for every port of its deployment, upwards,
\* and none above the one the port has.
PlanOK(x) ==
  /\ x.pc # "update" => x.ports = 0 /\ \A p \in Ports : x.ip[p] = Null
  /\ x.pc = "update" =>
       /\ x.ports <= Len(PortsOf[x.dep])
       /\ x.ports # 0 => rows[x.dep]
       /\ \A p \in Ports : x.ip[p] # Null <=> rows[x.dep] /\ p \in PortSet(x.dep)
       /\ rows[x.dep] => \A i, j \in 1..Len(PortsOf[x.dep]) :
            i < j => x.ip[Port(x.dep, i)] < x.ip[Port(x.dep, j)]
       /\ \A p \in Ports : ip[p] # Null /\ x.ip[p] # Null => x.ip[p] <= ip[p]

\* What a has written into the index is its alone.
IndexOK(a) ==
  \A i \in 1..tx[a].ports :
    /\ \A q \in Ports \ {Port(tx[a].dep, i)} : Entry(a, q) # tx[a].ip[Port(tx[a].dep, i)]
    /\ \A b \in Attempts \ {a} : ~Touches(b, tx[a].ip[Port(tx[a].dep, i)])

OneRollback ==
  \A a, b \in Attempts :
    tx[a].pc \in RollbackSteps /\ tx[b].pc \in RollbackSteps /\ tx[a].dep = tx[b].dep => a = b

PortInv ==
  /\ AddressesUnique /\ StoredUpwards /\ OneRollback
  /\ \A a \in Attempts : PlanOK(tx[a]) /\ IndexOK(a)

PortsInv == NetworkInv /\ PortInv

\* The port of an update that a transaction has made.
LEMMA UpdatedPort ==
  ASSUME PortsInv, NEW a \in Attempts, NEW i \in 1..tx[a].ports
  PROVE  LET d == tx[a].dep
             p == Port(d, i)
         IN  /\ tx[a].pc = "update" /\ d \in Deployments /\ rows[d]
             /\ i \in 1..Len(PortsOf[d]) /\ p \in Ports /\ p \in PortSet(d)
             /\ tx[a].ip[p] # Null /\ tx[a].ip[p] \in 1..MaxIp
<1> DEFINE d == tx[a].dep
           p == Port(d, i)
<1>1. tx[a] \in Transactions /\ TxOK(tx[a]) /\ PlanOK(tx[a])
  BY DEF PortsInv, NetworkInv, NetworkTypeOK, PortInv
<1>2. tx[a].ports \in Nat /\ tx[a].ports # 0
  BY <1>1 DEF Transactions
<1>3. tx[a].pc = "update" /\ d \in Deployments /\ rows[d] /\ tx[a].ports <= Len(PortsOf[d])
  BY <1>1, <1>2 DEF PlanOK, TxOK
<1>4. PortsOf[d] \in Seq(Ports)
  BY <1>3, NetworkAssumption
<1>5. i \in 1..Len(PortsOf[d])
  BY <1>2, <1>3, <1>4
<1>6. p \in Ports /\ p \in PortSet(d)
  BY <1>4, <1>5 DEF PortSet, Port
<1>7. tx[a].ip[p] # Null
  BY <1>1, <1>3, <1>6 DEF PlanOK
<1>8. tx[a].ip[p] \in 0..MaxIp
  BY <1>1, <1>6 DEF Transactions
<1> QED
  BY <1>3, <1>5, <1>6, <1>7, <1>8, NetworkAssumption DEF Null

\* Transactions that update ports are of different deployments, so of different ports.
LEMMA OtherPorts ==
  ASSUME PortsInv, NEW a \in Attempts, tx[a].pc = "update", NEW p \in PortSet(tx[a].dep),
         NEW b \in Attempts \ {a}, tx[b].pc = "update"
  PROVE  tx[b].dep # tx[a].dep /\ p \notin PortSet(tx[b].dep)
<1>1. TxOK(tx[a]) /\ TxOK(tx[b])
  BY DEF PortsInv, NetworkInv
<1>2. tx[a].dep \in Deployments /\ tx[b].dep \in Deployments
  BY <1>1 DEF TxOK
<1>3. tx[b].dep # tx[a].dep
  BY DEF PortsInv, NetworkInv, OneAllocation, AllocateSteps
<1> QED
  BY <1>2, <1>3, NetworkAssumption DEF PortSet

-----------------------------------------------------------------------------
\* A transaction may move to any state with a plan in order, as long as it updates no port.
LEMMA PortFrame ==
  ASSUME PortsInv, NEW a \in Attempts, NEW next, PlanOK(next),
         tx' = [tx EXCEPT ![a] = next], UNCHANGED <<deployment, rows, stored>>,
         \/ next.ports = 0
         \/ next.ports = tx[a].ports /\ next.dep = tx[a].dep /\ next.ip = tx[a].ip,
         next.pc \in RollbackSteps =>
           \A b \in Attempts \ {a} : ~(tx[b].pc \in RollbackSteps /\ tx[b].dep = next.dep)
  PROVE  PortInv'
<1>1. rows' = rows /\ ip' = ip
  BY DEF stored
<1>2. tx \in [Attempts -> Transactions]
  BY DEF PortsInv, NetworkInv, NetworkTypeOK
<1>3. tx'[a] = next /\ \A b \in Attempts \ {a} : tx'[b] = tx[b]
  BY <1>2
<1>4. AddressesUnique' /\ StoredUpwards'
  BY <1>1 DEF PortsInv, PortInv, AddressesUnique, StoredUpwards, Port
<1>5. OneRollback'
  BY <1>3 DEF PortsInv, PortInv, OneRollback
<1>6. \A b \in Attempts : PlanOK(tx'[b])
  BY <1>3 DEF PortsInv, PortInv
<1>7. \A b \in Attempts : PlanOK(tx[b])'
  BY <1>1, <1>6 DEF PlanOK, Port, PortSet
<1>8. \A b \in Attempts :
        \/ tx'[b].ports = 0
        \/ tx'[b].ports = tx[b].ports /\ tx'[b].dep = tx[b].dep /\ tx'[b].ip = tx[b].ip
  BY <1>3
<1>9. \A i \in 1..0 : FALSE
  OBVIOUS
<1>10. ASSUME NEW b \in Attempts, NEW x, Touches(b, x)' PROVE Touches(b, x)
  BY <1>1, <1>8, <1>9, <1>10 DEF Touches
<1>11. ASSUME NEW b \in Attempts PROVE IndexOK(b)'
  <2>1. CASE tx'[b].ports = 0
    BY <1>9, <2>1 DEF IndexOK
  <2>2. CASE /\ tx'[b].ports = tx[b].ports /\ tx'[b].dep = tx[b].dep
             /\ tx'[b].ip = tx[b].ip
    <3>1. IndexOK(b)
      BY DEF PortsInv, PortInv
    <3>2. ASSUME NEW i \in 1..tx[b].ports, NEW q \in Ports \ {Port(tx[b].dep, i)}
          PROVE  Entry(b, q)' # tx[b].ip[Port(tx[b].dep, i)]
      BY <1>1, <2>2, <3>1 DEF IndexOK, Entry
    <3>3. ASSUME NEW i \in 1..tx[b].ports, NEW c \in Attempts \ {b}
          PROVE  ~Touches(c, tx[b].ip[Port(tx[b].dep, i)])'
      BY <1>10, <2>2, <3>1 DEF IndexOK, Port
    <3> QED
      BY <2>2, <3>2, <3>3 DEF IndexOK, Port
  <2> QED
    BY <1>8, <2>1, <2>2
<1> QED
  BY <1>4, <1>5, <1>7, <1>11 DEF PortInv

\* Clearing addresses keeps the plans and the index in order.
LEMMA PortsCleared ==
  ASSUME PortsInv, StoredUpwards', \A p \in Ports : ip'[p] \in {Null, ip[p]},
         \A b \in Attempts : tx'[b] \in {tx[b], Idle},
         \A b \in Attempts : tx[b].pc = "update" => rows'[tx[b].dep] = rows[tx[b].dep]
  PROVE  PortInv'
<1>1. Idle.pc = "idle" /\ Idle.ports = 0 /\ \A p \in Ports : Idle.ip[p] = Null
  BY DEF Idle
<1>2. \A i \in 1..0 : FALSE
  OBVIOUS
<1>3. AddressesUnique'
  BY DEF PortsInv, PortInv, AddressesUnique
<1>4. OneRollback'
  BY <1>1 DEF PortsInv, PortInv, OneRollback, RollbackSteps
<1>5. ASSUME NEW b \in Attempts PROVE PlanOK(tx[b])'
  <2>1. CASE tx'[b] = Idle
    BY <1>1, <2>1 DEF PlanOK
  <2>2. CASE tx'[b] = tx[b]
    <3>1. PlanOK(tx[b])
      BY DEF PortsInv, PortInv
    <3>2. \A p \in Ports : ip'[p] # Null => ip'[p] = ip[p]
      OBVIOUS
    <3>3. CASE tx[b].pc = "update"
      <4>1. rows'[tx[b].dep] = rows[tx[b].dep]
        BY <3>3
      <4> QED
        BY <2>2, <3>1, <3>2, <3>3, <4>1 DEF PlanOK, Port, PortSet
    <3>4. CASE tx[b].pc # "update"
      BY <2>2, <3>1, <3>4 DEF PlanOK
    <3> QED
      BY <3>3, <3>4
  <2> QED
    BY <2>1, <2>2
<1>6. ASSUME NEW b \in Attempts, NEW x, Touches(b, x)' PROVE Touches(b, x)
  <2>1. x # Null /\ tx'[b] = tx[b]
    BY <1>1, <1>2, <1>6 DEF Touches
  <2>2. PICK i \in 1..tx[b].ports : x \in {tx[b].ip[PortsOf[tx[b].dep][i]], ip'[PortsOf[tx[b].dep][i]]}
    BY <1>6, <2>1 DEF Touches
  <2>3. PortsOf[tx[b].dep][i] \in Ports
    BY UpdatedPort DEF Port
  <2>4. x \in {tx[b].ip[PortsOf[tx[b].dep][i]], ip[PortsOf[tx[b].dep][i]]}
    BY <2>1, <2>2, <2>3
  <2> QED
    BY <2>1, <2>4 DEF Touches
<1>7. ASSUME NEW b \in Attempts PROVE IndexOK(b)'
  <2>1. CASE tx'[b] = Idle
    BY <1>1, <1>2, <2>1 DEF IndexOK
  <2>2. CASE tx'[b] = tx[b]
    <3> DEFINE at(i) == tx[b].ip[Port(tx[b].dep, i)]
    <3>1. IndexOK(b)
      BY DEF PortsInv, PortInv
    <3>2. ASSUME NEW i \in 1..tx[b].ports, NEW q \in Ports \ {Port(tx[b].dep, i)}
          PROVE  Entry(b, q)' # at(i)
      <4>1. at(i) # Null /\ Entry(b, q) # at(i)
        BY <3>1, UpdatedPort DEF IndexOK
      <4>2. Entry(b, q)' \in {Null, Entry(b, q)}
        BY <2>2 DEF Entry
      <4> QED
        BY <4>1, <4>2
    <3>3. ASSUME NEW i \in 1..tx[b].ports, NEW c \in Attempts \ {b}
          PROVE  ~Touches(c, at(i))'
      <4>1. ~Touches(c, at(i))
        BY <3>1 DEF IndexOK
      <4>2. at(i)' = at(i)
        BY <2>2 DEF Port
      <4> HIDE DEF at
      <4> QED
        BY <1>6, <4>1, <4>2
    <3> QED
      BY <2>2, <3>2, <3>3 DEF IndexOK, Port
  <2> QED
    BY <2>1, <2>2
<1> QED
  BY <1>3, <1>4, <1>5, <1>7 DEF PortInv

-----------------------------------------------------------------------------
LEMMA PlanOfIdle == PlanOK(Idle)
BY DEF PlanOK, Idle

LEMMA BeginAllocatePorts ==
  ASSUME PortsInv, NEW a \in Attempts, NEW d \in Deployments, BeginAllocate(a, d)
  PROVE  PortInv'
<1> DEFINE step == IF stag[SliceOf[d]] = Null THEN "tag" ELSE "read"
           next == [Idle EXCEPT !.dep = d, !.pc = step]
<1>1. tx[a] = Idle /\ step \in {"tag", "read"}
  BY DEF BeginAllocate
<1>2. /\ next.pc = step /\ next.ports = 0 /\ \A p \in Ports : next.ip[p] = Null
  BY DEF Idle
<1>3. tx' = [tx EXCEPT ![a] = next] /\ UNCHANGED <<deployment, rows, stored>>
  BY <1>1 DEF BeginAllocate, PortsInv, NetworkInv, NetworkTypeOK
<1> HIDE DEF next, step
<1>4. PlanOK(next) /\ next.pc \notin RollbackSteps
  BY <1>1, <1>2 DEF PlanOK, RollbackSteps
<1> QED
  BY <1>2, <1>3, <1>4, PortFrame

LEMMA BeginRollbackPorts ==
  ASSUME PortsInv, NEW a \in Attempts, NEW d \in Deployments, BeginRollback(a, d)
  PROVE  PortInv'
<1> DEFINE next == [Idle EXCEPT !.dep = d, !.pc = "undo ports"]
<1>1. /\ next.pc = "undo ports" /\ next.dep = d /\ next.ports = 0
      /\ \A p \in Ports : next.ip[p] = Null
  BY DEF Idle
<1>2. tx' = [tx EXCEPT ![a] = next] /\ UNCHANGED <<deployment, rows, stored>>
  BY DEF BeginRollback, PortsInv, NetworkInv, NetworkTypeOK
<1>3. \A b \in Attempts : ~(tx[b].pc \in RollbackSteps /\ tx[b].dep = d)
  BY DEF BeginRollback, HoldsLinks
<1> HIDE DEF next
<1>4. PlanOK(next)
  BY <1>1 DEF PlanOK
<1> QED
  BY <1>1, <1>2, <1>3, <1>4, PortFrame

LEMMA TakeTagPorts ==
  ASSUME PortsInv, NEW a \in Attempts, TakeTag(a)
  PROVE  PortInv'
<1> DEFINE x == tx[a]
           tag == Min(FreeTags)
           next == [x EXCEPT !.pc = "read", !.tag = tag]
<1>1. tx \in [Attempts -> Transactions] /\ x \in Transactions /\ PlanOK(x)
  BY DEF PortsInv, PortInv, NetworkInv, NetworkTypeOK
<1>2. x.pc = "tag"
  BY DEF TakeTag
<1>3. tx' = [tx EXCEPT ![a] = next] /\ UNCHANGED <<deployment, rows, stored>>
  BY <1>1 DEF TakeTag
<1> HIDE DEF x, tag
<1>4. next.pc = "read" /\ next.ports = x.ports /\ next.ip = x.ip
  BY <1>1 DEF Transactions
<1> HIDE DEF next
<1>5. next.ports = 0 /\ PlanOK(next) /\ next.pc \notin RollbackSteps
  BY <1>1, <1>2, <1>4 DEF PlanOK, RollbackSteps
<1> QED
  BY <1>3, <1>5, PortFrame

\* The plan goes upwards, and no port of the deployment is planned above the address
\* it has: that address is not used by others, so the lowest ones are not above it.
LEMMA ReadUsedPorts ==
  ASSUME PortsInv, NEW a \in Attempts, ReadUsed(a)
  PROVE  PortInv'
<1> DEFINE x == tx[a]
           d == x.dep
           ports == PortsOfTx(a)
           free == FreeAddresses(d)
           place(p) == CHOOSE i \in 1..Len(ports) : ports[i] = p
           plan == [p \in Ports |-> IF \E i \in 1..Len(ports) : ports[i] = p
                                    THEN Nth(free, place(p)) ELSE Null]
           next == [x EXCEPT !.pc = "update", !.ip = plan]
<1>1. tx \in [Attempts -> Transactions] /\ x \in Transactions /\ TxOK(x) /\ PlanOK(x)
  BY DEF PortsInv, PortInv, NetworkInv, NetworkTypeOK
<1>2. x.pc = "read" /\ Len(ports) <= Cardinality(free) /\ x.ports = 0
  BY <1>1 DEF ReadUsed, PlanOK
<1>3. tx' = [tx EXCEPT ![a] = next] /\ UNCHANGED <<deployment, rows, stored>>
  BY <1>1 DEF ReadUsed
<1>4. d \in Deployments
  BY <1>1, <1>2 DEF TxOK
<1>5. PortsOf[d] \in Seq(Ports) /\ Len(PortsOf[d]) \in Nat
  BY <1>4, NetworkAssumption
<1>6. ports = (IF rows[d] THEN PortsOf[d] ELSE <<>>)
  BY DEF PortsOfTx
<1>7. free \in SUBSET Nat /\ IsFiniteSet(free) /\ Cardinality(free) \in Nat /\ 0 \notin free
  <2>1. free \in SUBSET (1..MaxIp)
    BY DEF FreeAddresses
  <2>2. IsFiniteSet(1..MaxIp)
    BY NetworkAssumption, FS_Interval
  <2>3. free \in SUBSET Nat /\ 0 \notin free
    BY <2>1, NetworkAssumption
  <2> QED
    BY <2>1, <2>2, <2>3, FS_Subset, FS_CardinalityType
<1>8. \A p \in Ports : ip[p] # Null /\ p \in PortSet(d) => ip[p] \in free
  <2> SUFFICES ASSUME NEW p \in Ports, ip[p] # Null, p \in PortSet(d)
               PROVE  ip[p] \in free
    OBVIOUS
  <2>1. ip[p] \in 0..MaxIp
    BY DEF PortsInv, NetworkInv, NetworkTypeOK
  <2>2. ip[p] \in 1..MaxIp
    BY <2>1, NetworkAssumption DEF Null
  <2>3. \A q \in Ports \ PortSet(d) : ip[q] # ip[p]
    BY DEF PortsInv, PortInv, AddressesUnique
  <2> QED
    BY <2>2, <2>3 DEF FreeAddresses, OthersAddresses
<1> HIDE DEF free
<1>9. ASSUME rows[d], NEW i \in 1..Len(PortsOf[d])
      PROVE  /\ Port(d, i) \in Ports /\ i \in 1..Cardinality(free)
             /\ plan[Port(d, i)] = Nth(free, i) /\ Nth(free, i) \in free
  <2>1. Port(d, i) \in Ports
    BY <1>5 DEF Port
  <2>2. place(Port(d, i)) = i
    BY <1>4, <1>6, <1>9, NetworkAssumption DEF Port
  <2>3. i \in 1..Len(ports) /\ ports[i] = Port(d, i)
    BY <1>6, <1>9 DEF Port
  <2>4. i \in 1..Cardinality(free)
    BY <1>2, <1>5, <1>6, <1>7, <1>9
  <2> HIDE DEF place, ports
  <2>5. plan[Port(d, i)] = Nth(free, i)
    BY <2>1, <2>2, <2>3
  <2>6. Nth(free, i) \in free
    BY <1>7, <2>4, NthExists
  <2> QED
    BY <2>1, <2>4, <2>5, <2>6
<1>10. ASSUME NEW p \in Ports
       PROVE  \/ rows[d] /\ \E i \in 1..Len(PortsOf[d]) : Port(d, i) = p
              \/ plan[p] = Null /\ ~(rows[d] /\ p \in PortSet(d))
  <2>1. CASE rows[d]
    BY <1>6, <2>1 DEF Port, PortSet
  <2>2. CASE ~rows[d]
    <3>1. \A i \in 1..0 : FALSE
      OBVIOUS
    <3>2. Len(ports) = 0
      BY <1>6, <2>2
    <3> QED
      BY <2>2, <3>1, <3>2
  <2> QED
    BY <2>1, <2>2
<1> HIDE DEF x, plan, ports, d
<1>11. next.pc = "update" /\ next.dep = d /\ next.ports = 0 /\ next.ip = plan
  BY <1>1, <1>2 DEF Transactions, d
<1> HIDE DEF next
<1>12. \A p \in Ports : plan[p] # Null <=> rows[d] /\ p \in PortSet(d)
  <2> SUFFICES ASSUME NEW p \in Ports PROVE plan[p] # Null <=> rows[d] /\ p \in PortSet(d)
    OBVIOUS
  <2>1. CASE rows[d] /\ \E i \in 1..Len(PortsOf[d]) : Port(d, i) = p
    <3>1. PICK i \in 1..Len(PortsOf[d]) : Port(d, i) = p
      BY <2>1
    <3>2. plan[p] \in free
      BY <1>9, <2>1, <3>1
    <3>3. p \in PortSet(d)
      BY <3>1 DEF Port, PortSet
    <3> QED
      BY <1>7, <2>1, <3>2, <3>3 DEF Null
  <2>2. CASE plan[p] = Null /\ ~(rows[d] /\ p \in PortSet(d))
    BY <2>2
  <2> QED
    BY <1>10, <2>1, <2>2
<1>13. ASSUME rows[d], NEW i \in 1..Len(PortsOf[d]), NEW j \in 1..Len(PortsOf[d]), i < j
       PROVE  plan[Port(d, i)] < plan[Port(d, j)]
  BY <1>7, <1>9, <1>13, NthAscends
<1>14. ASSUME NEW p \in Ports, ip[p] # Null, plan[p] # Null PROVE plan[p] <= ip[p]
  <2>1. rows[d]
    BY <1>12, <1>14
  <2>2. PICK i \in 1..Len(PortsOf[d]) : Port(d, i) = p
    BY <1>10, <1>14
  <2>3. plan[p] = Nth(free, i) /\ i \in 1..Cardinality(free)
    BY <1>9, <2>1, <2>2
  <2> DEFINE own == [j \in 1..i |-> ip[Port(d, j)]]
  <2>4. i \in Nat /\ \A j \in 1..i : j \in 1..Len(PortsOf[d]) /\ (j = i \/ j < i)
    BY <1>5
  <2>5. \A j \in 1..i : j # i => ip[Port(d, j)] # Null /\ ip[Port(d, j)] < ip[p]
    BY <1>4, <1>14, <2>2, <2>4 DEF PortsInv, PortInv, StoredUpwards
  <2>6. \A j \in 1..i : ip[Port(d, j)] \in free
    <3> SUFFICES ASSUME NEW j \in 1..i PROVE ip[Port(d, j)] \in free
      OBVIOUS
    <3>1. Port(d, j) \in Ports /\ Port(d, j) \in PortSet(d)
      BY <1>5, <2>4 DEF Port, PortSet
    <3>2. ip[Port(d, j)] # Null
      BY <1>14, <2>2, <2>5
    <3> QED
      BY <1>8, <3>1, <3>2
  <2>7. own \in [1..i -> free]
    BY <2>6
  <2>8. \A j, k \in 1..i : j < k => own[j] < own[k]
    <3> SUFFICES ASSUME NEW j \in 1..i, NEW k \in 1..i, j < k PROVE own[j] < own[k]
      OBVIOUS
    <3>1. ip[Port(d, k)] # Null
      BY <1>14, <2>2, <2>5
    <3>2. ip[Port(d, j)] < ip[Port(d, k)]
      BY <1>4, <2>4, <3>1 DEF PortsInv, PortInv, StoredUpwards
    <3> QED
      BY <3>2
  <2>9. ip[p] \in Nat /\ \A j \in 1..i : own[j] <= ip[p]
    <3>1. i \in 1..i
      BY <2>4
    <3>2. ip[p] \in free /\ \A j \in 1..i : ip[Port(d, j)] \in Nat
      BY <1>7, <2>2, <2>6, <3>1
    <3>3. \A j \in 1..i : ip[Port(d, j)] <= ip[p]
      BY <1>7, <2>2, <2>5, <3>2
    <3> QED
      BY <1>7, <3>2, <3>3
  <2> HIDE DEF own
  <2>10. Nth(free, i) <= ip[p]
    BY <1>7, <2>3, <2>7, <2>8, <2>9, NthBelow
  <2> QED
    BY <2>3, <2>10
<1>15. PlanOK(next)
  BY <1>5, <1>11, <1>12, <1>13, <1>14 DEF PlanOK
<1> QED
  BY <1>3, <1>11, <1>15, PortFrame DEF RollbackSteps

LEMMA AllocateLinkPorts ==
  ASSUME PortsInv, NEW a \in Attempts, AllocateLink(a)
  PROVE  PortInv'
<1> DEFINE x == tx[a]
           l == LinksOf[x.dep][x.links + 1]
           b == FirstBlock(FreeBlocks(a, PrivateSize(Endpoints[l]), LastStart(a)))
           t == Min(FreeCtags(a))
           next == [x EXCEPT !.links = x.links + 1, !.block = [x.block EXCEPT ![l] = b],
                             !.ctag = [x.ctag EXCEPT ![l] = t]]
<1>1. tx \in [Attempts -> Transactions] /\ x \in Transactions /\ PlanOK(x)
  BY DEF PortsInv, PortInv, NetworkInv, NetworkTypeOK
<1>2. x.pc = "update"
  BY DEF AllocateLink, AtLink
<1>3. tx' = [tx EXCEPT ![a] = next] /\ UNCHANGED <<deployment, rows, stored>>
  BY <1>1 DEF AllocateLink, Transactions
<1> HIDE DEF x, l, b, t
<1>4. next.pc = x.pc /\ next.dep = x.dep /\ next.ports = x.ports /\ next.ip = x.ip
  BY <1>1 DEF Transactions
<1> HIDE DEF next
<1>5. PlanOK(next) /\ next.pc \notin RollbackSteps
  BY <1>1, <1>2, <1>4 DEF PlanOK, RollbackSteps
<1>6. next.ports = tx[a].ports /\ next.dep = tx[a].dep /\ next.ip = tx[a].ip
  BY <1>4 DEF x
<1> QED
  BY <1>3, <1>5, <1>6, PortFrame

LEMMA UndoPortsPorts ==
  ASSUME PortsInv, NEW a \in Attempts, UndoPorts(a)
  PROVE  PortInv'
<1> DEFINE x == tx[a]
           next == [x EXCEPT !.pc = "undo slice"]
<1>1. tx \in [Attempts -> Transactions] /\ x \in Transactions /\ PlanOK(x)
  BY DEF PortsInv, PortInv, NetworkInv, NetworkTypeOK
<1>2. x.pc = "undo ports"
  BY DEF UndoPorts
<1>3. tx' = [tx EXCEPT ![a] = next] /\ UNCHANGED <<deployment, rows, stored>>
  BY <1>1 DEF UndoPorts
<1>4. \A b \in Attempts \ {a} : ~(tx[b].pc \in RollbackSteps /\ tx[b].dep = x.dep)
  BY <1>2 DEF PortsInv, PortInv, OneRollback, RollbackSteps
<1> HIDE DEF x
<1>5. next.pc = "undo slice" /\ next.dep = x.dep /\ next.ports = x.ports /\ next.ip = x.ip
  BY <1>1 DEF Transactions
<1> HIDE DEF next
<1>6. PlanOK(next) /\ next.ports = 0
  BY <1>1, <1>2, <1>5 DEF PlanOK
<1> QED
  BY <1>3, <1>4, <1>5, <1>6, PortFrame

LEMMA AbortPorts ==
  ASSUME PortsInv, NEW a \in Attempts, Abort(a)
  PROVE  PortInv'
<1>1. Idle.pc = "idle" /\ Idle.ports = 0
  BY DEF Idle
<1> QED
  BY <1>1, PlanOfIdle, PortFrame DEF Abort, RollbackSteps

\* Clearing the ports of a deployment.
LEMMA ClearedUpwards ==
  ASSUME PortsInv, NEW d \in Deployments,
         ip' = [p \in Ports |-> IF p \in PortSet(d) THEN Null ELSE ip[p]]
  PROVE  StoredUpwards' /\ \A p \in Ports : ip'[p] \in {Null, ip[p]}
<1>1. \A p \in Ports : ip'[p] = IF p \in PortSet(d) THEN Null ELSE ip[p]
  OBVIOUS
<1>2. ASSUME NEW e \in Deployments,
             NEW i \in 1..Len(PortsOf[e]), NEW j \in 1..Len(PortsOf[e]),
             i < j, ip'[Port(e, j)] # Null
      PROVE  ip'[Port(e, i)] # Null /\ ip'[Port(e, i)] < ip'[Port(e, j)]
  <2>1. Port(e, i) \in Ports /\ Port(e, j) \in Ports
        /\ Port(e, i) \in PortSet(e) /\ Port(e, j) \in PortSet(e)
    BY NetworkAssumption DEF Port, PortSet
  <2>2. e # d
    BY <1>1, <1>2, <2>1
  <2>3. Port(e, i) \notin PortSet(d) /\ Port(e, j) \notin PortSet(d)
    BY <2>2, NetworkAssumption DEF Port, PortSet
  <2>4. ip'[Port(e, i)] = ip[Port(e, i)] /\ ip'[Port(e, j)] = ip[Port(e, j)]
    BY <1>1, <2>1, <2>3
  <2> QED
    BY <1>2, <2>4 DEF PortsInv, PortInv, StoredUpwards
<1> QED
  BY <1>1, <1>2 DEF StoredUpwards, Port

\* While a transaction updates, nobody creates or deletes the rows of its deployment.
LEMMA RegistryPorts ==
  ASSUME PortsInv, NEW d \in Deployments,
         RequestDeployment(d) \/ CreateInventory(d) \/ FinishUndone(d)
  PROVE  PortInv'
<1>1. rows \in [Deployments -> BOOLEAN] /\ ip \in [Ports -> 0..MaxIp]
  BY DEF PortsInv, NetworkInv, NetworkTypeOK
<1>2. \A b \in Attempts : tx[b].pc = "update" => tx[b].dep \in Deployments
  BY DEF PortsInv, NetworkInv, TxOK
<1>3. tx' = tx
  BY DEF RequestDeployment, CreateInventory, FinishUndone
<1>4. \A b \in Attempts : tx[b].pc = "update" => rows'[tx[b].dep] = rows[tx[b].dep]
  <2>1. CASE RequestDeployment(d)
    BY <2>1 DEF RequestDeployment
  <2>2. CASE CreateInventory(d) \/ FinishUndone(d)
    <3>1. \A e \in Deployments \ {d} : rows'[e] = rows[e]
      BY <1>1, <2>2 DEF CreateInventory, FinishUndone
    <3>2. \A b \in Attempts : tx[b].pc = "update" => tx[b].dep # d
      BY <2>2 DEF CreateInventory, FinishUndone, HoldsRows, HoldsSlice, AllocateSteps
    <3> QED
      BY <1>2, <3>1, <3>2
  <2> QED
    BY <2>1, <2>2
<1>5. /\ \A p \in Ports : ip'[p] \in {Null, ip[p]}
      /\ StoredUpwards'
  <2>1. CASE RequestDeployment(d) \/ CreateInventory(d)
    <3>1. ip' = ip
      BY <2>1 DEF RequestDeployment, CreateInventory, stored
    <3> QED
      BY <3>1 DEF PortsInv, PortInv, StoredUpwards, Port
  <2>2. CASE FinishUndone(d)
    BY <2>2, ClearedUpwards DEF FinishUndone
  <2> QED
    BY <2>1, <2>2
<1> QED
  BY <1>3, <1>4, <1>5, PortsCleared

LEMMA CommitRollbackPorts ==
  ASSUME PortsInv, NEW a \in Attempts, CommitRollback(a)
  PROVE  PortInv'
<1> DEFINE d == tx[a].dep
<1>1. d \in Deployments
  BY DEF CommitRollback, PortsInv, NetworkInv, TxOK
<1>2. rows' = rows /\ tx' = [tx EXCEPT ![a] = Idle]
  BY DEF CommitRollback
<1>3. \A b \in Attempts : tx'[b] \in {tx[b], Idle}
  BY <1>2 DEF PortsInv, NetworkInv, NetworkTypeOK
<1>4. StoredUpwards' /\ \A p \in Ports : ip'[p] \in {Null, ip[p]}
  BY <1>1, ClearedUpwards DEF CommitRollback
<1> QED
  BY <1>2, <1>3, <1>4, PortsCleared

-----------------------------------------------------------------------------
\* An update: the index has let it pass, so no other port has the new address and no
\* other transaction has touched it.
LEMMA UpdatePortPorts ==
  ASSUME PortsInv, NEW a \in Attempts, UpdatePort(a)
  PROVE  PortInv'
<1> DEFINE x == tx[a]
           d == x.dep
           n == x.ports + 1
           p == Port(d, n)
           next == [x EXCEPT !.ports = n]
<1>1. /\ tx \in [Attempts -> Transactions] /\ x \in Transactions
      /\ TxOK(x) /\ PlanOK(x) /\ IndexOK(a)
  BY DEF PortsInv, PortInv, NetworkInv, NetworkTypeOK
<1>2. /\ x.pc = "update" /\ x.ports < Len(PortsOfTx(a))
      /\ \A b \in Attempts \ {a} : ~Touches(b, x.ip[p])
      /\ \A q \in Ports : x.ip[p] = Entry(a, q) => q = p
  BY DEF UpdatePort, AtPort, NextAddress, NextPort, Port
<1>3. rows' = rows /\ ip' = ip /\ tx' = [tx EXCEPT ![a] = next]
  BY <1>1 DEF UpdatePort, stored
<1>4. d \in Deployments /\ x.ports \in Nat
  BY <1>1, <1>2 DEF TxOK, Transactions
<1>5. rows[d] /\ n \in 1..Len(PortsOf[d]) /\ n <= Len(PortsOf[d])
  <2>1. rows[d]
    BY <1>2, <1>4 DEF PortsOfTx
  <2>2. Len(PortsOf[d]) \in Nat /\ x.ports < Len(PortsOf[d])
    BY <1>2, <1>4, <2>1, NetworkAssumption DEF PortsOfTx
  <2> QED
    BY <1>4, <2>1, <2>2
<1>6. p \in Ports /\ p \in PortSet(d)
  BY <1>4, <1>5, NetworkAssumption DEF Port, PortSet
<1>7. x.ip[p] # Null
  BY <1>1, <1>2, <1>5, <1>6 DEF PlanOK
<1>8. /\ tx'[a] = next /\ \A b \in Attempts \ {a} : tx'[b] = tx[b]
      /\ \A i \in 1..n : i = n \/ (i \in 1..x.ports /\ i < n)
      /\ \A i \in 1..x.ports : i \in 1..n
      /\ n \in 1..n
  <2>1. tx'[a] = next /\ \A b \in Attempts \ {a} : tx'[b] = tx[b]
    BY <1>1, <1>3
  <2> HIDE DEF x, next
  <2> QED
    BY <1>4, <2>1
<1> HIDE DEF x, p, d
<1>9. next.pc = x.pc /\ next.dep = x.dep /\ next.ports = n /\ next.ip = x.ip
  BY <1>1 DEF Transactions
<1> HIDE DEF n, next
<1>10. PlanOK(next)
  BY <1>1, <1>2, <1>5, <1>7, <1>9 DEF PlanOK, d
<1>11. AddressesUnique' /\ StoredUpwards'
  BY <1>3 DEF PortsInv, PortInv, AddressesUnique, StoredUpwards, Port
<1>12. OneRollback'
  BY <1>2, <1>8, <1>9 DEF PortsInv, PortInv, OneRollback, RollbackSteps
<1>13. ASSUME NEW b \in Attempts PROVE PlanOK(tx[b])'
  <2>1. PlanOK(tx'[b])
    BY <1>8, <1>10 DEF PortsInv, PortInv
  <2> QED
    BY <1>3, <2>1 DEF PlanOK, Port, PortSet
<1>14. ASSUME NEW b \in Attempts \ {a}, NEW y PROVE Touches(b, y)' <=> Touches(b, y)
  BY <1>3, <1>8 DEF Touches
<1>15. ASSUME NEW q \in Ports \ {p} PROVE Entry(a, q)' = Entry(a, q)
  <2>1. (\E i \in 1..n : PortsOf[d][i] = q) <=> (\E i \in 1..x.ports : PortsOf[d][i] = q)
    BY <1>8 DEF p, Port
  <2> QED
    BY <1>3, <1>8, <1>9, <2>1 DEF Entry, x, d
<1>16. ASSUME NEW q, q = p PROVE Entry(a, q)' = x.ip[p]
  <2>1. tx'[a].ports = n /\ tx'[a].dep = d /\ tx'[a].ip = x.ip
    BY <1>8, <1>9 DEF d
  <2>2. PortsOf[d][n] = p
    BY DEF p, Port
  <2> QED
    BY <1>8, <1>16, <2>1, <2>2 DEF Entry
<1>17. IndexOK(a)'
  <2>1. ASSUME NEW i \in 1..n, NEW q \in Ports \ {Port(d, i)}
        PROVE  Entry(a, q)' # x.ip[Port(d, i)]
    <3>1. CASE i = n
      BY <1>2, <1>15, <2>1, <3>1 DEF p
    <3>2. CASE i # n
      <4>1. i \in 1..x.ports /\ i < n
        BY <1>8, <3>2
      <4>2. CASE q = p
        <5>1. i \in 1..Len(PortsOf[d]) /\ Port(d, i) \in Ports
          BY <4>1, UpdatedPort DEF x, d
        <5>2. x.ip[Port(d, i)] < x.ip[p]
          BY <1>1, <1>2, <1>5, <4>1, <5>1 DEF PlanOK, p, d
        <5>3. x.ip[Port(d, i)] \in 0..MaxIp /\ x.ip[p] \in 0..MaxIp
          BY <1>1, <1>6, <5>1 DEF Transactions
        <5> QED
          BY <1>16, <4>2, <5>2, <5>3
      <4>3. CASE q # p
        <5>1. Entry(a, q) # x.ip[Port(d, i)]
          BY <1>1, <2>1, <4>1 DEF IndexOK, x, d
        <5> QED
          BY <1>15, <4>3, <5>1
      <4> QED
        BY <4>2, <4>3
    <3> QED
      BY <3>1, <3>2
  <2>2. ASSUME NEW i \in 1..n, NEW b \in Attempts \ {a}
        PROVE  ~Touches(b, x.ip[Port(d, i)])'
    <3>1. ~Touches(b, x.ip[Port(d, i)])
      <4>1. CASE i = n
        BY <1>2, <4>1 DEF p
      <4>2. CASE i # n
        BY <1>1, <1>8, <4>2 DEF IndexOK, x, d
      <4> QED
        BY <4>1, <4>2
    <3> DEFINE new == x.ip[Port(d, i)]
    <3>2. new' = new
      BY <1>8, <1>9 DEF x, d, Port
    <3> HIDE DEF new
    <3> QED
      BY <1>3, <1>8, <3>1, <3>2 DEF Touches, new
  <2>3. tx'[a].ports = n /\ tx'[a].dep = d /\ tx'[a].ip = x.ip /\ x' = tx'[a] /\ d' = d
    BY <1>8, <1>9 DEF d, x
  <2> QED
    BY <2>1, <2>2, <2>3 DEF IndexOK, Port
<1>18. ASSUME NEW b \in Attempts \ {a} PROVE IndexOK(b)'
  <2> DEFINE at(i) == tx[b].ip[Port(tx[b].dep, i)]
  <2>1. IndexOK(b) /\ tx'[b] = tx[b]
    BY <1>8 DEF PortsInv, PortInv
  <2>2. ASSUME NEW i \in 1..tx[b].ports, NEW q \in Ports \ {Port(tx[b].dep, i)}
        PROVE  Entry(b, q)' # at(i)
    BY <1>3, <2>1 DEF IndexOK, Entry
  <2>3. ASSUME NEW i \in 1..tx[b].ports, NEW c \in Attempts \ {b}
        PROVE  ~Touches(c, at(i))'
    <3>1. ~Touches(c, at(i)) /\ at(i) # Null /\ tx[b].pc = "update"
      BY <2>1, UpdatedPort DEF IndexOK
    <3>2. at(i)' = at(i)
      BY <2>1 DEF Port
    <3> DEFINE y == at(i)
    <3>3. CASE c # a
      <4>1. tx'[c] = tx[c]
        BY <1>8, <3>3
      <4> HIDE DEF at
      <4> QED
        BY <1>3, <3>1, <3>2, <4>1 DEF Touches
    <3>4. CASE c = a
      <4>1. at(i) # x.ip[p]
        <5>1. Touches(b, at(i))
          BY <3>1 DEF Touches, Port
        <5> QED
          BY <1>2, <5>1
      <4>2. at(i) # ip[p]
        <5>1. p \notin PortSet(tx[b].dep) /\ tx[b].dep \in Deployments
          BY <1>2, <1>6, <3>1, OtherPorts DEF x, d, PortsInv, NetworkInv, TxOK
        <5>2. \A j \in 1..tx[b].ports : Port(tx[b].dep, j) # p
          BY <5>1, UpdatedPort
        <5>3. Entry(b, p) = ip[p]
          BY <5>2 DEF Entry, Port
        <5>4. Entry(b, p) # at(i)
          BY <1>6, <2>1, <5>2 DEF IndexOK
        <5> QED
          BY <5>3, <5>4
      <4>3. \A j \in 1..x.ports : at(i) \notin {x.ip[Port(d, j)], ip[Port(d, j)]}
        BY <3>1, <3>4 DEF Touches, x, d, Port
      <4> HIDE DEF at
      <4>4. \A j \in 1..n : at(i) \notin {x.ip[Port(d, j)], ip[Port(d, j)]}
        BY <1>8, <4>1, <4>2, <4>3 DEF p
      <4> QED
        BY <1>3, <1>8, <1>9, <3>2, <3>4, <4>4 DEF Touches, Port, d
    <3> QED
      BY <3>3, <3>4
  <2> QED
    BY <2>1, <2>2, <2>3 DEF IndexOK, Port
<1> QED
  BY <1>11, <1>12, <1>13, <1>17, <1>18 DEF PortInv

\* The commit stores what the index has seen: the addresses of all ports of the
\* deployment, or none.
LEMMA CommittedAddresses ==
  ASSUME PortsInv, NEW a \in Attempts, CommitAllocate(a)
  PROVE  /\ \A q \in Ports : ip'[q] = Entry(a, q)
         /\ \A q \in Ports \ PortSet(tx[a].dep) : ip'[q] = ip[q]
         /\ \A q \in Ports : ip[q] # Null /\ ip'[q] # Null => ip'[q] <= ip[q]
<1> DEFINE x == tx[a]
           d == x.dep
<1>1. x \in Transactions /\ TxOK(x) /\ PlanOK(x)
  BY DEF PortsInv, PortInv, NetworkInv, NetworkTypeOK
<1>2. x.pc = "update" /\ x.ports = Len(PortsOfTx(a))
  BY DEF CommitAllocate, Updated
<1>3. ip \in [Ports -> 0..MaxIp]
  BY DEF PortsInv, NetworkInv, NetworkTypeOK
<1>4. \A q \in Ports : ip'[q] = IF x.ip[q] # Null THEN x.ip[q] ELSE ip[q]
  BY DEF CommitAllocate
<1>5. \A q \in Ports : x.ip[q] # Null <=> rows[d] /\ q \in PortSet(d)
  BY <1>1, <1>2 DEF PlanOK
<1>6. ASSUME NEW q \in Ports
      PROVE  (\E i \in 1..x.ports : PortsOf[d][i] = q) <=> rows[d] /\ q \in PortSet(d)
  <2>1. CASE rows[d]
    BY <1>2, <2>1 DEF PortsOfTx, PortSet
  <2>2. CASE ~rows[d]
    <3>1. x.ports = 0
      BY <1>2, <2>2 DEF PortsOfTx
    <3>2. \A i \in 1..0 : FALSE
      OBVIOUS
    <3> QED
      BY <2>2, <3>1, <3>2
  <2> QED
    BY <2>1, <2>2
<1>7. \A q \in Ports : ip'[q] = Entry(a, q)
  BY <1>4, <1>5, <1>6 DEF Entry
<1>8. \A q \in Ports \ PortSet(d) : ip'[q] = ip[q]
  BY <1>4, <1>5
<1>9. \A q \in Ports : ip[q] # Null /\ ip'[q] # Null => ip'[q] <= ip[q]
  BY <1>1, <1>2, <1>3, <1>4 DEF PlanOK
<1> QED
  BY <1>7, <1>8, <1>9

LEMMA CommitAllocatePorts ==
  ASSUME PortsInv, NEW a \in Attempts, CommitAllocate(a)
  PROVE  PortInv'
<1> DEFINE x == tx[a]
           d == x.dep
<1>1. /\ tx \in [Attempts -> Transactions] /\ x \in Transactions
      /\ TxOK(x) /\ PlanOK(x) /\ IndexOK(a) /\ x.pc = "update"
  BY DEF PortsInv, PortInv, NetworkInv, NetworkTypeOK, CommitAllocate, Updated
<1>2. d \in Deployments /\ x.ports \in Nat
  BY <1>1 DEF TxOK, Transactions
<1>3. rows' = rows /\ tx' = [tx EXCEPT ![a] = Idle]
  BY DEF CommitAllocate
<1>4. tx'[a] = Idle /\ \A b \in Attempts \ {a} : tx'[b] = tx[b]
  BY <1>1, <1>3
<1>5. Idle.pc = "idle" /\ Idle.ports = 0
  BY DEF Idle
<1>6. /\ \A q \in Ports : ip'[q] = Entry(a, q)
      /\ \A q \in Ports \ PortSet(d) : ip'[q] = ip[q]
  BY CommittedAddresses
<1>7. \A q \in Ports :
        \/ ip'[q] = ip[q]
        \/ \E i \in 1..x.ports : Port(d, i) = q /\ ip'[q] = x.ip[q]
  BY <1>6 DEF Entry, Port
<1>8. \A i \in 1..x.ports : \A q \in Ports \ {Port(d, i)} : ip'[q] # x.ip[Port(d, i)]
  BY <1>1, <1>6 DEF IndexOK
<1>9. AddressesUnique'
  <2> SUFFICES ASSUME NEW p \in Ports, NEW q \in Ports, p # q, ip'[p] # Null
               PROVE  ip'[p] # ip'[q]
    BY DEF AddressesUnique
  <2>1. CASE ip'[p] = ip[p] /\ ip'[q] = ip[q]
    BY <2>1 DEF PortsInv, PortInv, AddressesUnique
  <2>2. CASE \E i \in 1..x.ports : Port(d, i) = p /\ ip'[p] = x.ip[p]
    BY <1>8, <2>2
  <2>3. CASE \E i \in 1..x.ports : Port(d, i) = q /\ ip'[q] = x.ip[q]
    BY <1>8, <2>3
  <2> QED
    BY <1>7, <2>1, <2>2, <2>3
<1>10. ASSUME NEW e \in Deployments, NEW i \in 1..Len(PortsOf[e]), NEW j \in 1..Len(PortsOf[e]),
              i < j, ip'[Port(e, j)] # Null
       PROVE  ip'[Port(e, i)] # Null /\ ip'[Port(e, i)] < ip'[Port(e, j)]
  <2>1. Port(e, i) \in Ports /\ Port(e, j) \in Ports
        /\ Port(e, i) \in PortSet(e) /\ Port(e, j) \in PortSet(e)
    BY NetworkAssumption DEF Port, PortSet
  <2>2. CASE e = d /\ rows[d]
    <3>1. x.ports = Len(PortsOf[d])
      BY <2>2 DEF CommitAllocate, Updated, PortsOfTx
    <3>2. ip'[Port(d, i)] = x.ip[Port(d, i)] /\ ip'[Port(d, j)] = x.ip[Port(d, j)]
      BY <1>6, <2>1, <2>2, <3>1 DEF Entry, Port
    <3>3. x.ip[Port(d, i)] # Null /\ x.ip[Port(d, i)] < x.ip[Port(d, j)]
      BY <1>1, <1>10, <2>1, <2>2 DEF PlanOK
    <3> QED
      BY <2>2, <3>2, <3>3
  <2>3. CASE ~(e = d /\ rows[d])
    <3>1. ip'[Port(e, i)] = ip[Port(e, i)] /\ ip'[Port(e, j)] = ip[Port(e, j)]
      <4>1. CASE e # d
        <5>1. Port(e, i) \notin PortSet(d) /\ Port(e, j) \notin PortSet(d)
          BY <1>2, <4>1, NetworkAssumption DEF Port, PortSet
        <5> QED
          BY <1>6, <2>1, <5>1
      <4>2. CASE ~rows[d]
        <5>1. \A k \in 1..x.ports : rows[d]
          BY UpdatedPort
        <5> QED
          BY <1>7, <2>1, <4>2, <5>1
      <4> QED
        BY <2>3, <4>1, <4>2
    <3> QED
      BY <1>10, <3>1 DEF PortsInv, PortInv, StoredUpwards
  <2> QED
    BY <2>2, <2>3
<1>11. StoredUpwards'
  BY <1>10 DEF StoredUpwards, Port
<1>12. OneRollback'
  BY <1>4, <1>5 DEF PortsInv, PortInv, OneRollback, RollbackSteps
<1>13. ASSUME NEW b \in Attempts \ {a}, tx[b].pc = "update", NEW q \in PortSet(tx[b].dep)
       PROVE  q \in Ports /\ ip'[q] = ip[q]
  <2>1. q \notin PortSet(d)
    BY <1>1, <1>13, OtherPorts
  <2>2. q \in Ports
    <3>1. tx[b].dep \in Deployments
      BY <1>13 DEF PortsInv, NetworkInv, TxOK
    <3> QED
      BY <3>1, NetworkAssumption DEF PortSet
  <2> QED
    BY <1>6, <2>1, <2>2
<1>14. ASSUME NEW b \in Attempts PROVE PlanOK(tx[b])'
  <2>1. CASE b = a
    <3>1. PlanOK(Idle)
      BY PlanOfIdle
    <3> QED
      BY <1>4, <1>5, <2>1, <3>1 DEF PlanOK
  <2>2. CASE b # a
    <3>1. PlanOK(tx[b]) /\ tx'[b] = tx[b]
      BY <1>4, <2>2 DEF PortsInv, PortInv
    <3>2. CASE tx[b].pc = "update"
      <4>1. \A p \in Ports : ip'[p] # Null /\ tx[b].ip[p] # Null => tx[b].ip[p] <= ip'[p]
        BY <1>13, <2>2, <3>1, <3>2 DEF PlanOK
      <4> QED
        BY <1>3, <3>1, <3>2, <4>1 DEF PlanOK, Port, PortSet
    <3>3. CASE tx[b].pc # "update"
      BY <3>1, <3>3 DEF PlanOK
    <3> QED
      BY <3>2, <3>3
  <2> QED
    BY <2>1, <2>2
<1>15. ASSUME NEW c \in Attempts, NEW y, Touches(c, y)' PROVE c # a /\ Touches(c, y)
  <2>1. \A i \in 1..0 : FALSE
    OBVIOUS
  <2>2. c # a /\ tx'[c] = tx[c]
    BY <1>4, <1>5, <1>15, <2>1 DEF Touches
  <2>3. PICK i \in 1..tx[c].ports :
          y # Null /\ y \in {tx[c].ip[Port(tx[c].dep, i)], ip'[Port(tx[c].dep, i)]}
    BY <1>15, <2>2 DEF Touches, Port
  <2>4. ip'[Port(tx[c].dep, i)] = ip[Port(tx[c].dep, i)]
    BY <1>13, <2>2, UpdatedPort
  <2> QED
    BY <2>2, <2>3, <2>4 DEF Touches, Port
<1>16. ASSUME NEW b \in Attempts PROVE IndexOK(b)'
  <2>1. CASE b = a
    <3>1. \A i \in 1..0 : FALSE
      OBVIOUS
    <3> QED
      BY <1>4, <1>5, <2>1, <3>1 DEF IndexOK
  <2>2. CASE b # a
    <3> DEFINE at(i) == tx[b].ip[Port(tx[b].dep, i)]
    <3>1. IndexOK(b) /\ tx'[b] = tx[b]
      BY <1>4, <2>2 DEF PortsInv, PortInv
    <3>2. ASSUME NEW i \in 1..tx[b].ports, NEW q \in Ports \ {Port(tx[b].dep, i)}
          PROVE  Entry(b, q)' # at(i)
      <4>1. Entry(b, q) # at(i) /\ ~Touches(a, at(i)) /\ at(i) # Null
        BY <2>2, <3>1, UpdatedPort DEF IndexOK
      <4>2. CASE \E j \in 1..tx[b].ports : PortsOf[tx[b].dep][j] = q
        BY <3>1, <4>1, <4>2 DEF Entry
      <4>3. CASE ~\E j \in 1..tx[b].ports : PortsOf[tx[b].dep][j] = q
        <5>1. Entry(b, q)' = ip'[q] /\ Entry(b, q) = ip[q]
          BY <3>1, <4>3 DEF Entry
        <5>2. \A j \in 1..x.ports : x.ip[Port(d, j)] # at(i)
          BY <4>1 DEF Touches, Port
        <5> QED
          BY <1>7, <4>1, <5>1, <5>2
      <4> QED
        BY <4>2, <4>3
    <3>3. ASSUME NEW i \in 1..tx[b].ports, NEW c \in Attempts \ {b}
          PROVE  ~Touches(c, at(i))'
      <4>1. ~Touches(c, at(i))
        BY <3>1 DEF IndexOK
      <4>2. at(i)' = at(i)
        BY <3>1 DEF Port
      <4> HIDE DEF at
      <4> QED
        BY <1>15, <4>1, <4>2
    <3> QED
      BY <3>1, <3>2, <3>3 DEF IndexOK, Port
  <2> QED
    BY <2>1, <2>2
<1> QED
  BY <1>9, <1>11, <1>12, <1>14, <1>16 DEF PortInv

-----------------------------------------------------------------------------
LEMMA PortsInitOK == NetworkInit => PortsInv
<1> SUFFICES ASSUME NetworkInit PROVE PortsInv
  OBVIOUS
<1>1. /\ \A a \in Attempts : tx[a] = Idle
      /\ \A p \in Ports : ip[p] = Null
  BY DEF NetworkInit
<1>2. Idle.pc = "idle" /\ Idle.ports = 0 /\ \A i \in 1..0 : FALSE
  BY DEF Idle
<1>3. StoredUpwards
  <2>1. \A d \in Deployments : \A i \in 1..Len(PortsOf[d]) : Port(d, i) \in Ports
    BY NetworkAssumption DEF Port
  <2> QED
    BY <1>1, <2>1 DEF StoredUpwards
<1>4. \A a \in Attempts : PlanOK(tx[a]) /\ IndexOK(a)
  BY <1>1, <1>2, PlanOfIdle DEF IndexOK
<1>5. AddressesUnique /\ OneRollback
  BY <1>1, <1>2 DEF AddressesUnique, OneRollback, RollbackSteps
<1> QED
  BY <1>3, <1>4, <1>5, NetworkInitOK DEF PortsInv, PortInv

LEMMA PortsStepOK == PortsInv /\ [NetworkNext]_netVars => PortsInv'
<1> SUFFICES ASSUME PortsInv, [NetworkNext]_netVars PROVE PortInv'
  BY NetworkStepOK DEF PortsInv
<1>1. CASE UNCHANGED netVars
  <2>1. rows' = rows /\ ip' = ip /\ tx' = tx
    BY <1>1 DEF netVars
  <2>2. StoredUpwards'
    BY <2>1 DEF PortsInv, PortInv, StoredUpwards, Port
  <2> QED
    BY <2>1, <2>2, PortsCleared
<1>2. ASSUME NEW d \in Deployments,
             RequestDeployment(d) \/ CreateInventory(d) \/ FinishUndone(d)
      PROVE  PortInv'
  BY <1>2, RegistryPorts
<1>3. ASSUME NEW a \in Attempts, AttemptStep(a) PROVE PortInv'
  <2>1. ASSUME NEW d \in Deployments, BeginAllocate(a, d) \/ BeginRollback(a, d)
        PROVE  PortInv'
    BY <2>1, BeginAllocatePorts, BeginRollbackPorts
  <2>2. CASE TakeTag(a)
    BY <2>2, TakeTagPorts
  <2>3. CASE ReadUsed(a)
    BY <2>3, ReadUsedPorts
  <2>4. CASE AllocateLink(a)
    BY <2>4, AllocateLinkPorts
  <2>5. CASE UpdatePort(a)
    BY <2>5, UpdatePortPorts
  <2>6. CASE CommitAllocate(a)
    BY <2>6, CommitAllocatePorts
  <2>7. CASE UndoPorts(a)
    BY <2>7, UndoPortsPorts
  <2>8. CASE CommitRollback(a)
    BY <2>8, CommitRollbackPorts
  <2>9. CASE Abort(a)
    BY <2>9, AbortPorts
  <2> QED
    BY <1>3, <2>1, <2>2, <2>3, <2>4, <2>5, <2>6, <2>7, <2>8, <2>9 DEF AttemptStep
<1> QED
  BY <1>1, <1>2, <1>3 DEF NetworkNext

\* Plans and stored addresses of public ports go upwards, what a transaction has
\* written into the index is its alone, and a deployment has one rollback at a time.
THEOREM PortsInvariant == NetworkSpec => []PortsInv
<1>1. NetworkInit => PortsInv
  BY PortsInitOK
<1>2. PortsInv /\ [NetworkNext]_netVars => PortsInv'
  BY PortsStepOK
<1> QED
  BY <1>1, <1>2, PTL DEF NetworkSpec

\* Repeating network_allocate never moves a public port to a higher address, whatever
\* other allocations and rollbacks overlap with it.
THEOREM RerunsOnlyLower == NetworkSpec => RerunOnlyLowers
<1> DEFINE Lowers == \A p \in Ports : ip[p] # Null /\ ip'[p] # Null => ip'[p] <= ip[p]
<1>1. PortsInv /\ [NetworkNext]_netVars => [Lowers]_netVars
  <2> SUFFICES ASSUME PortsInv, [NetworkNext]_netVars PROVE Lowers
    OBVIOUS
  <2>1. \A p \in Ports : ip[p] \in Nat
    BY NetworkAssumption DEF PortsInv, NetworkInv, NetworkTypeOK
  <2>2. CASE ip' = ip
    BY <2>1, <2>2
  <2>3. CASE \E a \in Attempts : CommitAllocate(a)
    BY <2>3, CommittedAddresses
  <2>4. CASE \/ \E d \in Deployments : FinishUndone(d)
             \/ \E a \in Attempts : CommitRollback(a)
    <3>1. \A p \in Ports : ip'[p] \in {Null, ip[p]}
      BY <2>4 DEF FinishUndone, CommitRollback
    <3> QED
      BY <2>1, <3>1
  <2>5. ip' = ip \/ (\E a \in Attempts : CommitAllocate(a))
        \/ (\E d \in Deployments : FinishUndone(d)) \/ (\E a \in Attempts : CommitRollback(a))
    BY DEF NetworkNext, AttemptStep, netVars, stored, RequestDeployment, CreateInventory,
           BeginAllocate, BeginRollback, TakeTag, ReadUsed, AllocateLink, UpdatePort,
           UndoPorts, Abort
  <2> QED
    BY <2>2, <2>3, <2>4, <2>5
<1> QED
  BY <1>1, PortsInvariant, PTL DEF NetworkSpec, RerunOnlyLowers

-----------------------------------------------------------------------------
\* Deadlocks.

\* The address an allocation wants next is above those it has written.
LEMMA NextIsAbove ==
  ASSUME PortsInv, NEW a \in Attempts, AtPort(a)
  PROVE  /\ tx[a].pc = "update" /\ NextAddress(a) \in 0..MaxIp
         /\ \A i \in 1..tx[a].ports :
              tx[a].ip[PortsOf[tx[a].dep][i]] < NextAddress(a)
<1> DEFINE x == tx[a]
           d == x.dep
           n == x.ports + 1
<1>1. x \in Transactions /\ TxOK(x) /\ PlanOK(x)
  BY DEF PortsInv, PortInv, NetworkInv, NetworkTypeOK
<1>2. x.pc = "update" /\ x.ports < Len(PortsOfTx(a)) /\ x.ports \in Nat
  BY <1>1 DEF AtPort, Transactions
<1>3. d \in Deployments
  BY <1>1, <1>2 DEF TxOK
<1>4. rows[d]
  BY <1>2 DEF PortsOfTx
<1>5. Len(PortsOf[d]) \in Nat /\ x.ports < Len(PortsOf[d])
  BY <1>2, <1>3, <1>4, NetworkAssumption DEF PortsOfTx
<1>6. n \in 1..Len(PortsOf[d]) /\ \A i \in 1..x.ports : i \in 1..Len(PortsOf[d]) /\ i < n
  BY <1>2, <1>5
<1>7. Port(d, n) \in Ports /\ NextAddress(a) = x.ip[Port(d, n)]
  BY <1>3, <1>6, NetworkAssumption DEF NextAddress, NextPort, Port
<1>8. \A i \in 1..x.ports : x.ip[Port(d, i)] < x.ip[Port(d, n)]
  BY <1>1, <1>2, <1>4, <1>6 DEF PlanOK
<1> QED
  BY <1>1, <1>2, <1>7, <1>8 DEF Transactions, Port

\* Who waits, if not for the other kind of transaction of its own deployment: for the
\* cluster, for an address, or, a rollback, for an allocation of its slice.
WaitsFurther(a, b) ==
  \/ tx[a].pc = "tag" /\ HoldsCluster(b)
  \/ AtPort(a) /\ Touches(b, NextAddress(a))
  \/ tx[a].pc = "undo slice" /\ tx[b].pc \in AllocateSteps

LEMMA KindsOfWaiting ==
  ASSUME PortsInv, NEW a \in Attempts, NEW b \in Attempts, WaitsFor(a, b),
         ~(/\ tx[a].dep = tx[b].dep
           /\ tx[a].pc \in AllocateSteps /\ tx[b].pc \in RollbackSteps),
         ~(/\ tx[b].dep = tx[a].dep
           /\ tx[b].pc \in AllocateSteps /\ tx[a].pc \in RollbackSteps)
  PROVE  WaitsFurther(a, b)
<1> DEFINE d == tx[a].dep
<1>1. tx[b] \in Transactions /\ TxOK(tx[b])
  BY DEF PortsInv, NetworkInv, NetworkTypeOK
<1>2. tx[b].links \in Nat /\ tx[b].ports \in Nat
  BY <1>1 DEF Transactions
<1>3. tx[b].links > 0 => tx[b].pc = "update"
  BY <1>1, <1>2 DEF TxOK, Placed
<1>4. tx[b].ports > 0 => tx[b].pc = "update"
  BY <1>2 DEF PortsInv, PortInv, PlanOK
<1>5. a # b
  BY DEF WaitsFor
<1>6. ~(tx[a].pc = "update" /\ tx[b].pc = "update" /\ tx[b].dep = d)
  BY <1>5 DEF PortsInv, NetworkInv, OneAllocation, AllocateSteps
<1>7. ~(AtLink(a) /\ HoldsLinks(b, d))
  BY <1>3, <1>6 DEF AtLink, HoldsLinks, AllocateSteps
<1>8. ~(AtPort(a) /\ HoldsPorts(b, d))
  BY <1>4, <1>6 DEF AtPort, HoldsPorts, AllocateSteps, RollbackSteps
<1>9. ~(tx[a].pc = "undo ports" /\ HoldsPorts(b, d))
  BY <1>4, <1>5 DEF HoldsPorts, AllocateSteps, RollbackSteps, PortsInv, PortInv, OneRollback
<1> QED
  BY <1>7, <1>8, <1>9 DEF WaitsFor, WaitsFurther, HoldsSlice

\* Attempts that wait for one another include an allocation and a rollback of the same
\* deployment, or a repeated allocation that moves a port: all the others wait, in the
\* end, for addresses, and each for one below the one its holder waits for.
THEOREM CausesOfDeadlock == NetworkSpec => []DeadlocksHaveACause
<1>1. PortsInv => DeadlocksHaveACause
  <2> SUFFICES ASSUME PortsInv, NEW waiting \in SUBSET Attempts, waiting # {},
                      \A a \in waiting : \E b \in waiting : WaitsFor(a, b),
                      ~\E a, b \in waiting :
                         \/ /\ tx[a].dep = tx[b].dep
                            /\ tx[a].pc \in AllocateSteps /\ tx[b].pc \in RollbackSteps
                         \/ AtPort(a) /\ GivesUp(b, NextAddress(a))
               PROVE  FALSE
    BY DEF DeadlocksHaveACause
  <2>1. \A a \in waiting : \E b \in waiting : WaitsFurther(a, b)
    BY KindsOfWaiting
  <2>2. ASSUME NEW b \in waiting, tx[b].pc \in {"read", "update"} PROVE AtPort(b)
    BY <2>1, <2>2 DEF WaitsFurther
  <2>3. ASSUME NEW b \in waiting, tx[b].pc \in AllocateSteps
        PROVE  \E c \in waiting : AtPort(c)
    <3>1. CASE tx[b].pc = "tag"
      <4>1. PICK c \in waiting : HoldsCluster(c)
        BY <2>1, <3>1 DEF WaitsFurther, AtPort
      <4>2. tx[c].pc \in {"read", "update"}
        BY <4>1 DEF HoldsCluster, PortsInv, NetworkInv, TxOK
      <4> QED
        BY <2>2, <4>2
    <3>2. CASE tx[b].pc # "tag"
      BY <2>2, <2>3, <3>2 DEF AllocateSteps
    <3> QED
      BY <3>1, <3>2
  <2>4. \E a \in waiting : AtPort(a)
    <3>1. PICK a : a \in waiting
      OBVIOUS
    <3>2. CASE tx[a].pc = "undo slice"
      BY <2>1, <2>3, <3>1, <3>2 DEF WaitsFurther, AtPort
    <3>3. CASE tx[a].pc # "undo slice"
      <4>1. tx[a].pc \in AllocateSteps
        BY <2>1, <3>1, <3>3 DEF WaitsFurther, AllocateSteps, AtPort
      <4> QED
        BY <2>3, <3>1, <4>1
    <3> QED
      BY <3>2, <3>3
  <2> DEFINE wanted == {NextAddress(a) : a \in {b \in waiting : AtPort(b)}}
  <2>5. wanted \in SUBSET Nat /\ wanted # {} /\ MaxIp \in Nat /\ \A x \in wanted : x <= MaxIp
    <3>1. \A a \in waiting : AtPort(a) => NextAddress(a) \in 0..MaxIp
      BY NextIsAbove
    <3> QED
      BY <2>4, <3>1, NetworkAssumption
  <2>6. PICK x \in wanted : \A y \in wanted : y <= x
    <3> HIDE DEF wanted
    <3> QED
      BY <2>5, GreatestNumber
  <2>7. PICK a \in waiting : AtPort(a) /\ NextAddress(a) = x
    BY <2>6
  <2>8. PICK b \in waiting : Touches(b, x)
    <3>1. tx[a].pc = "update"
      BY <2>7 DEF AtPort
    <3> QED
      BY <2>1, <2>7, <3>1 DEF WaitsFurther
  <2>9. PICK i \in 1..tx[b].ports :
          x \in {tx[b].ip[PortsOf[tx[b].dep][i]], ip[PortsOf[tx[b].dep][i]]}
    BY <2>8 DEF Touches
  <2>10. AtPort(b)
    <3>1. tx[b].pc = "update"
      BY <2>9, UpdatedPort
    <3> QED
      BY <2>2, <3>1
  <2>11. tx[b].ip[PortsOf[tx[b].dep][i]] = x
    BY <2>7, <2>9 DEF GivesUp
  <2>12. x < NextAddress(b) /\ NextAddress(b) \in wanted
    BY <2>10, <2>11, NextIsAbove
  <2>13. NextAddress(b) <= x /\ x \in Nat /\ NextAddress(b) \in Nat
    BY <2>5, <2>6, <2>12
  <2> QED
    BY <2>12, <2>13
<1> QED
  BY <1>1, PortsInvariant, PTL
=============================================================================

-------------------------- MODULE ComputeDisplays --------------------------
(***************************************************************************)
(* VNC displays: allocate_displays and rollback_pending of the Computer    *)
(* Manager, among the registry's transactions that move the same rows.     *)
(*                                                                         *)
(* An allocation reads the pending nodes, takes an advisory lock per       *)
(* server in id order, and gives every node the lowest display free on its *)
(* server.  The nodes are read before the locks are held.  Two Workers are *)
(* two processes of the service: one alone runs its transactions one       *)
(* after the other on its event loop.                                      *)
(*                                                                         *)
(* Where a node goes is settled by placement (PlacementIsIdempotent of     *)
(* PlacementLedger): ServerOf.                                             *)
(***************************************************************************)
EXTENDS Integers, FiniteSetsExt

CONSTANTS Deployments, Nodes, Servers, Workers,
          DeploymentOf,   \* slice_nodo.deployment_id
          ServerOf,       \* the server_map of the call
          Before,         \* ORDER BY id: Before[n] precede n
          MaxDisplay, NoDeployment

ASSUME DisplayAssumption ==
  /\ MaxDisplay \in Nat
  /\ Servers \subseteq Nat \ {0} /\ IsFiniteSet(Servers)
  /\ DeploymentOf \in [Nodes -> Deployments]
  /\ ServerOf \in [Nodes -> Servers]
  /\ Before \in [Nodes -> SUBSET Nodes]
  /\ NoDeployment \notin Deployments

VARIABLES
  nodo,      \* slice_nodo.estado_nodo
  display,   \* slice_nodo.vnc_display, 0 for NULL
  server,    \* slice_nodo.server_id, 0 for NULL
  call,      \* the allocation each worker is executing
  revived    \* history: a DELETED node was set to another state

displayVars == <<nodo, display, server, call, revived>>
rowVars == <<nodo, display, server, revived>>

Displays == 1..MaxDisplay
Null == 0
Nulls == [n \in Nodes |-> Null]
\* "LIVE" stands for RUNNING, STOPPED and FAILED.
NodeStates == {"none", "PENDING", "LIVE", "DELETED"}

\* todo: pending nodes still without a display; want, held: servers to lock and locked;
\* looked, occupied: the servers whose displays were read, and those displays;
\* mine: rows updated, not yet committed; answer: the result so far;
\* overtaken: the deployment's displays were changed by others meanwhile.
Resting == [dep |-> NoDeployment, todo |-> {}, want |-> {}, held |-> {}, looked |-> {},
            occupied |-> [s \in Servers |-> {}], mine |-> Nulls, answer |-> Nulls,
            overtaken |-> FALSE]
Calls == [dep : Deployments \cup {NoDeployment}, todo : SUBSET Nodes,
          want : SUBSET Servers, held : SUBSET Servers, looked : SUBSET Servers,
          occupied : [Servers -> SUBSET Displays],
          mine : [Nodes -> Displays \cup {Null}],
          answer : [Nodes -> Displays \cup {Null}], overtaken : BOOLEAN]

DisplayTypeOK ==
  /\ nodo \in [Nodes -> NodeStates]
  /\ display \in [Nodes -> Displays \cup {Null}]
  /\ server \in [Nodes -> Servers \cup {Null}]
  /\ \A n \in Nodes : display[n] = Null <=> server[n] = Null
  /\ call \in [Workers -> Calls]
  /\ revived \in BOOLEAN

DisplayInit ==
  /\ nodo = [n \in Nodes |-> "none"]
  /\ display = Nulls
  /\ server = Nulls
  /\ call = [w \in Workers |-> Resting]
  /\ revived = FALSE

-----------------------------------------------------------------------------
\* What the registry does with the same rows: it waits for the rows an open
\* allocation has updated, and fails where the unique index refuses a row.

NodesOf(d) == {n \in Nodes : DeploymentOf[n] = d}
NodeUnlocked(n) == \A w \in Workers : call[w].mine[n] = Null

\* uq_slice_nodo_server_vnc_display.
IndexHolds ==
  \A m, n \in {k \in Nodes : nodo[k] # "DELETED" /\ display[k] # Null} :
    m # n => <<server[m], display[m]>> # <<server[n], display[n]>>

SetNodes(new) ==
  /\ \A n \in Nodes : new[n] # nodo[n] => NodeUnlocked(n)
  /\ nodo' = new
  /\ revived' = (revived \/ \E n \in Nodes : nodo[n] = "DELETED" /\ new[n] # "DELETED")
  /\ UNCHANGED <<display, server, call>>
  /\ IndexHolds'

CreateInventory(d) ==
  SetNodes([n \in Nodes |->
              IF n \in NodesOf(d) /\ nodo[n] = "none" THEN "PENDING" ELSE nodo[n]])

\* record_round_facts of a round of VMs, created or failed.
RecordRoundFacts(round) ==
  /\ round # {}
  /\ \A n \in round : nodo[n] # "none"
  /\ SetNodes([n \in Nodes |-> IF n \in round THEN "LIVE" ELSE nodo[n]])

\* finish_deployment: COMPENSATED and REJECTED delete, FAILED marks.
FinishDeployment(d, closed) ==
  SetNodes([n \in Nodes |->
              IF n \in NodesOf(d) /\ nodo[n] \notin {"none", "DELETED"}
              THEN closed ELSE nodo[n]])

-----------------------------------------------------------------------------
\* Mutant: nodes that have a display get another one.
MutBeginAllocateAll(w, d) ==
  LET pending == {n \in NodesOf(d) : nodo[n] = "PENDING"} IN
  /\ call[w] = Resting
  /\ call' = [call EXCEPT ![w] =
                [Resting EXCEPT !.dep = d, !.todo = pending,
                                !.want = {ServerOf[n] : n \in pending}]]
  /\ UNCHANGED rowVars

\* allocate_displays up to the locks.  A display read here is answered as it is.
BeginAllocate(w, d) ==
  LET pending == {n \in NodesOf(d) : nodo[n] = "PENDING"}
      bare == {n \in pending : display[n] = Null}
  IN
  /\ call[w] = Resting
  /\ call' = [call EXCEPT ![w] =
                [Resting EXCEPT
                   !.dep = d, !.todo = bare, !.want = {ServerOf[n] : n \in bare},
                   !.answer = [n \in Nodes |-> IF n \in pending THEN display[n] ELSE Null]]]
  /\ UNCHANGED rowVars

\* Mutant: the servers are locked in the order of the nodes.
MutLockAdvisoryAnyOrder(w) ==
  /\ \E s \in call[w].want :
       /\ \A x \in Workers : s \notin call[x].held
       /\ call' = [call EXCEPT ![w].want = @ \ {s}, ![w].held = @ \cup {s}]
  /\ UNCHANGED rowVars

\* lock_servers, one pg_advisory_xact_lock.
LockAdvisory(w) ==
  /\ call[w].want # {}
  /\ LET s == Min(call[w].want) IN
       /\ \A x \in Workers : s \notin call[x].held
       /\ call' = [call EXCEPT ![w].want = @ \ {s}, ![w].held = @ \cup {s}]
  /\ UNCHANGED rowVars

\* Mutant: the displays of other deployments are not looked at.
MutOccupiedOwn(w, s) ==
  {display[n] : n \in {m \in NodesOf(call[w].dep) :
                         server[m] = s /\ nodo[m] # "DELETED" /\ display[m] # Null}}

\* occupied_displays.
OccupiedDisplays(w, s) ==
  {display[n] : n \in {m \in Nodes :
                         server[m] = s /\ nodo[m] # "DELETED" /\ display[m] # Null}}

\* Only the first reading of a server's displays is kept.
Occupied(w, s) ==
  IF s \in call[w].looked THEN call[w].occupied[s] ELSE OccupiedDisplays(w, s)

Walking(w) == call[w].dep # NoDeployment /\ call[w].want = {}
Current(w, n) == n \in call[w].todo /\ Before[n] \cap call[w].todo = {}

\* Mutant: one display more than the servers have.
MutFreeDisplaysOneMore(taken) == (Displays \cup {MaxDisplay + 1}) \ taken

\* choose_display looks for the lowest of these.
FreeDisplays(taken) == Displays \ taken

\* The UPDATE matches a PENDING node only, and how many it matched is not looked at.
AssignDisplay(w, n) ==
  LET s == ServerOf[n]
      free == FreeDisplays(Occupied(w, s))
  IN
  /\ Walking(w) /\ Current(w, n)
  /\ free # {} /\ NodeUnlocked(n)
  /\ call' = [call EXCEPT ![w].todo = @ \ {n}, ![w].looked = @ \cup {s},
                          ![w].occupied[s] = Occupied(w, s) \cup {Min(free)},
                          ![w].answer[n] = Min(free),
                          ![w].mine[n] = IF nodo[n] = "PENDING" THEN Min(free) ELSE @]
  /\ UNCHANGED rowVars

Given(w) == {n \in Nodes : call[w].mine[n] # Null}
Collides(w) ==
  \E n \in Given(w), m \in Nodes \ Given(w) :
    /\ nodo[m] # "DELETED"
    /\ <<server[m], display[m]>> = <<ServerOf[n], call[w].mine[n]>>

\* Everyone else who is allocating for d has read what is now out of date.
Overtake(calls, d) ==
  [x \in Workers |-> IF calls[x].dep = d THEN [calls[x] EXCEPT !.overtaken = TRUE]
                     ELSE calls[x]]

CommitAllocate(w) ==
  /\ Walking(w) /\ call[w].todo = {} /\ ~Collides(w)
  /\ display' = [n \in Nodes |-> IF n \in Given(w) THEN call[w].mine[n] ELSE display[n]]
  /\ server' = [n \in Nodes |-> IF n \in Given(w) THEN ServerOf[n] ELSE server[n]]
  /\ call' = Overtake([call EXCEPT ![w] = Resting], call[w].dep)
  /\ UNCHANGED <<nodo, revived>>

\* VNC_DISPLAY_EXHAUSTED, a unique violation, or a lost worker.
AbortAllocate(w) ==
  /\ call[w] # Resting
  /\ call' = [call EXCEPT ![w] = Resting]
  /\ UNCHANGED rowVars

\* rollback_compute, rollback_pending.
RollbackCompute(d) ==
  LET pending == {n \in NodesOf(d) : nodo[n] = "PENDING"} IN
  /\ \A n \in pending : NodeUnlocked(n)
  /\ display' = [n \in Nodes |-> IF n \in pending THEN Null ELSE display[n]]
  /\ server' = [n \in Nodes |-> IF n \in pending THEN Null ELSE server[n]]
  /\ call' = Overtake(call, d)
  /\ UNCHANGED <<nodo, revived>>

-----------------------------------------------------------------------------
RegistryStep(d) ==
  \/ CreateInventory(d)
  \/ \E round \in SUBSET NodesOf(d) : RecordRoundFacts(round)
  \/ \E closed \in {"DELETED", "LIVE"} : FinishDeployment(d, closed)

WorkerStep(w) ==
  \/ \E d \in Deployments : BeginAllocate(w, d)
  \/ LockAdvisory(w)
  \/ \E n \in Nodes : AssignDisplay(w, n)
  \/ CommitAllocate(w)
  \/ AbortAllocate(w)

DisplayNext ==
  \/ \E d \in Deployments : RegistryStep(d) \/ RollbackCompute(d)
  \/ \E w \in Workers : WorkerStep(w)

DisplaySpec == DisplayInit /\ [][DisplayNext]_displayVars

-----------------------------------------------------------------------------
\* The advisory locks alone keep two allocations from choosing the same display:
\* the unique index refuses one only after a DELETED node was set to another
\* state, which brings back a display that was already free.
AdvisoryLocksSuffice == \A w \in Workers : Collides(w) => revived

\* The display a node has, and a caller may have been told, is replaced by another
\* only by an allocation that read the nodes before others changed them: a repeated
\* call answers what the first one stored.  And what an allocation answers
\* for a node that is still PENDING is what the node has, on the same condition.
DisplayKept ==
  /\ \A n \in Nodes :
       display[n] \notin {Null, display'[n]} /\ display'[n] # Null =>
         \E w \in Workers : call[w].overtaken /\ call[w].mine[n] = display'[n]
  /\ \A w \in Workers : CommitAllocate(w) /\ ~call[w].overtaken =>
       \A n \in NodesOf(call[w].dep) :
         call[w].answer[n] # Null /\ nodo[n] = "PENDING" =>
           display'[n] = call[w].answer[n]
DisplaysAreKept == [][DisplayKept]_displayVars

\* Allocations that wait for each other's servers leave one that can go on.
AllocationBlocked(w) ==
  call[w].want # {} /\ \E x \in Workers \ {w} : Min(call[w].want) \in call[x].held
AllocatorsProceed ==
  (\E w \in Workers : call[w].dep # NoDeployment) =>
     \E w \in Workers : call[w].dep # NoDeployment /\ ~AllocationBlocked(w)
=============================================================================

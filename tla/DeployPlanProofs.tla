-------------------------- MODULE DeployPlanProofs --------------------------
(***************************************************************************)
(* Proofs, for any accepted definition, about its plan on the hosts.       *)
(*                                                                         *)
(* First what the planner computes (RoundAfter), and that the workflow and *)
(* the adapter's threads keep to it, whichever of them are late, lost or   *)
(* repeated: three rounds, of links, ports, VMs.  Then what the handlers   *)
(* do: a creating thread vouches for the devices below the step it is at   *)
(* (Built), an undoing one for the absence of those above it (Gone), and   *)
(* everything on a host is accounted for by an action that is pending, was *)
(* applied, failed for good or was late (Accounted).  While the workflow   *)
(* goes forward nothing is removed; once it undoes, only late threads add. *)
(***************************************************************************)
EXTENDS AdapterHosts, NumberFacts, TLAPS

\* The parts of a definition.
LEMMA DefinitionParts ==
  ASSUME NEW d \in Definitions
  PROVE  /\ d.vms \subseteq Vms /\ d.public \subseteq Vms
         /\ DOMAIN d.links \subseteq Links /\ Public \notin DOMAIN d.links
         /\ \A l \in DOMAIN d.links : d.links[l] \subseteq Vms
<1>1. PICK named \in SUBSET Links :
        d \in [vms : SUBSET Vms, public : SUBSET Vms, links : [named -> SUBSET Vms]]
  BY DEF Definitions
<1> QED
  BY <1>1, PlanAssumption

\* The actions of a plan by their kind, and what each waits for.
LEMMA ActionKinds ==
  ASSUME NEW d \in Definitions
  PROVE  /\ \A a \in LinkActions(d) : a.op = "CREATE_LINK" /\ After(d, a) = {}
         /\ \A a \in PortActions(d) :
              a.op = "ATTACH_PORT" /\ After(d, a) = {CreateLink(a.link)}
         /\ \A a \in VmActions(d) : a.op = "CREATE_VM" /\ After(d, a) = PortsOfVm(d, a.vm)
<1>1. \A a \in LinkActions(d) : a.op = "CREATE_LINK" /\ After(d, a) = {}
  BY DEF LinkActions, CreateLink, After
<1>2. \A a \in PortActions(d) : a.op = "ATTACH_PORT" /\ After(d, a) = {CreateLink(a.link)}
  BY DEF PortActions, AttachPort, After
<1>3. \A a \in VmActions(d) : a.op = "CREATE_VM" /\ After(d, a) = PortsOfVm(d, a.vm)
  BY DEF VmActions, CreateVm, After
<1> QED
  BY <1>1, <1>2, <1>3

\* A port's link is in the plan, and so are ports for every VM.
LEMMA WaitsAreInPlan ==
  ASSUME NEW d \in Definitions, Accepted(d, TRUE)
  PROVE  /\ \A a \in PortActions(d) : CreateLink(a.link) \in LinkActions(d)
         /\ \A a \in VmActions(d) :
              PortsOfVm(d, a.vm) \subseteq PortActions(d) /\ PortsOfVm(d, a.vm) # {}
<1>1. \A a \in PortActions(d) : CreateLink(a.link) \in LinkActions(d)
  BY DEF PortActions, LinkActions, AttachPort
<1>2. ASSUME NEW v \in d.vms
      PROVE  PortsOfVm(d, v) # {}
<2>1. PICK l \in DOMAIN d.links : v \in d.links[l]
  BY DEF Accepted, EndpointsOf
<2>2. l \in LinkNames(d) /\ v \in Endpoints(d, l)
  BY <2>1, DefinitionParts DEF LinkNames, Endpoints
<2>3. AttachPort(l, v) \in PortActions(d) /\ AttachPort(l, v).vm = v
  BY <2>2 DEF PortActions, AttachPort
<2> QED
  BY <2>3 DEF PortsOfVm
<1>3. \A a \in VmActions(d) : a.vm \in d.vms
  BY DEF VmActions, CreateVm
<1> QED
  BY <1>1, <1>2, <1>3 DEF PortsOfVm

\* The rounds TopologicalSorter yields for the plan of an accepted definition
\* (_build_plan): links, ports, VMs, and then nothing.
THEOREM RoundsOfAPlan ==
  ASSUME NEW d \in Definitions, Accepted(d, TRUE)
  PROVE  /\ RoundAfter(d, {}) = LinkActions(d)
         /\ RoundAfter(d, LinkActions(d)) = PortActions(d)
         /\ RoundAfter(d, LinkActions(d) \cup PortActions(d)) = VmActions(d)
         /\ RoundAfter(d, ActionsOf(d)) = {}
<1> DEFINE L == LinkActions(d)
           P == PortActions(d)
           V == VmActions(d)
<1>a. \A a \in L : a.op = "CREATE_LINK" /\ After(d, a) = {}
  BY ActionKinds
<1>b. \A a \in P : /\ a.op = "ATTACH_PORT" /\ After(d, a) = {CreateLink(a.link)}
                   /\ CreateLink(a.link) \in L
  BY ActionKinds, WaitsAreInPlan
<1>c. \A a \in V : /\ a.op = "CREATE_VM" /\ After(d, a) = PortsOfVm(d, a.vm)
                   /\ PortsOfVm(d, a.vm) \subseteq P /\ PortsOfVm(d, a.vm) # {}
  BY ActionKinds, WaitsAreInPlan
<1>d. ActionsOf(d) = L \cup P \cup V
  BY DEF ActionsOf
<1> HIDE DEF L, P, V
<1>e. L \cap P = {} /\ L \cap V = {} /\ P \cap V = {}
  BY <1>a, <1>b, <1>c
<1>1. RoundAfter(d, {}) = L
  BY <1>a, <1>b, <1>c, <1>d DEF RoundAfter
<1>2. RoundAfter(d, L) = P
<2>1. \A a \in V : ~(After(d, a) \subseteq L)
  BY <1>c, <1>e
<2> QED
  BY <1>b, <1>d, <1>e, <2>1 DEF RoundAfter
<1>3. RoundAfter(d, L \cup P) = V
  BY <1>c, <1>d, <1>e DEF RoundAfter
<1>4. RoundAfter(d, ActionsOf(d)) = {}
  BY DEF RoundAfter
<1> QED
  BY <1>1, <1>2, <1>3, <1>4 DEF L, P, V

-----------------------------------------------------------------------------
\* A thread's record; the workflow waits for at most one thread of an action, and
\* only for threads of actions that are pending.
Records == [action : PlanActions, undo : BOOLEAN, late : BOOLEAN, worker : Workers,
            pc : Steps, left : SUBSET Nat]
Waits ==
  /\ threads \subseteq Records
  /\ \A t \in threads : ~t.late => t.action \in pending
  /\ \A t, u \in threads : t.action = u.action /\ ~t.late /\ ~u.late => t = u

Planned == <<def, server>> \in Submitted
InPlan == pending \cup applied \cup good \subseteq ActionsOf(def)

RoundInv == Planned /\ InPlan /\ Waits /\ RoundsAreLinksPortsVms

\* What is submitted is accepted, so its plan has the three rounds.
LEMMA PlannedRounds ==
  ASSUME Planned
  PROVE  /\ def \in Definitions /\ Accepted(def, TRUE) /\ server \in [def.vms -> Servers]
<1>1. <<def, server>>[1] = def /\ <<def, server>>[2] = server
  OBVIOUS
<1> QED
  BY <1>1, HostAssumption DEF Planned

Moved(t) ==
  /\ \E u \in Records : /\ u.action = t.action /\ u.late = t.late
                        /\ threads' = (threads \ {t}) \cup {u}
  /\ UNCHANGED <<plan, flow>>

\* The step of a thread moves it on, or ends it with an answer, an error, a loss,
\* or its time.
LEMMA ThreadSteps ==
  ASSUME RoundInv, NEW t \in threads, ThreadStep(t)
  PROVE  Moved(t) \/ Refuse(t) \/ Answer(t) \/ Break(t) \/ TimeOut(t)
<1>1. t \in Records
  BY DEF RoundInv, Waits
<1>2. ASSUME NEW next \in Steps, Goto(t, next)
      PROVE  Moved(t)
<2> DEFINE u == [t EXCEPT !.pc = next]
<2>1. u \in Records /\ u.action = t.action /\ u.late = t.late
  BY <1>1 DEF Records
<2> QED
  BY <1>2, <2>1 DEF Goto, Moved
<1>3. ASSUME GotoNextHost(t)
      PROVE  Moved(t)
<2> DEFINE left == t.left \ {Here(t)}
           next == IF left = {} THEN "done" ELSE FirstStep(t.action, t.undo)
           u == [t EXCEPT !.left = left, !.pc = next]
<2>1. left \in SUBSET Nat
  BY <1>1 DEF Records
<2>2. t.action.op \in {"CREATE_LINK", "ATTACH_PORT", "CREATE_VM"}
  BY <1>1 DEF Records, PlanActions, CreateLink, CreateVm, AttachPort
<2>3. next \in Steps
<3>1. CASE t.action.op = "CREATE_VM"
  BY <3>1 DEF FirstStep, Steps
<3>2. CASE t.action.op = "ATTACH_PORT"
  BY <3>2 DEF FirstStep, Steps
<3>3. CASE t.action.op = "CREATE_LINK"
  BY <3>3 DEF FirstStep, Steps
<3> QED
  BY <2>2, <3>1, <3>2, <3>3
<2>4. threads' = (threads \ {t}) \cup {u}
  BY <1>3 DEF GotoNextHost
<2> HIDE DEF left, next
<2>5. u \in Records /\ u.action = t.action /\ u.late = t.late
  BY <1>1, <2>1, <2>3 DEF Records
<2> QED
  BY <1>3, <2>4, <2>5 DEF GotoNextHost, Moved
<1>4. CASE EnsureBridge(t) \/ EnsureProvider(t)
  BY <1>2, <1>3, <1>4 DEF EnsureBridge, EnsureProvider, Steps
<1>5. CASE LookForCable(t) \/ AddCable(t) \/ PlugSliceEnd(t) \/ PlugProviderEnd(t) \/ SetTunnel(t)
  BY <1>2, <1>3, <1>5 DEF LookForCable, AddCable, PlugSliceEnd, PlugProviderEnd, SetTunnel, Steps
<1>6. CASE LookForTap(t) \/ AddTap(t) \/ PlugTap(t)
  BY <1>2, <1>6 DEF LookForTap, AddTap, PlugTap, Steps
<1>7. CASE LookForVm(t) \/ MakeDisk(t) \/ LookForTaps(t) \/ StartQemu(t) \/ WaitForStart(t)
  BY <1>2, <1>7 DEF LookForVm, MakeDisk, LookForTaps, StartQemu, WaitForStart, Steps
<1>8. CASE StopQemu(t) \/ EraseDisk(t) \/ UnplugTap(t) \/ DropTap(t)
  BY <1>2, <1>8 DEF StopQemu, EraseDisk, UnplugTap, DropTap, Steps
<1>9. CASE CutTunnel(t) \/ DropBridge(t) \/ DropCable(t)
  BY <1>2, <1>3, <1>9 DEF CutTunnel, DropBridge, DropCable, Steps
<1>10. CASE Answer(t) \/ Break(t) \/ TimeOut(t)
  BY <1>10
<1> QED
  BY <1>4, <1>5, <1>6, <1>7, <1>8, <1>9, <1>10 DEF ThreadStep

\* The servers an action of the plan addresses (_build_adapter_actions).
LEMMA TargetsAreServers ==
  ASSUME Planned, NEW a \in ActionsOf(def)
  PROVE  a \in PlanActions /\ Targets(a) \subseteq Nat
<1>1. /\ def \in Definitions /\ Accepted(def, TRUE) /\ server \in [def.vms -> Servers]
      /\ Servers \subseteq Nat
  BY PlannedRounds, HostAssumption
<1>2. /\ def.vms \subseteq Vms /\ DOMAIN def.links \subseteq Links /\ Public \notin DOMAIN def.links
      /\ def.public \subseteq def.vms
      /\ \A l \in DOMAIN def.links : def.links[l] \subseteq def.vms
  BY <1>1, DefinitionParts DEF Accepted
<1>3. \A l \in LinkNames(def) : l \in Links \cup {Public} /\ Endpoints(def, l) \subseteq def.vms
  BY <1>2 DEF LinkNames, Endpoints
<1>4. CASE a \in LinkActions(def)
<2>1. PICK l \in LinkNames(def) : a = CreateLink(l)
  BY <1>4 DEF LinkActions
<2>2. Targets(a) = {server[v] : v \in Endpoints(def, l)}
  BY <2>1 DEF Targets, ServersOf, CreateLink
<2> QED
  BY <1>1, <1>3, <2>1, <2>2 DEF PlanActions
<1>5. CASE a \in PortActions(def)
<2>1. PICK l \in LinkNames(def) : a \in {AttachPort(l, v) : v \in Endpoints(def, l)}
  BY <1>5 DEF PortActions
<2> PICK v \in Endpoints(def, l) : a = AttachPort(l, v)
  BY <2>1
<2>2. Targets(a) = {server[v]} /\ v \in def.vms
  BY <1>3, <2>1 DEF Targets, ServersOf, AttachPort
<2> QED
  BY <1>1, <1>2, <1>3, <2>1, <2>2 DEF PlanActions
<1>6. CASE a \in VmActions(def)
<2>1. PICK v \in def.vms : a = CreateVm(v)
  BY <1>6 DEF VmActions
<2>2. Targets(a) = {server[v]}
  BY <2>1 DEF Targets, ServersOf, CreateVm
<2> QED
  BY <1>1, <1>2, <2>1, <2>2 DEF PlanActions
<1> QED
  BY <1>4, <1>5, <1>6 DEF ActionsOf

\* An action that ends, with either outcome, stays in its round; nobody else is
\* awaited for it.
LEMMA RoundInductive ==
  ASSUME RoundInv, [AdapterNext]_adapterVars
  PROVE  RoundInv'
<1> USE DEF RoundInv
<1>1. ASSUME NEW t \in threads, Moved(t)
      PROVE  RoundInv'
<2>1. PICK u \in Records : /\ u.action = t.action /\ u.late = t.late
                           /\ threads' = (threads \ {t}) \cup {u}
  BY <1>1 DEF Moved
<2>2. UNCHANGED <<def, server, phase, done, pending, good, bad, applied>>
  BY <1>1 DEF Moved, plan, flow
<2>3. Waits'
  BY <2>1, <2>2 DEF Waits
<2> QED
  BY <2>2, <2>3 DEF Planned, InPlan, RoundsAreLinksPortsVms
<1>2. ASSUME NEW t \in threads, Refuse(t) \/ Answer(t)
      PROVE  RoundInv'
<2>1. threads' = threads \ {t} /\ UNCHANGED plan
  BY <1>2 DEF Refuse, Answer
<2>2. CASE t.late
<3>1. UNCHANGED flow
  BY <1>2, <2>2 DEF Refuse, Answer
<3> QED
  BY <2>1, <3>1 DEF plan, flow, Planned, InPlan, Waits, RoundsAreLinksPortsVms
<2>3. CASE ~t.late
<3>1. t.action \in pending /\ pending' = pending \ {t.action}
  BY <1>2, <2>3 DEF Waits, Refuse, Answer, GaveUp
<3>2. \/ good' = good /\ bad' = bad \cup {t.action}
      \/ good' = good \cup {t.action} /\ bad' = bad
  BY <1>2, <2>3 DEF Refuse, Answer, GaveUp
<3>3. UNCHANGED <<phase, done, applied>>
  BY <1>2, <2>3 DEF Refuse, Answer, GaveUp
<3>4. pending' \cup good' \cup bad' = pending \cup good \cup bad
  BY <3>1, <3>2
<3>5. Waits'
  BY <2>1, <2>3, <3>1 DEF Waits
<3>6. InPlan'
  BY <2>1, <3>1, <3>2, <3>3 DEF InPlan, plan
<3> QED
  BY <2>1, <3>3, <3>4, <3>5, <3>6 DEF plan, Planned, RoundsAreLinksPortsVms
<2> QED
  BY <2>2, <2>3
<1>3. ASSUME NEW t \in threads, Break(t)
      PROVE  RoundInv'
  BY <1>3 DEF Break, plan, flow, Planned, InPlan, Waits, RoundsAreLinksPortsVms
<1>4. ASSUME NEW t \in threads, TimeOut(t)
      PROVE  RoundInv'
<2> DEFINE u == [t EXCEPT !.late = TRUE]
<2>1. t \in Records /\ u \in Records /\ u.late = TRUE
  BY DEF Waits, Records
<2>2. threads' = (threads \ {t}) \cup {u}
  BY <1>4 DEF TimeOut
<2> HIDE DEF u
<2>3. UNCHANGED <<def, server, phase, done, pending, good, bad, applied>>
  BY <1>4 DEF TimeOut, plan
<2>4. Waits'
  BY <2>1, <2>2, <2>3 DEF Waits
<2> QED
  BY <2>3, <2>4 DEF Planned, InPlan, RoundsAreLinksPortsVms
<1>5. ASSUME NEW a \in pending, GiveUp(a)
      PROVE  RoundInv'
<2>1. /\ pending' = pending \ {a} /\ bad' = bad \cup {a}
      /\ UNCHANGED <<def, server, phase, done, good, applied, threads>>
  BY <1>5 DEF GiveUp, GaveUp, plan
<2>2. \A t \in threads : t.action = a => t.late
  BY <1>5 DEF GiveUp, Awaited
<2>3. Waits'
  BY <2>1, <2>2 DEF Waits
<2>4. pending' \cup good' \cup bad' = pending \cup good \cup bad
  BY <2>1
<2> QED
  BY <2>1, <2>3, <2>4 DEF Planned, InPlan, RoundsAreLinksPortsVms
<1>6. ASSUME NEW a \in pending, NEW w \in Workers, Dispatch(a, w)
      PROVE  RoundInv'
<2> DEFINE undo == phase = "undo"
           step == FirstStep(a, undo)
           u == [action |-> a, undo |-> undo, late |-> FALSE, worker |-> w,
                 pc |-> step, left |-> Targets(a)]
<2>1. a \in PlanActions /\ Targets(a) \subseteq Nat
  BY TargetsAreServers DEF InPlan
<2>2. undo \in BOOLEAN
  OBVIOUS
<2>3. a.op \in {"CREATE_LINK", "ATTACH_PORT", "CREATE_VM"}
  BY <2>1 DEF PlanActions, CreateLink, CreateVm, AttachPort
<2>4. threads' = threads \cup {u}
  BY <1>6 DEF Dispatch
<2> HIDE DEF undo
<2>5. step \in Steps
<3>1. CASE a.op = "CREATE_VM"
  BY <3>1 DEF FirstStep, Steps
<3>2. CASE a.op = "ATTACH_PORT"
  BY <3>2 DEF FirstStep, Steps
<3>3. CASE a.op = "CREATE_LINK"
  BY <3>3 DEF FirstStep, Steps
<3> QED
  BY <2>3, <3>1, <3>2, <3>3
<2> HIDE DEF step
<2>6. u \in Records /\ u.action = a /\ u.late = FALSE
  BY <2>1, <2>2, <2>5 DEF Records
<2> HIDE DEF u
<2>7. \A t \in threads : t.action = a => t.late
  BY <1>6 DEF Dispatch, Awaited
<2>8. UNCHANGED <<def, server, phase, done, pending, good, bad, applied>>
  BY <1>6 DEF Dispatch, plan, flow
<2>9. Waits'
  BY <2>4, <2>6, <2>7, <2>8 DEF Waits
<2> QED
  BY <2>8, <2>9 DEF Planned, InPlan, RoundsAreLinksPortsVms
<1>7. CASE RoundEnds
<2>1. /\ phase = "round" /\ pending = {}
      /\ UNCHANGED <<def, server, threads>>
      /\ applied' = applied \cup good /\ good' = {} /\ bad' = {}
  BY <1>7 DEF RoundEnds, plan
<2>2. Planned' /\ (Waits' <=> Waits)
  BY <2>1 DEF Planned, Waits
<2>3. CASE phase' = "undo" /\ UNCHANGED <<done, pending>>
  BY <2>1, <2>3 DEF Planned, InPlan, Waits, RoundsAreLinksPortsVms
<2>4. CASE /\ bad = {} /\ done' = done \cup good
           /\ pending' = RoundAfter(def, done')
           /\ phase' = IF pending' = {} THEN "completed" ELSE "round"
<3> DEFINE L == LinkActions(def)
           P == PortActions(def)
           V == VmActions(def)
<3>1. /\ RoundAfter(def, {}) = L /\ RoundAfter(def, L) = P /\ RoundAfter(def, L \cup P) = V
      /\ RoundAfter(def, (L \cup P) \cup V) = {}
  BY PlannedRounds, RoundsOfAPlan DEF ActionsOf
<3>2. \/ done = {} /\ good = L
      \/ done = L /\ good = P
      \/ done = L \cup P /\ good = V
  BY <2>1, <2>4 DEF RoundsAreLinksPortsVms
<3> HIDE DEF L, P, V
<3>3. \/ done' = L /\ pending' = P
      \/ done' = L \cup P /\ pending' = V
      \/ pending' = {}
<4>1. CASE done = {} /\ good = L
  BY <2>4, <3>1, <4>1
<4>2. CASE done = L /\ good = P
  BY <2>4, <3>1, <4>2
<4>3. CASE done = L \cup P /\ good = V
  BY <2>4, <3>1, <4>3
<4> QED
  BY <3>2, <4>1, <4>2, <4>3
<3>4. RoundsAreLinksPortsVms'
  BY <2>1, <2>4, <3>3 DEF RoundsAreLinksPortsVms, L, P, V
<3>5. InPlan'
  BY <2>1, <2>4 DEF InPlan, RoundAfter
<3>6. Waits'
  BY <2>1 DEF Waits
<3> QED
  BY <2>2, <3>4, <3>5, <3>6
<2> QED
  BY <1>7, <2>3, <2>4 DEF RoundEnds
<1>8. CASE UndoNext
<2>1. PICK a \in applied : pending' = {a} /\ applied' = applied \ {a}
  BY <1>8 DEF UndoNext
<2>2. /\ phase = "undo" /\ pending = {} /\ good' = {}
      /\ UNCHANGED <<def, server, phase, threads>>
  BY <1>8 DEF UndoNext, plan
<2> QED
  BY <2>1, <2>2 DEF Planned, InPlan, Waits, RoundsAreLinksPortsVms
<1>9. CASE UndoEnds
  BY <1>9 DEF UndoEnds, plan, Planned, InPlan, Waits, RoundsAreLinksPortsVms
<1>10. CASE UNCHANGED adapterVars
  BY <1>10 DEF adapterVars, plan, flow, Planned, InPlan, Waits, RoundsAreLinksPortsVms
<1> QED
  BY <1>1, <1>2, <1>3, <1>4, <1>5, <1>6, <1>7, <1>8, <1>9, <1>10, ThreadSteps DEF AdapterNext

LEMMA RoundsBegin == AdapterInit => RoundInv
<1> SUFFICES ASSUME AdapterInit
             PROVE  RoundInv
  OBVIOUS
<1>1. Planned
<2>1. PICK x \in Submitted : def = x[1] /\ server = x[2]
  BY DEF AdapterInit
<2>2. x = <<x[1], x[2]>>
  BY <2>1, HostAssumption
<2> QED
  BY <2>1, <2>2 DEF Planned
<1>2. RoundAfter(def, {}) = LinkActions(def)
  BY <1>1, PlannedRounds, RoundsOfAPlan
<1>3. InPlan
  BY DEF AdapterInit, InPlan, RoundAfter
<1> QED
  BY <1>1, <1>2, <1>3 DEF AdapterInit, RoundInv, Waits, RoundsAreLinksPortsVms

\* Every deployment runs its links, then its ports, then its VMs, and starts none
\* before all of the kind before it have succeeded (_execute_round).
THEOREM LinksThenPortsThenVms == AdapterSpec => []RoundsAreLinksPortsVms
<1>1. RoundInv /\ [AdapterNext]_adapterVars => RoundInv'
  BY RoundInductive
<1>2. RoundInv => RoundsAreLinksPortsVms
  BY DEF RoundInv
<1> QED
  BY <1>1, <1>2, RoundsBegin, PTL DEF AdapterSpec

-----------------------------------------------------------------------------
\* What is on the hosts, as far as the threads and the workflow have come.

Forward == phase \in {"round", "completed"}

\* The steps of a handler.
StepsOf(a, undo) ==
  CASE a.op = "CREATE_VM"   -> IF undo THEN {"stop", "erase", "done"}
                               ELSE {"running?", "disk", "taps?", "start", "wait", "done"}
    [] a.op = "ATTACH_PORT" -> IF undo THEN {"unplug", "untap", "done"}
                               ELSE {IF IsPublic(a) THEN "provider" ELSE "bridge",
                                     "tap?", "tap", "plug", "done"}
    [] a.op = "CREATE_LINK" -> IF undo THEN {"cut", "drop bridge", "drop veth", "done"}
                               ELSE IF IsPublic(a) THEN {"provider", "done"}
                               ELSE IF Remote(a) THEN {"bridge", "provider", "veth?", "veth",
                                                       "vx", "vw", "tunnel", "done"}
                               ELSE {"bridge", "done"}

\* Links that need the cable on their hosts.
Cabled(a) == a.op = "CREATE_LINK" /\ ~IsPublic(a) /\ Remote(a)

\* What is there once an action is done.
Made(a) ==
  /\ a.op = "CREATE_VM" => a.vm \in vm
  /\ a.op = "ATTACH_PORT" => a \in tap \cap plugged
  /\ Cabled(a) => \A h \in Targets(a) : CableOn(h)

\* What is there as far as a creating thread has come.
Built(t) ==
  LET a == t.action IN
  /\ a.op = "CREATE_VM" /\ t.pc \in {"wait", "done"} => a.vm \in vm
  /\ a.op = "ATTACH_PORT" /\ t.pc \in {"plug", "done"} => a \in tap
  /\ a.op = "ATTACH_PORT" /\ t.pc = "done" => a \in plugged
  /\ Cabled(a) =>
       /\ \A h \in Targets(a) \ t.left : CableOn(h)
       /\ t.pc \in {"provider", "veth?", "veth", "vx", "vw", "tunnel"} => Here(t) \in bridge
       /\ t.pc \in {"veth?", "veth", "vx", "vw", "tunnel"} => Here(t) \in provider
       /\ t.pc \in {"vx", "vw", "tunnel"} => Here(t) \in veth
       /\ t.pc \in {"vw", "tunnel"} => Here(t) \in vx
       /\ t.pc = "tunnel" => Here(t) \in vw

\* Who may have left a bridge, or a part of a cable, on a host.
BridgeBy(h) ==
  \E b \in suspect : b.op \in {"CREATE_LINK", "ATTACH_PORT"} /\ ~IsPublic(b) /\ h \in Targets(b)
CableBy(h) ==
  \E b \in suspect : b.op = "CREATE_LINK" /\ ~IsPublic(b) /\ h \in Targets(b)

\* What is gone as far as an undoing thread has come: a link's parts on the hosts it
\* has left behind (Past), and on the one it is at.
Past(t, h, steps) == h \notin t.left \/ (h = Here(t) /\ t.pc \in steps)
Gone(t) ==
  LET a == t.action IN
  /\ a.op = "CREATE_VM" /\ t.pc \in {"erase", "done"} => a.vm \notin vm
  /\ a.op = "CREATE_VM" /\ t.pc = "done" => a.vm \notin disk
  /\ a.op = "ATTACH_PORT" /\ t.pc \in {"untap", "done"} => a \notin plugged
  /\ a.op = "ATTACH_PORT" /\ t.pc = "done" => a \notin tap
  /\ a.op = "CREATE_LINK" => \A h \in Targets(a) :
       /\ Past(t, h, {"drop veth"}) /\ h \in bridge => BridgeBy(h)
       /\ Past(t, h, {"drop bridge", "drop veth"}) /\ h \in vw \cup tunnel => CableBy(h)
       /\ Past(t, h, {"drop veth"}) /\ h \in vx => CableBy(h)
       /\ Past(t, h, {}) /\ h \in veth => CableBy(h)

ThreadOK(t) ==
  /\ t.action \in ActionsOf(def) /\ t.left \subseteq Targets(t.action)
  /\ t.pc \in StepsOf(t.action, t.undo)
  /\ t.action.op = "CREATE_LINK" => (t.pc = "done" <=> t.left = {})
  /\ IF t.late THEN t.action \in suspect ELSE t.undo = (phase = "undo")
  /\ t.undo => ~Forward
  /\ Forward => Built(t)
  /\ t.undo /\ t.action \notin suspect => Gone(t)

\* Actions whose work may still be on the hosts.
Held(a) == a \in suspect \cup applied \cup pending \/ (Forward /\ a \in good)
LinkHeld(h) == \E k \in LinkActions(def) : ~IsPublic(k) /\ Held(k) /\ h \in Targets(k)
Accounted ==
  /\ \A v \in disk \cup vm : v \in def.vms /\ Held(CreateVm(v))
  /\ \A p \in tap \cup plugged : p \in PortActions(def) /\ Held(p)
  /\ \A h \in bridge : BridgeBy(h) \/ LinkHeld(h)
  /\ \A h \in veth \cup vx \cup vw \cup tunnel : CableBy(h) \/ LinkHeld(h)

FlowOK ==
  /\ phase \in {"round", "undo", "completed", "ended"}
  /\ done \cup bad \cup suspect \subseteq ActionsOf(def)
  /\ phase = "round" => done \subseteq applied
  /\ phase \in {"completed", "ended"} => pending = {}
  /\ phase = "ended" => applied = {}
  /\ phase = "completed" => done = ActionsOf(def)
  /\ Forward => \A a \in done \cup good : Made(a)

HostInv ==
  /\ FlowOK /\ Accounted /\ provider \subseteq Servers
  /\ \A t \in threads : ThreadOK(t)

-----------------------------------------------------------------------------
\* What the names and the servers of the plan's actions are.
LEMMA ActionParts ==
  ASSUME Planned, NEW a \in ActionsOf(def)
  PROVE  /\ a.op \in {"CREATE_LINK", "ATTACH_PORT", "CREATE_VM"}
         /\ a.op = "CREATE_LINK" => a \in LinkActions(def)
         /\ a.op = "ATTACH_PORT" => a \in PortActions(def) /\ a.vm \in def.vms
         /\ a.op = "CREATE_VM" => a = CreateVm(a.vm) /\ a.vm \in def.vms
         /\ a.op # "CREATE_LINK" => Targets(a) = {server[a.vm]}
         /\ Targets(a) \subseteq Servers /\ Targets(a) # {}
         /\ a.op = "ATTACH_PORT" =>
              /\ CreateLink(a.link) \in LinkActions(def)
              /\ IsPublic(CreateLink(a.link)) = IsPublic(a)
              /\ Targets(a) \subseteq Targets(CreateLink(a.link))
<1>1. /\ def \in Definitions /\ Accepted(def, TRUE) /\ server \in [def.vms -> Servers]
      /\ Servers \subseteq Nat
  BY PlannedRounds, HostAssumption
<1>2. /\ def.vms \subseteq Vms /\ DOMAIN def.links \subseteq Links /\ Public \notin DOMAIN def.links
      /\ def.public \subseteq def.vms
      /\ \A l \in DOMAIN def.links : def.links[l] \subseteq def.vms
      /\ \A l \in DOMAIN def.links : Cardinality(def.links[l]) >= 2
  BY <1>1, DefinitionParts DEF Accepted
<1>3. \A l \in LinkNames(def) : Endpoints(def, l) \subseteq def.vms /\ Endpoints(def, l) # {}
<2>1. Cardinality({}) = 0
  BY FS_EmptySet
<2>2. \A l \in DOMAIN def.links : def.links[l] # {}
  BY <1>2, <2>1
<2> QED
  BY <1>2, <2>2 DEF LinkNames, Endpoints
<1>4. CASE a \in LinkActions(def)
<2>1. PICK l \in LinkNames(def) : a = CreateLink(l)
  BY <1>4 DEF LinkActions
<2>2. Targets(a) = {server[v] : v \in Endpoints(def, l)} /\ a.op = "CREATE_LINK"
  BY <2>1 DEF Targets, ServersOf, CreateLink
<2> QED
  BY <1>1, <1>3, <1>4, <2>2
<1>5. CASE a \in PortActions(def)
<2>1. PICK l \in LinkNames(def) : a \in {AttachPort(l, v) : v \in Endpoints(def, l)}
  BY <1>5 DEF PortActions
<2> PICK v \in Endpoints(def, l) : a = AttachPort(l, v)
  BY <2>1
<2>2. /\ Targets(a) = {server[v]} /\ v \in def.vms
      /\ a.op = "ATTACH_PORT" /\ a.link = l /\ a.vm = v
  BY <1>3, <2>1 DEF Targets, ServersOf, AttachPort
<2>3. Targets(CreateLink(l)) = {server[u] : u \in Endpoints(def, l)}
  BY DEF Targets, ServersOf, CreateLink
<2>4. CreateLink(l) \in LinkActions(def) /\ IsPublic(CreateLink(l)) = IsPublic(a)
  BY <2>1, <2>2 DEF LinkActions, IsPublic, CreateLink
<2> QED
  BY <1>1, <1>5, <2>2, <2>3, <2>4
<1>6. CASE a \in VmActions(def)
<2>1. PICK v \in def.vms : a = CreateVm(v)
  BY <1>6 DEF VmActions
<2>2. Targets(a) = {server[v]} /\ a.op = "CREATE_VM" /\ a.vm = v
  BY <2>1 DEF Targets, ServersOf, CreateVm
<2> QED
  BY <1>1, <2>1, <2>2
<1> QED
  BY <1>4, <1>5, <1>6 DEF ActionsOf

\* What depends on the plan alone stays.
LEMMA Fixed ==
  ASSUME UNCHANGED plan
  PROVE  /\ \A a : Targets(a)' = Targets(a) /\ Cabled(a)' = Cabled(a)
         /\ \A a : \A undo \in BOOLEAN : StepsOf(a, undo)' = StepsOf(a, undo)
         /\ \A t : Here(t)' = Here(t)
         /\ ActionsOf(def)' = ActionsOf(def)
BY DEF plan, Targets, ServersOf, Cabled, Remote, StepsOf, Here, IsPublic

LEMMA Blamed ==
  ASSUME UNCHANGED plan, suspect \subseteq suspect'
  PROVE  \A h : (BridgeBy(h) => BridgeBy(h)') /\ (CableBy(h) => CableBy(h)')
BY Fixed DEF BridgeBy, CableBy, IsPublic

\* The action, the way and the host of a thread, by the step it is at.
LEMMA StepKinds ==
  ASSUME RoundInv, HostInv, NEW t \in threads
  PROVE  LET a == t.action IN
         /\ t.pc = "bridge" =>
              ~t.undo /\ ~IsPublic(a) /\ a.op \in {"CREATE_LINK", "ATTACH_PORT"}
         /\ t.pc = "provider" =>
              /\ ~t.undo /\ a.op \in {"CREATE_LINK", "ATTACH_PORT"}
              /\ a.op = "CREATE_LINK" => IsPublic(a) \/ Cabled(a)
         /\ t.pc \in {"veth?", "veth", "vx", "vw", "tunnel"} => ~t.undo /\ Cabled(a)
         /\ t.pc \in {"tap?", "tap", "plug"} => ~t.undo /\ a.op = "ATTACH_PORT"
         /\ t.pc \in {"running?", "disk", "taps?", "start", "wait"} =>
              ~t.undo /\ a.op = "CREATE_VM"
         /\ t.pc \in {"stop", "erase"} => t.undo /\ a.op = "CREATE_VM"
         /\ t.pc \in {"unplug", "untap"} => t.undo /\ a.op = "ATTACH_PORT"
         /\ t.pc \in {"cut", "drop bridge", "drop veth"} => t.undo /\ a.op = "CREATE_LINK"
<1> DEFINE a == t.action
<1>1. t.undo \in BOOLEAN /\ a \in ActionsOf(def) /\ t.pc \in StepsOf(a, t.undo)
  BY DEF RoundInv, Waits, Records, HostInv, ThreadOK
<1>2. a.op \in {"CREATE_LINK", "ATTACH_PORT", "CREATE_VM"}
  BY <1>1, ActionParts DEF RoundInv
<1> HIDE DEF a
<1>3. CASE a.op = "CREATE_VM"
  BY <1>1, <1>3 DEF StepsOf, a
<1>4. CASE a.op = "ATTACH_PORT"
  BY <1>1, <1>4 DEF StepsOf, a
<1>5. CASE a.op = "CREATE_LINK"
  BY <1>1, <1>5 DEF StepsOf, Cabled, a
<1> QED
  BY <1>2, <1>3, <1>4, <1>5

LEMMA HostOfThread ==
  ASSUME RoundInv, HostInv, NEW t \in threads, t.pc # "done"
  PROVE  /\ Here(t) \in Targets(t.action)
         /\ t.action.op = "CREATE_LINK" => Here(t) \in t.left
<1>1. /\ t.action \in ActionsOf(def) /\ t.left \subseteq Targets(t.action)
      /\ t.action.op = "CREATE_LINK" => t.left # {}
  BY DEF HostInv, ThreadOK
<1>2. t.left \in SUBSET Nat
  BY DEF RoundInv, Waits, Records
<1>3. CASE t.action.op = "CREATE_LINK"
<2>1. Min(t.left) \in t.left
  BY <1>1, <1>2, <1>3, LeastNumber
<2> QED
  BY <1>1, <1>3, <2>1 DEF Here
<1>4. CASE t.action.op # "CREATE_LINK"
<2>1. Targets(t.action) = {server[t.action.vm]}
  BY <1>1, <1>4, ActionParts DEF RoundInv
<2> QED
  BY <1>4, <2>1 DEF Here
<1> QED
  BY <1>3, <1>4

-----------------------------------------------------------------------------
\* A thread goes on as the same one.
Kin(t, u) == u \in Records /\ u.action = t.action /\ u.undo = t.undo /\ u.late = t.late
Follows(t, u) == threads' = (threads \ {t}) \cup {u} /\ UNCHANGED <<plan, flow>>

LEMMA GotoRecord ==
  ASSUME NEW t \in Records, NEW next \in Steps, Goto(t, next)
  PROVE  \E u : Kin(t, u) /\ Follows(t, u) /\ u.pc = next /\ u.left = t.left
<1> DEFINE u == [t EXCEPT !.pc = next]
<1>1. Kin(t, u) /\ u.pc = next /\ u.left = t.left
  BY DEF Records, Kin
<1> QED
  BY <1>1 DEF Goto, Follows

LEMMA NextHostRecord ==
  ASSUME NEW t \in Records, GotoNextHost(t), t.action.op = "CREATE_LINK"
  PROVE  \E u : /\ Kin(t, u) /\ Follows(t, u) /\ u.left = t.left \ {Here(t)}
                /\ u.pc = IF u.left = {} THEN "done" ELSE FirstStep(t.action, t.undo)
<1> DEFINE left == t.left \ {Here(t)}
           next == IF left = {} THEN "done" ELSE FirstStep(t.action, t.undo)
           u == [t EXCEPT !.left = left, !.pc = next]
<1>1. left \in SUBSET Nat
  BY DEF Records
<1>2. next \in Steps
  BY DEF FirstStep, Steps
<1>3. threads' = (threads \ {t}) \cup {u} /\ UNCHANGED <<plan, flow>>
  BY DEF GotoNextHost
<1> HIDE DEF left, next
<1>4. Kin(t, u) /\ u.left = left /\ u.pc = next
  BY <1>1, <1>2 DEF Records, Kin
<1> QED
  BY <1>3, <1>4 DEF Follows, left, next

\* Such a thread is in order where its step is one of its handler's, and what it
\* has done is on the hosts.
LEMMA Onward ==
  ASSUME NEW t, NEW u, UNCHANGED <<plan, flow>>, ThreadOK(t), Kin(t, u), t.undo \in BOOLEAN,
         u.left \subseteq t.left, u.pc \in StepsOf(t.action, t.undo),
         t.action.op = "CREATE_LINK" => (u.pc = "done" <=> u.left = {}),
         ~t.undo /\ Forward => Built(u)',
         t.undo /\ t.action \notin suspect => Gone(u)'
  PROVE  ThreadOK(u)'
BY Fixed DEF ThreadOK, Kin, flow, Forward

-----------------------------------------------------------------------------
\* Creating threads add what their action makes, undoing ones only remove.
OfBridge(a, h) == a.op \in {"CREATE_LINK", "ATTACH_PORT"} /\ ~IsPublic(a) /\ h \in Targets(a)
OfCable(a, h) == a.op = "CREATE_LINK" /\ ~IsPublic(a) /\ h \in Targets(a)
Grows(a) ==
  /\ \A v \in disk' : v \in disk \/ (a.op = "CREATE_VM" /\ v = a.vm)
  /\ \A v \in vm' : v \in vm \/ (a.op = "CREATE_VM" /\ v = a.vm)
  /\ \A p \in tap' : p \in tap \/ (a.op = "ATTACH_PORT" /\ p = a)
  /\ \A p \in plugged' : p \in plugged \/ (a.op = "ATTACH_PORT" /\ p = a)
  /\ \A h \in bridge' : h \in bridge \/ OfBridge(a, h)
  /\ \A h \in veth' : h \in veth \/ OfCable(a, h)
  /\ \A h \in vx' : h \in vx \/ OfCable(a, h)
  /\ \A h \in vw' : h \in vw \/ OfCable(a, h)
  /\ \A h \in tunnel' : h \in tunnel \/ OfCable(a, h)
  /\ provider' \subseteq provider \cup Targets(a)
  /\ disk \subseteq disk' /\ vm \subseteq vm' /\ tap \subseteq tap' /\ plugged \subseteq plugged'
  /\ bridge \subseteq bridge' /\ provider \subseteq provider' /\ veth \subseteq veth'
  /\ vx \subseteq vx' /\ vw \subseteq vw' /\ tunnel \subseteq tunnel'
Shrinks ==
  /\ disk' \subseteq disk /\ vm' \subseteq vm /\ tap' \subseteq tap /\ plugged' \subseteq plugged
  /\ bridge' \subseteq bridge /\ provider' \subseteq provider /\ veth' \subseteq veth
  /\ vx' \subseteq vx /\ vw' \subseteq vw /\ tunnel' \subseteq tunnel

Makes(t) ==
  ~t.undo /\ Grows(t.action) /\ \E u : Kin(t, u) /\ Follows(t, u) /\ ThreadOK(u)'
Undoes(t) ==
  t.undo /\ Shrinks /\ \E u : Kin(t, u) /\ Follows(t, u) /\ ThreadOK(u)'

\* create_link, host by host.
LEMMA LinkMakes ==
  ASSUME RoundInv, HostInv, NEW t \in threads, t.action.op = "CREATE_LINK",
         \/ EnsureBridge(t) \/ EnsureProvider(t) \/ LookForCable(t) \/ AddCable(t)
         \/ PlugSliceEnd(t) \/ PlugProviderEnd(t) \/ SetTunnel(t)
  PROVE  Makes(t)
<1> DEFINE a == t.action
           h == Here(t)
<1>1. /\ t \in Records /\ ThreadOK(t) /\ t.pc # "done" /\ ~t.undo
      /\ a \in ActionsOf(def) /\ h \in Targets(a) /\ h \in t.left
  BY StepKinds, HostOfThread DEF RoundInv, Waits, HostInv, ThreadOK, EnsureBridge, EnsureProvider,
     LookForCable, AddCable, PlugSliceEnd, PlugProviderEnd, SetTunnel
<1>2. Forward => Built(t)
  BY <1>1 DEF ThreadOK
<1>3. t.undo \in BOOLEAN /\ t.undo = FALSE
  BY <1>1 DEF Records
\* The next step on the same host.
<1>4. ASSUME NEW next \in Steps \ {"done"}, Goto(t, next), next \in StepsOf(a, FALSE),
             Grows(a), \A u : Kin(t, u) /\ u.pc = next /\ u.left = t.left /\ Forward => Built(u)'
      PROVE  Makes(t)
<2>1. PICK u : Kin(t, u) /\ Follows(t, u) /\ u.pc = next /\ u.left = t.left
  BY <1>1, <1>4, GotoRecord
<2>2. ThreadOK(u)'
  BY <1>1, <1>3, <1>4, <2>1, Onward DEF Follows
<2> QED
  BY <1>1, <1>4, <2>1, <2>2 DEF Makes
\* The next host.
<1>5. ASSUME GotoNextHost(t), Grows(a), \A k : k = h /\ Forward /\ Cabled(a) => CableOn(k)'
      PROVE  Makes(t)
<2>1. PICK u : /\ Kin(t, u) /\ Follows(t, u) /\ u.left = t.left \ {h}
               /\ u.pc = IF u.left = {} THEN "done" ELSE FirstStep(a, t.undo)
  BY <1>1, <1>5, NextHostRecord
<2>2. u.pc \in StepsOf(a, FALSE) /\ (u.pc = "done" <=> u.left = {})
      /\ u.pc \in {"done", "bridge", "provider"} /\ (Cabled(a) => u.pc \in {"done", "bridge"})
  BY <1>3, <2>1 DEF FirstStep, StepsOf, Cabled
<2>3. ASSUME Forward
      PROVE  Built(u)'
<3>1. ASSUME NEW k \in Targets(a) \ u.left, Cabled(a)
      PROVE  CableOn(k)'
<4>1. CASE k = h
  BY <1>5, <2>3, <3>1, <4>1
<4>2. CASE k # h
  BY <1>2, <1>5, <2>1, <2>3, <3>1, <4>2 DEF Built, CableOn, Grows
<4> QED
  BY <4>1, <4>2
<3> QED
  BY <2>1, <2>2, <3>1, Fixed DEF Built, Kin, Follows
<2>4. ThreadOK(u)'
  BY <1>1, <1>3, <2>1, <2>2, <2>3, Onward DEF Follows
<2> QED
  BY <1>1, <1>5, <2>1, <2>4 DEF Makes
<1>6. CASE EnsureBridge(t)
<2>1. ~IsPublic(a) /\ t.pc = "bridge"
  BY <1>6, StepKinds DEF EnsureBridge
<2>2. Grows(a) /\ h \in bridge'
  BY <1>1, <1>6, <2>1 DEF EnsureBridge, Grows, OfBridge, cable, vmVars
<2>3. CASE Remote(a)
<3>1. Cabled(a) /\ Goto(t, "provider") /\ UNCHANGED plan
  BY <1>6, <2>1, <2>3 DEF Cabled, EnsureBridge, Goto
<3>2. "provider" \in StepsOf(a, FALSE)
  BY <2>1, <2>3 DEF StepsOf
<3>3. ASSUME NEW u, Kin(t, u), u.pc = "provider", u.left = t.left, Forward
      PROVE  Built(u)'
<4>1. Here(u) = h
  BY <3>3 DEF Kin, Here
<4> QED
  BY <1>2, <2>2, <3>1, <3>3, <4>1, Fixed DEF Built, Kin, CableOn, Grows
<3> QED
  BY <1>4, <2>2, <3>1, <3>2, <3>3 DEF Steps
<2>4. CASE ~Remote(a)
<3>1. GotoNextHost(t) /\ ~Cabled(a)
  BY <1>6, <2>4 DEF EnsureBridge, Cabled
<3> QED
  BY <1>5, <2>2, <3>1
<2> QED
  BY <2>3, <2>4
<1>7. CASE EnsureProvider(t)
<2>1. (IsPublic(a) \/ Cabled(a)) /\ t.pc = "provider"
  BY <1>7, StepKinds DEF EnsureProvider
<2>2. Grows(a) /\ h \in provider'
  BY <1>1, <1>7, <2>1 DEF EnsureProvider, Grows, cable, vmVars
<2>3. CASE Cabled(a)
<3>1. Goto(t, "veth?") /\ UNCHANGED plan
  BY <1>7, <2>3 DEF Cabled, EnsureProvider, Goto
<3>2. "veth?" \in StepsOf(a, FALSE)
  BY <2>3 DEF StepsOf, Cabled
<3>3. ASSUME NEW u, Kin(t, u), u.pc = "veth?", u.left = t.left, Forward
      PROVE  Built(u)'
<4>1. Here(u) = h
  BY <3>3 DEF Kin, Here
<4> QED
  BY <1>2, <2>1, <2>2, <3>1, <3>3, <4>1, Fixed DEF Built, Kin, CableOn, Grows
<3> QED
  BY <1>4, <2>2, <3>1, <3>2, <3>3 DEF Steps
<2>4. CASE ~Cabled(a)
<3>1. GotoNextHost(t)
  BY <1>7, <2>1, <2>4 DEF EnsureProvider
<3> QED
  BY <1>5, <2>2, <2>4, <3>1
<2> QED
  BY <2>3, <2>4
<1>8. CASE LookForCable(t) \/ AddCable(t) \/ PlugSliceEnd(t) \/ PlugProviderEnd(t)
<2>1. Cabled(a)
  BY <1>8, StepKinds DEF LookForCable, AddCable, PlugSliceEnd, PlugProviderEnd
<2>2. {"veth", "vx", "vw", "tunnel"} \subseteq StepsOf(a, FALSE)
  BY <2>1 DEF StepsOf, Cabled
<2>3. Grows(a)
  BY <1>1, <1>8, <2>1 DEF LookForCable, AddCable, PlugSliceEnd, PlugProviderEnd, Grows, OfCable,
     Cabled, hardware, cable, vmVars
<2>4. PICK next \in {"veth", "vx", "vw", "tunnel"} :
        /\ Goto(t, next)
        /\ next = "veth" => t.pc = "veth?"
        /\ next = "vx" => t.pc \in {"veth?", "veth"} /\ h \in veth'
        /\ next = "vw" => t.pc = "vx" /\ h \in vx'
        /\ next = "tunnel" => t.pc = "vw" /\ h \in vw'
<3>1. CASE LookForCable(t)
  BY <3>1 DEF LookForCable, hardware, cable
<3>2. CASE AddCable(t) \/ PlugSliceEnd(t) \/ PlugProviderEnd(t)
  BY <3>2 DEF AddCable, PlugSliceEnd, PlugProviderEnd
<3> QED
  BY <1>8, <3>1, <3>2
<2>5. ASSUME NEW u, Kin(t, u), u.pc = next, u.left = t.left, Forward
      PROVE  Built(u)'
<3>1. Here(u) = h
  BY <2>5 DEF Kin, Here
<3>2. UNCHANGED plan
  BY <2>4 DEF Goto
<3>3. /\ h \in bridge' /\ h \in provider'
      /\ next \in {"vx", "vw", "tunnel"} => h \in veth'
      /\ next \in {"vw", "tunnel"} => h \in vx'
      /\ next = "tunnel" => h \in vw'
      /\ \A k \in Targets(a) \ t.left : CableOn(k)'
  BY <1>2, <2>1, <2>3, <2>4, <2>5 DEF Built, CableOn, Grows
<3> HIDE DEF h
<3> QED
  BY <2>1, <2>4, <2>5, <3>1, <3>2, <3>3, Fixed DEF Built, Kin, Cabled
<2> QED
  BY <1>4, <2>2, <2>3, <2>4, <2>5 DEF Steps
<1>9. CASE SetTunnel(t)
<2>1. Cabled(a) /\ t.pc = "tunnel"
  BY <1>9, StepKinds DEF SetTunnel
<2>2. Grows(a)
  BY <1>1, <1>9, <2>1 DEF SetTunnel, Grows, OfCable, Cabled, vmVars
<2>3. \A k : k = h /\ Forward => CableOn(k)'
  BY <1>2, <1>9, <2>1, <2>2 DEF SetTunnel, Built, CableOn, Grows
<2> QED
  BY <1>5, <1>9, <2>2, <2>3 DEF SetTunnel
<1> QED
  BY <1>6, <1>7, <1>8, <1>9

\* attach_port and create_vm.
LEMMA PortMakes ==
  ASSUME RoundInv, HostInv, NEW t \in threads, t.action.op = "ATTACH_PORT", ~Refuse(t),
         \/ EnsureBridge(t) \/ EnsureProvider(t) \/ LookForTap(t) \/ AddTap(t) \/ PlugTap(t)
  PROVE  Makes(t)
<1> DEFINE a == t.action
<1>1. /\ t \in Records /\ ThreadOK(t) /\ t.pc # "done" /\ ~t.undo /\ t.undo \in BOOLEAN
      /\ a \in ActionsOf(def) /\ Here(t) \in Targets(a)
  BY StepKinds, HostOfThread DEF RoundInv, Waits, Records, HostInv, ThreadOK, EnsureBridge,
     EnsureProvider, LookForTap, AddTap, PlugTap
<1>2. Forward => Built(t)
  BY <1>1 DEF ThreadOK
<1>3. {"tap?", "tap", "plug", "done"} \subseteq StepsOf(a, FALSE) /\ ~Cabled(a)
  BY DEF StepsOf, Cabled
<1>4. ASSUME NEW next \in {"tap?", "tap", "plug", "done"}, Goto(t, next), Grows(a),
             next \in {"plug", "done"} /\ Forward => a \in tap',
             next = "done" => a \in plugged'
      PROVE  Makes(t)
<2> next \in Steps
  BY DEF Steps
<2>1. PICK u : Kin(t, u) /\ Follows(t, u) /\ u.pc = next /\ u.left = t.left
  BY <1>1, <1>4, GotoRecord
<2>2. Forward => Built(u)'
  BY <1>3, <1>4, <2>1, Fixed DEF Built, Kin, Follows
<2>3. ThreadOK(u)'
  BY <1>1, <1>3, <2>1, <2>2, Onward DEF Follows
<2> QED
  BY <1>1, <1>4, <2>1, <2>3 DEF Makes
<1>5. CASE EnsureBridge(t)
<2>1. ~IsPublic(a)
  BY <1>5, StepKinds DEF EnsureBridge
<2> QED
  BY <1>1, <1>4, <1>5, <2>1 DEF EnsureBridge, Grows, OfBridge, cable, vmVars
<1>6. CASE EnsureProvider(t)
  BY <1>1, <1>4, <1>6 DEF EnsureProvider, Grows, cable, vmVars
<1>7. CASE LookForTap(t)
  BY <1>4, <1>7 DEF LookForTap, Grows, hardware, cable, vmVars
<1>8. CASE AddTap(t)
<2>1. t.pc = "tap"
  BY <1>8 DEF AddTap
<2>2. CASE a \notin tap /\ tap' = tap \cup {a} /\ Goto(t, "plug")
           /\ UNCHANGED <<bridge, provider, cable, plugged, vmVars>>
  BY <1>4, <2>2 DEF Grows, cable, vmVars
<2> QED
  BY <1>8, <2>2 DEF AddTap
<1>9. CASE PlugTap(t)
  BY <1>2, <1>4, <1>9 DEF PlugTap, Grows, cable, vmVars, Built
<1> QED
  BY <1>5, <1>6, <1>7, <1>8, <1>9

LEMMA VmMakes ==
  ASSUME RoundInv, HostInv, NEW t \in threads, t.action.op = "CREATE_VM", ~Refuse(t),
         \/ LookForVm(t) \/ MakeDisk(t) \/ LookForTaps(t) \/ StartQemu(t) \/ WaitForStart(t)
  PROVE  Makes(t)
<1> DEFINE a == t.action
<1>1. /\ t \in Records /\ ThreadOK(t) /\ t.pc # "done" /\ ~t.undo /\ t.undo \in BOOLEAN
      /\ a \in ActionsOf(def)
  BY StepKinds DEF RoundInv, Waits, Records, HostInv, ThreadOK, LookForVm, MakeDisk, LookForTaps,
     StartQemu, WaitForStart
<1>2. {"disk", "taps?", "start", "wait", "done"} \subseteq StepsOf(a, FALSE) /\ ~Cabled(a)
  BY DEF StepsOf, Cabled
<1>3. ASSUME NEW next \in {"disk", "taps?", "start", "wait", "done"}, Goto(t, next), Grows(a),
             next \in {"wait", "done"} => a.vm \in vm'
      PROVE  Makes(t)
<2> next \in Steps
  BY DEF Steps
<2>1. PICK u : Kin(t, u) /\ Follows(t, u) /\ u.pc = next /\ u.left = t.left
  BY <1>1, <1>3, GotoRecord
<2>2. Forward => Built(u)'
  BY <1>2, <1>3, <2>1, Fixed DEF Built, Kin, Follows
<2>3. ThreadOK(u)'
  BY <1>1, <1>2, <2>1, <2>2, Onward DEF Follows
<2> QED
  BY <1>1, <1>3, <2>1, <2>3 DEF Makes
<1>4. CASE LookForVm(t)
  BY <1>3, <1>4 DEF LookForVm, Grows, hardware, cable, vmVars
<1>5. CASE MakeDisk(t)
  BY <1>3, <1>5 DEF MakeDisk, Grows, cable
<1>6. CASE LookForTaps(t)
  BY <1>3, <1>6 DEF LookForTaps, Grows, hardware, cable, vmVars
<1>7. CASE StartQemu(t)
  BY <1>3, <1>7 DEF StartQemu, Grows, cable
<1>8. CASE WaitForStart(t)
  BY <1>3, <1>8 DEF WaitForStart, Grows, hardware, cable, vmVars
<1> QED
  BY <1>4, <1>5, <1>6, <1>7, <1>8

\* delete_vm, detach_port, delete_link.
LEMMA HandlerUndoes ==
  ASSUME RoundInv, HostInv, NEW t \in threads,
         \/ StopQemu(t) \/ EraseDisk(t) \/ UnplugTap(t) \/ DropTap(t)
         \/ CutTunnel(t) \/ DropBridge(t) \/ DropCable(t)
  PROVE  Undoes(t)
<1> DEFINE a == t.action
           h == Here(t)
<1>1. /\ t \in Records /\ ThreadOK(t) /\ t.pc # "done" /\ t.undo /\ t.undo = TRUE
      /\ a \in ActionsOf(def) /\ (a.op = "CREATE_LINK" => h \in t.left)
  BY StepKinds, HostOfThread DEF RoundInv, Waits, Records, HostInv, ThreadOK, StopQemu, EraseDisk,
     UnplugTap, DropTap, CutTunnel, DropBridge, DropCable
<1>2. a \notin suspect => Gone(t)
  BY <1>1 DEF ThreadOK
<1>3. ASSUME NEW next \in Steps, Goto(t, next), next \in StepsOf(a, TRUE), Shrinks,
             a.op = "CREATE_LINK" => next # "done",
             \A u : /\ Kin(t, u) /\ u.pc = next /\ u.left = t.left /\ Here(u) = h
                    /\ UNCHANGED plan /\ UNCHANGED suspect /\ a \notin suspect
                    => Gone(u)'
      PROVE  Undoes(t)
<2>1. PICK u : Kin(t, u) /\ Follows(t, u) /\ u.pc = next /\ u.left = t.left
  BY <1>1, <1>3, GotoRecord
<2>2. Here(u) = h
  BY <2>1 DEF Here, Kin
<2>3. a \notin suspect => Gone(u)'
  BY <1>3, <2>1, <2>2 DEF Follows, flow
<2>4. a.op = "CREATE_LINK" => (u.pc = "done" <=> u.left = {})
  BY <1>1, <1>3, <2>1 DEF ThreadOK
<2>5. ThreadOK(u)'
  BY <1>1, <1>3, <2>1, <2>3, <2>4, Onward DEF Follows
<2> QED
  BY <1>1, <1>3, <2>1, <2>5 DEF Undoes
<1>4. CASE StopQemu(t)
<2>1. a.op = "CREATE_VM" /\ "erase" \in StepsOf(a, TRUE)
  BY <1>4, StepKinds DEF StopQemu, StepsOf
<2> QED
  BY <1>3, <1>4, <2>1 DEF StopQemu, Shrinks, cable, Gone, Kin, Steps
<1>5. CASE EraseDisk(t)
<2>1. a.op = "CREATE_VM" /\ "done" \in StepsOf(a, TRUE)
  BY <1>5, StepKinds DEF EraseDisk, StepsOf
<2> QED
  BY <1>2, <1>3, <1>5, <2>1 DEF EraseDisk, Shrinks, cable, Gone, Kin, Steps
<1>6. CASE UnplugTap(t)
<2>1. a.op = "ATTACH_PORT" /\ "untap" \in StepsOf(a, TRUE)
  BY <1>6, StepKinds DEF UnplugTap, StepsOf
<2> QED
  BY <1>3, <1>6, <2>1 DEF UnplugTap, Shrinks, cable, vmVars, Gone, Kin, Steps
<1>7. CASE DropTap(t)
<2>1. a.op = "ATTACH_PORT" /\ "done" \in StepsOf(a, TRUE)
  BY <1>7, StepKinds DEF DropTap, StepsOf
<2> QED
  BY <1>2, <1>3, <1>7, <2>1 DEF DropTap, Shrinks, cable, vmVars, Gone, Kin, Steps
<1>8. CASE CutTunnel(t)
<2>1. a.op = "CREATE_LINK" /\ "drop bridge" \in StepsOf(a, TRUE)
  BY <1>8, StepKinds DEF CutTunnel, StepsOf
<2>2. Shrinks /\ Goto(t, "drop bridge") /\ h \notin vw' \cup tunnel'
  BY <1>8 DEF CutTunnel, Shrinks, vmVars
<2>3. ASSUME NEW u, Kin(t, u), u.pc = "drop bridge", u.left = t.left, Here(u) = h,
             UNCHANGED plan, UNCHANGED suspect, a \notin suspect
      PROVE  Gone(u)'
  BY <1>2, <2>1, <2>2, <2>3, Fixed, Blamed DEF Gone, Past, Kin, Shrinks
<2> QED
  BY <1>3, <2>1, <2>2, <2>3 DEF Steps
<1>9. CASE DropBridge(t)
<2>1. a.op = "CREATE_LINK" /\ "drop veth" \in StepsOf(a, TRUE) /\ t.pc = "drop bridge"
  BY <1>9, StepKinds DEF DropBridge, StepsOf
<2>2. Shrinks /\ Goto(t, "drop veth") /\ h \notin bridge' \cup vx'
  BY <1>9 DEF DropBridge, Shrinks, vmVars
<2>3. ASSUME NEW u, Kin(t, u), u.pc = "drop veth", u.left = t.left, Here(u) = h,
             UNCHANGED plan, UNCHANGED suspect, a \notin suspect
      PROVE  Gone(u)'
  BY <1>2, <2>1, <2>2, <2>3, Fixed, Blamed DEF Gone, Past, Kin, Shrinks
<2> QED
  BY <1>3, <2>1, <2>2, <2>3 DEF Steps
<1>10. CASE DropCable(t)
<2>1. a.op = "CREATE_LINK" /\ t.pc = "drop veth"
  BY <1>10, StepKinds DEF DropCable
<2>2. Shrinks /\ GotoNextHost(t) /\ h \notin veth'
  BY <1>10 DEF DropCable, Shrinks, vmVars
<2>3. PICK u : /\ Kin(t, u) /\ Follows(t, u) /\ u.left = t.left \ {h}
               /\ u.pc = IF u.left = {} THEN "done" ELSE FirstStep(a, t.undo)
  BY <1>1, <2>1, <2>2, NextHostRecord
<2>4. u.pc \in {"done", "cut"} /\ u.pc \in StepsOf(a, TRUE) /\ (u.pc = "done" <=> u.left = {})
  BY <1>1, <2>1, <2>3 DEF FirstStep, StepsOf
<2>5. a \notin suspect => Gone(u)'
<3>1. UNCHANGED <<plan, suspect>>
  BY <2>3 DEF Follows, flow
<3> HIDE DEF h
<3> QED
  BY <1>2, <2>1, <2>2, <2>3, <2>4, <3>1, Fixed, Blamed DEF Gone, Past, Kin, Shrinks, h
<2>6. ThreadOK(u)'
  BY <1>1, <2>3, <2>4, <2>5, Onward DEF Follows
<2> QED
  BY <1>1, <2>2, <2>3, <2>6 DEF Undoes
<1> QED
  BY <1>4, <1>5, <1>6, <1>7, <1>8, <1>9, <1>10

LEMMA HandlerSteps ==
  ASSUME RoundInv, HostInv, NEW t \in threads, ThreadStep(t)
  PROVE  Makes(t) \/ Undoes(t) \/ Refuse(t) \/ Answer(t) \/ Break(t) \/ TimeOut(t)
<1>1. CASE \/ StopQemu(t) \/ EraseDisk(t) \/ UnplugTap(t) \/ DropTap(t)
           \/ CutTunnel(t) \/ DropBridge(t) \/ DropCable(t)
  BY <1>1, HandlerUndoes
<1>2. CASE \/ LookForVm(t) \/ MakeDisk(t) \/ LookForTaps(t) \/ StartQemu(t) \/ WaitForStart(t)
<2>1. t.action.op = "CREATE_VM"
  BY <1>2, StepKinds DEF LookForVm, MakeDisk, LookForTaps, StartQemu, WaitForStart
<2> QED
  BY <1>2, <2>1, VmMakes
<1>3. CASE LookForTap(t) \/ AddTap(t) \/ PlugTap(t)
<2>1. t.action.op = "ATTACH_PORT"
  BY <1>3, StepKinds DEF LookForTap, AddTap, PlugTap
<2> QED
  BY <1>3, <2>1, PortMakes
<1>4. CASE EnsureBridge(t) \/ EnsureProvider(t)
<2>1. t.action.op \in {"CREATE_LINK", "ATTACH_PORT"}
  BY <1>4, StepKinds DEF EnsureBridge, EnsureProvider
<2> QED
  BY <1>4, <2>1, PortMakes, LinkMakes
<1>5. CASE LookForCable(t) \/ AddCable(t) \/ PlugSliceEnd(t) \/ PlugProviderEnd(t) \/ SetTunnel(t)
<2>1. t.action.op = "CREATE_LINK"
  BY <1>5, StepKinds DEF LookForCable, AddCable, PlugSliceEnd, PlugProviderEnd, SetTunnel, Cabled
<2> QED
  BY <1>5, <2>1, LinkMakes
<1>6. CASE Answer(t) \/ Break(t) \/ TimeOut(t)
  BY <1>6
<1> QED
  BY <1>1, <1>2, <1>3, <1>4, <1>5, <1>6 DEF ThreadStep

-----------------------------------------------------------------------------
\* What a thread adds belongs to an action that is pending, or that failed or was
\* late; a port's bridge is that of its link, which was made in the round before.
LEMMA WhatIsMadeIsHeld ==
  ASSUME RoundInv, HostInv, NEW t \in threads, ~t.undo
  PROVE  LET a == t.action IN
         /\ a \in ActionsOf(def) /\ Held(a)
         /\ \A h : OfBridge(a, h) => BridgeBy(h) \/ LinkHeld(h)
         /\ \A h : OfCable(a, h) => CableBy(h) \/ LinkHeld(h)
         /\ ~Forward => /\ a \in suspect
                        /\ \A h : (OfBridge(a, h) => BridgeBy(h)) /\ (OfCable(a, h) => CableBy(h))
<1> DEFINE a == t.action
<1>1. ThreadOK(t) /\ a \in ActionsOf(def) /\ t \in Records
  BY DEF HostInv, ThreadOK, RoundInv, Waits
<1>2. CASE a \in suspect
  BY <1>1, <1>2 DEF Held, OfBridge, OfCable, BridgeBy, CableBy
<1>3. CASE a \notin suspect
<2>1. ~t.late /\ a \in pending
  BY <1>1, <1>3 DEF ThreadOK, RoundInv, Waits, Records
<2>2. phase = "round"
  BY <1>1, <2>1 DEF ThreadOK, HostInv, FlowOK, Records
<2>3. ASSUME NEW h, OfCable(a, h)
      PROVE  LinkHeld(h)
<3>1. a \in LinkActions(def)
  BY <1>1, <2>3, ActionParts DEF OfCable, RoundInv
<3> QED
  BY <2>1, <2>3, <3>1 DEF OfCable, LinkHeld, Held
<2>4. ASSUME NEW h, OfBridge(a, h), a.op = "ATTACH_PORT"
      PROVE  LinkHeld(h)
<3> DEFINE k == CreateLink(a.link)
<3>1. /\ k \in LinkActions(def) /\ ~IsPublic(k) /\ h \in Targets(k) /\ a \in PortActions(def)
  BY <1>1, <2>4, ActionParts DEF RoundInv, OfBridge
<3>2. \A b \in LinkActions(def) \cup VmActions(def) : b.op # "ATTACH_PORT"
  BY PlannedRounds, ActionKinds DEF RoundInv
<3>3. LinkActions(def) \subseteq done
  BY <2>1, <2>2, <2>4, <3>2 DEF RoundInv, RoundsAreLinksPortsVms
<3>4. k \in applied
  BY <2>2, <3>1, <3>3 DEF HostInv, FlowOK
<3> QED
  BY <3>1, <3>4 DEF LinkHeld, Held
<2>5. \A h : OfBridge(a, h) => LinkHeld(h)
  BY <2>3, <2>4 DEF OfBridge, OfCable
<2> QED
  BY <1>1, <2>1, <2>2, <2>3, <2>5 DEF Held, Forward
<1> QED
  BY <1>2, <1>3

\* What the accounts name stays named while the workflow does not move.
LEMMA AccountsStay ==
  ASSUME UNCHANGED <<plan, flow>>
  PROVE  /\ \A a : Held(a)' = Held(a)
         /\ \A h : LinkHeld(h)' = LinkHeld(h) /\ BridgeBy(h)' = BridgeBy(h) /\ CableBy(h)' = CableBy(h)
         /\ Forward' = Forward
         /\ LinkActions(def)' = LinkActions(def) /\ PortActions(def)' = PortActions(def)
<1>1. UNCHANGED <<def, server, phase, done, pending, good, bad, applied, suspect>>
  BY DEF plan, flow
<1>2. Forward' = Forward
  BY <1>1 DEF Forward
<1>3. \A a : Held(a)' = Held(a)
  BY <1>1, <1>2 DEF Held
<1>4. LinkActions(def)' = LinkActions(def) /\ PortActions(def)' = PortActions(def)
  BY <1>1
<1>5. \A h : LinkHeld(h)' = LinkHeld(h)
  BY <1>3, <1>4, Fixed DEF LinkHeld, IsPublic
<1>6. \A h : BridgeBy(h)' = BridgeBy(h) /\ CableBy(h)' = CableBy(h)
  BY <1>1, Fixed DEF BridgeBy, CableBy, IsPublic
<1> QED
  BY <1>2, <1>3, <1>4, <1>5, <1>6

LEMMA MakingInductive ==
  ASSUME RoundInv, HostInv, NEW t \in threads, Makes(t)
  PROVE  HostInv'
<1> DEFINE a == t.action
<1>1. PICK u : Kin(t, u) /\ Follows(t, u) /\ ThreadOK(u)'
  BY DEF Makes
<1>2. ~t.undo /\ Grows(a)
  BY DEF Makes
<1>3. /\ a \in ActionsOf(def) /\ Held(a)
      /\ \A h : OfBridge(a, h) => BridgeBy(h) \/ LinkHeld(h)
      /\ \A h : OfCable(a, h) => CableBy(h) \/ LinkHeld(h)
      /\ ~Forward => /\ a \in suspect
                     /\ \A h : (OfBridge(a, h) => BridgeBy(h)) /\ (OfCable(a, h) => CableBy(h))
  BY <1>2, WhatIsMadeIsHeld
<1>4. UNCHANGED <<plan, flow>> /\ UNCHANGED <<def, server, phase, done, pending, good, bad, applied, suspect>>
  BY <1>1 DEF Follows, plan, flow
<1>5. FlowOK'
<2>1. ASSUME NEW b, Made(b)
      PROVE  Made(b)'
  BY <1>2, <1>4, <2>1, Fixed DEF Made, CableOn, Grows
<2> QED
  BY <1>4, <2>1, AccountsStay, Fixed DEF HostInv, FlowOK
<1>6. Accounted'
<2>1. ASSUME NEW v \in disk' \cup vm'
      PROVE  v \in def.vms /\ Held(CreateVm(v))
  BY <1>2, <1>3, ActionParts DEF Grows, HostInv, Accounted, RoundInv
<2>2. ASSUME NEW p \in tap' \cup plugged'
      PROVE  p \in PortActions(def) /\ Held(p)
  BY <1>2, <1>3, ActionParts DEF Grows, HostInv, Accounted, RoundInv
<2>3. ASSUME NEW h \in bridge'
      PROVE  BridgeBy(h) \/ LinkHeld(h)
  BY <1>2, <1>3 DEF Grows, HostInv, Accounted
<2>4. ASSUME NEW h \in veth' \cup vx' \cup vw' \cup tunnel'
      PROVE  CableBy(h) \/ LinkHeld(h)
  BY <1>2, <1>3 DEF Grows, HostInv, Accounted
<2> QED
  BY <1>4, <2>1, <2>2, <2>3, <2>4, AccountsStay DEF Accounted
<1>7. provider' \subseteq Servers
  BY <1>2, <1>3, ActionParts DEF Grows, HostInv, RoundInv
<1>8. ASSUME NEW q \in threads
      PROVE  ThreadOK(q)'
<2>1. ThreadOK(q) /\ q \in Records
  BY DEF HostInv, RoundInv, Waits
<2>2. ASSUME Built(q)
      PROVE  Built(q)'
  BY <1>2, <1>4, <2>2, Fixed DEF Built, CableOn, Grows
<2>3. ASSUME q.undo, q.action \notin suspect, Gone(q)
      PROVE  Gone(q)'
<3>1. ~Forward /\ q.action \in ActionsOf(def)
  BY <2>1, <2>3 DEF ThreadOK
<3>2. a \in suspect /\ a # q.action
  BY <1>3, <2>3, <3>1
<3>3. \A h : (OfBridge(a, h) => BridgeBy(h)) /\ (OfCable(a, h) => CableBy(h))
  BY <1>3, <3>1
<3>4. ~(a.op = "CREATE_VM" /\ q.action.op = "CREATE_VM" /\ a.vm = q.action.vm)
  BY <1>3, <3>1, <3>2, ActionParts DEF RoundInv
<3>5. CASE q.action.op = "CREATE_LINK"
<4> DEFINE T == Targets(q.action)
<4>1. ASSUME NEW h \in T
      PROVE  /\ Past(q, h, {"drop veth"}) /\ h \in bridge' => BridgeBy(h)
             /\ Past(q, h, {"drop bridge", "drop veth"}) /\ h \in vw' \cup tunnel' => CableBy(h)
             /\ Past(q, h, {"drop veth"}) /\ h \in vx' => CableBy(h)
             /\ Past(q, h, {}) /\ h \in veth' => CableBy(h)
  BY <1>2, <2>3, <3>3, <3>5 DEF Gone, Grows
<4>2. \A h, steps : Past(q, h, steps)' = Past(q, h, steps)
  BY <1>4, Fixed DEF Past
<4> QED
  BY <1>4, <3>5, <4>1, <4>2, Fixed, AccountsStay DEF Gone
<3>6. CASE q.action.op # "CREATE_LINK"
<4>1. /\ \A v \in disk' : v \in disk \/ (a.op = "CREATE_VM" /\ v = a.vm)
      /\ \A v \in vm' : v \in vm \/ (a.op = "CREATE_VM" /\ v = a.vm)
      /\ \A p \in tap' : p \in tap \/ (a.op = "ATTACH_PORT" /\ p = a)
      /\ \A p \in plugged' : p \in plugged \/ (a.op = "ATTACH_PORT" /\ p = a)
  BY <1>2 DEF Grows
<4> QED
  BY <2>3, <3>2, <3>4, <3>6, <4>1 DEF Gone
<3> QED
  BY <3>5, <3>6
<2> QED
  BY <1>4, <2>1, <2>2, <2>3, AccountsStay, Fixed DEF ThreadOK, Records
<1> QED
  BY <1>1, <1>5, <1>6, <1>7, <1>8 DEF HostInv, Follows

LEMMA UndoingInductive ==
  ASSUME RoundInv, HostInv, NEW t \in threads, Undoes(t)
  PROVE  HostInv'
<1>1. PICK u : Kin(t, u) /\ Follows(t, u) /\ ThreadOK(u)'
  BY DEF Undoes
<1>2. t.undo /\ Shrinks
  BY DEF Undoes
<1>3. ~Forward
  BY <1>2 DEF HostInv, ThreadOK
<1>4. UNCHANGED <<plan, flow>> /\ UNCHANGED <<def, server, phase, done, pending, good, bad, applied, suspect>>
  BY <1>1 DEF Follows, plan, flow
<1>5. FlowOK'
  BY <1>3, <1>4, AccountsStay, Fixed DEF HostInv, FlowOK
<1>6. Accounted'
  BY <1>2, <1>4, AccountsStay DEF HostInv, Accounted, Shrinks
<1>7. provider' \subseteq Servers
  BY <1>2 DEF Shrinks, HostInv
<1>8. ASSUME NEW q \in threads
      PROVE  ThreadOK(q)'
<2>1. ThreadOK(q) /\ q \in Records
  BY DEF HostInv, RoundInv, Waits
<2>2. ASSUME Gone(q)
      PROVE  Gone(q)'
  BY <1>2, <1>4, <2>2, Fixed, AccountsStay DEF Gone, Past, Shrinks
<2> QED
  BY <1>3, <1>4, <2>1, <2>2, AccountsStay, Fixed DEF ThreadOK, Records
<1> QED
  BY <1>1, <1>5, <1>6, <1>7, <1>8 DEF HostInv, Follows

-----------------------------------------------------------------------------
\* What the workflow does changes nothing on the hosts.
LEMMA HostsStay ==
  ASSUME UNCHANGED <<plan, hardware>>, suspect \subseteq suspect', Forward' => Forward
  PROVE  /\ \A a : Made(a)' = Made(a)
         /\ \A q : ThreadOK(q) /\ (q.late \/ q.undo = (phase' = "undo")) /\ (q.undo => ~Forward')
              => ThreadOK(q)'
<1>1. UNCHANGED <<def, server, bridge, provider, veth, vx, vw, tunnel, tap, plugged, disk, vm>>
  BY DEF plan, hardware, cable, vmVars
<1>2. \A a : Made(a)' = Made(a)
  BY <1>1, Fixed DEF Made, CableOn
<1>3. \A q : Built(q) => Built(q)'
  BY <1>1, Fixed DEF Built, CableOn
<1>4. ASSUME NEW q, Gone(q)
      PROVE  Gone(q)'
<2>1. \A h, steps : Past(q, h, steps)' = Past(q, h, steps)
  BY Fixed DEF Past
<2> QED
  BY <1>1, <1>4, <2>1, Fixed, Blamed DEF Gone
<1>5. ASSUME NEW q, ThreadOK(q), q.late \/ q.undo = (phase' = "undo"), q.undo => ~Forward'
      PROVE  ThreadOK(q)'
<2>1. StepsOf(q.action, q.undo)' = StepsOf(q.action, q.undo)
  BY DEF plan, StepsOf, IsPublic, Remote, Targets, ServersOf
<2> QED
  BY <1>3, <1>4, <1>5, <2>1, Fixed DEF ThreadOK
<1> QED
  BY <1>2, <1>5

\* The accounts stay in order where what held an action still does, unless nothing
\* of it is there any more.
LEMMA AccountsKept ==
  ASSUME HostInv, UNCHANGED <<plan, hardware>>, suspect \subseteq suspect',
         NEW x, \A a : Held(a) /\ a # x => Held(a)',
         \/ Held(x) => Held(x)'
         \/ /\ \A v \in disk \cup vm : CreateVm(v) # x
            /\ x \notin tap \cup plugged
            /\ x.op = "CREATE_LINK" =>
                 /\ \A h \in Targets(x) \cap bridge : BridgeBy(h)
                 /\ \A h \in Targets(x) \cap (veth \cup vx \cup vw \cup tunnel) : CableBy(h)
            /\ x \in LinkActions(def) => x.op = "CREATE_LINK"
  PROVE  Accounted'
<1>1. UNCHANGED <<def, server, bridge, provider, veth, vx, vw, tunnel, tap, plugged, disk, vm>>
  BY DEF plan, hardware, cable, vmVars
<1>2. LinkActions(def)' = LinkActions(def) /\ PortActions(def)' = PortActions(def)
  BY <1>1
<1>3. ASSUME NEW k, k \in LinkActions(def), ~IsPublic(k), Held(k)', NEW h \in Targets(k)
      PROVE  LinkHeld(h)'
  BY <1>2, <1>3, Fixed DEF LinkHeld, IsPublic
<1>4. ASSUME NEW v \in disk \cup vm
      PROVE  v \in def.vms /\ Held(CreateVm(v))'
<2> DEFINE c == CreateVm(v)
<2>1. v \in def.vms /\ Held(c)
  BY DEF HostInv, Accounted
<2>2. \A a : a = c => Held(a)'
  BY <2>1
<2> QED
  BY <2>1, <2>2 DEF CreateVm
<1>5. ASSUME NEW p \in tap \cup plugged
      PROVE  p \in PortActions(def) /\ Held(p)'
  BY DEF HostInv, Accounted
<1>6. ASSUME NEW h \in bridge
      PROVE  BridgeBy(h)' \/ LinkHeld(h)'
<2>1. CASE BridgeBy(h)
  BY <2>1, Blamed
<2>2. CASE LinkHeld(h) /\ ~BridgeBy(h)
<3>1. PICK k \in LinkActions(def) : ~IsPublic(k) /\ Held(k) /\ h \in Targets(k)
  BY <2>2 DEF LinkHeld
<3>2. Held(k)'
  BY <2>2, <3>1
<3> QED
  BY <1>3, <3>1, <3>2
<2> QED
  BY <2>1, <2>2 DEF HostInv, Accounted
<1>7. ASSUME NEW h \in veth \cup vx \cup vw \cup tunnel
      PROVE  CableBy(h)' \/ LinkHeld(h)'
<2>1. CASE CableBy(h)
  BY <2>1, Blamed
<2>2. CASE LinkHeld(h) /\ ~CableBy(h)
<3>1. PICK k \in LinkActions(def) : ~IsPublic(k) /\ Held(k) /\ h \in Targets(k)
  BY <2>2 DEF LinkHeld
<3>2. Held(k)'
  BY <2>2, <3>1
<3> QED
  BY <1>3, <3>1, <3>2
<2> QED
  BY <2>1, <2>2 DEF HostInv, Accounted
<1>8. \A v : CreateVm(v)' = CreateVm(v)
  BY DEF CreateVm
<1> QED
  BY <1>1, <1>2, <1>4, <1>5, <1>6, <1>7, <1>8 DEF Accounted

LEMMA PhaseOfThreads ==
  ASSUME HostInv, NEW q \in threads
  PROVE  ThreadOK(q) /\ (q.late \/ q.undo = (phase = "undo")) /\ (q.undo => ~Forward)
BY DEF HostInv, ThreadOK

LEMMA GiveUpInductive ==
  ASSUME RoundInv, HostInv, NEW a \in pending, GaveUp(a), threads' \subseteq threads,
         UNCHANGED <<plan, hardware>>
  PROVE  HostInv'
<1>1. /\ pending' = pending \ {a} /\ bad' = bad \cup {a} /\ suspect' = suspect \cup {a}
      /\ UNCHANGED <<phase, done, good, applied>>
  BY DEF GaveUp
<1>2. Forward' = Forward /\ ActionsOf(def)' = ActionsOf(def)
  BY <1>1, Fixed DEF Forward
<1>3. \A b : Held(b) => Held(b)'
  BY <1>1, <1>2 DEF Held
<1>4. Accounted'
  BY <1>1, <1>3, AccountsKept
<1>5. /\ \A b : Made(b)' = Made(b)
      /\ \A q \in threads : ThreadOK(q)'
  BY <1>1, <1>2, HostsStay, PhaseOfThreads
<1>6. FlowOK'
  BY <1>1, <1>2, <1>5 DEF HostInv, FlowOK, RoundInv, InPlan
<1>7. provider' \subseteq Servers
  BY DEF HostInv, hardware
<1> QED
  BY <1>4, <1>5, <1>6, <1>7 DEF HostInv

\* An awaited answer says that the action's work is done, or undone.
LEMMA AnswerInductive ==
  ASSUME RoundInv, HostInv, NEW t \in threads, Answer(t), ~t.late
  PROVE  HostInv'
<1> DEFINE a == t.action
<1>1. /\ t.pc = "done" /\ threads' \subseteq threads /\ UNCHANGED <<plan, hardware>>
      /\ pending' = pending \ {a} /\ good' = good \cup {a}
      /\ UNCHANGED <<phase, done, bad, applied, suspect>>
  BY DEF Answer
<1>2. Forward' = Forward /\ ActionsOf(def)' = ActionsOf(def)
  BY <1>1, Fixed DEF Forward
<1>3. a \in pending /\ a \in ActionsOf(def) /\ ThreadOK(t) /\ t.undo = (phase = "undo")
  BY PhaseOfThreads DEF RoundInv, Waits, InPlan, HostInv, ThreadOK
<1>4. a.op = "CREATE_LINK" => t.left = {}
  BY <1>1, <1>3 DEF ThreadOK
<1>5. /\ \A b : Made(b)' = Made(b)
      /\ \A q \in threads : ThreadOK(q)'
  BY <1>1, <1>2, HostsStay, PhaseOfThreads
<1>6. Forward => Made(a)
<2>1. Forward => Built(t)
  BY <1>3 DEF ThreadOK
<2> QED
  BY <1>1, <1>4, <2>1 DEF Built, Made, Cabled
<1>7. FlowOK'
  BY <1>1, <1>2, <1>3, <1>5, <1>6 DEF HostInv, FlowOK
<1>8. \A b : Held(b) /\ b # a => Held(b)'
  BY <1>1, <1>2 DEF Held
<1>9. Accounted'
<2>1. CASE Forward \/ a \in suspect
<3>1. Held(a)'
  BY <1>1, <1>2, <2>1 DEF Held
<3> QED
  BY <1>1, <1>8, <3>1, AccountsKept
<2>2. CASE ~Forward /\ a \notin suspect
<3>1. phase = "undo"
  BY <1>3, <2>2 DEF HostInv, FlowOK, Forward
<3>2. Gone(t)
  BY <1>3, <2>2, <3>1 DEF ThreadOK
<3>3. /\ a.op = "CREATE_VM" => a.vm \notin vm \cup disk
      /\ a.op = "ATTACH_PORT" => a \notin tap \cup plugged
      /\ a.op = "CREATE_LINK" =>
           /\ \A h \in Targets(a) \cap bridge : BridgeBy(h)
           /\ \A h \in Targets(a) \cap (veth \cup vx \cup vw \cup tunnel) : CableBy(h)
  BY <1>1, <1>4, <3>2 DEF Gone, Past
<3>4. \A v \in disk \cup vm : CreateVm(v) # a
<4>1. \A v : CreateVm(v).op = "CREATE_VM" /\ CreateVm(v).vm = v
  BY DEF CreateVm
<4> QED
  BY <3>3, <4>1
<3>5. \A p \in PortActions(def) : p.op = "ATTACH_PORT"
  BY PlannedRounds, ActionKinds DEF RoundInv
<3>6. a \notin tap \cup plugged
  BY <3>3, <3>5 DEF HostInv, Accounted
<3>7. a \in LinkActions(def) => a.op = "CREATE_LINK"
  BY PlannedRounds, ActionKinds DEF RoundInv
<3> HIDE DEF a
<3> QED
  BY <1>1, <1>8, <3>3, <3>4, <3>6, <3>7, AccountsKept
<2> QED
  BY <2>1, <2>2
<1>10. provider' \subseteq Servers
  BY <1>1 DEF HostInv, hardware
<1> QED
  BY <1>1, <1>5, <1>7, <1>9, <1>10 DEF HostInv

LEMMA TimeOutInductive ==
  ASSUME RoundInv, HostInv, NEW t \in threads, TimeOut(t)
  PROVE  HostInv'
<1> DEFINE u == [t EXCEPT !.late = TRUE]
<1>1. /\ threads' = (threads \ {t}) \cup {u} /\ suspect' = suspect \cup {t.action}
      /\ UNCHANGED <<phase, done, pending, good, bad, applied>> /\ UNCHANGED <<plan, hardware>>
  BY DEF TimeOut
<1>2. /\ t \in Records /\ u.action = t.action /\ u.undo = t.undo /\ u.late = TRUE
      /\ u.pc = t.pc /\ u.left = t.left
  BY DEF RoundInv, Waits, Records
<1> HIDE DEF u
<1>3. Forward' = Forward /\ ActionsOf(def)' = ActionsOf(def)
  BY <1>1, Fixed DEF Forward
<1>4. \A b : Held(b) => Held(b)'
  BY <1>1, <1>3 DEF Held
<1>5. Accounted'
  BY <1>1, <1>4, AccountsKept
<1>6. /\ \A b : Made(b)' = Made(b)
      /\ \A q \in threads : ThreadOK(q)'
  BY <1>1, <1>3, HostsStay, PhaseOfThreads
<1>7. FlowOK'
  BY <1>1, <1>3, <1>6 DEF HostInv, FlowOK, ThreadOK
<1>8. \A q : q = u => ThreadOK(q)'
<2> SUFFICES ASSUME NEW q, q = u
             PROVE  ThreadOK(q)'
  OBVIOUS
<2>1. ThreadOK(t)'
  BY <1>6
<2>2. Here(q) = Here(t)
  BY <1>2 DEF Here
<2>3. UNCHANGED plan
  BY <1>1
<2>4. Built(t)' => Built(q)'
  BY <1>2, <2>2, <2>3, Fixed DEF Built
<2>5. StepsOf(q.action, q.undo)' = StepsOf(q.action, q.undo) /\ StepsOf(t.action, t.undo)' = StepsOf(t.action, t.undo)
  BY <2>3 DEF plan, StepsOf, IsPublic, Remote, Targets, ServersOf
<2> QED
  BY <1>1, <1>2, <2>1, <2>3, <2>4, <2>5, Fixed DEF ThreadOK
<1>9. provider' \subseteq Servers
  BY <1>1 DEF HostInv, hardware
<1> QED
  BY <1>1, <1>5, <1>6, <1>7, <1>8, <1>9 DEF HostInv

\* A handler begins at its first host, with nothing made or undone.
LEMMA DispatchInductive ==
  ASSUME RoundInv, HostInv, NEW a \in pending, NEW w \in Workers, Dispatch(a, w)
  PROVE  HostInv'
<1> DEFINE undo == phase = "undo"
           u == [action |-> a, undo |-> undo, late |-> FALSE, worker |-> w,
                 pc |-> FirstStep(a, undo), left |-> Targets(a)]
<1>1. threads' = threads \cup {u} /\ UNCHANGED <<plan, flow, hardware>>
  BY DEF Dispatch
<1>2. UNCHANGED <<phase, done, pending, good, bad, applied, suspect>>
  BY <1>1 DEF flow
<1>3. a \in ActionsOf(def)
  BY DEF RoundInv, InPlan
<1>4. Forward' = Forward /\ ActionsOf(def)' = ActionsOf(def)
  BY <1>1, <1>2, Fixed DEF Forward
<1>5. \A b : Held(b) => Held(b)'
  BY <1>2, <1>4 DEF Held
<1>6. Accounted'
  BY <1>1, <1>2, <1>5, AccountsKept
<1>7. /\ \A b : Made(b)' = Made(b)
      /\ \A q \in threads : ThreadOK(q)'
  BY <1>1, <1>2, <1>4, HostsStay, PhaseOfThreads
<1>8. FlowOK'
  BY <1>2, <1>4, <1>7 DEF HostInv, FlowOK
<1>9. \A q : q = u => ThreadOK(q)'
<2> SUFFICES ASSUME NEW q, q = u
             PROVE  ThreadOK(q)'
  OBVIOUS
<2> DEFINE first == FirstStep(a, undo)
<2>1. q.action = a /\ q.undo = undo /\ q.late = FALSE /\ q.left = Targets(a) /\ q.pc = first
  OBVIOUS
<2>2. undo \in BOOLEAN /\ (undo <=> phase = "undo")
  OBVIOUS
<2>3. a.op \in {"CREATE_LINK", "ATTACH_PORT", "CREATE_VM"} /\ Targets(a) # {}
  BY <1>3, ActionParts DEF RoundInv
<2> HIDE DEF u, undo
<2>4. /\ first \in StepsOf(a, undo)
      /\ first \in {"stop", "running?", "unplug", "cut", "provider", "bridge"}
      /\ first = "provider" => ~Cabled(a)
<3>1. CASE a.op = "CREATE_VM"
  BY <2>2, <3>1 DEF FirstStep, StepsOf, Cabled
<3>2. CASE a.op = "ATTACH_PORT"
  BY <2>2, <3>2 DEF FirstStep, StepsOf, Cabled
<3>3. CASE a.op = "CREATE_LINK"
  BY <2>2, <3>3 DEF FirstStep, StepsOf, Cabled
<3> QED
  BY <2>3, <3>1, <3>2, <3>3
<2> HIDE DEF first
<2>5. Built(q)'
  BY <1>1, <2>1, <2>4, Fixed DEF Built
<2>6. Gone(q)'
  BY <1>1, <2>1, <2>4, Fixed DEF Gone, Past
<2>7. StepsOf(q.action, q.undo)' = StepsOf(a, undo)
  BY <1>1, <2>1 DEF plan, StepsOf, IsPublic, Remote, Targets, ServersOf
<2> QED
  BY <1>1, <1>2, <1>3, <1>4, <2>1, <2>2, <2>3, <2>4, <2>5, <2>6, <2>7, Fixed DEF ThreadOK, Forward
<1>10. provider' \subseteq Servers
  BY <1>1 DEF HostInv, hardware
<1> QED
  BY <1>1, <1>6, <1>7, <1>8, <1>9, <1>10 DEF HostInv

\* When no action is pending, every thread left is one nobody waits for.
LEMMA RoundsInductive ==
  ASSUME RoundInv, HostInv, RoundEnds \/ UndoNext \/ UndoEnds
  PROVE  HostInv'
<1>1. /\ pending = {} /\ UNCHANGED <<suspect, threads>> /\ UNCHANGED <<plan, hardware>>
      /\ UNCHANGED <<def, server>>
  BY DEF RoundEnds, UndoNext, UndoEnds, plan
<1>2. Forward' => Forward
  BY DEF RoundEnds, UndoNext, UndoEnds, Forward
<1>3. /\ \A b : Made(b)' = Made(b)
      /\ \A q \in threads : ThreadOK(q)'
<2>1. \A q \in threads : q.late /\ ThreadOK(q) /\ (q.undo => ~Forward')
  BY <1>1, <1>2, PhaseOfThreads DEF RoundInv, Waits
<2> QED
  BY <1>1, <1>2, <2>1, HostsStay
<1>4. ActionsOf(def)' = ActionsOf(def)
  BY <1>1, Fixed
<1>5. \A b : Held(b) => Held(b)'
<2>1. CASE RoundEnds
  BY <1>1, <2>1 DEF RoundEnds, Held
<2>2. CASE UndoNext
<3>1. PICK a \in applied : pending' = {a} /\ applied' = applied \ {a}
  BY <2>2 DEF UndoNext
<3>2. ~Forward
  BY <2>2 DEF UndoNext, Forward
<3> QED
  BY <1>1, <3>1, <3>2 DEF Held
<2>3. CASE UndoEnds
<3>1. ~Forward
  BY <2>3 DEF UndoEnds, Forward
<3> QED
  BY <1>1, <2>3, <3>1 DEF UndoEnds, Held
<2> QED
  BY <2>1, <2>2, <2>3
<1>6. Accounted'
  BY <1>1, <1>5, AccountsKept
<1>7. FlowOK'
<2>1. CASE RoundEnds
<3>1. CASE phase' = "undo" /\ UNCHANGED <<done, pending>>
  BY <1>1, <1>4, <2>1, <3>1 DEF HostInv, FlowOK, RoundEnds, Forward
<3>2. CASE /\ bad = {} /\ done' = done \cup good
           /\ pending' = RoundAfter(def, done')
           /\ phase' = IF pending' = {} THEN "completed" ELSE "round"
<4>1. /\ phase = "round" /\ done \subseteq applied /\ bad' = {}
      /\ applied' = applied \cup good
      /\ \A b \in done \cup good : Made(b)
      /\ done \cup suspect \subseteq ActionsOf(def) /\ good \subseteq ActionsOf(def)
  BY <2>1 DEF RoundEnds, HostInv, FlowOK, Forward, RoundInv, InPlan
<4>2. ASSUME pending' = {}
      PROVE  done' = ActionsOf(def)
<5> DEFINE L == LinkActions(def)
           P == PortActions(def)
           V == VmActions(def)
<5>1. /\ RoundAfter(def, L) = P /\ RoundAfter(def, L \cup P) = V
      /\ ActionsOf(def) = L \cup P \cup V
  BY PlannedRounds, RoundsOfAPlan DEF RoundInv, ActionsOf
<5>2. P = {} => V = {}
  BY PlannedRounds, WaitsAreInPlan DEF RoundInv
<5>3. \/ done = {} /\ good = L
      \/ done = L /\ good = P
      \/ done = L \cup P /\ good = V
  BY <1>1, <3>2, <4>1 DEF RoundInv, RoundsAreLinksPortsVms
<5> HIDE DEF L, P, V
<5> QED
  BY <3>2, <4>2, <5>1, <5>2, <5>3
<4>3. /\ phase' \in {"round", "completed"} /\ (phase' = "completed" => pending' = {})
      /\ done' \subseteq applied' /\ done' \cup bad' \cup suspect' \subseteq ActionsOf(def)'
  BY <1>1, <1>4, <3>2, <4>1
<4>4. phase' = "completed" => done' = ActionsOf(def)'
  BY <1>4, <4>2, <4>3
<4>5. \A b \in done' \cup good' : Made(b)'
  BY <1>3, <2>1, <3>2, <4>1 DEF RoundEnds
<4> QED
  BY <4>3, <4>4, <4>5 DEF FlowOK
<3> QED
  BY <2>1, <3>1, <3>2 DEF RoundEnds
<2>2. CASE UndoNext \/ UndoEnds
  BY <1>1, <1>4, <2>2 DEF HostInv, FlowOK, UndoNext, UndoEnds, Forward
<2> QED
  BY <2>1, <2>2
<1>8. provider' \subseteq Servers
  BY <1>1 DEF HostInv, hardware
<1> QED
  BY <1>1, <1>3, <1>6, <1>7, <1>8 DEF HostInv

LEMMA HostInductive ==
  ASSUME RoundInv, HostInv, [AdapterNext]_adapterVars
  PROVE  HostInv'
\* Where nothing but the set of threads shrinks.
<1>1. ASSUME UNCHANGED <<plan, flow, hardware>>, threads' \subseteq threads
      PROVE  HostInv'
<2>1. UNCHANGED <<phase, done, pending, good, bad, applied, suspect>>
  BY <1>1 DEF flow
<2>2. Forward' = Forward /\ ActionsOf(def)' = ActionsOf(def)
  BY <1>1, <2>1, Fixed DEF Forward
<2>3. \A b : Held(b) => Held(b)'
  BY <2>1, <2>2 DEF Held
<2>4. Accounted'
  BY <1>1, <2>1, <2>3, AccountsKept
<2>5. /\ \A b : Made(b)' = Made(b)
      /\ \A q \in threads : ThreadOK(q)'
  BY <1>1, <2>1, <2>2, HostsStay, PhaseOfThreads
<2>6. FlowOK'
  BY <2>1, <2>2, <2>5 DEF HostInv, FlowOK
<2>7. provider' \subseteq Servers
  BY <1>1 DEF HostInv, hardware
<2> QED
  BY <1>1, <2>4, <2>5, <2>6, <2>7 DEF HostInv
<1>2. ASSUME NEW t \in threads, ThreadStep(t)
      PROVE  HostInv'
<2>1. CASE Makes(t) \/ Undoes(t)
  BY <2>1, MakingInductive, UndoingInductive
<2>2. CASE Refuse(t)
<3>1. CASE t.late
  BY <1>1, <2>2, <3>1 DEF Refuse
<3>2. CASE ~t.late
  BY <2>2, <3>2, GiveUpInductive DEF Refuse, RoundInv, Waits
<3> QED
  BY <3>1, <3>2
<2>3. CASE Answer(t)
<3>1. CASE t.late
  BY <1>1, <2>3, <3>1 DEF Answer
<3> QED
  BY <2>3, <3>1, AnswerInductive
<2>4. CASE Break(t)
  BY <1>1, <2>4 DEF Break
<2> QED
  BY <1>2, <2>1, <2>2, <2>3, <2>4, HandlerSteps, TimeOutInductive
<1>3. ASSUME NEW a \in pending, GiveUp(a)
      PROVE  HostInv'
  BY <1>3, GiveUpInductive DEF GiveUp
<1>4. ASSUME NEW a \in pending, NEW w \in Workers, Dispatch(a, w)
      PROVE  HostInv'
  BY <1>4, DispatchInductive
<1>5. CASE RoundEnds \/ UndoNext \/ UndoEnds
  BY <1>5, RoundsInductive
<1>6. CASE UNCHANGED adapterVars
  BY <1>1, <1>6 DEF adapterVars
<1> QED
  BY <1>2, <1>3, <1>4, <1>5, <1>6 DEF AdapterNext

LEMMA HostsAlways == AdapterSpec => [](RoundInv /\ HostInv)
<1>1. AdapterInit => HostInv
  BY DEF AdapterInit, HostInv, FlowOK, Accounted, Forward
<1>2. RoundInv /\ HostInv /\ [AdapterNext]_adapterVars => (RoundInv /\ HostInv)'
  BY RoundInductive, HostInductive
<1> QED
  BY <1>1, <1>2, RoundsBegin, PTL DEF AdapterSpec

\* Whatever threads are late, lost, repeated or refused, the hosts hold bridges,
\* cables and devices of the plan only, and no action has two awaited threads.
THEOREM HostTypes == AdapterSpec => []AdapterTypeOK
<1>1. ASSUME RoundInv, HostInv
      PROVE  AdapterTypeOK
<2>1. /\ <<def, server>> \in Submitted
      /\ pending \cup applied \cup good \subseteq ActionsOf(def)
      /\ threads \subseteq Records
      /\ \A t, u \in threads : t.action = u.action /\ ~t.late /\ ~u.late => t = u
  BY <1>1 DEF RoundInv, Planned, InPlan, Waits
<2>2. /\ phase \in {"round", "undo", "completed", "ended"}
      /\ done \cup bad \cup suspect \subseteq ActionsOf(def) /\ provider \subseteq Servers
  BY <1>1 DEF HostInv, FlowOK
<2>3. \A a \in ActionsOf(def) : Targets(a) \subseteq Servers
  BY <1>1, ActionParts DEF RoundInv
<2>4. threads \subseteq ThreadStates
<3> SUFFICES ASSUME NEW t \in threads
             PROVE  t \in ThreadStates
  OBVIOUS
<3>1. t \in Records /\ t.left \in SUBSET Servers
  BY <1>1, <2>1, <2>3 DEF HostInv, ThreadOK
<3> QED
  BY <3>1 DEF Records, ThreadStates
<2>5. LinkActions(def) \subseteq ActionsOf(def)
  BY DEF ActionsOf
<2>6. \A h : BridgeBy(h) \/ CableBy(h) \/ LinkHeld(h) => h \in Servers
  BY <2>2, <2>3, <2>5 DEF BridgeBy, CableBy, LinkHeld
<2>7. /\ bridge \cup veth \cup vx \cup vw \cup tunnel \subseteq Servers
      /\ tap \cup plugged \subseteq PortActions(def) /\ disk \cup vm \subseteq def.vms
  BY <1>1, <2>6 DEF HostInv, Accounted
<2> QED
  BY <2>1, <2>2, <2>4, <2>7 DEF AdapterTypeOK
<1> QED
  BY <1>1, HostsAlways, PTL

\* A deployment whose last round succeeded is on its hosts as planned: nothing that
\* was answered for has been taken away again, and no thread answers before the
\* whole cable is there on each host of its link.
THEOREM CompletedDeploymentsAreWired == AdapterSpec => []CompletedIsWired
<1>1. ASSUME RoundInv, HostInv
      PROVE  CompletedIsWired
<2> SUFFICES ASSUME phase = "completed"
             PROVE  /\ vm = def.vms /\ plugged = PortActions(def) /\ tap = PortActions(def)
                    /\ \A a \in LinkActions(def) : ~IsPublic(a) /\ Remote(a) =>
                         \A h \in Targets(a) : CableOn(h)
  BY DEF CompletedIsWired
<2>1. \A a \in LinkActions(def) \cup PortActions(def) \cup VmActions(def) : Made(a)
  BY <1>1 DEF HostInv, FlowOK, Forward, ActionsOf
<2>2. /\ \A a \in LinkActions(def) : a.op = "CREATE_LINK"
      /\ \A a \in PortActions(def) : a.op = "ATTACH_PORT"
  BY <1>1, PlannedRounds, ActionKinds DEF RoundInv
<2>3. vm \subseteq def.vms /\ tap \cup plugged \subseteq PortActions(def)
  BY <1>1 DEF HostInv, Accounted
<2>4. ASSUME NEW v \in def.vms
      PROVE  v \in vm
<3>1. CreateVm(v) \in VmActions(def) /\ CreateVm(v).op = "CREATE_VM" /\ CreateVm(v).vm = v
  BY DEF VmActions, CreateVm
<3> QED
  BY <2>1, <3>1 DEF Made
<2>5. \A a \in PortActions(def) : a \in tap \cap plugged
  BY <2>1, <2>2 DEF Made
<2>6. ASSUME NEW a \in LinkActions(def), ~IsPublic(a), Remote(a), NEW h \in Targets(a)
      PROVE  CableOn(h)
  BY <2>1, <2>2, <2>6 DEF Made, Cabled
<2> QED
  BY <2>3, <2>4, <2>5, <2>6
<1> QED
  BY <1>1, HostsAlways, PTL

\* After a compensation everything left on the hosts belongs to an action that
\* failed for good, or that had a thread Temporal no longer waited for: what was
\* undone in time is gone, on every host of its link.
THEOREM LeftoversAreAccountedFor == AdapterSpec => []LeftoversHaveAnAuthor
<1>1. ASSUME RoundInv, HostInv
      PROVE  LeftoversHaveAnAuthor
<2> SUFFICES ASSUME phase = "ended"
             PROVE  LET touched(ops) ==
                          UNION {Targets(a) : a \in {b \in suspect : b.op \in ops /\ ~IsPublic(b)}}
                    IN
                    /\ \A v \in disk \cup vm : CreateVm(v) \in suspect
                    /\ tap \cup plugged \subseteq suspect
                    /\ bridge \subseteq touched({"CREATE_LINK", "ATTACH_PORT"})
                    /\ veth \cup vx \cup vw \cup tunnel \subseteq touched({"CREATE_LINK"})
  BY DEF LeftoversHaveAnAuthor
<2>1. \A a : Held(a) => a \in suspect
  BY <1>1 DEF HostInv, FlowOK, Held, Forward
<2>2. (\A v \in disk \cup vm : CreateVm(v) \in suspect) /\ tap \cup plugged \subseteq suspect
  BY <1>1, <2>1 DEF HostInv, Accounted
<2>3. \A a \in LinkActions(def) : a.op = "CREATE_LINK"
  BY <1>1, PlannedRounds, ActionKinds DEF RoundInv
<2>4. \A h : LinkHeld(h) => BridgeBy(h) /\ CableBy(h)
  BY <2>1, <2>3 DEF LinkHeld, BridgeBy, CableBy
<2>5. (\A h \in bridge : BridgeBy(h)) /\ (\A h \in veth \cup vx \cup vw \cup tunnel : CableBy(h))
  BY <1>1, <2>4 DEF HostInv, Accounted
<2> QED
  BY <2>2, <2>5 DEF BridgeBy, CableBy
<1> QED
  BY <1>1, HostsAlways, PTL
=============================================================================

----------------------------- MODULE DeployPlan -----------------------------
(***************************************************************************)
(* The planner of an initial DEPLOY: which definitions it accepts, the     *)
(* actions of their plan, what each waits for, and what the adapter is     *)
(* asked to do where.                                                      *)
(*                                                                         *)
(* A definition names VMs, the public ones among them, and links with      *)
(* their endpoints.  Repeated names and endpoints, and VMs whose flavor or *)
(* image the catalog lacks, are refused before anything here is computed.  *)
(* The derived link of the public VMs has the name Public; a link that the *)
(* user gives this name is left out.                                       *)
(***************************************************************************)
EXTENDS Naturals, FiniteSets, FiniteSetsExt

CONSTANTS Vms, Links, Public, NoVm, NoLink

ASSUME PlanAssumption == Public \notin Links /\ NoVm \notin Vms /\ NoLink \notin Links \cup {Public}

Definitions ==
  UNION {[vms : SUBSET Vms, public : SUBSET Vms, links : [named -> SUBSET Vms]] :
           named \in SUBSET Links}

EndpointsOf(def) == UNION {def.links[l] : l \in DOMAIN def.links}

\* Links join two VMs of the definition at least, every VM is on a link, and
\* public VMs need a cluster with public access.
Accepted(def, publicAccess) ==
  /\ \A l \in DOMAIN def.links : Cardinality(def.links[l]) >= 2 /\ def.links[l] \subseteq def.vms
  /\ def.public \subseteq def.vms
  /\ def.vms \subseteq EndpointsOf(def)
  /\ def.public # {} => publicAccess

-----------------------------------------------------------------------------
\* Actions, by what they create: the target of each is derived from these names.
CreateLink(l) == [op |-> "CREATE_LINK", link |-> l, vm |-> NoVm]
AttachPort(l, v) == [op |-> "ATTACH_PORT", link |-> l, vm |-> v]
CreateVm(v) == [op |-> "CREATE_VM", link |-> NoLink, vm |-> v]
PlanActions ==
  {CreateLink(l) : l \in Links \cup {Public}} \cup {CreateVm(v) : v \in Vms}
    \cup {AttachPort(l, v) : l \in Links \cup {Public}, v \in Vms}

\* The links of a plan with their endpoints, the derived one included.
LinkNames(def) == DOMAIN def.links \cup (IF def.public = {} THEN {} ELSE {Public})
Endpoints(def, l) == IF l = Public THEN def.public ELSE def.links[l]

LinkActions(def) == {CreateLink(l) : l \in LinkNames(def)}
PortActions(def) ==
  UNION {{AttachPort(l, v) : v \in Endpoints(def, l)} : l \in LinkNames(def)}
VmActions(def) == {CreateVm(v) : v \in def.vms}
ActionsOf(def) == LinkActions(def) \cup PortActions(def) \cup VmActions(def)

PortsOfVm(def, v) == {p \in PortActions(def) : p.vm = v}

\* Mutant: a VM waits for its public port only.
MutAfterPublicOnly(def, a) ==
  CASE a.op = "CREATE_LINK" -> {}
    [] a.op = "ATTACH_PORT" -> {CreateLink(a.link)}
    [] a.op = "CREATE_VM"   -> {p \in PortsOfVm(def, a.vm) : p.link = Public}

\* What an action waits for: a port for its link, a VM for all its ports.
After(def, a) ==
  CASE a.op = "CREATE_LINK" -> {}
    [] a.op = "ATTACH_PORT" -> {CreateLink(a.link)}
    [] a.op = "CREATE_VM"   -> PortsOfVm(def, a.vm)

\* TopologicalSorter: a round is everything that is ready once the rounds
\* before it are done.
RoundAfter(def, done) == {a \in ActionsOf(def) \ done : After(def, a) \subseteq done}

-----------------------------------------------------------------------------
\* _build_adapter_actions: the servers an action addresses, where server is
\* the placement.  A link addresses those of all its endpoints.
ServersOf(def, server, a) ==
  IF a.op = "CREATE_LINK" THEN {server[v] : v \in Endpoints(def, a.link)} ELSE {server[a.vm]}
=============================================================================

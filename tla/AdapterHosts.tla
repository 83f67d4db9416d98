---------------------------- MODULE AdapterHosts ----------------------------
(***************************************************************************)
(* The Linux adapter carrying out a plan: the commands its handlers run on *)
(* the hosts, one by one.                                                  *)
(*                                                                         *)
(* A handler runs in a thread that nothing cancels.  When the activity's   *)
(* time is up Temporal repeats it, or gives up, while the first thread goes*)
(* on: it is late.  Commands that no property tells apart are one step; a  *)
(* display, a base image and the parameters of a VM are as the plan has    *)
(* them.  Retries are not counted.                                         *)
(***************************************************************************)
EXTENDS DeployPlan

CONSTANTS Servers,   \* numbered
          Workers,   \* adapter processes on the queue
          Submitted, \* the definitions deployed, each with its placement
          LateIn     \* those in which a thread may be late, one at a time

ASSUME HostAssumption ==
  /\ Servers \subseteq Nat /\ LateIn \subseteq Submitted
  /\ \A s \in Submitted :
       /\ s = <<s[1], s[2]>>
       /\ s[1] \in Definitions /\ Accepted(s[1], TRUE) /\ s[2] \in [s[1].vms -> Servers]

VARIABLES
  def, server, \* the definition and its placement
  phase,       \* "round", "undo", "completed" or "ended"
  done,        \* the actions of the rounds that are over
  pending,     \* the actions the workflow is waiting for
  good, bad,   \* the actions of this round that ended
  applied,     \* what _compensate will undo
  suspect,     \* actions that failed for good, either way, or were ever late
  threads,     \* the handlers that run
  bridge, provider,         \* servers with br-sl-<slice>, and with br-provider
  veth, vx, vw, tunnel,     \* the slice's cable: device, its two OVS ports, S-tag set
  tap, plugged,             \* ports with a TAP device, and with an OVS port
  disk, vm                  \* VMs with overlay and seed, and with a QEMU process

plan == <<def, server>>
flow == <<phase, done, pending, good, bad, applied, suspect>>
cable == <<veth, vx, vw, tunnel>>
vmVars == <<disk, vm>>
hardware == <<bridge, provider, cable, tap, plugged, vmVars>>
adapterVars == <<plan, flow, threads, hardware>>

Steps ==
  {"bridge", "provider", "veth?", "veth", "vx", "vw", "tunnel", "tap?", "tap", "plug",
   "running?", "disk", "taps?", "start", "wait", "stop", "erase", "unplug", "untap",
   "cut", "drop bridge", "drop veth", "done"}
ThreadStates ==
  [action : PlanActions, undo : BOOLEAN, late : BOOLEAN, worker : Workers,
   pc : Steps, left : SUBSET Servers]

AdapterTypeOK ==
  /\ <<def, server>> \in Submitted
  /\ phase \in {"round", "undo", "completed", "ended"}
  /\ done \cup pending \cup good \cup bad \cup applied \cup suspect \subseteq ActionsOf(def)
  /\ threads \subseteq ThreadStates
  \* The workflow waits for one thread of an action.
  /\ \A t, u \in threads : t.action = u.action /\ ~t.late /\ ~u.late => t = u
  /\ bridge \cup provider \cup veth \cup vx \cup vw \cup tunnel \subseteq Servers
  /\ tap \cup plugged \subseteq PortActions(def)
  /\ disk \cup vm \subseteq def.vms

AdapterInit ==
  /\ \E s \in Submitted : def = s[1] /\ server = s[2]
  /\ phase = "round" /\ pending = RoundAfter(def, {})
  /\ done = {} /\ good = {} /\ bad = {} /\ applied = {} /\ suspect = {} /\ threads = {}
  /\ bridge = {} /\ provider = {} /\ veth = {} /\ vx = {} /\ vw = {} /\ tunnel = {}
  /\ tap = {} /\ plugged = {} /\ disk = {} /\ vm = {}

-----------------------------------------------------------------------------
IsPublic(a) == a.link = Public
Targets(a) == ServersOf(def, server, a)
Remote(a) == Cardinality(Targets(a)) > 1

\* _dispatch: the creating action, undone when the key says "compensate".
FirstStep(a, undo) ==
  CASE a.op = "CREATE_VM"   -> IF undo THEN "stop" ELSE "running?"
    [] a.op = "ATTACH_PORT" -> IF undo THEN "unplug" ELSE IF IsPublic(a) THEN "provider" ELSE "bridge"
    [] a.op = "CREATE_LINK" -> IF undo THEN "cut" ELSE IF IsPublic(a) THEN "provider" ELSE "bridge"

Awaited(a) == \E t \in threads : t.action = a /\ ~t.late

\* Mutant: an action is repeated while its activity still has time.
MutDispatchTwice(a, w) ==
  /\ a \in pending
  /\ threads' = threads \cup {[action |-> a, undo |-> phase = "undo", late |-> FALSE,
       worker |-> w, pc |-> FirstStep(a, phase = "undo"), left |-> Targets(a)]}
  /\ UNCHANGED <<plan, flow, hardware>>

\* A worker takes the activity up, for the first time or again.
Dispatch(a, w) ==
  /\ a \in pending /\ ~Awaited(a)
  /\ threads' = threads \cup {[action |-> a, undo |-> phase = "undo", late |-> FALSE,
       worker |-> w, pc |-> FirstStep(a, phase = "undo"), left |-> Targets(a)]}
  /\ UNCHANGED <<plan, flow, hardware>>

GaveUp(a) ==
  /\ pending' = pending \ {a} /\ bad' = bad \cup {a} /\ suspect' = suspect \cup {a}
  /\ UNCHANGED <<phase, done, good, applied>>

\* The last attempt has failed.
GiveUp(a) ==
  /\ a \in pending /\ ~Awaited(a)
  /\ GaveUp(a)
  /\ UNCHANGED <<plan, threads, hardware>>

\* start_to_close_timeout: the thread goes on.
TimeOut(t) ==
  /\ <<def, server>> \in LateIn /\ \A u \in threads : ~u.late
  /\ threads' = (threads \ {t}) \cup {[t EXCEPT !.late = TRUE]}
  /\ suspect' = suspect \cup {t.action}
  /\ UNCHANGED <<plan, phase, done, pending, good, bad, applied, hardware>>

\* A command fails, or the process is lost.
Break(t) ==
  /\ threads' = threads \ {t}
  /\ UNCHANGED <<plan, flow, hardware>>

\* An error that is not retried; a late thread has nobody to tell.
Refuse(t) ==
  /\ threads' = threads \ {t}
  /\ IF t.late THEN UNCHANGED flow ELSE GaveUp(t.action)
  /\ UNCHANGED <<plan, hardware>>

Answer(t) ==
  /\ t.pc = "done"
  /\ threads' = threads \ {t}
  /\ IF t.late THEN UNCHANGED flow
     ELSE /\ pending' = pending \ {t.action} /\ good' = good \cup {t.action}
          /\ UNCHANGED <<phase, done, bad, applied, suspect>>
  /\ UNCHANGED <<plan, hardware>>

-----------------------------------------------------------------------------
\* Steps of the handlers.

Goto(t, next) ==
  /\ threads' = (threads \ {t}) \cup {[t EXCEPT !.pc = next]}
  /\ UNCHANGED <<plan, flow>>

\* Links are made host by host, in the order of their numbers.
Here(t) == IF t.action.op = "CREATE_LINK" THEN Min(t.left) ELSE server[t.action.vm]
GotoNextHost(t) ==
  LET left == t.left \ {Here(t)} IN
  /\ threads' = (threads \ {t}) \cup
       {[t EXCEPT !.left = left,
                  !.pc = IF left = {} THEN "done" ELSE FirstStep(t.action, t.undo)]}
  /\ UNCHANGED <<plan, flow>>

EnsureBridge(t) ==
  /\ t.pc = "bridge"
  /\ bridge' = bridge \cup {Here(t)}
  /\ \/ t.action.op = "ATTACH_PORT" /\ Goto(t, "tap?")
     \/ t.action.op = "CREATE_LINK" /\ Remote(t.action) /\ Goto(t, "provider")
     \/ t.action.op = "CREATE_LINK" /\ ~Remote(t.action) /\ GotoNextHost(t)
  /\ UNCHANGED <<provider, cable, tap, plugged, vmVars>>

EnsureProvider(t) ==
  /\ t.pc = "provider"
  /\ provider' = provider \cup {Here(t)}
  /\ \/ t.action.op = "ATTACH_PORT" /\ Goto(t, "tap?")
     \/ t.action.op = "CREATE_LINK" /\ IsPublic(t.action) /\ GotoNextHost(t)
     \/ t.action.op = "CREATE_LINK" /\ ~IsPublic(t.action) /\ Goto(t, "veth?")
  /\ UNCHANGED <<bridge, cable, tap, plugged, vmVars>>

\* _trunk_lock: one thread of a process at a time, per host.
HoldsTrunk(t, w, h) ==
  t.worker = w /\ t.pc \in {"veth", "vx", "vw", "tunnel"} /\ Here(t) = h

\* Mutant: an existing cable is taken to be complete.
MutLookForCableReturns(t) ==
  /\ t.pc = "veth?"
  /\ \A u \in threads : ~HoldsTrunk(u, t.worker, Here(t))
  /\ IF Here(t) \in veth THEN GotoNextHost(t) ELSE Goto(t, "veth")
  /\ UNCHANGED hardware

LookForCable(t) ==
  /\ t.pc = "veth?"
  /\ \A u \in threads : ~HoldsTrunk(u, t.worker, Here(t))
  /\ Goto(t, IF Here(t) \in veth THEN "vx" ELSE "veth")
  /\ UNCHANGED hardware

\* Where another process has added it meanwhile, the error is ignored.
AddCable(t) ==
  /\ t.pc = "veth"
  /\ veth' = veth \cup {Here(t)} /\ Goto(t, "vx")
  /\ UNCHANGED <<bridge, provider, vx, vw, tunnel, tap, plugged, vmVars>>

PlugSliceEnd(t) ==
  /\ t.pc = "vx" /\ Here(t) \in bridge \cap veth
  /\ vx' = vx \cup {Here(t)} /\ Goto(t, "vw")
  /\ UNCHANGED <<bridge, provider, veth, vw, tunnel, tap, plugged, vmVars>>

PlugProviderEnd(t) ==
  /\ t.pc = "vw" /\ Here(t) \in veth
  /\ vw' = vw \cup {Here(t)} /\ Goto(t, "tunnel")
  /\ UNCHANGED <<bridge, provider, veth, vx, tunnel, tap, plugged, vmVars>>

SetTunnel(t) ==
  /\ t.pc = "tunnel" /\ Here(t) \in vw
  /\ tunnel' = tunnel \cup {Here(t)} /\ GotoNextHost(t)
  /\ UNCHANGED <<bridge, provider, veth, vx, vw, tap, plugged, vmVars>>

LookForTap(t) ==
  /\ t.pc = "tap?"
  /\ Goto(t, IF t.action \in tap THEN "plug" ELSE "tap")
  /\ UNCHANGED hardware

\* Here a device that another thread has added meanwhile is an error.
AddTap(t) ==
  /\ t.pc = "tap"
  /\ \/ /\ t.action \notin tap
        /\ tap' = tap \cup {t.action} /\ Goto(t, "plug")
        /\ UNCHANGED <<bridge, provider, cable, plugged, vmVars>>
     \/ t.action \in tap /\ Refuse(t)

PlugTap(t) ==
  /\ t.pc = "plug" /\ t.action \in tap
  /\ Here(t) \in (IF IsPublic(t.action) THEN provider ELSE bridge)
  /\ plugged' = plugged \cup {t.action} /\ Goto(t, "done")
  /\ UNCHANGED <<bridge, provider, cable, tap, vmVars>>

LookForVm(t) ==
  /\ t.pc = "running?"
  /\ Goto(t, IF t.action.vm \in vm THEN "done" ELSE "disk")
  /\ UNCHANGED hardware

MakeDisk(t) ==
  /\ t.pc = "disk"
  /\ disk' = disk \cup {t.action.vm} /\ Goto(t, "taps?")
  /\ UNCHANGED <<bridge, provider, cable, tap, plugged, vm>>

\* BASE_MISSING, OVERLAY_CONFLICT and DISK_TOO_SMALL refuse a VM as TAP_MISSING does.
LookForTaps(t) ==
  /\ t.pc = "taps?"
  /\ \/ PortsOfVm(def, t.action.vm) \subseteq tap /\ Goto(t, "start") /\ UNCHANGED hardware
     \/ Refuse(t)

\* TAP_BUSY and VNC_PORT_IN_USE where a process of the VM runs already.
StartQemu(t) ==
  /\ t.pc = "start"
  /\ \/ /\ t.action.vm \in disk \ vm
        /\ vm' = vm \cup {t.action.vm} /\ Goto(t, "wait")
        /\ UNCHANGED <<bridge, provider, cable, tap, plugged, disk>>
     \/ t.action.vm \in vm /\ Refuse(t)

WaitForStart(t) ==
  /\ t.pc = "wait" /\ t.action.vm \in vm
  /\ Goto(t, "done")
  /\ UNCHANGED hardware

-----------------------------------------------------------------------------
\* delete_vm, detach_port, delete_link.

StopQemu(t) ==
  /\ t.pc = "stop"
  /\ vm' = vm \ {t.action.vm} /\ Goto(t, "erase")
  /\ UNCHANGED <<bridge, provider, cable, tap, plugged, disk>>

EraseDisk(t) ==
  /\ t.pc = "erase"
  /\ disk' = disk \ {t.action.vm} /\ Goto(t, "done")
  /\ UNCHANGED <<bridge, provider, cable, tap, plugged, vm>>

UnplugTap(t) ==
  /\ t.pc = "unplug"
  /\ plugged' = plugged \ {t.action} /\ Goto(t, "untap")
  /\ UNCHANGED <<bridge, provider, cable, tap, vmVars>>

DropTap(t) ==
  /\ t.pc = "untap"
  /\ tap' = tap \ {t.action} /\ Goto(t, "done")
  /\ UNCHANGED <<bridge, provider, cable, plugged, vmVars>>

CutTunnel(t) ==
  /\ t.pc = "cut"
  /\ vw' = vw \ {Here(t)} /\ tunnel' = tunnel \ {Here(t)} /\ Goto(t, "drop bridge")
  /\ UNCHANGED <<bridge, provider, veth, vx, tap, plugged, vmVars>>

\* The bridge that all private links of the slice share on this host, with
\* every port on it.
DropBridge(t) ==
  LET h == Here(t) IN
  /\ t.pc = "drop bridge"
  /\ bridge' = bridge \ {h} /\ vx' = vx \ {h}
  /\ plugged' = {p \in plugged : IsPublic(p) \/ server[p.vm] # h}
  /\ Goto(t, "drop veth")
  /\ UNCHANGED <<provider, veth, vw, tunnel, tap, vmVars>>

\* Mutant: only the first host of a link is cleaned.
MutDropCableFirstHost(t) ==
  /\ t.pc = "drop veth"
  /\ veth' = veth \ {Here(t)} /\ Goto(t, "done")
  /\ UNCHANGED <<bridge, provider, vx, vw, tunnel, tap, plugged, vmVars>>

DropCable(t) ==
  /\ t.pc = "drop veth"
  /\ veth' = veth \ {Here(t)} /\ GotoNextHost(t)
  /\ UNCHANGED <<bridge, provider, vx, vw, tunnel, tap, plugged, vmVars>>

ThreadStep(t) ==
  \/ EnsureBridge(t) \/ EnsureProvider(t)
  \/ LookForCable(t) \/ AddCable(t) \/ PlugSliceEnd(t) \/ PlugProviderEnd(t) \/ SetTunnel(t)
  \/ LookForTap(t) \/ AddTap(t) \/ PlugTap(t)
  \/ LookForVm(t) \/ MakeDisk(t) \/ LookForTaps(t) \/ StartQemu(t) \/ WaitForStart(t)
  \/ StopQemu(t) \/ EraseDisk(t) \/ UnplugTap(t) \/ DropTap(t)
  \/ CutTunnel(t) \/ DropBridge(t) \/ DropCable(t)
  \/ Answer(t) \/ Break(t) \/ TimeOut(t)

-----------------------------------------------------------------------------
\* The workflow.

\* All actions of the round have ended; a failure, or an error of what follows
\* (the facts, the completion), leads to _compensate.
RoundEnds ==
  /\ phase = "round" /\ pending = {}
  /\ applied' = applied \cup good /\ good' = {} /\ bad' = {}
  /\ \/ /\ bad = {} /\ done' = done \cup good
        /\ pending' = RoundAfter(def, done')
        /\ phase' = IF pending' = {} THEN "completed" ELSE "round"
     \/ phase' = "undo" /\ UNCHANGED <<done, pending>>
  /\ UNCHANGED <<plan, suspect, threads, hardware>>

Rank(a) == CASE a.op = "CREATE_LINK" -> 1 [] a.op = "ATTACH_PORT" -> 2 [] a.op = "CREATE_VM" -> 3

\* reversed(applied), one action after the other.
UndoNext ==
  /\ phase = "undo" /\ pending = {}
  /\ \E a \in applied :
       /\ \A b \in applied : Rank(b) <= Rank(a)
       /\ pending' = {a} /\ applied' = applied \ {a}
  /\ good' = {} /\ bad' = {}
  /\ UNCHANGED <<plan, phase, done, suspect, threads, hardware>>

UndoEnds ==
  /\ phase = "undo" /\ pending = {} /\ applied = {}
  /\ phase' = "ended" /\ good' = {} /\ bad' = {}
  /\ UNCHANGED <<plan, done, pending, applied, suspect, threads, hardware>>

AdapterNext ==
  \/ \E t \in threads : ThreadStep(t)
  \/ \E a \in pending : GiveUp(a) \/ \E w \in Workers : Dispatch(a, w)
  \/ RoundEnds \/ UndoNext \/ UndoEnds

AdapterSpec == AdapterInit /\ [][AdapterNext]_adapterVars

-----------------------------------------------------------------------------
\* The rounds of every plan are its links, then its ports, then its VMs.
RoundsAreLinksPortsVms ==
  phase = "round" =>
    \/ done = {} /\ pending \cup good \cup bad = LinkActions(def)
    \/ done = LinkActions(def) /\ pending \cup good \cup bad = PortActions(def)
    \/ /\ done = LinkActions(def) \cup PortActions(def)
       /\ pending \cup good \cup bad = VmActions(def)

\* The cable of the slice on a host, from its bridge to the provider's.
CableOn(h) == h \in bridge \cap provider \cap veth \cap vx \cap vw \cap tunnel

\* A deployment whose last round succeeded is on its hosts as planned, whichever
\* threads raced: every VM runs, every port is in its bridge, and a link between
\* hosts has the whole cable on each of them.
CompletedIsWired ==
  phase = "completed" =>
    /\ vm = def.vms /\ plugged = PortActions(def) /\ tap = PortActions(def)
    /\ \A a \in LinkActions(def) : ~IsPublic(a) /\ Remote(a) =>
         \A h \in Targets(a) : CableOn(h)

\* What is left on the hosts after a compensation comes from an action that
\* failed for good, or that had a thread Temporal no longer waited for.
LeftoversHaveAnAuthor ==
  LET touched(ops) ==
        UNION {Targets(a) : a \in {b \in suspect : b.op \in ops /\ ~IsPublic(b)}}
  IN
  phase = "ended" =>
    /\ \A v \in disk \cup vm : CreateVm(v) \in suspect
    /\ tap \cup plugged \subseteq suspect
    /\ bridge \subseteq touched({"CREATE_LINK", "ATTACH_PORT"})
    /\ veth \cup vx \cup vw \cup tunnel \subseteq touched({"CREATE_LINK"})
=============================================================================

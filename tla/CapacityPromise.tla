-------------------------- MODULE CapacityPromise --------------------------
(***************************************************************************)
(* What placement promises, with nothing of how: a deployment takes its    *)
(* whole placement in one step, where every server has room for its share, *)
(* and gives the whole of it back once.                                    *)
(***************************************************************************)
EXTENDS Integers

CONSTANTS Deployments, Servers, Resources, Total,
          Placements,          \* where the nodes of a deployment may go
          Share(_, _, _, _)    \* of deployment, placement, server, resource

VARIABLES reserva, host, reserved
promiseVars == <<reserva, host, reserved>>

PromiseInit ==
  /\ reserva = [d \in Deployments |-> "none"]
  /\ host \in [Deployments -> Placements]
  /\ reserved = [s \in Servers |-> [r \in Resources |-> 0]]

Take(d, place) ==
  /\ reserva[d] = "none"
  /\ reserva' = [reserva EXCEPT ![d] = "RESERVED"]
  /\ host' = [host EXCEPT ![d] = place]
  /\ reserved' = [s \in Servers |-> [r \in Resources |->
                    reserved[s][r] + Share(d, place, s, r)]]
  /\ \A s \in Servers, r \in Resources :
       Share(d, place, s, r) > 0 => reserved'[s][r] <= Total[s][r]

GiveBack(d) ==
  /\ reserva[d] = "RESERVED"
  /\ reserva' = [reserva EXCEPT ![d] = "RELEASED"]
  /\ reserved' = [s \in Servers |-> [r \in Resources |->
                    reserved[s][r] - Share(d, host[d], s, r)]]
  /\ UNCHANGED host

PromiseNext ==
  \E d \in Deployments : GiveBack(d) \/ \E place \in Placements : Take(d, place)

PromiseSpec == PromiseInit /\ [][PromiseNext]_promiseVars
=============================================================================

------------------------ MODULE SliceRegistryProofs ------------------------
(***************************************************************************)
(* Proofs, for every value of the constants, of what MCSliceRegistry       *)
(* checks on two slices: the registry's invariants, the finality of its    *)
(* outcomes and the contract of DeployLease.                               *)
(***************************************************************************)
EXTENDS SliceRegistry, TLAPS

USE DEF SliceStates, VersionStates, Outcomes, Estados, Decisions, Approvals,
        NodeStates, LinkStates, ReservaStates

\* The recalculated state of a slice never is UPDATING, and is RUNNING or
\* STOPPED exactly when the slice has an active version.
LEMMA RecalculatedFacts ==
  ASSUME NEW s \in Slices, NEW nd, NEW av
  PROVE  /\ RecalculatedState(s, nd, av) \in {"RUNNING", "STOPPED", "FAILED", "DRAFT"}
         /\ RecalculatedState(s, nd, av) \in {"RUNNING", "STOPPED"} <=> av # NoVersion
  BY DEF RecalculatedState

\* The registry's variables keep their types (schemas slices.* of DB/init.sql).
LEMMA TypeInductive ==
  ASSUME TypeOK, [RegNext]_regVars
  PROVE  TypeOK'
<1> USE RegistryAssumption
<1>1. ASSUME NEW s \in Slices, NEW v \in Versions, CreateSlice(s, v) PROVE TypeOK'
  BY <1>1 DEF TypeOK, CreateSlice
<1>2. ASSUME NEW v \in Versions, CreateVersion(v) PROVE TypeOK'
  BY <1>2 DEF TypeOK, CreateVersion
<1>3. ASSUME NEW v \in Versions, DeleteVersion(v) PROVE TypeOK'
  BY <1>3 DEF TypeOK, DeleteVersion
<1>4. ASSUME NEW d \in Deployments, NEW v \in Versions, CreateRejectedDeployment(d, v)
      PROVE TypeOK'
  BY <1>4 DEF TypeOK, CreateRejectedDeployment
<1>5. ASSUME NEW d \in Deployments, NEW v \in Versions, CreatePendingDeployment(d, v)
      PROVE TypeOK'
  BY <1>5 DEF TypeOK, CreatePendingDeployment
<1>6. ASSUME NEW d \in Deployments, NEW decision \in Decisions, DecideApproval(d, decision)
      PROVE TypeOK'
  BY <1>6 DEF TypeOK, DecideApproval
<1>7. ASSUME NEW d \in Deployments, StartDeployment(d) PROVE TypeOK'
  BY <1>7 DEF TypeOK, StartDeployment, StartAccepted
<1>8. ASSUME NEW d \in Deployments, CreateInventory(d) PROVE TypeOK'
  BY <1>8 DEF TypeOK, CreateInventory
<1>9. ASSUME NEW d \in Deployments, ReservePlacement(d) PROVE TypeOK'
  BY <1>9 DEF TypeOK, ReservePlacement
<1>10. ASSUME NEW d \in Deployments, RollbackPlacement(d) PROVE TypeOK'
  BY <1>10 DEF TypeOK, RollbackPlacement
<1>11. ASSUME NEW d \in Deployments, NEW good, NEW bad, RecordRoundFacts(d, good, bad)
       PROVE TypeOK'
  BY <1>11 DEF TypeOK, RecordRoundFacts
<1>12. ASSUME NEW d \in Deployments, FinishCompleted(d) PROVE TypeOK'
  BY <1>12, RecalculatedFacts DEF TypeOK, FinishCompleted, Active
<1>13. ASSUME NEW d \in Deployments, NEW outcome \in Outcomes, FinishUndone(d, outcome)
       PROVE TypeOK'
  BY <1>13, RecalculatedFacts DEF TypeOK, FinishUndone, Active
<1>14. ASSUME NEW d \in Deployments, FinishFailed(d) PROVE TypeOK'
  BY <1>14 DEF TypeOK, FinishFailed, Active
<1>15. CASE UNCHANGED regVars
  BY <1>15 DEF TypeOK, regVars
<1> QED
  BY <1>1, <1>2, <1>3, <1>4, <1>5, <1>6, <1>7, <1>8, <1>9, <1>10, <1>11, <1>12, <1>13,
     <1>14, <1>15
  DEF RegNext, UserCall, InternalCall, FinishDeployment, FinishRepeated

-----------------------------------------------------------------------------
\* Approvals: what is not requested has neither approval nor reservation, and
\* only an approved deployment is in progress or holds a reservation.
ApprovedBeforeStart ==
  \A d \in Deployments :
    /\ estado[d] = "none" => approval[d] = "none"
    /\ estado[d] = "IN_PROGRESS" => approval[d] = "APPROVED"
    /\ reserva[d] # "none" => approval[d] = "APPROVED"

LEMMA ApprovalInductive ==
  ASSUME TypeOK, ApprovedBeforeStart, [RegNext]_regVars
  PROVE  ApprovedBeforeStart'
<1> USE RegistryAssumption
<1>1. ASSUME NEW s \in Slices, NEW v \in Versions,
             CreateSlice(s, v) \/ CreateVersion(v) \/ DeleteVersion(v)
      PROVE  ApprovedBeforeStart'
  BY <1>1 DEF ApprovedBeforeStart, CreateSlice, CreateVersion, DeleteVersion
<1>2. ASSUME NEW d \in Deployments, NEW v \in Versions, CreateRejectedDeployment(d, v)
      PROVE  ApprovedBeforeStart'
  BY <1>2 DEF TypeOK, ApprovedBeforeStart, CreateRejectedDeployment, Exists
<1>3. ASSUME NEW d \in Deployments, NEW v \in Versions, CreatePendingDeployment(d, v)
      PROVE  ApprovedBeforeStart'
  BY <1>3 DEF TypeOK, ApprovedBeforeStart, CreatePendingDeployment, Exists
<1>4. ASSUME NEW d \in Deployments, NEW decision \in Decisions, DecideApproval(d, decision)
      PROVE  ApprovedBeforeStart'
  BY <1>4 DEF TypeOK, ApprovedBeforeStart, DecideApproval
<1>5. ASSUME NEW d \in Deployments, StartDeployment(d) PROVE ApprovedBeforeStart'
  BY <1>5 DEF TypeOK, ApprovedBeforeStart, StartDeployment, StartAccepted
<1>6. ASSUME NEW d \in Deployments, ReservePlacement(d) PROVE ApprovedBeforeStart'
  BY <1>6 DEF TypeOK, ApprovedBeforeStart, ReservePlacement, ReserveAccepted
<1>7. ASSUME NEW d \in Deployments, RollbackPlacement(d) PROVE ApprovedBeforeStart'
  BY <1>7 DEF TypeOK, ApprovedBeforeStart, RollbackPlacement
<1>8. ASSUME NEW d \in Deployments, NEW good, NEW bad,
             CreateInventory(d) \/ RecordRoundFacts(d, good, bad)
      PROVE  ApprovedBeforeStart'
  BY <1>8 DEF ApprovedBeforeStart, CreateInventory, RecordRoundFacts
<1>9. ASSUME NEW d \in Deployments, FinishCompleted(d) \/ FinishFailed(d)
      PROVE  ApprovedBeforeStart'
  BY <1>9 DEF TypeOK, ApprovedBeforeStart, FinishCompleted, FinishFailed, Active
<1>10. ASSUME NEW d \in Deployments, NEW outcome \in Outcomes, FinishUndone(d, outcome)
       PROVE  ApprovedBeforeStart'
  BY <1>10 DEF TypeOK, ApprovedBeforeStart, FinishUndone, Active
<1>11. CASE UNCHANGED regVars
  BY <1>11 DEF ApprovedBeforeStart, regVars
<1> QED
  BY <1>1, <1>2, <1>3, <1>4, <1>5, <1>6, <1>7, <1>8, <1>9, <1>10, <1>11
  DEF RegNext, UserCall, InternalCall, FinishDeployment, FinishRepeated

-----------------------------------------------------------------------------
\* The three invariants about slices, versions and active deployments are
\* inductive only together: an UPDATING slice has no active version, so the
\* end of its deployment cannot leave it RUNNING, and the version of a running
\* deployment is locked, so nothing else can make it the ACTIVE one.
CoreInv == TypeOK /\ UpdatingIffOneActive /\ VersionLockedWhileActive /\ ActiveVersionIsDeployed

coreVars == <<sliceState, activeVersion, versionState, estado, target>>

LEMMA CoreUnchanged ==
  ASSUME CoreInv, TypeOK', UNCHANGED coreVars
  PROVE  CoreInv'
  BY DEF CoreInv, coreVars, UpdatingIffOneActive, VersionLockedWhileActive,
         ActiveVersionIsDeployed, ActiveOn, DeploymentsOf, Active, Exists

LEMMA ActiveOnFacts ==
  ASSUME TypeOK, NEW s \in Slices
  PROVE  ActiveOn(s) = {d \in Deployments : Active(d) /\ SliceOf[target[d]] = s}
  BY DEF TypeOK, ActiveOn, DeploymentsOf, Active, Exists

\* What holds of a deployment that is about to be finished.
LEMMA AboutToFinish ==
  ASSUME CoreInv, NEW d \in Deployments, Active(d)
  PROVE  /\ target[d] \in Versions
         /\ SliceOf[target[d]] \in Slices
         /\ ActiveOn(SliceOf[target[d]]) = {d}
         /\ sliceState[SliceOf[target[d]]] = "UPDATING"
         /\ activeVersion[SliceOf[target[d]]] = NoVersion
         /\ versionState[target[d]] \in {"APPROVAL_PENDING", "DEPLOYING"}
         /\ \A e \in Deployments : Active(e) /\ target[e] = target[d] => e = d
         /\ \A w \in Versions : SliceOf[w] = SliceOf[target[d]] => versionState[w] # "ACTIVE"
<1> USE RegistryAssumption
<1> DEFINE v == target[d]
           s == SliceOf[v]
<1>1. v \in Versions /\ s \in Slices
  BY DEF CoreInv, TypeOK, Active
<1>2. \A e \in Deployments : e \in ActiveOn(s) <=> Active(e) /\ SliceOf[target[e]] = s
  BY <1>1, ActiveOnFacts DEF CoreInv
<1>3. ActiveOn(s) = {d} /\ sliceState[s] = "UPDATING"
  BY <1>1, <1>2 DEF CoreInv, UpdatingIffOneActive, ActiveOn
<1>4. activeVersion[s] = NoVersion
  BY <1>1, <1>3 DEF CoreInv, ActiveVersionIsDeployed
<1>5. versionState[v] \in {"APPROVAL_PENDING", "DEPLOYING"}
  BY <1>1 DEF CoreInv, VersionLockedWhileActive
<1>6. \A e \in Deployments : Active(e) /\ target[e] = v => e = d
  BY <1>2, <1>3
<1>7. \A w \in Versions : SliceOf[w] = s => versionState[w] # "ACTIVE"
  BY <1>1, <1>4 DEF CoreInv, ActiveVersionIsDeployed
<1> QED
  BY <1>1, <1>3, <1>4, <1>5, <1>6, <1>7

\* The invariants are preserved by the end of a deployment, whatever the slice's
\* new state, as long as it agrees with the new active version.
LEMMA FinishPreserves ==
  ASSUME CoreInv, TypeOK', NEW d \in Deployments, Active(d), NEW av, NEW st,
         target' = target,
         \E outcome \in Outcomes : /\ estado' = [estado EXCEPT ![d] = outcome]
                                   /\ av # NoVersion => outcome = "COMPLETED",
         activeVersion' = [activeVersion EXCEPT ![SliceOf[target[d]]] = av],
         sliceState' = [sliceState EXCEPT ![SliceOf[target[d]]] = st],
         st # "UPDATING", st \in {"RUNNING", "STOPPED"} <=> av # NoVersion,
         av \in {NoVersion, target[d]},
         versionState'[target[d]] \notin {"APPROVAL_PENDING", "DEPLOYING"},
         versionState'[target[d]] = "ACTIVE" <=> av = target[d],
         \A w \in Versions : w # target[d] => versionState'[w] = versionState[w]
  PROVE  CoreInv'
<1> USE RegistryAssumption
<1> DEFINE v == target[d]
           s == SliceOf[v]
<1>0. PICK outcome \in Outcomes : /\ estado' = [estado EXCEPT ![d] = outcome]
                                  /\ av # NoVersion => outcome = "COMPLETED"
  OBVIOUS
<1>1. /\ v \in Versions /\ s \in Slices /\ v # NoVersion
      /\ ActiveOn(s) = {d} /\ sliceState[s] = "UPDATING" /\ activeVersion[s] = NoVersion
      /\ \A e \in Deployments : Active(e) /\ target[e] = v => e = d
      /\ \A w \in Versions : SliceOf[w] = s => versionState[w] # "ACTIVE"
  BY AboutToFinish
<1>2. /\ estado \in [Deployments -> Estados] /\ activeVersion \in [Slices -> Versions \cup {NoVersion}]
      /\ sliceState \in [Slices -> SliceStates] /\ target \in [Deployments -> Versions \cup {NoVersion}]
  BY DEF CoreInv, TypeOK
<1>3. ~Active(d)' /\ \A e \in Deployments : e # d => estado'[e] = estado[e]
  BY <1>0, <1>2 DEF Active
<1>4. ActiveOn(s)' = {} /\ \A t \in Slices : t # s => ActiveOn(t)' = ActiveOn(t)
  BY <1>1, <1>2, <1>3 DEF ActiveOn, DeploymentsOf, Active, Exists
<1>5. UpdatingIffOneActive'
  BY <1>1, <1>2, <1>4 DEF CoreInv, UpdatingIffOneActive
<1>6. VersionLockedWhileActive'
  <2> SUFFICES ASSUME NEW w \in Versions
               PROVE  versionState'[w] \in {"APPROVAL_PENDING", "DEPLOYING"}
                        <=> \E e \in Deployments : Active(e)' /\ target'[e] = w
    BY DEF VersionLockedWhileActive
  <2>1. CASE w = v
    BY <2>1, <1>1, <1>3 DEF Active
  <2>2. CASE w # v
    BY <2>2, <1>1, <1>3 DEF CoreInv, VersionLockedWhileActive, Active
  <2> QED
    BY <2>1, <2>2
<1>7. ActiveVersionIsDeployed'
  <2>1. ASSUME NEW t \in Slices, activeVersion'[t] # NoVersion
        PROVE  /\ SliceOf[activeVersion'[t]] = t
               /\ versionState'[activeVersion'[t]] = "ACTIVE"
               /\ \E e \in Deployments : estado'[e] = "COMPLETED" /\ target'[e] = activeVersion'[t]
    <3>1. CASE t = s
      BY <3>1, <2>1, <1>0, <1>1, <1>2
    <3>2. CASE t # s
      <4>1. activeVersion'[t] = activeVersion[t] /\ activeVersion[t] \in Versions
        BY <3>2, <2>1, <1>1, <1>2
      <4>2. /\ SliceOf[activeVersion[t]] = t
            /\ versionState[activeVersion[t]] = "ACTIVE"
            /\ \E e \in Deployments : estado[e] = "COMPLETED" /\ target[e] = activeVersion[t]
        BY <4>1 DEF CoreInv, ActiveVersionIsDeployed
      <4>3. PICK e \in Deployments : estado[e] = "COMPLETED" /\ target[e] = activeVersion[t]
        BY <4>2
      <4>4. estado'[e] = "COMPLETED"
        BY <4>3, <1>3 DEF Active
      <4> QED
        BY <4>1, <4>2, <4>3, <4>4, <3>2
    <3> QED
      BY <3>1, <3>2
  <2>2. \A t \in Slices : sliceState'[t] \in {"RUNNING", "STOPPED"} <=> activeVersion'[t] # NoVersion
    BY <1>1, <1>2 DEF CoreInv, ActiveVersionIsDeployed
  <2>3. \A w \in Versions : versionState'[w] = "ACTIVE" => activeVersion'[SliceOf[w]] = w
    BY <1>1, <1>2 DEF CoreInv, ActiveVersionIsDeployed
  <2> QED
    BY <2>1, <2>2, <2>3 DEF ActiveVersionIsDeployed
<1> QED
  BY <1>5, <1>6, <1>7 DEF CoreInv

LEMMA CoreInductive ==
  ASSUME CoreInv, [RegNext]_regVars
  PROVE  CoreInv'
<1> USE RegistryAssumption
<1> USE DEF CoreInv
<1>0. TypeOK'
  BY TypeInductive
<1>1. ASSUME NEW s \in Slices, NEW v \in Versions, CreateSlice(s, v) PROVE CoreInv'
  <2>1. activeVersion[s] = NoVersion /\ ActiveOn(s) = {}
    BY <1>1 DEF CreateSlice, UpdatingIffOneActive, ActiveVersionIsDeployed
  <2>2. \A t \in Slices : ActiveOn(t)' = ActiveOn(t)
    BY <1>1 DEF CreateSlice, ActiveOn, DeploymentsOf, Active, Exists
  <2>3. UpdatingIffOneActive'
    BY <1>1, <2>1, <2>2 DEF CreateSlice, UpdatingIffOneActive, TypeOK
  <2>4. VersionLockedWhileActive'
    BY <1>1 DEF CreateSlice, VersionLockedWhileActive, Active, TypeOK
  <2>5. ActiveVersionIsDeployed'
    BY <1>1, <2>1 DEF CreateSlice, ActiveVersionIsDeployed, TypeOK
  <2> QED
    BY <1>0, <2>3, <2>4, <2>5
<1>2. ASSUME NEW v \in Versions, CreateVersion(v) \/ DeleteVersion(v) PROVE CoreInv'
  <2>1. UpdatingIffOneActive'
    BY <1>2 DEF CreateVersion, DeleteVersion, UpdatingIffOneActive, ActiveOn,
                DeploymentsOf, Active, Exists
  <2>2. VersionLockedWhileActive'
    BY <1>2 DEF CreateVersion, DeleteVersion, VersionLockedWhileActive, Active, TypeOK
  <2>3. ActiveVersionIsDeployed'
    BY <1>2 DEF CreateVersion, DeleteVersion, ActiveVersionIsDeployed, TypeOK
  <2> QED
    BY <1>0, <2>1, <2>2, <2>3
<1>3. ASSUME NEW d \in Deployments, NEW v \in Versions, CreateRejectedDeployment(d, v)
      PROVE  CoreInv'
  <2>1. \A e \in Deployments : Active(e)' = Active(e) /\ (Active(e) => target'[e] = target[e])
    BY <1>3 DEF CreateRejectedDeployment, Active, Exists, TypeOK
  <2>2. \A t \in Slices : ActiveOn(t)' = ActiveOn(t)
    BY <2>1 DEF ActiveOn, DeploymentsOf, Exists, Active
  <2>3. UpdatingIffOneActive'
    BY <1>3, <2>2 DEF CreateRejectedDeployment, UpdatingIffOneActive
  <2>4. VersionLockedWhileActive'
    BY <1>3, <2>1 DEF CreateRejectedDeployment, VersionLockedWhileActive
  <2>5. ActiveVersionIsDeployed'
    BY <1>3 DEF CreateRejectedDeployment, ActiveVersionIsDeployed, Exists, TypeOK
  <2> QED
    BY <1>0, <2>3, <2>4, <2>5
<1>4. ASSUME NEW d \in Deployments, NEW v \in Versions, CreatePendingDeployment(d, v)
      PROVE  CoreInv'
  <2> DEFINE s == SliceOf[v]
  <2>1. /\ s \in Slices /\ ActiveOn(s) = {} /\ versionState[v] = "DRAFT"
        /\ sliceState[s] = "DRAFT" /\ activeVersion[s] = NoVersion /\ estado[d] = "none"
    BY <1>4 DEF CreatePendingDeployment, MayDeploy, Exists
  <2>2. /\ Active(d)' /\ target'[d] = v /\ ~Active(d)
        /\ \A e \in Deployments : e # d => Active(e)' = Active(e) /\ target'[e] = target[e]
    BY <1>4, <2>1 DEF CreatePendingDeployment, Active, TypeOK
  <2>3. ActiveOn(s)' = {d} /\ \A t \in Slices : t # s => ActiveOn(t)' = ActiveOn(t)
    BY <2>1, <2>2 DEF ActiveOn, DeploymentsOf, Exists, Active
  <2>4. UpdatingIffOneActive'
    <3> SUFFICES ASSUME NEW t \in Slices
                 PROVE  /\ sliceState'[t] = "UPDATING" <=> ActiveOn(t)' # {}
                        /\ \A e, f \in ActiveOn(t)' : e = f
      BY DEF UpdatingIffOneActive
    <3>1. CASE t = s
      BY <3>1, <1>4, <2>1, <2>3 DEF CreatePendingDeployment, TypeOK
    <3>2. CASE t # s
      BY <3>2, <1>4, <2>3 DEF CreatePendingDeployment, UpdatingIffOneActive, TypeOK
    <3> QED
      BY <3>1, <3>2
  <2>5. VersionLockedWhileActive'
    BY <1>4, <2>2 DEF CreatePendingDeployment, VersionLockedWhileActive, TypeOK
  <2>6. ActiveVersionIsDeployed'
    BY <1>4, <2>1 DEF CreatePendingDeployment, ActiveVersionIsDeployed, TypeOK
  <2> QED
    BY <1>0, <2>4, <2>5, <2>6
<1>5. ASSUME NEW d \in Deployments, StartDeployment(d) PROVE CoreInv'
  <2>1. /\ Active(d) /\ Active(d)' /\ target[d] \in Versions
        /\ \A e \in Deployments : Active(e)' = Active(e)
    BY <1>5 DEF StartDeployment, StartAccepted, Active, TypeOK
  <2>2. \A t \in Slices : ActiveOn(t)' = ActiveOn(t)
    BY <1>5, <2>1 DEF StartDeployment, ActiveOn, DeploymentsOf, Exists, Active
  <2>3. UpdatingIffOneActive'
    BY <1>5, <2>2 DEF StartDeployment, UpdatingIffOneActive
  <2>4. VersionLockedWhileActive'
    BY <1>5, <2>1 DEF StartDeployment, VersionLockedWhileActive, TypeOK
  <2>5. ActiveVersionIsDeployed'
    BY <1>5, <2>1 DEF StartDeployment, StartAccepted, ActiveVersionIsDeployed,
                      VersionLockedWhileActive, TypeOK
  <2> QED
    BY <1>0, <2>3, <2>4, <2>5
<1>6. ASSUME NEW d \in Deployments, FinishCompleted(d) PROVE CoreInv'
  <2> DEFINE v == target[d]
             s == SliceOf[v]
             st == RecalculatedState(s, nodes, v)
  <2>1. Active(d) /\ target' = target
    BY <1>6 DEF FinishCompleted
  <2>2. /\ v \in Versions /\ s \in Slices
        /\ \A w \in Versions : SliceOf[w] = s => versionState[w] # "ACTIVE"
    BY <2>1, AboutToFinish
  <2>3. st \in {"RUNNING", "STOPPED"} /\ v # NoVersion
    BY <2>2, RecalculatedFacts
  <2>4. \E outcome \in Outcomes : /\ estado' = [estado EXCEPT ![d] = outcome]
                                  /\ v # NoVersion => outcome = "COMPLETED"
    BY <1>6 DEF FinishCompleted
  <2>5. /\ activeVersion' = [activeVersion EXCEPT ![s] = v]
        /\ sliceState' = [sliceState EXCEPT ![s] = st]
    BY <1>6 DEF FinishCompleted
  <2>6. /\ versionState'[v] = "ACTIVE"
        /\ \A w \in Versions : w # v => versionState'[w] = versionState[w]
    BY <1>6, <2>2 DEF FinishCompleted
  <2> HIDE DEF st
  <2> QED
    BY <1>0, <2>1, <2>2, <2>3, <2>4, <2>5, <2>6, FinishPreserves
<1>7. ASSUME NEW d \in Deployments, NEW outcome \in Outcomes, FinishUndone(d, outcome)
      PROVE  CoreInv'
  <2> DEFINE v == target[d]
             s == SliceOf[v]
             st == RecalculatedState(s, nodes', NoVersion)
  <2>1. Active(d) /\ target' = target
    BY <1>7 DEF FinishUndone
  <2>2. v \in Versions /\ s \in Slices /\ activeVersion[s] = NoVersion
    BY <2>1, AboutToFinish
  <2>3. st \notin {"RUNNING", "STOPPED", "UPDATING"} /\ v # NoVersion
    BY <2>2, RecalculatedFacts
  <2>4. \E result \in Outcomes : /\ estado' = [estado EXCEPT ![d] = result]
                                 /\ NoVersion # NoVersion => result = "COMPLETED"
    BY <1>7 DEF FinishUndone
  <2>5. /\ activeVersion' = [activeVersion EXCEPT ![s] = NoVersion]
        /\ sliceState' = [sliceState EXCEPT ![s] = st]
    BY <1>7, <2>2 DEF FinishUndone, TypeOK
  <2>6. /\ versionState'[v] = "DRAFT"
        /\ \A w \in Versions : w # v => versionState'[w] = versionState[w]
    BY <1>7, <2>2 DEF FinishUndone, TypeOK
  <2> HIDE DEF st
  <2> QED
    BY <1>0, <2>1, <2>2, <2>3, <2>4, <2>5, <2>6, FinishPreserves
<1>8. ASSUME NEW d \in Deployments, FinishFailed(d) PROVE CoreInv'
  <2> DEFINE v == target[d]
             s == SliceOf[v]
  <2>1. Active(d) /\ target' = target
    BY <1>8 DEF FinishFailed
  <2>2. v \in Versions /\ s \in Slices /\ v # NoVersion
    BY <2>1, AboutToFinish
  <2>3. \E result \in Outcomes : /\ estado' = [estado EXCEPT ![d] = result]
                                 /\ NoVersion # NoVersion => result = "COMPLETED"
    BY <1>8 DEF FinishFailed
  <2>4. /\ activeVersion' = [activeVersion EXCEPT ![s] = NoVersion]
        /\ sliceState' = [sliceState EXCEPT ![s] = "FAILED"]
    BY <1>8 DEF FinishFailed
  <2>5. /\ versionState'[v] = "INCONSISTENT"
        /\ \A w \in Versions : w # v => versionState'[w] = versionState[w]
    BY <1>8, <2>2 DEF FinishFailed, TypeOK
  <2> QED
    BY <1>0, <2>1, <2>2, <2>3, <2>4, <2>5, FinishPreserves
<1>9. CASE UNCHANGED coreVars
  BY <1>0, <1>9, CoreUnchanged
<1> QED
  BY <1>1, <1>2, <1>3, <1>4, <1>5, <1>6, <1>7, <1>8, <1>9
  DEF RegNext, UserCall, InternalCall, FinishDeployment, FinishRepeated, coreVars, regVars,
      DecideApproval, CreateInventory, ReservePlacement, RollbackPlacement, RecordRoundFacts

-----------------------------------------------------------------------------
\* The inductive invariant of the registry.
RegInv == CoreInv /\ ApprovedBeforeStart

LEMMA InitEstablishes == RegInit => RegInv
  BY RegistryAssumption
  DEF RegInit, RegInv, CoreInv, TypeOK, UpdatingIffOneActive, VersionLockedWhileActive,
      ActiveVersionIsDeployed, ApprovedBeforeStart, ActiveOn, DeploymentsOf, Active, Exists

THEOREM RegistryInvariant == RegSpec => []RegInv
<1>1. RegInit => RegInv
  BY InitEstablishes
<1>2. RegInv /\ [RegNext]_regVars => RegInv'
  BY CoreInductive, ApprovalInductive DEF RegInv, CoreInv
<1> QED
  BY <1>1, <1>2, PTL DEF RegSpec

\* Whatever calls reach the Slice Manager, its rows keep their types.
THEOREM RegistryTypes == RegSpec => []TypeOK
  BY RegistryInvariant, PTL DEF RegInv, CoreInv

\* slice.estado and deployment.estado agree: no slice ever has two active
\* deployments, none is UPDATING without one.
THEOREM OneActiveDeployment == RegSpec => []UpdatingIffOneActive
  BY RegistryInvariant, PTL DEF RegInv, CoreInv

\* A version is locked exactly as long as an active deployment targets it.
THEOREM VersionLock == RegSpec => []VersionLockedWhileActive
  BY RegistryInvariant, PTL DEF RegInv, CoreInv

\* version_activa_id always names the one ACTIVE version, deployed by a
\* COMPLETED deployment.
THEOREM ActiveVersion == RegSpec => []ActiveVersionIsDeployed
  BY RegistryInvariant, PTL DEF RegInv, CoreInv

\* No reservation without an approval.
THEOREM ReservationNeedsApproval == RegSpec => []ReservedOnlyIfApproved
<1>1. RegInv => ReservedOnlyIfApproved
  BY DEF RegInv, ApprovedBeforeStart, ReservedOnlyIfApproved
<1> QED
  BY <1>1, RegistryInvariant, PTL

-----------------------------------------------------------------------------
LEMMA StepIsFinal ==
  ASSUME RegInv, [RegNext]_regVars
  PROVE  FinalStep
<1> USE DEF RegInv, CoreInv
<1>1. ASSUME NEW s \in Slices, NEW v \in Versions,
             CreateSlice(s, v) \/ CreateVersion(v) \/ DeleteVersion(v)
      PROVE  FinalStep
  BY <1>1 DEF FinalStep, CreateSlice, CreateVersion, DeleteVersion
<1>2. ASSUME NEW d \in Deployments, NEW v \in Versions,
             CreateRejectedDeployment(d, v) \/ CreatePendingDeployment(d, v)
      PROVE  FinalStep
  BY <1>2 DEF FinalStep, CreateRejectedDeployment, CreatePendingDeployment, Exists, TypeOK,
              ApprovedBeforeStart
<1>3. ASSUME NEW d \in Deployments, NEW decision \in Decisions, DecideApproval(d, decision)
      PROVE  FinalStep
  BY <1>3 DEF FinalStep, DecideApproval, TypeOK
<1>4. ASSUME NEW d \in Deployments, StartDeployment(d) PROVE FinalStep
  BY <1>4 DEF FinalStep, StartDeployment, StartAccepted, TypeOK
<1>5. ASSUME NEW d \in Deployments, ReservePlacement(d) \/ RollbackPlacement(d)
      PROVE  FinalStep
  BY <1>5 DEF FinalStep, ReservePlacement, ReserveAccepted, RollbackPlacement, TypeOK
<1>6. ASSUME NEW d \in Deployments, NEW good, NEW bad,
             CreateInventory(d) \/ RecordRoundFacts(d, good, bad)
      PROVE  FinalStep
  BY <1>6 DEF FinalStep, CreateInventory, RecordRoundFacts
<1>7. ASSUME NEW d \in Deployments, FinishCompleted(d) \/ FinishFailed(d)
      PROVE  FinalStep
  BY <1>7 DEF FinalStep, FinishCompleted, FinishFailed, Active, TypeOK
<1>8. ASSUME NEW d \in Deployments, NEW outcome \in Outcomes, FinishUndone(d, outcome)
      PROVE  FinalStep
  BY <1>8 DEF FinalStep, FinishUndone, Active, TypeOK
<1>9. CASE UNCHANGED regVars
  BY <1>9 DEF FinalStep, regVars
<1> HIDE DEF RegInv, CoreInv
<1>10. CASE UserCall
  BY <1>1, <1>2, <1>3, <1>10, RegistryAssumption DEF UserCall
<1>11. CASE InternalCall
  BY <1>4, <1>5, <1>6, <1>7, <1>8, <1>9, <1>11
  DEF InternalCall, FinishDeployment, FinishRepeated
<1> QED
  BY <1>9, <1>10, <1>11 DEF RegNext

\* No call changes the outcome of a finished deployment, reverses an operator's
\* decision or takes back a released reservation.
THEOREM Finality == RegSpec => OutcomesAreFinal
<1>1. RegInv /\ [RegNext]_regVars => [FinalStep]_regVars
  BY StepIsFinal
<1> QED
  BY <1>1, RegistryInvariant, PTL DEF RegSpec, OutcomesAreFinal

-----------------------------------------------------------------------------
\* The refinement: requests, ends and refusals of the registry are the steps of
\* DeployLease, every other call leaves its variables alone.
LEMMA InitRefines == RegInit => Lease!LeaseInit
<1> SUFFICES ASSUME RegInit PROVE Lease!LeaseInit
  OBVIOUS
<1>1. [s \in Slices |-> ActiveOn(s)] = [s \in Slices |-> {}]
  BY DEF RegInit, ActiveOn, DeploymentsOf, Exists
<1>2. [d \in Deployments |-> IF estado[d] \in Outcomes THEN estado[d] ELSE "none"]
        = [d \in Deployments |-> "none"]
  BY DEF RegInit, Outcomes
<1>3. {s \in Slices : sliceState[s] \in {"RUNNING", "STOPPED", "FAILED"}} = {}
  BY DEF RegInit
<1> QED
  BY <1>1, <1>2, <1>3 DEF Lease!LeaseInit

\* What a step must keep for DeployLease to see nothing.
LEMMA LeaseUnchanged ==
  ASSUME \A s \in Slices : ActiveOn(s)' = ActiveOn(s),
         \A d \in Deployments : (estado[d] \in Outcomes \/ estado'[d] \in Outcomes)
                                  => estado'[d] = estado[d],
         \A s \in Slices : sliceState'[s] \in {"RUNNING", "STOPPED", "FAILED"}
                             <=> sliceState[s] \in {"RUNNING", "STOPPED", "FAILED"}
  PROVE  UNCHANGED Lease!leaseVars
<1>1. [s \in Slices |-> ActiveOn(s)]' = [s \in Slices |-> ActiveOn(s)]
  OBVIOUS
<1>2. [d \in Deployments |-> IF estado[d] \in Outcomes THEN estado[d] ELSE "none"]'
        = [d \in Deployments |-> IF estado[d] \in Outcomes THEN estado[d] ELSE "none"]
  OBVIOUS
<1>3. {s \in Slices : sliceState[s] \in {"RUNNING", "STOPPED", "FAILED"}}'
        = {s \in Slices : sliceState[s] \in {"RUNNING", "STOPPED", "FAILED"}}
  OBVIOUS
<1> QED
  BY <1>1, <1>2, <1>3 DEF Lease!leaseVars

\* The end of an active deployment is the return of its slice.
LEMMA FinishReturns ==
  ASSUME CoreInv,
         NEW d \in Deployments, NEW end \in Outcomes, NEW st, Active(d),
         target' = target,
         estado' = [estado EXCEPT ![d] = end],
         sliceState' = [sliceState EXCEPT ![SliceOf[target[d]]] = st],
         \/ st \in {"RUNNING", "STOPPED", "FAILED"}
         \/ st = "DRAFT" /\ end \in {"REJECTED", "COMPENSATED"}
  PROVE  Lease!LeaseNext
<1> DEFINE s == SliceOf[target[d]]
           Spent == {t \in Slices : sliceState[t] \in {"RUNNING", "STOPPED", "FAILED"}}
<1>1. s \in Slices
  BY AboutToFinish
<1>2. ActiveOn(s) = {d}
  BY <1>1 DEF CoreInv, UpdatingIffOneActive, ActiveOn, DeploymentsOf, Active, Exists
<1>3. \A t \in Slices : ActiveOn(t)' = IF t = s THEN {} ELSE ActiveOn(t)
  BY <1>1, <1>2 DEF CoreInv, TypeOK, ActiveOn, DeploymentsOf, Active, Exists, Outcomes
<1>4. [t \in Slices |-> ActiveOn(t)]' = [[t \in Slices |-> ActiveOn(t)] EXCEPT ![s] = {}]
  BY <1>3
<1>5. [e \in Deployments |-> IF estado[e] \in Outcomes THEN estado[e] ELSE "none"]'
        = [[e \in Deployments |-> IF estado[e] \in Outcomes THEN estado[e] ELSE "none"]
             EXCEPT ![d] = end]
  BY DEF CoreInv, TypeOK
<1>6. sliceState[s] = "UPDATING"
  BY <1>1, <1>2 DEF CoreInv, UpdatingIffOneActive
<1>7. Spent' = Spent \cup {s} \/ (Spent' = Spent /\ end \in {"REJECTED", "COMPENSATED"})
  BY <1>1, <1>6 DEF CoreInv, TypeOK
<1>8. d \in ActiveOn(s) /\ [t \in Slices |-> ActiveOn(t)][s] = ActiveOn(s)
  BY <1>1, <1>2
<1>9. Lease!Return(d, s, end)
  BY <1>4, <1>5, <1>7, <1>8 DEF Lease!Return
<1> QED
  BY <1>1, <1>9 DEF Lease!LeaseNext, Lease!Ends, Outcomes

LEMMA StepRefines ==
  ASSUME RegInv, [RegNext]_regVars
  PROVE  [Lease!LeaseNext]_Lease!leaseVars
<1> USE RegistryAssumption DEF RegInv, CoreInv
<1>1. ASSUME NEW s \in Slices, NEW v \in Versions,
             CreateSlice(s, v) \/ CreateVersion(v) \/ DeleteVersion(v)
      PROVE  UNCHANGED Lease!leaseVars
  <2>1. /\ estado' = estado /\ target' = target
        /\ \A t \in Slices : sliceState'[t] # sliceState[t] =>
             sliceState[t] = "absent" /\ sliceState'[t] = "DRAFT"
    BY <1>1 DEF CreateSlice, CreateVersion, DeleteVersion, TypeOK
  <2>2. \A t \in Slices : ActiveOn(t)' = ActiveOn(t)
    BY <2>1 DEF ActiveOn, DeploymentsOf, Active, Exists
  <2> QED
    BY <2>1, <2>2, LeaseUnchanged
<1>2. ASSUME NEW d \in Deployments, NEW v \in Versions, CreateRejectedDeployment(d, v)
      PROVE  Lease!LeaseNext
  <2>1. ~Exists(d) /\ \A t \in Slices : d \notin ActiveOn(t)
    BY <1>2 DEF CreateRejectedDeployment, ActiveOn, DeploymentsOf, Active, Exists
  <2>2. \A t \in Slices : ActiveOn(t)' = ActiveOn(t)
    BY <1>2, <2>1 DEF CreateRejectedDeployment, ActiveOn, DeploymentsOf, Active, Exists, TypeOK
  <2>3. [t \in Slices |-> ActiveOn(t)]' = [t \in Slices |-> ActiveOn(t)]
    BY <2>2
  <2>4. [e \in Deployments |-> IF estado[e] \in Outcomes THEN estado[e] ELSE "none"]'
          = [[e \in Deployments |-> IF estado[e] \in Outcomes THEN estado[e] ELSE "none"]
               EXCEPT ![d] = "REJECTED"]
    BY <1>2 DEF CreateRejectedDeployment, TypeOK, Outcomes
  <2>5. {t \in Slices : sliceState[t] \in {"RUNNING", "STOPPED", "FAILED"}}'
          = {t \in Slices : sliceState[t] \in {"RUNNING", "STOPPED", "FAILED"}}
    BY <1>2 DEF CreateRejectedDeployment
  <2>6. Lease!Idle(d)
    BY <2>1 DEF Lease!Idle, Exists, Outcomes
  <2> QED
    BY <2>3, <2>4, <2>5, <2>6 DEF Lease!LeaseNext, Lease!Refuse
<1>3. ASSUME NEW d \in Deployments, NEW v \in Versions, CreatePendingDeployment(d, v)
      PROVE  Lease!LeaseNext
  <2> DEFINE s == SliceOf[v]
  <2>1. /\ s \in Slices /\ ~Exists(d) /\ \A t \in Slices : d \notin ActiveOn(t)
        /\ sliceState[s] = "DRAFT" /\ ActiveOn(s) = {}
    BY <1>3 DEF CreatePendingDeployment, MayDeploy, ActiveOn, DeploymentsOf, Active, Exists
  <2>2. \A t \in Slices : ActiveOn(t)' = IF t = s THEN {d} ELSE ActiveOn(t)
    BY <1>3, <2>1
    DEF CreatePendingDeployment, ActiveOn, DeploymentsOf, Active, Exists, TypeOK
  <2>3. [t \in Slices |-> ActiveOn(t)]' = [[t \in Slices |-> ActiveOn(t)] EXCEPT ![s] = {d}]
    BY <2>2
  <2>4. [e \in Deployments |-> IF estado[e] \in Outcomes THEN estado[e] ELSE "none"]'
          = [e \in Deployments |-> IF estado[e] \in Outcomes THEN estado[e] ELSE "none"]
    BY <1>3, <2>1 DEF CreatePendingDeployment, TypeOK, Outcomes, Exists
  <2>5. {t \in Slices : sliceState[t] \in {"RUNNING", "STOPPED", "FAILED"}}'
          = {t \in Slices : sliceState[t] \in {"RUNNING", "STOPPED", "FAILED"}}
    BY <1>3, <2>1 DEF CreatePendingDeployment, TypeOK
  <2>6. Lease!Idle(d)
    BY <2>1 DEF Lease!Idle, Exists, Outcomes
  <2> QED
    BY <2>1, <2>3, <2>4, <2>5, <2>6 DEF Lease!LeaseNext, Lease!Lend
<1>4. ASSUME NEW d \in Deployments, StartDeployment(d) PROVE UNCHANGED Lease!leaseVars
  <2>1. /\ sliceState' = sliceState /\ target' = target /\ Active(d)
        /\ estado' = [estado EXCEPT ![d] = "IN_PROGRESS"]
    BY <1>4 DEF StartDeployment, StartAccepted, Active
  <2>2. \A t \in Slices : ActiveOn(t)' = ActiveOn(t)
    BY <2>1 DEF ActiveOn, DeploymentsOf, Active, Exists, TypeOK
  <2> QED
    BY <2>1, <2>2, LeaseUnchanged DEF TypeOK, Outcomes, Active
<1>5. ASSUME UNCHANGED <<sliceState, estado, target>> PROVE UNCHANGED Lease!leaseVars
  <2>1. \A t \in Slices : ActiveOn(t)' = ActiveOn(t)
    BY <1>5 DEF ActiveOn, DeploymentsOf, Active, Exists
  <2> QED
    BY <1>5, <2>1, LeaseUnchanged
<1>6. ASSUME NEW d \in Deployments, FinishCompleted(d) PROVE Lease!LeaseNext
  <2> DEFINE st == RecalculatedState(SliceOf[target[d]], nodes, target[d])
  <2>1. Active(d)
    BY <1>6 DEF FinishCompleted
  <2>2. target[d] \in Versions
    BY <2>1, AboutToFinish
  <2>3. st \in {"RUNNING", "STOPPED"}
    BY <2>2 DEF RecalculatedState
  <2>4. /\ target' = target /\ estado' = [estado EXCEPT ![d] = "COMPLETED"]
        /\ sliceState' = [sliceState EXCEPT ![SliceOf[target[d]]] = st]
    BY <1>6 DEF FinishCompleted
  <2> HIDE DEF st
  <2> QED
    BY <2>1, <2>3, <2>4, FinishReturns DEF Outcomes
<1>7. ASSUME NEW d \in Deployments, NEW outcome \in Outcomes, FinishUndone(d, outcome)
      PROVE  Lease!LeaseNext
  <2> DEFINE st == RecalculatedState(SliceOf[target[d]], nodes', NoVersion)
  <2>1. Active(d) /\ outcome \in {"COMPENSATED", "REJECTED"}
    BY <1>7 DEF FinishUndone
  <2>2. activeVersion[SliceOf[target[d]]] = NoVersion
    BY <2>1, AboutToFinish
  <2>3. st \in {"FAILED", "DRAFT"}
    BY DEF RecalculatedState
  <2>4. /\ target' = target /\ estado' = [estado EXCEPT ![d] = outcome]
        /\ sliceState' = [sliceState EXCEPT ![SliceOf[target[d]]] = st]
    BY <1>7, <2>2 DEF FinishUndone
  <2> HIDE DEF st
  <2> QED
    BY <2>1, <2>3, <2>4, FinishReturns
<1>8. ASSUME NEW d \in Deployments, FinishFailed(d) PROVE Lease!LeaseNext
  <2>1. /\ Active(d) /\ target' = target /\ estado' = [estado EXCEPT ![d] = "FAILED"]
        /\ sliceState' = [sliceState EXCEPT ![SliceOf[target[d]]] = "FAILED"]
    BY <1>8 DEF FinishFailed
  <2> QED
    BY <2>1, FinishReturns DEF Outcomes
<1>9. CASE UNCHANGED regVars
  BY <1>5, <1>9 DEF regVars
<1> HIDE DEF RegInv, CoreInv
<1>10. CASE UserCall
  BY <1>1, <1>2, <1>3, <1>5, <1>10 DEF UserCall, DecideApproval
<1>11. CASE InternalCall
  BY <1>4, <1>5, <1>6, <1>7, <1>8, <1>9, <1>11
  DEF InternalCall, FinishDeployment, FinishRepeated,
      CreateInventory, ReservePlacement, RollbackPlacement, RecordRoundFacts
<1> QED
  BY <1>9, <1>10, <1>11 DEF RegNext

\* The registry implements DeployLease: a slice is lent to one deployment at a
\* time, each deployment ends once, a slice that COMPLETED or FAILED is spent.
THEOREM Refinement == RegSpec => KeepsLease
<1>1. RegInit => Lease!LeaseInit
  BY InitRefines
<1>2. RegInv /\ [RegNext]_regVars => [Lease!LeaseNext]_Lease!leaseVars
  BY StepRefines
<1> QED
  BY <1>1, <1>2, RegistryInvariant, PTL DEF RegSpec, KeepsLease, Lease!LeaseSpec
=============================================================================

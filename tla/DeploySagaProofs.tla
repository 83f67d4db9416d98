-------------------------- MODULE DeploySagaProofs --------------------------
(***************************************************************************)
(* Proofs, for any slices, plans, retry limits and late calls, about the   *)
(* deploy workflow: it uses the registry only as SliceRegistry allows, so  *)
(* every theorem about the registry holds under it; nothing happens before *)
(* an approval; the result it returns is the one recorded; a COMPLETED     *)
(* deployment is deployed, a COMPENSATED one is clean, a VM keeps what it  *)
(* needs, and a DRAFT version can be deployed again.                       *)
(*                                                                         *)
(* The argument for the approval: an unapproved deployment's workflow is   *)
(* in one of the stages Early, where it neither sends a call nor carries   *)
(* an error (Sealed), and an approval is never taken back.                 *)
(*                                                                         *)
(* The argument for the results, from "What a workflow has, stage by       *)
(* stage" on: InOrder(w, v) says, for each stage of a workflow w, what the *)
(* rows, hosts and calls v of its deployment are, and what its undoing has *)
(* still to remove.  A step of one deployment takes something from another *)
(* only by deleting the bridge or the tag of their slice while it is       *)
(* Undoing; then the other has nothing deployed, because a slice is used   *)
(* up once (SpentOnce, DeployedAlone).                                     *)
(***************************************************************************)
EXTENDS DeploySaga, SliceRegistryProofs

Rounding == {"round", "facts"}
Failing == (Forward \cup Compensation) \ {"waiting", "round", "undo_actions"}
Early == {"absent", "approval", "waiting", "reject", "conclude", "raised", "REJECTED",
          "COMPENSATED"}

\* The actions of a round are pending, good or bad; a workflow goes on to another
\* round only without bad ones.
RoundOK(w) ==
  /\ w.pc \in Rounding =>
       w.good \cap w.bad = {} /\ w.pending \cap w.good = {} /\ w.pending \cap w.bad = {}
  /\ w.pc \in {"absent"} \cup (Forward \ Rounding) => w.bad = {}

\* What an unapproved deployment d may have: no call, no signal, no resource.
Sealed(d) ==
  /\ wf[d].pc \in Early /\ (wf[d].pc # "raised" => ~wf[d].error)
  /\ estado[d] \notin {"IN_PROGRESS", "COMPLETED", "FAILED"}
  /\ display[d] = {} /\ host[d] = {} /\ \A s \in Slices : tagOwner[s] # d
  /\ signal[d] # "APPROVED" /\ <<d, "APPROVED">> \notin signalling
  /\ \A c \in Calls : <<d, c>> \notin inflight

SealedUntilApproved == \A d \in Deployments : approval[d] # "APPROVED" => Sealed(d)

SagaInv ==
  /\ SagaTypeOK /\ RegInv
  /\ \A d \in Deployments : RoundOK(wf[d])
  /\ SealedUntilApproved /\ ResultRecorded

-----------------------------------------------------------------------------
\* How a workflow record changes.

\* A failure leads to a compensation, or out of the workflow when there is no more.
LEMMA FailureStages ==
  ASSUME NEW d \in Deployments, Pc(d) \in Failing
  PROVE  /\ OnFailure(d) \in Compensation \cup {"raised"}
         /\ Pc(d) \in {"approval", "reject"} => OnFailure(d) = "conclude"
         /\ Pc(d) = "conclude" => OnFailure(d) = "raised"
  BY DEF OnFailure, AfterUndoNetwork, Failing, Forward, Compensation

\* w and x differ in the program counter, the counters and the error only.
SameWork(w, x) ==
  /\ x.branch = w.branch /\ x.round = w.round /\ x.pending = w.pending
  /\ x.good = w.good /\ x.bad = w.bad /\ x.applied = w.applied

\* The workflow of d changes, to a record of the right type; the others do not.
Changes(d) ==
  wf' \in [Deployments -> Workflows] /\ \A e \in Deployments \ {d} : wf'[e] = wf[e]

\* Goto, Retry and Fail, the ways an activity ends, move the program counter and
\* the counters only.
LEMMA Goes ==
  ASSUME SagaTypeOK, NEW d \in Deployments, NEW next \in Stages, Goto(d, next)
  PROVE  /\ Changes(d) /\ SameWork(wf[d], wf'[d])
         /\ wf'[d].pc = next /\ wf'[d].error = wf[d].error
<1> DEFINE w == wf[d]
           zero == [t \in Threads |-> 0]
           x == [w EXCEPT !.pc = next, !.tries = zero]
<1>1. w \in Workflows /\ wf \in [Deployments -> Workflows]
  BY DEF SagaTypeOK
<1>2. zero \in [Threads -> 0 .. MaxAttempts - 1]
  BY SagaAssumption
<1>3. x \in Workflows
  BY <1>1, <1>2 DEF Workflows
<1>4. wf' = [wf EXCEPT ![d] = x]
  BY <1>1 DEF Goto, Workflows
<1>5. x.pc = next /\ x.error = w.error /\ SameWork(w, x)
  BY <1>1 DEF Workflows, SameWork
<1> HIDE DEF x, zero
<1> QED
  BY <1>1, <1>3, <1>4, <1>5 DEF Changes

LEMMA Stops ==
  ASSUME SagaTypeOK, NEW d \in Deployments, Pc(d) \in Failing, Retry(d) \/ Fail(d)
  PROVE  /\ Changes(d) /\ SameWork(wf[d], wf'[d])
         /\ \/ wf'[d].pc = wf[d].pc /\ wf'[d].error = wf[d].error
            \/ /\ wf'[d].pc = OnFailure(d)
               /\ wf'[d].error = (wf[d].error \/ Pc(d) \in Compensation)
<1> DEFINE w == wf[d]
           zero == [t \in Threads |-> 0]
<1>1. w \in Workflows /\ wf \in [Deployments -> Workflows]
  BY DEF SagaTypeOK
<1>2. zero \in [Threads -> 0 .. MaxAttempts - 1]
  BY SagaAssumption
<1>3. CASE Fail(d)
  <2> DEFINE er == w.error \/ Pc(d) \in Compensation
             x == [w EXCEPT !.pc = OnFailure(d), !.tries = zero, !.error = er]
  <2>1. er \in BOOLEAN
    OBVIOUS
  <2>2. OnFailure(d) \in Stages
    BY FailureStages DEF Stages
  <2>3. wf' = [wf EXCEPT ![d] = x]
    BY <1>1, <1>3 DEF Fail, Workflows
  <2> HIDE DEF er
  <2>4. x \in Workflows
    BY <1>1, <1>2, <2>1, <2>2 DEF Workflows
  <2>5. x.pc = OnFailure(d) /\ x.error = er /\ SameWork(w, x)
    BY <1>1 DEF Workflows, SameWork
  <2> HIDE DEF x, zero
  <2>6. wf'[d] = x /\ Changes(d)
    BY <1>1, <2>3, <2>4 DEF Changes
  <2> QED
    BY <2>5, <2>6 DEF er
<1>4. CASE Retry(d) /\ w.tries["main"] + 1 < MaxAttempts
  <2> DEFINE more == [w.tries EXCEPT !["main"] = @ + 1]
             x == [w EXCEPT !.tries = more]
  <2>1. w.tries \in [Threads -> 0 .. MaxAttempts - 1]
    BY <1>1 DEF Workflows
  <2>2. more \in [Threads -> 0 .. MaxAttempts - 1]
    BY <1>4, <2>1, SagaAssumption DEF Threads
  <2>3. wf' = [wf EXCEPT ![d] = x]
    BY <1>1, <1>4 DEF Retry, Workflows
  <2> HIDE DEF more
  <2>4. x \in Workflows
    BY <1>1, <2>2 DEF Workflows
  <2>5. x.pc = w.pc /\ x.error = w.error /\ SameWork(w, x)
    BY <1>1 DEF Workflows, SameWork
  <2> HIDE DEF x, zero
  <2> QED
    BY <1>1, <2>3, <2>4, <2>5 DEF Changes
<1> QED
  BY <1>3, <1>4 DEF Retry

LEMMA Moved ==
  ASSUME SagaTypeOK, NEW d \in Deployments, NEW next \in Stages,
         Goto(d, next) \/ (Pc(d) \in Failing /\ (Retry(d) \/ Fail(d)))
  PROVE  /\ wf' \in [Deployments -> Workflows]
         /\ \A e \in Deployments \ {d} : wf'[e] = wf[e]
         /\ wf'[d].good = wf[d].good /\ wf'[d].bad = wf[d].bad
         /\ wf'[d].pending = wf[d].pending
         /\ \/ wf'[d].pc \in {next, wf[d].pc} /\ wf'[d].error = wf[d].error
            \/ /\ Pc(d) \in Failing /\ wf'[d].pc = OnFailure(d)
               /\ Pc(d) \notin Compensation => wf'[d].error = wf[d].error
<1>1. CASE Goto(d, next)
  BY <1>1, Goes DEF Changes, SameWork
<1>2. CASE Pc(d) \in Failing /\ (Retry(d) \/ Fail(d))
  <2>1. wf[d].error \in BOOLEAN
    BY DEF SagaTypeOK, Workflows
  <2> QED
    BY <1>2, <2>1, Stops DEF Changes, SameWork
<1> QED
  BY <1>1, <1>2

\* A next round starts with nothing done, and without the failures of another.
LEMMA RoundStarts ==
  ASSUME SagaTypeOK, NEW d \in Deployments, NextRound(d), wf[d].bad = {}
  PROVE  Changes(d) /\ RoundOK(wf'[d]) /\ wf'[d].pc \in {"round", "complete"}
<1> DEFINE w == wf[d]
           i == w.round + 1
           more == i <= LastRound
           zero == [t \in Threads |-> 0]
           pc == IF more THEN "round" ELSE "complete"
           r == IF more THEN i ELSE w.round
           p == IF more THEN Round(i) ELSE {}
           x == [w EXCEPT !.pc = pc, !.round = r, !.pending = p, !.good = {},
                          !.tries = zero]
<1>1. w \in Workflows /\ wf \in [Deployments -> Workflows]
  BY DEF SagaTypeOK
<1>2. zero \in [Threads -> 0 .. MaxAttempts - 1] /\ w.round \in 0 .. 3
  BY <1>1, SagaAssumption DEF Workflows
<1>3. wf' = [wf EXCEPT ![d] = x]
  BY <1>1 DEF NextRound, Workflows
<1>4. pc \in {"round", "complete"} /\ r \in 0 .. 3 /\ p \in SUBSET Actions
  BY <1>2 DEF LastRound, Round
<1> HIDE DEF pc, r, p, zero
<1>5. x \in Workflows
  BY <1>1, <1>2, <1>4 DEF Workflows, Stages, Forward
<1>6. x.pc = pc /\ x.good = {} /\ x.bad = {} /\ x.pending = p
  BY <1>1 DEF Workflows
<1> HIDE DEF x
<1>7. RoundOK(x)
  BY <1>4, <1>6 DEF RoundOK, Rounding
<1> QED
  BY <1>1, <1>3, <1>4, <1>5, <1>6, <1>7 DEF Changes

\* The gather goes on, joins, or fails and leaves the other branch behind.
LEMMA GatherMoves ==
  ASSUME SagaTypeOK, NEW d \in Deployments, RoundOK(wf[d]), NEW b \in Branches,
         Pc(d) = "allocate", NEW late \in SUBSET {<<d, c>> : c \in Calls},
         BranchDone(d, b) \/ BranchRetries(d, b, late) \/ BranchFails(d, b, late)
  PROVE  /\ Changes(d) /\ RoundOK(wf'[d]) /\ wf'[d].pc \notin Results
         /\ inflight' \subseteq inflight \cup {<<d, c>> : c \in Calls}
<1> DEFINE w == wf[d]
           zero == [t \in Threads |-> 0]
<1>1. w \in Workflows /\ wf \in [Deployments -> Workflows] /\ w.pc = "allocate"
  BY DEF SagaTypeOK, Pc
<1>2. /\ zero \in [Threads -> 0 .. MaxAttempts - 1] /\ w.bad = {}
      /\ w.branch \in [Branches -> {"idle", "run", "ok", "failed", "lost"}]
      /\ w.tries \in [Threads -> 0 .. MaxAttempts - 1] /\ b \in Threads /\ b \in Calls
  BY <1>1, SagaAssumption DEF Workflows, RoundOK, Forward, Rounding, Threads, Calls
<1>3. CASE BranchDone(d, b)
  <2> DEFINE done == [w.branch EXCEPT ![b] = "ok"]
             again == [w.tries EXCEPT ![b] = 0]
             pc == IF \A c \in Branches : done[c] # "run" THEN "compute" ELSE w.pc
             x == [w EXCEPT !.branch = done, !.tries = again, !.pc = pc]
  <2>1. /\ done \in [Branches -> {"idle", "run", "ok", "failed", "lost"}]
        /\ again \in [Threads -> 0 .. MaxAttempts - 1]
        /\ pc \in {"allocate", "compute"}
    BY <1>1, <1>2, SagaAssumption
  <2>2. wf' = [wf EXCEPT ![d] = x] /\ inflight' = inflight
    BY <1>1, <1>3 DEF BranchDone, Workflows
  <2> HIDE DEF done, again, pc
  <2>3. x \in Workflows
    BY <1>1, <2>1 DEF Workflows, Stages, Forward
  <2>4. x.pc = pc /\ x.bad = {}
    BY <1>1, <1>2 DEF Workflows
  <2> HIDE DEF x
  <2> QED
    BY <1>1, <2>1, <2>2, <2>3, <2>4 DEF Changes, RoundOK, Rounding, Results
<1>4. CASE BranchFails(d, b, late)
  <2> DEFINE left == {c \in Branches \ {b} : w.branch[c] = "run"}
             lost == [c \in Branches |-> IF c = b THEN "failed"
                                         ELSE IF c \in left THEN "lost" ELSE w.branch[c]]
             x == [w EXCEPT !.branch = lost, !.tries = zero, !.pc = OnFailure(d)]
  <2>1. lost \in [Branches -> {"idle", "run", "ok", "failed", "lost"}]
    BY <1>2
  <2>2. OnFailure(d) \in Compensation \cup {"raised"}
    BY FailureStages DEF Failing, Forward
  <2>3. wf' = [wf EXCEPT ![d] = x] /\ inflight' = inflight \cup late \cup {<<d, c>> : c \in left}
    BY <1>1, <1>4 DEF BranchFails, Workflows
  <2>4. {<<d, c>> : c \in left} \subseteq {<<d, c>> : c \in Calls}
    BY DEF Calls
  <2> HIDE DEF left, lost, zero
  <2>5. x \in Workflows
    BY <1>1, <1>2, <2>1, <2>2 DEF Workflows, Stages
  <2>6. x.pc = OnFailure(d) /\ x.bad = {}
    BY <1>1, <1>2 DEF Workflows
  <2> HIDE DEF x
  <2>7. wf'[d] = x /\ Changes(d)
    BY <1>1, <2>3, <2>5 DEF Changes
  <2>8. RoundOK(x) /\ x.pc \notin Results
    BY <2>2, <2>6 DEF RoundOK, Rounding, Results, Compensation
  <2> QED
    BY <2>3, <2>4, <2>7, <2>8
<1>5. CASE BranchRetries(d, b, late) /\ ~BranchFails(d, b, late)
  <2> DEFINE more == [w.tries EXCEPT ![b] = @ + 1]
             x == [w EXCEPT !.tries = more]
  <2>1. more \in [Threads -> 0 .. MaxAttempts - 1]
    BY <1>2, <1>5, SagaAssumption DEF BranchRetries
  <2>2. wf' = [wf EXCEPT ![d] = x] /\ inflight' = inflight \cup late
    BY <1>1, <1>5 DEF BranchRetries, Workflows
  <2> HIDE DEF more
  <2>3. x \in Workflows
    BY <1>1, <2>1 DEF Workflows
  <2>4. x.pc = "allocate" /\ x.bad = {}
    BY <1>1, <1>2 DEF Workflows
  <2> HIDE DEF x
  <2> QED
    BY <1>1, <2>2, <2>3, <2>4 DEF Changes, RoundOK, Rounding, Results
<1> QED
  BY <1>3, <1>4, <1>5

-----------------------------------------------------------------------------
\* How the registry changes.

\* FinishDeployment records the outcome it is called with.
LEMMA FinishRecords ==
  ASSUME TypeOK, NEW d \in Deployments, NEW outcome \in Outcomes, FinishDeployment(d, outcome)
  PROVE  /\ estado'[d] = outcome /\ \A e \in Deployments \ {d} : estado'[e] = estado[e]
         /\ RegNext
<1>1. RegNext
  BY DEF RegNext, InternalCall
<1> QED
  BY <1>1 DEF FinishDeployment, FinishRepeated, FinishCompleted, FinishUndone, FinishFailed,
              TypeOK, regVars

\* What ports a report mentions makes no difference to the rows it changes.
LEMMA FactsAreRegNext ==
  ASSUME NEW d \in Deployments, NEW good \in SUBSET Actions, NEW bad \in SUBSET Actions,
         good \cap bad = {}, RecordRoundFacts(d, good, bad)
  PROVE  RegNext
<1> DEFINE g == good \cap (Nodes \cup Links)
           b == bad \cap (Nodes \cup Links)
<1>1. FactsAccepted(d, g, b)
  BY DEF RecordRoundFacts, FactsAccepted
<1>2. RecordRoundFacts(d, g, b)
  BY <1>1 DEF RecordRoundFacts
<1>3. g \in SUBSET (Nodes \cup Links) /\ b \in SUBSET ((Nodes \cup Links) \ g)
  OBVIOUS
<1> QED
  BY <1>2, <1>3 DEF RegNext, InternalCall

-----------------------------------------------------------------------------
\* A step that keeps the invariant and is a step of the registry's specification,
\* or none.
GoodStep == SagaInv' /\ [RegNext]_regVars

\* Steps about one deployment keep the invariant when they leave the others
\* alone, give them nothing, and are right about it: an approval, an outcome and
\* a result of another deployment stay as they are.
LEMMA OthersKept ==
  ASSUME SagaInv, NEW d \in Deployments, [RegNext]_regVars, Changes(d),
         \A e \in Deployments \ {d} :
           /\ estado'[e] = estado[e] /\ display'[e] = display[e] /\ signal'[e] = signal[e]
           /\ host'[e] \subseteq host[e],
         tagOwner' \in [Slices -> Deployments \cup {NoDeployment}],
         \A s \in Slices : tagOwner'[s] \in {tagOwner[s], d, NoDeployment},
         display' \in [Deployments -> SUBSET Nodes],
         host' \in [Deployments -> SUBSET Actions],
         starting' \subseteq Deployments,
         signalling' \subseteq signalling \cup {<<d, x>> : x \in Decisions},
         signal' \in [Deployments -> Decisions \cup {"none"}],
         inflight' \subseteq inflight \cup {<<d, c>> : c \in Calls},
         RoundOK(wf'[d]),
         wf'[d].pc \in Results => estado'[d] = wf'[d].pc,
         approval'[d] # "APPROVED" => Sealed(d)'
  PROVE  GoodStep
<1>1. FinalStep /\ RegInv'
  BY StepIsFinal, CoreInductive, ApprovalInductive DEF SagaInv, RegInv, CoreInv
<1>2. SagaTypeOK'
  BY <1>1 DEF SagaInv, SagaTypeOK, RegInv, CoreInv, Changes
<1>3. \A e \in Deployments : RoundOK(wf[e])'
  BY DEF SagaInv, Changes, RoundOK
<1>4. ASSUME NEW e \in Deployments, approval'[e] # "APPROVED"
      PROVE  Sealed(e)'
  <2>1. CASE e = d
    BY <1>4, <2>1
  <2>2. CASE e # d
    <3>1. approval[e] # "APPROVED"
      BY <1>1, <1>4 DEF FinalStep
    <3>2. Sealed(e)
      BY <3>1 DEF SagaInv, SealedUntilApproved
    <3>3. /\ wf'[e] = wf[e] /\ estado'[e] = estado[e] /\ display'[e] = {} /\ host'[e] = {}
          /\ signal'[e] = signal[e]
      BY <2>2, <3>2 DEF Changes, Sealed
    <3>4. \A s \in Slices : tagOwner'[s] # e
      BY <2>2, <3>2, SagaAssumption DEF Sealed
    <3>5. <<e, "APPROVED">> \notin signalling' /\ \A c \in Calls : <<e, c>> \notin inflight'
      BY <2>2, <3>2 DEF Sealed
    <3> QED
      BY <3>2, <3>3, <3>4, <3>5 DEF Sealed
  <2> QED
    BY <2>1, <2>2
<1>5. ResultRecorded'
  BY <1>1 DEF SagaInv, ResultRecorded, Changes, Pc
<1> QED
  BY <1>1, <1>2, <1>3, <1>4, <1>5 DEF SagaInv, SealedUntilApproved, GoodStep

\* Outside Early and with a call on its way, a deployment is approved.
LEMMA PastApproval ==
  ASSUME SagaInv, NEW d \in Deployments,
         Pc(d) \notin Early \/ \E c \in Calls : <<d, c>> \in inflight
  PROVE  approval[d] = "APPROVED"
  BY DEF SagaInv, SealedUntilApproved, Sealed, Pc

\* What a step about d may do to the registry, the allocators and the hosts: for
\* other deployments, nothing but delete the bridge they share.
Effects(d) ==
  /\ [RegNext]_regVars
  /\ \A e \in Deployments \ {d} :
       estado'[e] = estado[e] /\ display'[e] = display[e] /\ host'[e] \subseteq host[e]
  /\ tagOwner' \in [Slices -> Deployments \cup {NoDeployment}]
  /\ \A s \in Slices : tagOwner'[s] \in {tagOwner[s], d, NoDeployment}
  /\ display' \in [Deployments -> SUBSET Nodes]
  /\ host' \in [Deployments -> SUBSET Actions]

\* A step of the workflow of an approved deployment.
LEMMA ApprovedStep ==
  ASSUME SagaInv, NEW d \in Deployments, approval[d] = "APPROVED", Changes(d), Effects(d),
         UNCHANGED <<starting, signalling, signal>>,
         inflight' \subseteq inflight \cup {<<d, c>> : c \in Calls},
         RoundOK(wf'[d]),
         wf'[d].pc \in Results => estado'[d] = wf'[d].pc
  PROVE  GoodStep
<1>1. approval'[d] = "APPROVED"
  BY StepIsFinal DEF SagaInv, FinalStep, Effects
<1> QED
  BY <1>1, OthersKept DEF SagaInv, SagaTypeOK, Effects

\* A step of a workflow, approved or not, that creates nothing.
LEMMA QuietStep ==
  ASSUME SagaInv, NEW d \in Deployments, [RegNext]_regVars, Changes(d),
         \A e \in Deployments \ {d} : estado'[e] = estado[e],
         UNCHANGED <<resVars, starting, signalling, signal>>,
         inflight' \subseteq inflight \cup {<<d, c>> : c \in Calls},
         RoundOK(wf'[d]),
         wf'[d].pc \in Results => estado'[d] = wf'[d].pc,
         approval[d] # "APPROVED" =>
           /\ wf'[d].pc \in Early /\ (wf'[d].pc # "raised" => ~wf'[d].error)
           /\ estado'[d] \notin {"IN_PROGRESS", "COMPLETED", "FAILED"}
           /\ inflight' = inflight
  PROVE  GoodStep
<1>1. /\ tagOwner \in [Slices -> Deployments \cup {NoDeployment}]
      /\ display \in [Deployments -> SUBSET Nodes] /\ host \in [Deployments -> SUBSET Actions]
      /\ starting \subseteq Deployments /\ signal \in [Deployments -> Decisions \cup {"none"}]
  BY DEF SagaInv, SagaTypeOK
<1>2. tagOwner' = tagOwner /\ display' = display /\ host' = host
  BY DEF resVars
<1>3. ASSUME approval'[d] # "APPROVED"
      PROVE  Sealed(d)'
  <2>1. approval[d] # "APPROVED"
    BY <1>3, StepIsFinal DEF SagaInv, FinalStep
  <2>2. Sealed(d)
    BY <2>1 DEF SagaInv, SealedUntilApproved
  <2> QED
    BY <1>2, <2>1, <2>2 DEF Sealed
<1> QED
  BY <1>1, <1>2, <1>3, OthersKept

-----------------------------------------------------------------------------
\* The steps of a workflow.

\* What an activity that moves to next may do to the workflow and to inflight.
Ends(d, next) ==
  /\ Goto(d, next) \/ (Pc(d) \in Failing /\ (Retry(d) \/ Fail(d)))
  /\ UNCHANGED <<starting, signalling, signal>>
  /\ inflight' \subseteq inflight \cup {<<d, c>> : c \in Calls}

LEMMA EndsMoves ==
  ASSUME SagaInv, NEW d \in Deployments, NEW next \in Stages \ Rounding, Ends(d, next),
         Pc(d) \notin Rounding, Pc(d) \notin Results,
         next \in {"absent"} \cup Forward => Pc(d) \in {"absent"} \cup Forward
  PROVE  /\ Changes(d) /\ RoundOK(wf'[d])
         /\ \/ wf'[d].pc \in {next, wf[d].pc} /\ wf'[d].error = wf[d].error
            \/ /\ Pc(d) \in Failing /\ wf'[d].pc = OnFailure(d)
               /\ Pc(d) \notin Compensation => wf'[d].error = wf[d].error
<1>1. /\ Changes(d)
      /\ wf'[d].good = wf[d].good /\ wf'[d].bad = wf[d].bad /\ wf'[d].pending = wf[d].pending
      /\ \/ wf'[d].pc \in {next, wf[d].pc} /\ wf'[d].error = wf[d].error
         \/ /\ Pc(d) \in Failing /\ wf'[d].pc = OnFailure(d)
            /\ Pc(d) \notin Compensation => wf'[d].error = wf[d].error
  BY Moved DEF SagaInv, Ends, Changes
<1>2. Pc(d) \in Failing => OnFailure(d) \in Compensation \cup {"raised"}
  BY FailureStages
<1>3. RoundOK(wf[d])
  BY DEF SagaInv
<1>4. RoundOK(wf'[d])
  BY <1>1, <1>2, <1>3 DEF RoundOK, Pc, Forward, Rounding, Compensation
<1> QED
  BY <1>1, <1>4

\* Only a call of Calls is ever left on its way.
LEMMA AbandonedCalls ==
  ASSUME NEW d \in Deployments, NEW call, Abandon(d, call)
  PROVE  /\ inflight' \subseteq inflight \cup {<<d, c>> : c \in Calls}
         /\ call \notin Calls => inflight' = inflight
<1>1. PICK late \in Leftovers(d, call) : inflight' = inflight \cup late
  BY DEF Abandon
<1>2. late = {} \/ \E c \in {call} \cap LateCalls : late = {<<d, c>>}
  BY DEF Leftovers
<1> QED
  BY <1>1, <1>2, SagaAssumption

\* An unapproved workflow that waits, asks, or ends: see Sealed.
LEMMA EarlyStep ==
  ASSUME SagaInv, NEW d \in Deployments,
         ReadApproval(d) \/ WaitForApproval(d) \/ Reject(d) \/ Conclude(d)
  PROVE  GoodStep
<1> USE DEF Stages, Forward, Rounding, Results, Compensation, Pc
<1>1. TypeOK /\ SagaTypeOK /\ wf[d] \in Workflows /\ approval[d] \in Approvals
  BY DEF SagaInv, SagaTypeOK, TypeOK
<1>2. approval[d] # "APPROVED" => Sealed(d)
  BY DEF SagaInv, SealedUntilApproved
<1>3. "approval" \notin Calls /\ "reject" \notin Calls /\ "conclude" \notin Calls
  BY DEF Calls, Branches
<1>4. CASE ReadApproval(d)
  <2> DEFINE next == CASE approval[d] = "PENDING"  -> "waiting"
                       [] approval[d] = "APPROVED" -> "start"
                       [] OTHER                    -> "reject"
  <2>1. /\ wf[d].pc = "approval" /\ Ends(d, next) /\ UNCHANGED <<world, inflight>>
    BY <1>3, <1>4, AbandonedCalls DEF ReadApproval, Attempt, Ends, Failing
  <2>2. next \in {"waiting", "start", "reject"} /\ (next = "start" => approval[d] = "APPROVED")
    OBVIOUS
  <2> HIDE DEF next
  <2>3. OnFailure(d) = "conclude"
    BY <2>1, FailureStages DEF Failing
  <2>4. Changes(d) /\ RoundOK(wf'[d])
        /\ \/ wf'[d].pc \in {next, wf[d].pc} /\ wf'[d].error = wf[d].error
           \/ wf'[d].pc = "conclude" /\ wf'[d].error = wf[d].error
    BY <2>1, <2>2, <2>3, EndsMoves
  <2>5. UNCHANGED regVars /\ UNCHANGED resVars /\ estado' = estado
    BY <2>1 DEF world, regVars
  <2>6. wf'[d].pc \notin Results
    BY <2>1, <2>2, <2>4
  <2>7. approval[d] # "APPROVED" =>
          /\ wf'[d].pc \in Early /\ (wf'[d].pc # "raised" => ~wf'[d].error)
          /\ estado'[d] \notin {"IN_PROGRESS", "COMPLETED", "FAILED"} /\ inflight' = inflight
    BY <1>2, <2>1, <2>2, <2>4, <2>5 DEF Sealed, Early
  <2> QED
    BY <2>1, <2>4, <2>5, <2>6, <2>7, QuietStep DEF Ends
<1>5. CASE WaitForApproval(d)
  <2> DEFINE next == IF signal[d] = "APPROVED" THEN "start" ELSE "reject"
  <2>1. /\ wf[d].pc = "waiting" /\ Ends(d, next) /\ UNCHANGED <<world, inflight>>
    BY <1>5 DEF WaitForApproval, Ends
  <2>2. /\ next \in {"start", "reject"}
        /\ next = "start" => approval[d] = "APPROVED"
    BY <1>2 DEF Sealed
  <2> HIDE DEF next
  <2>3. Changes(d) /\ RoundOK(wf'[d])
        /\ wf'[d].pc \in {next, wf[d].pc} /\ wf'[d].error = wf[d].error
    BY <2>1, <2>2, EndsMoves DEF Failing
  <2>4. UNCHANGED regVars /\ UNCHANGED resVars /\ estado' = estado
    BY <2>1 DEF world, regVars
  <2>5. wf'[d].pc \notin Results
    BY <2>1, <2>2, <2>3
  <2>6. approval[d] # "APPROVED" =>
          /\ wf'[d].pc \in Early /\ (wf'[d].pc # "raised" => ~wf'[d].error)
          /\ estado'[d] \notin {"IN_PROGRESS", "COMPLETED", "FAILED"} /\ inflight' = inflight
    BY <1>2, <2>1, <2>2, <2>3, <2>4 DEF Sealed, Early
  <2> QED
    BY <2>1, <2>3, <2>4, <2>5, <2>6, QuietStep DEF Ends
<1>6. CASE Reject(d)
  <2>1. /\ wf[d].pc = "reject" /\ Ends(d, "REJECTED") /\ UNCHANGED <<resVars, inflight>>
        /\ \/ FinishDeployment(d, "REJECTED")
           \/ UNCHANGED regVars /\ (Retry(d) \/ Fail(d))
    BY <1>3, <1>6, AbandonedCalls DEF Reject, Attempt, Ends, Failing, world
  <2>2. OnFailure(d) = "conclude"
    BY <2>1, FailureStages DEF Failing
  <2>3. Changes(d) /\ RoundOK(wf'[d]) /\ wf'[d].error = wf[d].error
        /\ wf'[d].pc \in {"REJECTED", "reject", "conclude"}
    BY <2>1, <2>2, EndsMoves DEF Failing
  <2>4. wf'[d].pc = "REJECTED" => FinishDeployment(d, "REJECTED")
    <3>1. SUFFICES ASSUME Retry(d) \/ Fail(d) PROVE wf'[d].pc # "REJECTED"
      BY <2>1
    <3>2. Ends(d, "reject")
      BY <2>1, <3>1 DEF Ends, Failing
    <3> QED
      BY <2>1, <2>2, <3>2, EndsMoves
  <2>5. /\ [RegNext]_regVars /\ \A e \in Deployments \ {d} : estado'[e] = estado[e]
        /\ estado'[d] \in {estado[d], "REJECTED"}
        /\ wf'[d].pc = "REJECTED" => estado'[d] = "REJECTED"
    <3>1. CASE FinishDeployment(d, "REJECTED")
      BY <1>1, <3>1, FinishRecords DEF Outcomes
    <3>2. CASE UNCHANGED regVars /\ wf'[d].pc # "REJECTED"
      BY <3>2 DEF regVars
    <3> QED
      BY <2>1, <2>4, <3>1, <3>2
  <2>6. wf'[d].pc \in Results => estado'[d] = wf'[d].pc
    BY <2>3, <2>5
  <2>7. approval[d] # "APPROVED" =>
          /\ wf'[d].pc \in Early /\ (wf'[d].pc # "raised" => ~wf'[d].error)
          /\ estado'[d] \notin {"IN_PROGRESS", "COMPLETED", "FAILED"} /\ inflight' = inflight
    BY <1>2, <2>1, <2>3, <2>5 DEF Sealed, Early
  <2> QED
    BY <2>1, <2>3, <2>5, <2>6, <2>7, QuietStep DEF Ends
<1>7. CASE Conclude(d)
  <2> DEFINE next == Outcome(d)
  <2>1. /\ wf[d].pc = "conclude" /\ Ends(d, next) /\ UNCHANGED <<resVars, inflight>>
        /\ \/ FinishDeployment(d, next)
           \/ UNCHANGED regVars /\ (Retry(d) \/ Fail(d))
    BY <1>3, <1>7, AbandonedCalls DEF Conclude, Attempt, Ends, Failing, world
  <2>2. next \in {"FAILED", "COMPENSATED"} /\ (~wf[d].error => next = "COMPENSATED")
    BY DEF Outcome
  <2> HIDE DEF next
  <2>3. OnFailure(d) = "raised"
    BY <2>1, FailureStages DEF Failing
  <2>4. Changes(d) /\ RoundOK(wf'[d])
        /\ \/ wf'[d].pc \in {next, "conclude"} /\ wf'[d].error = wf[d].error
           \/ wf'[d].pc = "raised"
    BY <2>1, <2>2, <2>3, EndsMoves DEF Failing
  <2>5. wf'[d].pc = next => FinishDeployment(d, next)
    <3>1. SUFFICES ASSUME Retry(d) \/ Fail(d) PROVE wf'[d].pc # next
      BY <2>1
    <3>2. Ends(d, "conclude")
      BY <2>1, <3>1 DEF Ends, Failing
    <3> QED
      BY <2>1, <2>2, <2>3, <3>2, EndsMoves
  <2>6. /\ [RegNext]_regVars /\ \A e \in Deployments \ {d} : estado'[e] = estado[e]
        /\ estado'[d] \in {estado[d], next}
        /\ wf'[d].pc = next => estado'[d] = next
    <3>1. CASE FinishDeployment(d, next)
      BY <1>1, <2>2, <3>1, FinishRecords DEF Outcomes
    <3>2. CASE UNCHANGED regVars /\ wf'[d].pc # next
      BY <3>2 DEF regVars
    <3> QED
      BY <2>1, <2>5, <3>1, <3>2
  <2>7. wf'[d].pc \in Results => estado'[d] = wf'[d].pc
    BY <2>2, <2>4, <2>6
  <2>8. approval[d] # "APPROVED" =>
          /\ wf'[d].pc \in Early /\ (wf'[d].pc # "raised" => ~wf'[d].error)
          /\ estado'[d] \notin {"IN_PROGRESS", "COMPLETED", "FAILED"} /\ inflight' = inflight
    BY <1>2, <2>1, <2>2, <2>4, <2>6 DEF Sealed, Early
  <2> QED
    BY <2>1, <2>4, <2>6, <2>7, <2>8, QuietStep DEF Ends
<1> QED
  BY <1>4, <1>5, <1>6, <1>7

-----------------------------------------------------------------------------
\* What the calls of an approved workflow do.

\* A step that leaves the world alone, or makes one call to the registry.
LEMMA RegistryEffects ==
  ASSUME SagaInv, NEW d \in Deployments,
         \/ UNCHANGED world
         \/ /\ UNCHANGED resVars
            /\ \/ StartDeployment(d) \/ CreateInventory(d)
               \/ ReservePlacement(d) \/ RollbackPlacement(d)
               \/ \E outcome \in Outcomes : FinishDeployment(d, outcome)
               \/ \E good, bad \in SUBSET Actions :
                    good \cap bad = {} /\ RecordRoundFacts(d, good, bad)
  PROVE  Effects(d)
<1>1. SagaTypeOK /\ TypeOK
  BY DEF SagaInv, SagaTypeOK
<1>2. UNCHANGED resVars
  BY DEF world
<1>3. /\ tagOwner' = tagOwner /\ display' = display /\ host' = host
  BY <1>2 DEF resVars
<1>4. [RegNext]_regVars /\ \A e \in Deployments \ {d} : estado'[e] = estado[e]
  <2>1. CASE UNCHANGED world
    BY <2>1 DEF world, regVars
  <2>2. CASE StartDeployment(d) \/ CreateInventory(d)
             \/ ReservePlacement(d) \/ RollbackPlacement(d)
    <3>1. RegNext
      BY <2>2 DEF RegNext, InternalCall
    <3>2. \A e \in Deployments \ {d} : estado'[e] = estado[e]
      BY <1>1, <2>2
      DEF StartDeployment, CreateInventory, ReservePlacement, RollbackPlacement, TypeOK
    <3> QED
      BY <3>1, <3>2
  <2>3. CASE \E outcome \in Outcomes : FinishDeployment(d, outcome)
    BY <1>1, <2>3, FinishRecords
  <2>4. CASE \E good, bad \in SUBSET Actions :
               good \cap bad = {} /\ RecordRoundFacts(d, good, bad)
    <3>1. PICK good \in SUBSET Actions, bad \in SUBSET Actions :
            good \cap bad = {} /\ RecordRoundFacts(d, good, bad)
      BY <2>4
    <3>2. RegNext /\ estado' = estado
      BY <3>1, FactsAreRegNext DEF RecordRoundFacts
    <3> QED
      BY <3>2
  <2> QED
    BY <2>1, <2>2, <2>3, <2>4
<1> QED
  BY <1>1, <1>3, <1>4 DEF Effects, SagaTypeOK

\* The allocators and the adapters change nothing in the registry.
LEMMA ResourceEffects ==
  ASSUME SagaInv, NEW d \in Deployments, UNCHANGED regVars,
         \/ NetworkAllocate(d) \/ ComputeAllocate(d)
         \/ /\ tagOwner' = [s \in Slices |-> IF tagOwner[s] = d THEN NoDeployment
                                             ELSE tagOwner[s]]
            /\ UNCHANGED <<display, host>>
         \/ /\ display' = [display EXCEPT ![d] = @ \ {n \in Nodes : nodes[d][n] = "PENDING"}]
            /\ UNCHANGED <<tagOwner, host>>
         \/ /\ UNCHANGED host \/ \E a \in Actions, c \in BOOLEAN : Handled(d, a, c)
            /\ UNCHANGED <<tagOwner, display>>
  PROVE  Effects(d)
<1>1. /\ tagOwner \in [Slices -> Deployments \cup {NoDeployment}]
      /\ display \in [Deployments -> SUBSET Nodes] /\ host \in [Deployments -> SUBSET Actions]
  BY DEF SagaInv, SagaTypeOK
<1>2. [RegNext]_regVars /\ estado' = estado
  BY DEF regVars
<1>3. CASE NetworkAllocate(d)
  BY <1>1, <1>2, <1>3 DEF NetworkAllocate, Effects
<1>4. CASE ComputeAllocate(d)
  BY <1>1, <1>2, <1>4 DEF ComputeAllocate, Effects
<1>5. CASE /\ tagOwner' = [s \in Slices |-> IF tagOwner[s] = d THEN NoDeployment
                                            ELSE tagOwner[s]]
           /\ UNCHANGED <<display, host>>
  BY <1>1, <1>2, <1>5 DEF Effects
<1>6. CASE /\ display' = [display EXCEPT ![d] = @ \ {n \in Nodes : nodes[d][n] = "PENDING"}]
           /\ UNCHANGED <<tagOwner, host>>
  BY <1>1, <1>2, <1>6 DEF Effects
<1>7. CASE /\ \E a \in Actions, c \in BOOLEAN : Handled(d, a, c)
           /\ UNCHANGED <<tagOwner, display>>
  <2>1. PICK a \in Actions, c \in BOOLEAN : Handled(d, a, c)
    BY <1>7
  <2>2. host' \in [Deployments -> SUBSET Actions]
        /\ \A e \in Deployments \ {d} : host'[e] \subseteq host[e]
    <3>1. CASE ~c
      BY <1>1, <2>1, <3>1 DEF Handled
    <3>2. CASE c /\ a \in Links
      BY <1>1, <2>1, <3>2 DEF Handled
    <3>3. CASE c /\ a \notin Links
      BY <1>1, <2>1, <3>3 DEF Handled
    <3> QED
      BY <3>1, <3>2, <3>3
  <2> QED
    BY <1>1, <1>2, <1>7, <2>2 DEF Effects
<1>8. CASE UNCHANGED <<tagOwner, display, host>>
  BY <1>1, <1>2, <1>8 DEF Effects
<1> QED
  BY <1>3, <1>4, <1>5, <1>6, <1>7, <1>8

\* An activity of an approved workflow that takes its effect, if it does, and
\* leads to next, to another attempt, or to the compensation.
LEMMA ActivityStep ==
  ASSUME SagaInv, NEW d \in Deployments, NEW next \in Stages \ (Rounding \cup Results),
         Pc(d) \notin Early \cup Rounding \cup Results, Ends(d, next), Effects(d),
         next \in {"absent"} \cup Forward => Pc(d) \in Forward
  PROVE  GoodStep
<1>1. approval[d] = "APPROVED"
  BY PastApproval
<1>2. /\ Changes(d) /\ RoundOK(wf'[d])
      /\ \/ wf'[d].pc \in {next, Pc(d)}
         \/ Pc(d) \in Failing /\ wf'[d].pc = OnFailure(d)
  BY EndsMoves DEF Pc
<1>3. wf'[d].pc \notin Results
  BY <1>2, FailureStages DEF Compensation, Results
<1> QED
  BY <1>1, <1>2, <1>3, ApprovedStep DEF Ends

\* The activities of run() and _compensate() that cannot be the last one.
LEMMA ActivitiesPreserve ==
  ASSUME SagaInv, NEW d \in Deployments,
         \/ Start(d) \/ GetPlan(d) \/ Inventory(d) \/ Compute(d)
         \/ UndoCompute(d) \/ UndoActionsEnds(d) \/ UndoNetwork(d) \/ UndoPlacement(d)
  PROVE  GoodStep
<1> USE DEF Stages, Forward, Rounding, Results, Compensation, Failing, Early
<1> USE AbandonedCalls
<1>1. CASE Start(d)
  <2>1. /\ Pc(d) = "start" /\ Ends(d, "plan")
        /\ UNCHANGED world \/ (StartDeployment(d) /\ UNCHANGED resVars)
    BY <1>1 DEF Start, Attempt, Ends
  <2>2. Effects(d)
    BY <2>1, RegistryEffects DEF world
  <2> QED
    BY <2>1, <2>2, ActivityStep
<1>2. CASE GetPlan(d)
  <2>1. Pc(d) = "plan" /\ Ends(d, "inventory") /\ UNCHANGED world
    BY <1>2 DEF GetPlan, Attempt, Ends
  <2>2. Effects(d)
    BY <2>1, RegistryEffects
  <2> QED
    BY <2>1, <2>2, ActivityStep
<1>3. CASE Inventory(d)
  <2>1. /\ Pc(d) = "inventory" /\ Ends(d, "allocate")
        /\ UNCHANGED world \/ (CreateInventory(d) /\ UNCHANGED resVars)
    BY <1>3 DEF Inventory, Attempt, Ends
  <2>2. Effects(d)
    BY <2>1, RegistryEffects
  <2> QED
    BY <2>1, <2>2, ActivityStep
<1>4. CASE Compute(d)
  <2>1. Pc(d) = "compute" /\ Ends(d, "prepare") /\ (UNCHANGED world \/ ComputeAllocate(d))
    BY <1>4 DEF Compute, Attempt, Ends
  <2>2. Effects(d)
    BY <2>1, RegistryEffects, ResourceEffects DEF ComputeAllocate
  <2> QED
    BY <2>1, <2>2, ActivityStep
<1>5. CASE UndoCompute(d)
  <2>1. /\ Pc(d) = "undo_compute" /\ Ends(d, "undo_actions")
        /\ \/ UNCHANGED world
           \/ /\ display' = [display EXCEPT ![d] = @ \ {n \in Nodes : nodes[d][n] = "PENDING"}]
              /\ UNCHANGED <<regVars, tagOwner, host>>
    BY <1>5 DEF UndoCompute, Attempt, Ends
  <2>2. Effects(d)
    BY <2>1, RegistryEffects, ResourceEffects
  <2> QED
    BY <2>1, <2>2, ActivityStep
<1>6. CASE UndoActionsEnds(d)
  <2>1. Pc(d) = "undo_actions" /\ Ends(d, "undo_network") /\ UNCHANGED world
    BY <1>6 DEF UndoActionsEnds, Ends
  <2>2. Effects(d)
    BY <2>1, RegistryEffects
  <2> QED
    BY <2>1, <2>2, ActivityStep
<1>7. CASE UndoNetwork(d)
  <2> DEFINE next == AfterUndoNetwork(d)
  <2>1. /\ Pc(d) = "undo_network" /\ Ends(d, next)
        /\ \/ UNCHANGED world
           \/ /\ tagOwner' = [s \in Slices |-> IF tagOwner[s] = d THEN NoDeployment
                                               ELSE tagOwner[s]]
              /\ UNCHANGED <<regVars, display, host>>
    BY <1>7 DEF UndoNetwork, Attempt, Ends
  <2>2. next \in {"conclude", "undo_placement"}
    BY DEF AfterUndoNetwork
  <2> HIDE DEF next
  <2>3. Effects(d)
    BY <2>1, RegistryEffects, ResourceEffects
  <2> QED
    BY <2>1, <2>2, <2>3, ActivityStep
<1>8. CASE UndoPlacement(d)
  <2>1. /\ Pc(d) = "undo_placement" /\ Ends(d, "conclude")
        /\ UNCHANGED world \/ (RollbackPlacement(d) /\ UNCHANGED resVars)
    BY <1>8 DEF UndoPlacement, Attempt, Ends
  <2>2. Effects(d)
    BY <2>1, RegistryEffects
  <2> QED
    BY <2>1, <2>2, ActivityStep
<1> QED
  BY <1>1, <1>2, <1>3, <1>4, <1>5, <1>6, <1>7, <1>8

\* finish_deployment(COMPLETED).
LEMMA CompletePreserves ==
  ASSUME SagaInv, NEW d \in Deployments, Complete(d)
  PROVE  GoodStep
<1> USE DEF Stages, Forward, Rounding, Results, Compensation, Failing
<1>1. /\ Pc(d) = "complete" /\ Ends(d, "COMPLETED") /\ UNCHANGED resVars
      /\ \/ FinishDeployment(d, "COMPLETED")
         \/ UNCHANGED regVars /\ (Retry(d) \/ Fail(d))
  BY AbandonedCalls DEF Complete, Attempt, Ends, world
<1>2. approval[d] = "APPROVED" /\ TypeOK
  BY <1>1, PastApproval DEF Early, SagaInv, SagaTypeOK
<1>3. OnFailure(d) \in Compensation \cup {"raised"}
  BY <1>1, FailureStages
<1>4. Changes(d) /\ RoundOK(wf'[d]) /\ wf'[d].pc \in {"COMPLETED", "complete", OnFailure(d)}
  BY <1>1, EndsMoves DEF Pc
<1>5. CASE FinishDeployment(d, "COMPLETED")
  <2>1. Effects(d) /\ estado'[d] = "COMPLETED"
    BY <1>1, <1>2, <1>5, FinishRecords, RegistryEffects DEF Outcomes
  <2> QED
    BY <1>1, <1>2, <1>3, <1>4, <2>1, ApprovedStep DEF Ends
<1>6. CASE UNCHANGED regVars /\ (Retry(d) \/ Fail(d))
  <2>1. Effects(d)
    BY <1>1, <1>6, RegistryEffects DEF world
  <2>2. Ends(d, "complete")
    BY <1>1, <1>6 DEF Ends
  <2>3. wf'[d].pc \in {"complete", OnFailure(d)}
    BY <1>1, <2>2, EndsMoves DEF Pc
  <2> QED
    BY <1>1, <1>2, <1>3, <1>4, <2>1, <2>3, ApprovedStep DEF Ends
<1> QED
  BY <1>1, <1>5, <1>6

\* The gather, and the call it leaves behind.
LEMMA GatherPreserves ==
  ASSUME SagaInv, NEW d \in Deployments,
         \/ Fork(d) \/ \E b \in Branches : AttemptBranch(d, b)
         \/ \E call \in Calls : LateCall(d, call)
  PROVE  GoodStep
<1>1. /\ SagaTypeOK /\ wf \in [Deployments -> Workflows] /\ inflight \subseteq Deployments \X Calls
      /\ RoundOK(wf[d]) /\ (Pc(d) \in Results => estado[d] = Pc(d))
  BY DEF SagaInv, SagaTypeOK, ResultRecorded
<1>2. CASE Fork(d)
  <2> DEFINE br == [b \in Branches |-> IF b = "network" \/ Nodes # {} THEN "run" ELSE "idle"]
             x == [wf[d] EXCEPT !.branch = br]
  <2>1. /\ Pc(d) = "allocate" /\ UNCHANGED <<world, starting, signalling, signal, inflight>>
        /\ wf' = [wf EXCEPT ![d] = x]
    BY <1>1, <1>2 DEF Fork, Workflows
  <2>2. br \in [Branches -> {"idle", "run", "ok", "failed", "lost"}]
    OBVIOUS
  <2> HIDE DEF br
  <2>3. x \in Workflows /\ x.pc = wf[d].pc /\ x.good = wf[d].good /\ x.bad = wf[d].bad
        /\ x.pending = wf[d].pending
    BY <1>1, <2>2 DEF Workflows
  <2> HIDE DEF x
  <2>4. Changes(d) /\ RoundOK(wf'[d]) /\ wf'[d].pc = "allocate"
    BY <1>1, <2>1, <2>3 DEF Changes, RoundOK, Pc
  <2>5. Effects(d) /\ approval[d] = "APPROVED"
    BY <2>1, RegistryEffects, PastApproval DEF Early
  <2> QED
    BY <2>1, <2>4, <2>5, ApprovedStep DEF Results
<1>3. ASSUME NEW b \in Branches, AttemptBranch(d, b)
      PROVE  GoodStep
  <2>1. /\ Pc(d) = "allocate" /\ UNCHANGED <<starting, signalling, signal>>
        /\ UNCHANGED world \/ BranchEffect(d, b)
    BY <1>3 DEF AttemptBranch
  <2>2. \E late \in SUBSET {<<d, c>> : c \in Calls} :
          BranchDone(d, b) \/ BranchRetries(d, b, late) \/ BranchFails(d, b, late)
    <3>1. BranchDone(d, b) \/ BranchRetries(d, b, {}) \/ BranchFails(d, b, {})
          \/ \E late \in Leftovers(d, b) : BranchRetries(d, b, late)
      BY <1>3 DEF AttemptBranch
    <3>2. \A late \in Leftovers(d, b) : late \in SUBSET {<<d, c>> : c \in Calls}
      BY SagaAssumption DEF Leftovers
    <3> QED
      BY <3>1, <3>2
  <2>3. /\ Changes(d) /\ RoundOK(wf'[d]) /\ wf'[d].pc \notin Results
        /\ inflight' \subseteq inflight \cup {<<d, c>> : c \in Calls}
    BY <1>1, <2>1, <2>2, GatherMoves
  <2>4. Effects(d)
    BY <2>1, RegistryEffects, ResourceEffects DEF BranchEffect, NetworkAllocate
  <2>5. approval[d] = "APPROVED"
    BY <2>1, PastApproval DEF Early
  <2> QED
    BY <2>1, <2>3, <2>4, <2>5, ApprovedStep
<1>4. ASSUME NEW call \in Calls, LateCall(d, call)
      PROVE  GoodStep
  <2>1. <<d, call>> \in inflight /\ UNCHANGED <<wf, starting, signalling, signal, inflight>>
    BY <1>4 DEF LateCall
  <2>2. Effects(d)
    BY <1>4, RegistryEffects, ResourceEffects
    DEF LateCall, BranchEffect, NetworkAllocate, ComputeAllocate
  <2>3. approval[d] = "APPROVED"
    BY <2>1, PastApproval
  <2>4. Changes(d) /\ RoundOK(wf'[d])
    BY <1>1, <2>1 DEF Changes
  <2>5. FinalStep
    BY <2>2, StepIsFinal DEF SagaInv, Effects
  <2>6. wf'[d].pc \in Results => estado'[d] = wf'[d].pc
    BY <1>1, <2>1, <2>5 DEF FinalStep, Results, Outcomes, Pc
  <2> QED
    BY <2>1, <2>2, <2>3, <2>4, <2>6, ApprovedStep
<1> QED
  BY <1>2, <1>3, <1>4

\* The rounds of adapter actions and their facts.
LEMMA RoundsPreserve ==
  ASSUME SagaInv, NEW d \in Deployments,
         \/ PrepareActions(d) \/ RoundEnds(d) \/ RecordFacts(d)
         \/ \E a \in Actions : ActionEnds(d, a) \/ UndoAction(d, a)
  PROVE  GoodStep
<1>1. /\ SagaTypeOK /\ wf \in [Deployments -> Workflows] /\ wf[d] \in Workflows
      /\ RoundOK(wf[d])
  BY DEF SagaInv, SagaTypeOK
<1>2. Pc(d) \in {"prepare", "round", "facts", "undo_actions"} => approval[d] = "APPROVED"
  BY PastApproval DEF Early
<1>3. CASE PrepareActions(d)
  <2>1. /\ Pc(d) = "prepare" /\ (NextRound(d) \/ Fail(d)) /\ UNCHANGED <<world, inflight>>
        /\ UNCHANGED <<starting, signalling, signal>>
    BY <1>3 DEF PrepareActions
  <2>2. Effects(d) /\ wf[d].bad = {}
    BY <1>1, <2>1, RegistryEffects DEF RoundOK, Forward, Rounding, Pc
  <2>3. CASE NextRound(d)
    BY <1>1, <1>2, <2>1, <2>2, <2>3, RoundStarts, ApprovedStep DEF Results
  <2>4. CASE Fail(d)
    <3>1. Ends(d, "conclude") /\ Pc(d) \notin Early \cup Rounding \cup Results
      BY <2>1, <2>4 DEF Ends, Failing, Forward, Early, Rounding, Results
    <3> QED
      BY <2>2, <3>1, ActivityStep DEF Stages, Compensation, Rounding, Results, Forward
  <2> QED
    BY <2>1, <2>3, <2>4
<1>4. CASE RoundEnds(d)
  <2> DEFINE done == wf[d].applied \cup wf[d].good
             x == [wf[d] EXCEPT !.pc = "facts", !.applied = done]
  <2>1. /\ Pc(d) = "round" /\ UNCHANGED <<world, starting, signalling, signal, inflight>>
        /\ wf' = [wf EXCEPT ![d] = x]
    BY <1>1, <1>4 DEF RoundEnds, Workflows
  <2>2. done \in SUBSET Actions
    BY <1>1 DEF Workflows
  <2> HIDE DEF done
  <2>3. /\ x \in Workflows /\ x.pc = "facts" /\ x.good = wf[d].good /\ x.bad = wf[d].bad
        /\ x.pending = wf[d].pending
    BY <1>1, <2>2 DEF Workflows, Stages, Forward
  <2> HIDE DEF x
  <2>4. Changes(d) /\ RoundOK(wf'[d]) /\ wf'[d].pc = "facts"
    BY <1>1, <2>1, <2>3 DEF Changes, RoundOK, Pc, Rounding, Forward
  <2>5. Effects(d)
    BY <2>1, RegistryEffects
  <2> QED
    BY <1>2, <2>1, <2>4, <2>5, ApprovedStep DEF Results
<1>5. CASE RecordFacts(d)
  <2>1. /\ Pc(d) = "facts" /\ UNCHANGED <<starting, signalling, signal, inflight>>
        /\ UNCHANGED resVars
        /\ UNCHANGED regVars \/ RecordRoundFacts(d, wf[d].good, wf[d].bad)
        /\ \/ Fail(d) \/ Retry(d)
           \/ NextRound(d) /\ wf[d].bad = {}
    BY <1>5 DEF RecordFacts, AfterFacts, world
  <2>2. wf[d].good \in SUBSET Actions /\ wf[d].bad \in SUBSET Actions
        /\ wf[d].good \cap wf[d].bad = {}
    BY <1>1, <2>1 DEF Workflows, RoundOK, Rounding, Pc
  <2>3. Effects(d)
    BY <2>1, <2>2, RegistryEffects DEF world
  <2>4. CASE NextRound(d) /\ wf[d].bad = {}
    BY <1>1, <1>2, <2>1, <2>3, <2>4, RoundStarts, ApprovedStep DEF Results
  <2>5. CASE Fail(d) \/ Retry(d)
    <3>1. "facts" \in Stages /\ Pc(d) \in Failing
      BY <2>1 DEF Stages, Forward, Failing
    <3>2. OnFailure(d) \in Compensation \cup {"raised"}
      BY <3>1, FailureStages
    <3>3. /\ Changes(d) /\ wf'[d].good = wf[d].good /\ wf'[d].bad = wf[d].bad
          /\ wf'[d].pending = wf[d].pending
          /\ wf'[d].pc \in {"facts", OnFailure(d)}
      BY <1>1, <2>1, <2>5, <3>1, Moved DEF Changes, Pc
    <3>4. RoundOK(wf'[d]) /\ wf'[d].pc \notin Results
      BY <1>1, <2>1, <3>2, <3>3
      DEF RoundOK, Pc, Rounding, Forward, Compensation, Results
    <3> QED
      BY <1>2, <2>1, <2>3, <3>3, <3>4, ApprovedStep
  <2> QED
    BY <2>1, <2>4, <2>5
<1>6. ASSUME NEW a \in Actions, ActionEnds(d, a)
      PROVE  GoodStep
  <2> DEFINE p == wf[d].pending \ {a}
             g == wf[d].good \cup {a}
             b == wf[d].bad \cup {a}
             x == [wf[d] EXCEPT !.pending = p, !.good = g]
             y == [wf[d] EXCEPT !.pending = p, !.bad = b]
  <2>1. /\ Pc(d) = "round" /\ a \in wf[d].pending
        /\ UNCHANGED <<regVars, tagOwner, display, starting, signalling, signal, inflight>>
        /\ UNCHANGED host \/ Handled(d, a, FALSE)
        /\ wf' = [wf EXCEPT ![d] = x] \/ wf' = [wf EXCEPT ![d] = y]
    BY <1>1, <1>6 DEF ActionEnds, Workflows
  <2>2. p \in SUBSET Actions /\ g \in SUBSET Actions /\ b \in SUBSET Actions
    BY <1>1 DEF Workflows
  <2>3. /\ wf[d].good \cap wf[d].bad = {} /\ wf[d].pending \cap wf[d].good = {}
        /\ wf[d].pending \cap wf[d].bad = {}
    BY <1>1, <2>1 DEF RoundOK, Rounding, Pc
  <2>4. /\ g \cap wf[d].bad = {} /\ wf[d].good \cap b = {}
        /\ p \cap g = {} /\ p \cap b = {} /\ p \cap wf[d].good = {} /\ p \cap wf[d].bad = {}
    BY <2>1, <2>3
  <2> HIDE DEF p, g, b
  <2>5. /\ x \in Workflows /\ x.pc = "round" /\ x.pending = p /\ x.good = g
        /\ x.bad = wf[d].bad
    BY <1>1, <2>1, <2>2 DEF Workflows, Pc
  <2>6. /\ y \in Workflows /\ y.pc = "round" /\ y.pending = p /\ y.bad = b
        /\ y.good = wf[d].good
    BY <1>1, <2>1, <2>2 DEF Workflows, Pc
  <2> HIDE DEF x, y
  <2>7. RoundOK(x) /\ RoundOK(y)
    BY <2>4, <2>5, <2>6 DEF RoundOK, Rounding, Forward
  <2>8. Changes(d) /\ RoundOK(wf'[d]) /\ wf'[d].pc = "round"
    BY <1>1, <2>1, <2>5, <2>6, <2>7 DEF Changes
  <2>9. Effects(d)
    BY <2>1, ResourceEffects
  <2> QED
    BY <1>2, <2>1, <2>8, <2>9, ApprovedStep DEF Results
<1>7. ASSUME NEW a \in Actions, UndoAction(d, a)
      PROVE  GoodStep
  <2> DEFINE rest == wf[d].applied \ {a}
             x == [wf[d] EXCEPT !.applied = rest]
             y == [wf[d] EXCEPT !.applied = rest, !.error = TRUE]
  <2>1. /\ Pc(d) = "undo_actions"
        /\ UNCHANGED <<regVars, tagOwner, display, starting, signalling, signal, inflight>>
        /\ UNCHANGED host \/ Handled(d, a, TRUE)
        /\ wf' = [wf EXCEPT ![d] = x] \/ wf' = [wf EXCEPT ![d] = y]
    BY <1>1, <1>7 DEF UndoAction, Workflows
  <2>2. rest \in SUBSET Actions
    BY <1>1 DEF Workflows
  <2> HIDE DEF rest
  <2>3. x \in Workflows /\ y \in Workflows /\ x.pc = "undo_actions" /\ y.pc = "undo_actions"
    BY <1>1, <2>1, <2>2 DEF Workflows, Pc
  <2> HIDE DEF x, y
  <2>4. Changes(d) /\ RoundOK(wf'[d]) /\ wf'[d].pc = "undo_actions"
    BY <1>1, <2>1, <2>3 DEF Changes, RoundOK, Rounding, Forward
  <2>5. Effects(d)
    BY <2>1, ResourceEffects
  <2> QED
    BY <1>2, <2>1, <2>4, <2>5, ApprovedStep DEF Results
<1> QED
  BY <1>3, <1>4, <1>5, <1>6, <1>7

-----------------------------------------------------------------------------
\* Requests, and what is sent to Temporal.
LEMMA RequestsPreserve ==
  ASSUME SagaInv, Request
  PROVE  GoodStep
<1>1. /\ TypeOK /\ SagaTypeOK /\ wf \in [Deployments -> Workflows]
      /\ ApprovedBeforeStart /\ SealedUntilApproved /\ ResultRecorded
      /\ \A e \in Deployments : RoundOK(wf[e])
      /\ tagOwner \in [Slices -> Deployments \cup {NoDeployment}]
      /\ display \in [Deployments -> SUBSET Nodes] /\ host \in [Deployments -> SUBSET Actions]
      /\ starting \subseteq Deployments /\ signal \in [Deployments -> Decisions \cup {"none"}]
  BY DEF SagaInv, SagaTypeOK, RegInv
<1>2. ASSUME UNCHANGED <<resVars, wf, signal, inflight, signalling>>, [RegNext]_regVars,
             starting' \subseteq Deployments,
             NEW d \in Deployments, \A e \in Deployments \ {d} : estado'[e] = estado[e],
             estado'[d] = estado[d]
               \/ (approval[d] # "APPROVED" /\ wf[d].pc \notin Results
                   /\ estado'[d] \in {"REJECTED", "PENDING"})
      PROVE  GoodStep
  <2>1. Changes(d) /\ RoundOK(wf'[d])
    BY <1>1, <1>2 DEF Changes
  <2>2. tagOwner' = tagOwner /\ display' = display /\ host' = host
    BY <1>2 DEF resVars
  <2>3. wf'[d].pc \in Results => estado'[d] = wf'[d].pc
    BY <1>1, <1>2 DEF ResultRecorded, Pc
  <2>4. approval'[d] # "APPROVED" => Sealed(d)'
    <3>1. SUFFICES ASSUME approval'[d] # "APPROVED" PROVE Sealed(d)'
      OBVIOUS
    <3>2. approval[d] # "APPROVED"
      BY <1>2, <3>1, StepIsFinal DEF SagaInv, FinalStep
    <3>3. Sealed(d)
      BY <1>1, <3>2 DEF SealedUntilApproved
    <3> QED
      BY <1>2, <2>2, <3>3 DEF Sealed
  <2> QED
    BY <1>1, <1>2, <2>1, <2>2, <2>3, <2>4, OthersKept
\* A deployment that does not exist has no approval and no result.
<1>3. ASSUME NEW d \in Deployments, ~Exists(d)
      PROVE  approval[d] # "APPROVED" /\ wf[d].pc \notin Results
  BY <1>1, <1>3 DEF ApprovedBeforeStart, ResultRecorded, Exists, Pc, Results
<1>4. CASE Prepare
  <2>1. UNCHANGED <<resVars, wf, signal, inflight, signalling, starting>>
    BY <1>4 DEF Prepare, UserRest
  <2>2. ASSUME NEW d \in Deployments, NEW v \in Versions, CreateRejectedDeployment(d, v)
        PROVE  GoodStep
    <3>1. RegNext
      BY <2>2 DEF RegNext, UserCall
    <3>2. ~Exists(d) /\ estado' = [estado EXCEPT ![d] = "REJECTED"]
      BY <2>2 DEF CreateRejectedDeployment
    <3> QED
      BY <1>1, <1>2, <1>3, <2>1, <3>1, <3>2 DEF TypeOK
  <2>3. CASE \/ \E s \in Slices, v \in Versions : CreateSlice(s, v)
             \/ \E v \in Versions : CreateVersion(v) \/ DeleteVersion(v)
    <3>1. RegNext
      BY <2>3 DEF RegNext, UserCall
    <3>2. estado' = estado
      BY <2>3 DEF CreateSlice, CreateVersion, DeleteVersion
    <3>3. CASE Deployments # {}
      <4>1. PICK d \in Deployments : TRUE
        BY <3>3
      <4> QED
        BY <1>1, <1>2, <2>1, <3>1, <3>2, <4>1
    <3>4. CASE Deployments = {}
      <4>1. RegInv'
        BY <3>1, CoreInductive, ApprovalInductive DEF SagaInv, RegInv, CoreInv
      <4>2. UNCHANGED <<tagOwner, display, host, wf, signal, inflight, signalling, starting>>
        BY <2>1 DEF resVars
      <4> QED
        BY <3>1, <3>4, <4>1, <4>2
        DEF SagaInv, SagaTypeOK, RegInv, CoreInv, SealedUntilApproved, ResultRecorded, GoodStep
    <3> QED
      BY <3>3, <3>4
  <2> QED
    BY <1>4, <2>2, <2>3 DEF Prepare
<1>5. ASSUME NEW d \in Deployments, NEW v \in Versions, RequestDeploy(d, v)
      PROVE  GoodStep
  <2>1. /\ CreatePendingDeployment(d, v) /\ starting' = starting \cup {d}
        /\ UNCHANGED <<resVars, wf, signal, inflight, signalling>>
    BY <1>5 DEF RequestDeploy, UserRest
  <2>2. RegNext
    BY <2>1 DEF RegNext, UserCall
  <2>3. ~Exists(d) /\ estado' = [estado EXCEPT ![d] = "PENDING"]
    BY <2>1 DEF CreatePendingDeployment
  <2> QED
    BY <1>1, <1>2, <1>3, <2>1, <2>2, <2>3 DEF TypeOK
<1>6. ASSUME NEW d \in Deployments, RequestAgain(d)
      PROVE  GoodStep
  <2>1. UNCHANGED <<regVars, resVars, wf, signal, inflight, signalling>>
        /\ starting' = starting \cup {d}
    BY <1>6 DEF RequestAgain, UserRest
  <2>2. estado' = estado
    BY <2>1 DEF regVars
  <2> QED
    BY <1>1, <1>2, <2>1, <2>2
<1>7. ASSUME NEW d \in Deployments, NEW decision \in Decisions, ApproveDeployment(d, decision)
      PROVE  GoodStep
  <2>1. /\ DecideApproval(d, decision) /\ signalling' = signalling \cup {<<d, decision>>}
        /\ UNCHANGED <<resVars, wf, signal, inflight, starting>>
    BY <1>7 DEF ApproveDeployment, UserRest
  <2>2. RegNext /\ estado' = estado /\ approval' = [approval EXCEPT ![d] = decision]
    BY <2>1 DEF RegNext, UserCall, DecideApproval
  <2>3. approval'[d] = decision
    BY <1>1, <2>2 DEF TypeOK
  <2>4. tagOwner' = tagOwner /\ display' = display /\ host' = host
    BY <2>1 DEF resVars
  <2>5. Changes(d) /\ RoundOK(wf'[d]) /\ (wf'[d].pc \in Results => estado'[d] = wf'[d].pc)
    BY <1>1, <2>1, <2>2 DEF Changes, ResultRecorded, Pc
  <2>6. approval'[d] # "APPROVED" => Sealed(d)'
    <3>1. SUFFICES ASSUME approval'[d] # "APPROVED" PROVE Sealed(d)'
      OBVIOUS
    <3>2. approval[d] # "APPROVED"
      BY <2>2, <3>1, StepIsFinal DEF SagaInv, FinalStep
    <3>3. Sealed(d)
      BY <1>1, <3>2 DEF SealedUntilApproved
    <3> QED
      BY <2>1, <2>2, <2>3, <2>4, <3>1, <3>3 DEF Sealed
  <2> QED
    BY <1>1, <2>1, <2>2, <2>4, <2>5, <2>6, OthersKept
<1> QED
  BY <1>4, <1>5, <1>6, <1>7 DEF Request

\* A start or a signal that arrives or is lost.  An approval's signal tells the
\* truth: it was sent after the decision had been committed.
LEMMA TemporalPreserves ==
  ASSUME SagaInv, TemporalCall
  PROVE  GoodStep
<1>1. /\ SagaTypeOK /\ wf \in [Deployments -> Workflows]
      /\ SealedUntilApproved /\ ResultRecorded
      /\ \A e \in Deployments : RoundOK(wf[e])
      /\ tagOwner \in [Slices -> Deployments \cup {NoDeployment}]
      /\ display \in [Deployments -> SUBSET Nodes] /\ host \in [Deployments -> SUBSET Actions]
      /\ starting \subseteq Deployments /\ signal \in [Deployments -> Decisions \cup {"none"}]
  BY DEF SagaInv, SagaTypeOK
<1>2. PICK d \in Deployments :
        \/ StartWorkflow(d) \/ LoseStart(d)
        \/ \E decision \in Decisions : DeliverSignal(d, decision) \/ LoseSignal(d, decision)
  BY DEF TemporalCall
<1>3. UNCHANGED world /\ UNCHANGED inflight
  BY <1>2 DEF StartWorkflow, LoseStart, DeliverSignal, LoseSignal
<1>4. /\ UNCHANGED regVars /\ estado' = estado /\ approval' = approval
      /\ tagOwner' = tagOwner /\ display' = display /\ host' = host
  BY <1>3 DEF world, regVars, resVars
<1>5. ASSUME UNCHANGED wf,
             starting' \subseteq starting, signalling' \subseteq signalling,
             signal' \in [Deployments -> Decisions \cup {"none"}],
             \A e \in Deployments \ {d} : signal'[e] = signal[e],
             signal'[d] = "APPROVED" => approval[d] = "APPROVED"
      PROVE  GoodStep
  <2>1. Changes(d) /\ RoundOK(wf'[d]) /\ (wf'[d].pc \in Results => estado'[d] = wf'[d].pc)
    BY <1>1, <1>4, <1>5 DEF Changes, ResultRecorded, Pc
  <2>2. approval'[d] # "APPROVED" => Sealed(d)'
    BY <1>1, <1>3, <1>4, <1>5 DEF Sealed, SealedUntilApproved
  <2> QED
    BY <1>1, <1>3, <1>4, <1>5, <2>1, <2>2, OthersKept
<1>6. CASE LoseStart(d) \/ \E decision \in Decisions : LoseSignal(d, decision)
  <2>1. UNCHANGED <<wf, signal>> /\ starting' \subseteq starting /\ signalling' \subseteq signalling
    BY <1>6 DEF LoseStart, LoseSignal
  <2>2. signal[d] = "APPROVED" => approval[d] = "APPROVED"
    BY <1>1 DEF SealedUntilApproved, Sealed
  <2> QED
    BY <1>1, <1>5, <2>1, <2>2
<1>7. ASSUME NEW decision \in Decisions, DeliverSignal(d, decision)
      PROVE  GoodStep
  <2>1. /\ <<d, decision>> \in signalling /\ UNCHANGED <<wf, starting>>
        /\ signalling' \subseteq signalling
        /\ signal' = signal \/ signal' = [signal EXCEPT ![d] = decision]
    BY <1>7 DEF DeliverSignal
  <2>2. /\ signal[d] = "APPROVED" => approval[d] = "APPROVED"
        /\ decision = "APPROVED" => approval[d] = "APPROVED"
    BY <1>1, <2>1 DEF SealedUntilApproved, Sealed
  <2>3. /\ signal' \in [Deployments -> Decisions \cup {"none"}]
        /\ \A e \in Deployments \ {d} : signal'[e] = signal[e]
        /\ signal'[d] \in {signal[d], decision}
    BY <1>1, <2>1
  <2>4. Changes(d) /\ RoundOK(wf'[d]) /\ (wf'[d].pc \in Results => estado'[d] = wf'[d].pc)
    BY <1>1, <1>4, <2>1 DEF Changes, ResultRecorded, Pc
  <2>5. approval'[d] # "APPROVED" => Sealed(d)'
    BY <1>1, <1>3, <1>4, <2>1, <2>2, <2>3 DEF Sealed, SealedUntilApproved
  <2> QED
    BY <1>1, <1>3, <1>4, <2>1, <2>3, <2>4, <2>5, OthersKept
<1>8. CASE StartWorkflow(d)
  <2>1. /\ signalling' = signalling /\ signal' = signal /\ starting' \subseteq starting
        /\ wf' = wf \/ (wf[d].pc = "absent" /\ Goto(d, "approval"))
    BY <1>8 DEF StartWorkflow, Pc
  <2>2. signal[d] = "APPROVED" => approval[d] = "APPROVED"
    BY <1>1 DEF SealedUntilApproved, Sealed
  <2>3. CASE wf' = wf
    BY <1>1, <1>5, <2>1, <2>2, <2>3
  <2>4. CASE wf[d].pc = "absent" /\ Goto(d, "approval")
    <3>1. /\ Changes(d) /\ wf'[d].bad = wf[d].bad
          /\ wf'[d].pc \in {"approval", "absent"} /\ wf'[d].error = wf[d].error
      BY <1>1, <2>4, Moved DEF Changes, Stages, Forward, Compensation, Failing, Pc
    <3>2. RoundOK(wf'[d]) /\ wf'[d].pc \notin Results
      BY <1>1, <2>4, <3>1 DEF RoundOK, Rounding, Forward, Results
    <3>3. approval'[d] # "APPROVED" => Sealed(d)'
      BY <1>1, <1>3, <1>4, <2>1, <2>4, <3>1 DEF Sealed, SealedUntilApproved, Early
    <3> QED
      BY <1>1, <1>3, <1>4, <2>1, <3>1, <3>2, <3>3, OthersKept
  <2> QED
    BY <2>1, <2>3, <2>4
<1> QED
  BY <1>2, <1>6, <1>7, <1>8

-----------------------------------------------------------------------------
LEMMA SagaStarts == SagaInit => SagaInv
<1> SUFFICES ASSUME SagaInit PROVE SagaInv
  OBVIOUS
<1>1. RegInv
  BY InitEstablishes DEF SagaInit
<1>2. NewWorkflow \in Workflows
  <2>1. [t \in Threads |-> 0] \in [Threads -> 0 .. MaxAttempts - 1]
    BY SagaAssumption
  <2>2. [b \in Branches |-> "idle"] \in [Branches -> {"idle", "run", "ok", "failed", "lost"}]
    OBVIOUS
  <2>3. "absent" \in Stages /\ 0 \in 0 .. 3
    BY DEF Stages
  <2> QED
    BY <2>1, <2>2, <2>3 DEF NewWorkflow, Workflows
<1>3. /\ NewWorkflow.pc = "absent" /\ NewWorkflow.error = FALSE /\ NewWorkflow.bad = {}
  BY DEF NewWorkflow
<1>4. SagaTypeOK
  BY <1>1, <1>2 DEF SagaInit, SagaTypeOK, RegInv, CoreInv
<1>5. ResultRecorded /\ \A d \in Deployments : RoundOK(wf[d])
  BY <1>3 DEF SagaInit, ResultRecorded, RoundOK, Rounding, Pc, Results
<1>6. ASSUME NEW d \in Deployments
      PROVE  Sealed(d)
  BY <1>3, SagaAssumption DEF SagaInit, RegInit, Sealed, Early
<1> QED
  BY <1>1, <1>4, <1>5, <1>6 DEF SagaInv, SealedUntilApproved

LEMMA SagaPreserves ==
  ASSUME SagaInv, [SagaNext]_sagaVars
  PROVE  GoodStep
<1>1. CASE UNCHANGED sagaVars
  <2>1. UNCHANGED regVars /\ UNCHANGED <<tagOwner, display, host>>
        /\ UNCHANGED <<wf, starting, signalling, signal, inflight>>
    BY <1>1 DEF sagaVars, resVars
  <2>2. RegInv' /\ UNCHANGED <<approval, estado>>
    BY <2>1, CoreInductive, ApprovalInductive DEF SagaInv, RegInv, CoreInv, regVars
  <2>3. SagaTypeOK'
    BY <2>1, <2>2 DEF SagaInv, SagaTypeOK, RegInv, CoreInv
  <2>4. SealedUntilApproved' /\ ResultRecorded'
    BY <2>1, <2>2 DEF SagaInv, SealedUntilApproved, Sealed, ResultRecorded, Pc
  <2>5. \A d \in Deployments : RoundOK(wf[d])'
    BY <2>1 DEF SagaInv, RoundOK
  <2> QED
    BY <2>1, <2>2, <2>3, <2>4, <2>5 DEF SagaInv, GoodStep
<1>2. ASSUME NEW d \in Deployments, WorkflowStep(d)
      PROVE  GoodStep
  BY <1>2, EarlyStep, ActivitiesPreserve, CompletePreserves, GatherPreserves, RoundsPreserve
  DEF WorkflowStep
<1>3. CASE \E d \in Deployments, call \in Calls : LateCall(d, call)
  BY <1>3, GatherPreserves
<1> QED
  BY <1>1, <1>2, <1>3, RequestsPreserve, TemporalPreserves DEF SagaNext

\* SagaInv is an invariant of the deploy workflow (deploy_workflow.py) over the
\* registry, the allocators and the hosts.
THEOREM SagaInvariant == SagaSpec => []SagaInv
<1>1. SagaInit => SagaInv
  BY SagaStarts
<1>2. SagaInv /\ [SagaNext]_sagaVars => SagaInv'
  BY SagaPreserves DEF GoodStep
<1> QED
  BY <1>1, <1>2, PTL DEF SagaSpec

\* Every variable keeps its type.
THEOREM SagaTypes == SagaSpec => []SagaTypeOK
<1>1. SagaInv => SagaTypeOK
  BY DEF SagaInv
<1> QED
  BY <1>1, SagaInvariant, PTL

\* Nothing is started, placed, tagged or created for a deployment without an
\* approval, in any order of decisions, signals, timeouts and late calls.
THEOREM NothingUnapproved == SagaSpec => []NothingBeforeApproval
<1>1. SagaInv => NothingBeforeApproval
  BY DEF SagaInv, SealedUntilApproved, Sealed, RegInv, ApprovedBeforeStart,
         NothingBeforeApproval
<1> QED
  BY <1>1, SagaInvariant, PTL

\* The workflow returns the outcome that finish_deployment recorded.
THEOREM ResultsRecorded == SagaSpec => []ResultRecorded
<1>1. SagaInv => ResultRecorded
  BY DEF SagaInv
<1> QED
  BY <1>1, SagaInvariant, PTL

\* The workflow, its retries and its late calls use the registry only by its
\* transactions: what SliceRegistryProofs proves of RegSpec holds here too.
THEOREM SagaUsesRegistry == SagaSpec => RegSpec
<1>1. SagaInit => RegInit
  BY DEF SagaInit
<1>2. SagaInv /\ [SagaNext]_sagaVars => [RegNext]_regVars
  BY SagaPreserves DEF GoodStep
<1> QED
  BY <1>1, <1>2, SagaInvariant, PTL DEF SagaSpec, RegSpec

\* Under the deploy workflow a slice is lent to one deployment at a time, and
\* the registry's tables agree.
THEOREM SagaKeepsLease == SagaSpec => KeepsLease /\ []UpdatingIffOneActive /\ OutcomesAreFinal
  BY SagaUsesRegistry, Refinement, OneActiveDeployment, Finality
-----------------------------------------------------------------------------
\* What a workflow has, stage by stage.

BeforeFork == {"absent", "approval", "waiting", "reject", "start", "plan", "inventory"}
BeforeRounds == BeforeFork \cup {"allocate", "compute", "prepare"}
Working == {"plan", "inventory", "allocate", "compute", "prepare", "round", "facts"}
Creating == {"round", "facts", "complete"}
Undoing == {"undo_compute", "undo_actions", "undo_network", "undo_placement"}

\* The rows, hosts and calls of a deployment.
CallsOf(d) == {c \in Calls : <<d, c>> \in inflight}
OwnedBy(d) == {s \in Slices : tagOwner[s] = d}
SliceTag(d) == IF Exists(d) THEN TagOf(d) ELSE NoDeployment
Rows(d) ==
  [estado |-> estado[d], nodes |-> nodes[d], links |-> links[d], reserva |-> reserva[d],
   display |-> display[d], host |-> host[d], owned |-> OwnedBy(d), tag |-> SliceTag(d),
   calls |-> CallsOf(d)]

Before(i) == {a \in Actions : RoundOf(a) < i}
Recorded(done, v) ==
  /\ \A n \in Nodes \cap done : v.nodes[n] = "RUNNING"
  /\ \A l \in Links \cap done : v.links[l] = "CREATED"
Live(v) ==
  (\E n \in Nodes : v.nodes[n] \notin {"none", "DELETED"}) \/ \E l \in Links : v.links[l] # "none"

\* The registry's rows v against the stage of the workflow w.
RegistryInOrder(w, v) ==
  /\ w.pc \in Working => v.estado = "IN_PROGRESS"
  /\ w.pc \in {"complete"} \cup Undoing => v.estado \in {"IN_PROGRESS", "COMPLETED"}
  /\ w.pc = "COMPLETED" => v.estado = "COMPLETED"
  /\ w.pc \in BeforeRounds \ {"reject", "prepare"} =>
       \A n \in Nodes : v.nodes[n] \in {"none", "PENDING"}
  /\ w.pc \in {"allocate", "compute"} => \A n \in Nodes : v.nodes[n] # "none"
  /\ Live(v) => v.estado \in {"IN_PROGRESS", "COMPLETED", "FAILED"} \/ "inventory" \in v.calls

\* A branch that was not forked has neither taken anything nor left a call behind.
GatherInOrder(w, v) ==
  /\ w.pc \in BeforeFork => \A b \in Branches : w.branch[b] = "idle"
  /\ w.branch["reserve"] = "idle" => v.reserva = "none" /\ "reserve" \notin v.calls
  /\ w.branch["network"] = "idle" => v.owned = {} /\ "network" \notin v.calls
  /\ w.pc = "allocate" =>
       /\ \A b \in Branches : w.branch[b] \in {"idle", "run", "ok"}
       /\ w.branch["network"] = "idle" => w.branch["reserve"] = "idle"
       /\ w.branch["network"] # "idle" => (w.branch["reserve"] = "idle" <=> Nodes = {})
       /\ w.branch["reserve"] = "ok" => v.reserva = "RESERVED"
       /\ w.branch["network"] = "ok" => v.tag # NoDeployment
  /\ w.pc \in {"compute", "prepare", "COMPLETED"} \cup Creating =>
       (Nodes # {} => v.reserva = "RESERVED") /\ v.tag # NoDeployment

\* The hosts have what was applied, plus what failed actions may have left.
RoundsInOrder(w, v) ==
  /\ w.pc \in BeforeRounds => v.host = {} /\ w.applied = {} /\ w.round = 0
  /\ w.pc \in {"prepare", "COMPLETED"} \cup Creating => v.display = Nodes
  /\ w.pc = "round" =>
       /\ w.round \in 1 .. 3 /\ w.applied = Before(w.round)
       /\ w.pending \cup w.good \cup w.bad = Round(w.round)
  /\ w.pc = "facts" =>
       /\ w.round \in 1 .. 3 /\ w.applied = Before(w.round) \cup w.good
       /\ w.pending = {} /\ w.good \cup w.bad = Round(w.round)
  /\ w.pc = "complete" => w.applied = Actions /\ w.good = {}
  /\ w.pc \in Creating =>
       /\ w.applied \cup w.good \subseteq v.host /\ v.host \ w.bad \subseteq w.applied \cup w.good
       /\ Recorded(w.applied \ w.good, v)
  /\ w.pc = "COMPLETED" => v.host = Actions /\ Recorded(Actions, v)

\* What each undo has still to remove, as long as none has failed.
UndoInOrder(w, v) ==
  LET hosted == v.host \ w.bad
      clean(stages) == (w.pc \in stages /\ ~w.error) \/ w.pc = "COMPENSATED"
  IN
  /\ w.pc \in {"undo_compute", "undo_actions"} /\ ~w.error => hosted \subseteq w.applied
  /\ clean({"undo_network", "undo_placement", "conclude"}) => hosted = {}
  /\ clean({"undo_placement", "conclude"}) => v.owned = {} \/ "network" \in v.calls
  /\ clean({"conclude"}) => v.reserva # "RESERVED" \/ "reserve" \in v.calls
  /\ ~w.error => \A n \in hosted \cap Nodes :
       /\ PortsOf(n) \subseteq v.host /\ v.reserva = "RESERVED" /\ v.tag # NoDeployment
       /\ v.estado \in {"IN_PROGRESS", "COMPLETED"}

InOrder(w, v) ==
  RegistryInOrder(w, v) /\ GatherInOrder(w, v) /\ RoundsInOrder(w, v) /\ UndoInOrder(w, v)
DeployInOrder(d) == InOrder(wf[d], Rows(d))

\* A slice that a deployment COMPLETED or FAILED on is never used by another.
Spent == {"COMPLETED", "FAILED"}
SpentOnce ==
  \A d \in Deployments : estado[d] \in Spent =>
    /\ sliceState[SliceOf[target[d]]] \in {"RUNNING", "STOPPED", "FAILED"}
    /\ \A e \in Deployments :
         estado[e] \in Spent /\ SliceOf[target[e]] = SliceOf[target[d]] => e = d
OwnTags ==
  \A s \in Slices : tagOwner[s] # NoDeployment =>
    Exists(tagOwner[s]) /\ SliceOf[target[tagOwner[s]]] = s

DeployInv == SpentOnce /\ OwnTags /\ \A d \in Deployments : DeployInOrder(d)

-----------------------------------------------------------------------------
\* DeployInOrder through the changes of a workflow's record and of its rows.

LEMMA SameInOrder ==
  ASSUME NEW w, NEW x, NEW v, InOrder(w, v), SameWork(w, x), x.pc = w.pc, x.error = w.error
  PROVE  InOrder(x, v)
<1>1. RegistryInOrder(x, v)
  BY DEF InOrder, RegistryInOrder
<1>2. GatherInOrder(x, v)
  BY DEF InOrder, GatherInOrder, SameWork
<1>3. RoundsInOrder(x, v)
  BY DEF InOrder, RoundsInOrder, SameWork
<1>4. UndoInOrder(x, v)
  BY DEF InOrder, UndoInOrder, SameWork
<1> QED
  BY <1>1, <1>2, <1>3, <1>4 DEF InOrder

\* Where a failure of an activity leads, and what it leaves to be undone there.
FailureLeads(w, pc) ==
  \/ w.pc \in {"approval", "reject", "start", "plan", "undo_placement"} /\ pc = "conclude"
  \/ w.pc = "inventory" /\ pc = "undo_network"
  \/ w.pc \in {"compute", "prepare", "facts", "complete"} /\ pc = "undo_compute"
  \/ w.pc = "undo_compute" /\ pc = "undo_actions"
  \/ w.pc = "undo_network" /\ pc \in {"conclude", "undo_placement"}
  \/ w.pc = "conclude" /\ pc = "raised"

LEMMA FailureInOrder ==
  ASSUME NEW w, NEW x, NEW v, InOrder(w, v), SameWork(w, x), FailureLeads(w, x.pc),
         w.error \in BOOLEAN, x.error = (w.error \/ w.pc \in Compensation)
  PROVE  InOrder(x, v)
<1>1. RegistryInOrder(x, v)
  BY DEF InOrder, RegistryInOrder, FailureLeads, Working, Undoing, BeforeRounds, BeforeFork
<1>2. GatherInOrder(x, v)
  BY DEF InOrder, GatherInOrder, FailureLeads, SameWork, BeforeFork, Creating
<1>3. RoundsInOrder(x, v)
  BY DEF InOrder, RoundsInOrder, FailureLeads, SameWork, BeforeFork, BeforeRounds, Creating
<1>4. UndoInOrder(x, v)
  <2>1. CASE w.pc \in Compensation
    BY <2>1 DEF UndoInOrder, FailureLeads, Compensation
  <2>2. CASE w.pc \in {"approval", "reject", "start", "plan", "inventory", "compute", "prepare"}
    <3>1. v.host = {} /\ x.error = w.error
      BY <2>2 DEF InOrder, RoundsInOrder, BeforeRounds, BeforeFork, Compensation
    <3>2. w.pc \in {"approval", "reject", "start", "plan", "inventory"} =>
            v.owned = {} /\ v.reserva = "none"
      BY DEF InOrder, GatherInOrder, BeforeFork, Branches
    <3> QED
      BY <2>2, <3>1, <3>2 DEF UndoInOrder, FailureLeads
  <2>3. CASE w.pc \in {"facts", "complete"}
    <3>1. x.error = w.error /\ x.pc = "undo_compute"
      BY <2>3 DEF Compensation, FailureLeads
    <3>2. v.host \ w.bad \subseteq w.applied
      BY <2>3 DEF InOrder, RoundsInOrder, Creating
    <3> QED
      BY <2>3, <3>1, <3>2 DEF InOrder, UndoInOrder, SameWork
  <2> QED
    BY <2>1, <2>2, <2>3 DEF FailureLeads, Compensation
<1> QED
  BY <1>1, <1>2, <1>3, <1>4 DEF InOrder

\* What an activity must have achieved for the workflow to go on to the next.
Achieved(w, v, pc) ==
  \/ w.pc = "absent" /\ pc = "approval"
  \/ w.pc \in {"approval", "waiting"} /\ pc \in {"waiting", "start", "reject"}
  \/ w.pc = "start" /\ pc = "plan" /\ v.estado = "IN_PROGRESS"
  \/ w.pc = "plan" /\ pc = "inventory"
  \/ w.pc = "inventory" /\ pc = "allocate" /\ \A n \in Nodes : v.nodes[n] # "none"
  \/ w.pc = "compute" /\ pc = "prepare" /\ v.display = Nodes
  \/ w.pc = "complete" /\ pc = "COMPLETED" /\ v.estado = "COMPLETED" /\ v.host \subseteq Actions
  \/ w.pc = "undo_compute" /\ pc = "undo_actions"
  \/ w.pc = "undo_actions" /\ pc = "undo_network" /\ w.applied = {}
  \/ /\ w.pc = "undo_network" /\ v.owned = {}
     /\ pc = IF w.branch["reserve"] = "idle" THEN "conclude" ELSE "undo_placement"
  \/ w.pc = "undo_placement" /\ pc = "conclude" /\ v.reserva # "RESERVED"
  \/ w.pc = "reject" /\ pc = "REJECTED"
  \/ w.pc = "conclude" /\ pc = IF w.error THEN "FAILED" ELSE "COMPENSATED"

LEMMA AchievedInOrder ==
  ASSUME NEW w, NEW x, NEW v, InOrder(w, v), SameWork(w, x), Achieved(w, v, x.pc),
         w.error \in BOOLEAN, x.error = w.error
  PROVE  InOrder(x, v)
<1>1. RegistryInOrder(x, v)
  BY DEF InOrder, RegistryInOrder, Achieved, Working, Undoing, BeforeRounds, BeforeFork
<1>2. GatherInOrder(x, v)
  BY DEF InOrder, GatherInOrder, Achieved, SameWork, BeforeFork, Creating, Branches
<1>3. RoundsInOrder(x, v)
  <2>1. CASE w.pc = "complete"
    <3>1. v.host = Actions /\ Recorded(Actions, v) /\ v.display = Nodes
      BY <2>1 DEF InOrder, RoundsInOrder, Achieved, Creating, Recorded
    <3> QED
      BY <2>1, <3>1 DEF RoundsInOrder, Achieved, BeforeRounds, BeforeFork, Creating
  <2>2. CASE w.pc # "complete"
    BY <2>2 DEF InOrder, RoundsInOrder, Achieved, SameWork, BeforeFork, BeforeRounds, Creating
  <2> QED
    BY <2>1, <2>2
<1>4. UndoInOrder(x, v)
  <2>1. CASE w.pc \in BeforeRounds
    BY <2>1 DEF InOrder, UndoInOrder, RoundsInOrder, Achieved, BeforeRounds, BeforeFork
  <2>2. CASE w.pc \in {"complete", "undo_compute", "undo_actions"}
    BY <2>2 DEF InOrder, UndoInOrder, Achieved, SameWork
  <2>3. CASE w.pc \in {"undo_network", "undo_placement", "conclude"}
    <3>1. w.branch["reserve"] = "idle" => v.reserva = "none"
      BY DEF InOrder, GatherInOrder
    <3> QED
      BY <2>3, <3>1 DEF InOrder, UndoInOrder, Achieved, SameWork
  <2> QED
    BY <2>1, <2>2, <2>3 DEF Achieved, BeforeRounds, BeforeFork
<1> QED
  BY <1>1, <1>2, <1>3, <1>4 DEF InOrder

-----------------------------------------------------------------------------
\* A step elsewhere only matters while a deployment has something deployed: it may
\* take devices and the tag from one that has not.
Deployed(v) == v.estado \in {"IN_PROGRESS", "COMPLETED"}
LEMMA ElsewhereInOrder ==
  ASSUME NEW w, NEW v, NEW u, InOrder(w, v), u.nodes = v.nodes, u.links = v.links,
         u.reserva = v.reserva, u.display = v.display, u.owned = v.owned, u.calls = v.calls,
         \/ /\ u.estado = v.estado /\ u.host = v.host
            /\ v.tag # NoDeployment => u.tag # NoDeployment
         \/ /\ ~Deployed(v) /\ u.host \subseteq v.host
            /\ u.estado = v.estado \/ v.estado # "FAILED"
  PROVE  InOrder(w, u)
<1>1. RegistryInOrder(w, u)
  BY DEF InOrder, RegistryInOrder, Deployed, Live, Working, Undoing
<1>2. GatherInOrder(w, u)
  BY DEF InOrder, GatherInOrder, RegistryInOrder, Deployed, Creating, Working, Undoing
<1>3. RoundsInOrder(w, u)
  BY DEF InOrder, RoundsInOrder, RegistryInOrder, Deployed, Recorded, Creating, Working, Undoing
<1>4. UndoInOrder(w, u)
  BY DEF InOrder, UndoInOrder, Deployed
<1> QED
  BY <1>1, <1>2, <1>3, <1>4 DEF InOrder

\* Calls that join those on their way, of branches that were forked or of others.
LEMMA CallsInOrder ==
  ASSUME NEW w, NEW v, NEW u, InOrder(w, v), v.calls \subseteq u.calls,
         \A c \in u.calls \ v.calls : c \notin Branches \/ w.branch[c] # "idle",
         u.estado = v.estado, u.nodes = v.nodes, u.links = v.links, u.reserva = v.reserva,
         u.display = v.display, u.host = v.host, u.owned = v.owned, u.tag = v.tag
  PROVE  InOrder(w, u)
<1>1. RegistryInOrder(w, u)
  BY DEF InOrder, RegistryInOrder, Live
<1>2. GatherInOrder(w, u)
  BY DEF InOrder, GatherInOrder, Branches
<1>3. RoundsInOrder(w, u)
  BY DEF InOrder, RoundsInOrder, Recorded
<1>4. UndoInOrder(w, u)
  BY DEF InOrder, UndoInOrder
<1> QED
  BY <1>1, <1>2, <1>3, <1>4 DEF InOrder

\* What the transactions of the registry do to the rows of the deployment, and
\* at which stages.
RowsChange(w, v, u) ==
  \/ /\ v.estado = "PENDING" /\ u.estado = "IN_PROGRESS"             \* start_deployment
     /\ u.nodes = v.nodes /\ u.links = v.links /\ u.reserva = v.reserva
  \/ /\ w.pc = "inventory" \/ "inventory" \in v.calls                \* create_inventory
     /\ u.estado = v.estado /\ u.reserva = v.reserva
     /\ \A n \in Nodes : u.nodes[n] = IF v.nodes[n] = "none" THEN "PENDING" ELSE v.nodes[n]
     /\ \A l \in Links : u.links[l] = IF v.links[l] = "none" THEN "PENDING" ELSE v.links[l]
  \/ /\ w.branch["reserve"] # "idle"                                 \* reserve_placement
     /\ w.pc = "allocate" \/ "reserve" \in v.calls
     /\ u.reserva = "RESERVED"
     /\ u.estado = v.estado /\ u.nodes = v.nodes /\ u.links = v.links
  \/ /\ w.pc = "undo_placement"                                      \* rollback_placement
     /\ u.reserva = IF v.reserva = "RESERVED" THEN "RELEASED" ELSE v.reserva
     /\ u.estado = v.estado /\ u.nodes = v.nodes /\ u.links = v.links
  \/ /\ w.pc \in {"reject", "conclude"} /\ u.reserva = v.reserva     \* finish_deployment
     /\ Live(u) => u.estado = "FAILED"
  \/ /\ w.pc = "complete" /\ u.estado = "COMPLETED" /\ u.reserva = v.reserva
     /\ u.nodes = v.nodes /\ u.links = v.links

LEMMA RowsInOrder ==
  ASSUME NEW w, NEW v, NEW u, InOrder(w, v), RowsChange(w, v, u),
         u.display = v.display, u.host = v.host, u.owned = v.owned, u.tag = v.tag,
         u.calls = v.calls
  PROVE  InOrder(w, u)
<1> USE DEF RowsChange
<1>1. RegistryInOrder(w, u)
  BY DEF InOrder, RegistryInOrder, Live, Working, Undoing, BeforeRounds, BeforeFork
<1>2. GatherInOrder(w, u)
  BY DEF InOrder, GatherInOrder, BeforeFork, Creating
<1>3. RoundsInOrder(w, u)
  BY DEF InOrder, RoundsInOrder, Recorded, BeforeFork, BeforeRounds, Creating
<1>4. UndoInOrder(w, u)
  BY DEF InOrder, UndoInOrder, RoundsInOrder, BeforeRounds, BeforeFork
<1> QED
  BY <1>1, <1>2, <1>3, <1>4 DEF InOrder

\* What the allocators and their undoing do, and at which stages.
ResourcesChange(w, v, u) ==
  \/ /\ w.branch["network"] # "idle"                                 \* network_allocate
     /\ w.pc = "allocate" \/ "network" \in v.calls
     /\ u.tag # NoDeployment /\ u.display = v.display
  \/ /\ u.display \subseteq Nodes /\ v.display \subseteq u.display   \* compute_allocate
     /\ u.owned = v.owned /\ u.tag = v.tag
  \/ /\ w.pc = "undo_compute" /\ u.owned = v.owned /\ u.tag = v.tag  \* its rollback
  \/ /\ w.pc = "undo_network" /\ u.owned = {}                        \* network_rollback
     /\ u.display = v.display

LEMMA ResourcesInOrder ==
  ASSUME NEW w, NEW v, NEW u, InOrder(w, v), ResourcesChange(w, v, u),
         u.estado = v.estado, u.nodes = v.nodes, u.links = v.links, u.reserva = v.reserva,
         u.host = v.host, u.calls = v.calls
  PROVE  InOrder(w, u)
<1> USE DEF ResourcesChange
<1>1. RegistryInOrder(w, u)
  BY DEF InOrder, RegistryInOrder, Live
<1>2. GatherInOrder(w, u)
  BY DEF InOrder, GatherInOrder, BeforeFork, Creating
<1>3. RoundsInOrder(w, u)
  BY DEF InOrder, RoundsInOrder, Recorded, BeforeFork, BeforeRounds, Creating
<1>4. UndoInOrder(w, u)
  BY DEF InOrder, UndoInOrder, RoundsInOrder, BeforeRounds, BeforeFork
<1> QED
  BY <1>1, <1>2, <1>3, <1>4 DEF InOrder

-----------------------------------------------------------------------------
\* The gather.

LEMMA ForkInOrder ==
  ASSUME NEW w, NEW x, NEW v, InOrder(w, v), w.pc = "allocate", w.branch["network"] = "idle",
         x.branch = [b \in Branches |-> IF b = "network" \/ Nodes # {} THEN "run" ELSE "idle"],
         x.pc = w.pc, x.error = w.error, x.round = w.round, x.pending = w.pending,
         x.good = w.good, x.bad = w.bad, x.applied = w.applied
  PROVE  InOrder(x, v)
<1>1. RegistryInOrder(x, v)
  BY DEF InOrder, RegistryInOrder
<1>2. GatherInOrder(x, v)
  BY DEF InOrder, GatherInOrder, BeforeFork, Creating, Branches
<1>3. RoundsInOrder(x, v)
  BY DEF InOrder, RoundsInOrder
<1>4. UndoInOrder(x, v)
  BY DEF InOrder, UndoInOrder
<1> QED
  BY <1>1, <1>2, <1>3, <1>4 DEF InOrder

\* A branch is done when it has got what it asked for; both must be, to go on.
LEMMA BranchDoneInOrder ==
  ASSUME NEW w, NEW x, NEW v, InOrder(w, v), w.pc = "allocate", NEW b \in Branches,
         w.branch \in [Branches -> {"idle", "run", "ok", "failed", "lost"}], w.branch[b] = "run",
         b = "reserve" => v.reserva = "RESERVED", b = "network" => v.tag # NoDeployment,
         x.branch = [w.branch EXCEPT ![b] = "ok"],
         x.pc = IF \A c \in Branches : x.branch[c] # "run" THEN "compute" ELSE w.pc,
         x.error = w.error, x.round = w.round, x.pending = w.pending,
         x.good = w.good, x.bad = w.bad, x.applied = w.applied
  PROVE  InOrder(x, v)
<1>1. /\ w.branch["network"] # "idle"
      /\ w.branch["reserve"] = "idle" <=> Nodes = {}
      /\ \A c \in Branches : w.branch[c] \in {"idle", "run", "ok"}
      /\ w.branch["reserve"] = "ok" => v.reserva = "RESERVED"
      /\ w.branch["network"] = "ok" => v.tag # NoDeployment
  BY DEF InOrder, GatherInOrder, Branches
<1>2. /\ x.branch[b] = "ok" /\ \A c \in Branches \ {b} : x.branch[c] = w.branch[c]
      /\ x.pc \in {"allocate", "compute"}
  OBVIOUS
<1>3. RegistryInOrder(x, v)
  BY <1>2 DEF InOrder, RegistryInOrder, Working, Undoing, BeforeRounds, BeforeFork
<1>4. GatherInOrder(x, v)
  <2>1. /\ x.branch["network"] # "idle"
        /\ x.branch["reserve"] = "idle" <=> w.branch["reserve"] = "idle"
    BY <1>1, <1>2 DEF Branches
  <2>2. x.branch["reserve"] = "ok" => v.reserva = "RESERVED"
    BY <1>1, <1>2 DEF Branches
  <2>3. x.branch["network"] = "ok" => v.tag # NoDeployment
    BY <1>1, <1>2 DEF Branches
  <2>4. \A c \in Branches : x.branch[c] \in {"idle", "run", "ok"}
    BY <1>1, <1>2
  <2>5. x.pc = "compute" => (Nodes # {} => v.reserva = "RESERVED") /\ v.tag # NoDeployment
    BY <1>1, <2>1, <2>2, <2>3, <2>4 DEF Branches
  <2> QED
    BY <1>1, <1>2, <2>1, <2>2, <2>3, <2>4, <2>5
    DEF InOrder, GatherInOrder, BeforeFork, Creating
<1>5. RoundsInOrder(x, v)
  BY <1>2 DEF InOrder, RoundsInOrder, BeforeRounds, BeforeFork, Creating
<1>6. UndoInOrder(x, v)
  BY <1>2 DEF InOrder, UndoInOrder
<1> QED
  BY <1>3, <1>4, <1>5, <1>6 DEF InOrder

\* When a branch fails nothing has been created yet.
LEMMA BranchFailsInOrder ==
  ASSUME NEW w, NEW x, NEW v, InOrder(w, v), w.pc = "allocate", x.pc = "undo_network",
         \A b \in Branches : x.branch[b] = "idle" <=> w.branch[b] = "idle",
         x.error = w.error, x.round = w.round, x.pending = w.pending,
         x.good = w.good, x.bad = w.bad, x.applied = w.applied
  PROVE  InOrder(x, v)
<1>1. RegistryInOrder(x, v)
  BY DEF InOrder, RegistryInOrder, Working, Undoing, BeforeRounds, BeforeFork
<1>2. GatherInOrder(x, v)
  BY DEF InOrder, GatherInOrder, BeforeFork, Creating, Branches
<1>3. RoundsInOrder(x, v)
  BY DEF InOrder, RoundsInOrder, BeforeRounds, BeforeFork, Creating
<1>4. UndoInOrder(x, v)
  BY DEF InOrder, UndoInOrder, RoundsInOrder, BeforeRounds
<1> QED
  BY <1>1, <1>2, <1>3, <1>4 DEF InOrder

-----------------------------------------------------------------------------
\* The rounds.

LEMMA RoundsOfActions ==
  /\ \A a \in Actions : RoundOf(a) \in 1 .. 3
  /\ \A n \in Nodes : RoundOf(n) = 3
  /\ \A p \in Ports : RoundOf(p) = 2
  /\ \A l \in Links : RoundOf(l) = 1
  /\ Before(1) = {} /\ Before(4) = Actions
  /\ \A i \in 1 .. 3 : Before(i + 1) = Before(i) \cup Round(i) /\ Before(i) \cap Round(i) = {}
<1>1. /\ \A a \in Actions : RoundOf(a) \in 1 .. 3
      /\ \A n \in Nodes : RoundOf(n) = 3
      /\ \A p \in Ports : RoundOf(p) = 2
      /\ \A l \in Links : RoundOf(l) = 1
  BY SagaAssumption, RegistryAssumption DEF RoundOf, Actions
<1>2. Before(1) = {} /\ Before(4) = Actions
  BY <1>1 DEF Before
<1>3. \A i \in 1 .. 3 : Before(i + 1) = Before(i) \cup Round(i) /\ Before(i) \cap Round(i) = {}
  BY <1>1 DEF Before, Round
<1> QED
  BY <1>1, <1>2, <1>3

\* A next round is asked for when all earlier ones are done and recorded.
LEMMA NextRoundInOrder ==
  ASSUME NEW w, NEW x, NEW v, InOrder(w, v), w.pc \in {"prepare", "facts"}, w.bad = {},
         Recorded(w.applied, v), w.round \in 0 .. 3,
         x.pc = IF w.round + 1 <= LastRound THEN "round" ELSE "complete",
         x.round = IF w.round + 1 <= LastRound THEN w.round + 1 ELSE w.round,
         x.pending = IF w.round + 1 <= LastRound THEN Round(w.round + 1) ELSE {},
         x.good = {}, x.bad = w.bad, x.applied = w.applied, x.branch = w.branch,
         x.error = w.error
  PROVE  InOrder(x, v)
<1>1. RegistryInOrder(x, v)
  BY DEF InOrder, RegistryInOrder, Working, Undoing, BeforeRounds, BeforeFork
<1>2. GatherInOrder(x, v)
  <2>1. GatherInOrder(w, v) /\ x.pc \in {"round", "complete"}
    BY DEF InOrder
  <2> QED
    BY <2>1 DEF GatherInOrder, BeforeFork, Creating
<1>3. /\ w.applied = Before(w.round + 1) /\ v.host = w.applied
      /\ Actions # {} => w.round + 1 \in 1 .. 4
  <2>1. CASE w.pc = "prepare"
    BY <2>1, RoundsOfActions DEF InOrder, RoundsInOrder, BeforeRounds
  <2>2. CASE w.pc = "facts"
    <3>1. /\ w.round \in 1 .. 3 /\ w.applied = Before(w.round) \cup w.good
          /\ w.good \cup w.bad = Round(w.round)
          /\ w.applied \cup w.good \subseteq v.host
          /\ v.host \ w.bad \subseteq w.applied \cup w.good
      BY <2>2 DEF InOrder, RoundsInOrder, Creating
    <3>2. Before(w.round + 1) = Before(w.round) \cup Round(w.round)
      BY <3>1, RoundsOfActions
    <3> QED
      BY <3>1, <3>2
  <2> QED
    BY <2>1, <2>2
<1>4. RoundsInOrder(x, v)
  <2>1. v.display = Nodes /\ x.pc \in {"round", "complete"}
    BY DEF InOrder, RoundsInOrder, Creating
  <2>2. CASE w.round + 1 <= LastRound
    <3>1. x.round \in 1 .. 3 /\ x.pc = "round" /\ x.round = w.round + 1
      BY <2>2 DEF LastRound
    <3> QED
      BY <1>3, <2>1, <2>2, <3>1 DEF RoundsInOrder, BeforeRounds, BeforeFork, Creating, Recorded
  <2>3. CASE ~(w.round + 1 <= LastRound)
    <3>1. x.pc = "complete" /\ w.applied = Actions
      <4>1. CASE Actions = {}
        BY <1>3, <2>3, <4>1 DEF Before
      <4>2. CASE Actions # {}
        <5>1. w.round + 1 = 4
          BY <1>3, <2>3, <4>2 DEF LastRound
        <5> QED
          BY <1>3, <2>3, <5>1, RoundsOfActions
      <4> QED
        BY <4>1, <4>2
    <3> QED
      BY <1>3, <2>1, <2>3, <3>1 DEF RoundsInOrder, BeforeRounds, BeforeFork, Creating, Recorded
  <2> QED
    BY <2>2, <2>3
<1>5. UndoInOrder(x, v)
  BY DEF InOrder, UndoInOrder
<1> QED
  BY <1>1, <1>2, <1>4, <1>5 DEF InOrder

\* An action of the round ends: a good one is on its host, a VM with its ports.
LEMMA ActionInOrder ==
  ASSUME NEW w, NEW x, NEW v, NEW u, InOrder(w, v), w.pc = "round", NEW a \in w.pending,
         w.pending \subseteq Actions, v.host \subseteq Actions,
         \/ /\ a \in Nodes => PortsOf(a) \subseteq v.host
            /\ x.good = w.good \cup {a} /\ x.bad = w.bad /\ u.host = v.host \cup {a}
         \/ x.good = w.good /\ x.bad = w.bad \cup {a} /\ u.host \in {v.host, v.host \cup {a}},
         x.pending = w.pending \ {a}, x.pc = w.pc, x.error = w.error, x.round = w.round,
         x.applied = w.applied, x.branch = w.branch,
         u.estado = v.estado, u.nodes = v.nodes, u.links = v.links, u.reserva = v.reserva,
         u.display = v.display, u.owned = v.owned, u.tag = v.tag, u.calls = v.calls,
         w.good \cap w.bad = {}, w.pending \cap w.good = {}, w.pending \cap w.bad = {}
  PROVE  InOrder(x, u)
<1>1. RegistryInOrder(x, u)
  BY DEF InOrder, RegistryInOrder, Live
<1>2. GatherInOrder(x, u)
  BY DEF InOrder, GatherInOrder
<1>3. /\ w.applied = Before(w.round) /\ w.round \in 1 .. 3
      /\ w.pending \cup w.good \cup w.bad = Round(w.round)
      /\ w.applied \cup w.good \subseteq v.host /\ v.host \ w.bad \subseteq w.applied \cup w.good
      /\ Recorded(w.applied \ w.good, v) /\ v.display = Nodes
  BY DEF InOrder, RoundsInOrder, Creating
<1>4. RoundsInOrder(x, u)
  <2>1. w.applied \ w.good = w.applied /\ x.applied \ x.good = w.applied
    BY <1>3, RoundsOfActions
  <2>2. x.pending \cup x.good \cup x.bad = Round(w.round)
    BY <1>3
  <2>3. x.applied \cup x.good \subseteq u.host /\ u.host \ x.bad \subseteq x.applied \cup x.good
    BY <1>3
  <2> QED
    BY <1>3, <2>1, <2>2, <2>3 DEF RoundsInOrder, BeforeRounds, BeforeFork, Creating, Recorded
<1>5. UndoInOrder(x, u)
  <2>1. SUFFICES ASSUME ~x.error, NEW n \in (u.host \ x.bad) \cap Nodes
                 PROVE  /\ PortsOf(n) \subseteq u.host /\ u.reserva = "RESERVED"
                        /\ u.tag # NoDeployment /\ u.estado \in {"IN_PROGRESS", "COMPLETED"}
    BY DEF UndoInOrder
  <2>2. u.reserva = "RESERVED" /\ u.tag # NoDeployment /\ u.estado = "IN_PROGRESS"
    BY <2>1 DEF InOrder, GatherInOrder, RegistryInOrder, Creating, Working
  <2>3. PortsOf(n) \subseteq v.host
    BY <2>1 DEF InOrder, UndoInOrder
  <2> QED
    BY <2>2, <2>3
<1> QED
  BY <1>1, <1>2, <1>4, <1>5 DEF InOrder

LEMMA RoundEndsInOrder ==
  ASSUME NEW w, NEW x, NEW v, InOrder(w, v), w.pc = "round", w.pending = {},
         x.pc = "facts", x.applied = w.applied \cup w.good,
         x.pending = w.pending, x.good = w.good, x.bad = w.bad,
         x.error = w.error, x.round = w.round, x.branch = w.branch
  PROVE  InOrder(x, v)
<1>1. RegistryInOrder(x, v)
  BY DEF InOrder, RegistryInOrder, Working, Undoing, BeforeRounds, BeforeFork
<1>2. GatherInOrder(x, v)
  BY DEF InOrder, GatherInOrder, BeforeFork, Creating
<1>3. x.applied \ x.good = w.applied \ w.good /\ x.applied \cup x.good = w.applied \cup w.good
  OBVIOUS
<1>4. RoundsInOrder(x, v)
  BY <1>3 DEF InOrder, RoundsInOrder, BeforeRounds, BeforeFork, Creating
<1>5. UndoInOrder(x, v)
  BY DEF InOrder, UndoInOrder
<1> QED
  BY <1>1, <1>2, <1>4, <1>5 DEF InOrder

\* The facts of a round concern its own actions; when none failed all is recorded.
LEMMA FactsInOrder ==
  ASSUME NEW w, NEW v, NEW u, InOrder(w, v), w.pc = "facts", w.good \cap w.bad = {},
         \A n \in Nodes : u.nodes[n] = IF n \in w.good THEN "RUNNING"
                                       ELSE IF n \in w.bad THEN "FAILED" ELSE v.nodes[n],
         \A l \in Links : u.links[l] = IF l \in w.good THEN "CREATED"
                                       ELSE IF l \in w.bad THEN "FAILED" ELSE v.links[l],
         u.estado = v.estado, u.reserva = v.reserva, u.display = v.display, u.host = v.host,
         u.owned = v.owned, u.tag = v.tag, u.calls = v.calls
  PROVE  InOrder(w, u) /\ Recorded(w.applied, u)
<1>1. /\ w.round \in 1 .. 3 /\ w.applied = Before(w.round) \cup w.good
      /\ w.good \cup w.bad = Round(w.round) /\ Recorded(w.applied \ w.good, v)
  BY DEF InOrder, RoundsInOrder, Creating
<1>2. w.applied \cap w.bad = {}
  BY <1>1, RoundsOfActions
<1>3. Recorded(w.applied, u)
  BY <1>1, <1>2 DEF Recorded
<1>4. RegistryInOrder(w, u)
  BY DEF InOrder, RegistryInOrder, Working, Undoing, BeforeRounds, BeforeFork
<1>5. GatherInOrder(w, u)
  BY DEF InOrder, GatherInOrder
<1>6. RoundsInOrder(w, u)
  BY <1>3 DEF InOrder, RoundsInOrder, Recorded, BeforeRounds, BeforeFork
<1>7. UndoInOrder(w, u)
  BY DEF InOrder, UndoInOrder
<1> QED
  BY <1>3, <1>4, <1>5, <1>6, <1>7 DEF InOrder

\* The last round is undone first: a VM goes before its ports.
LEMMA UndoInSteps ==
  ASSUME NEW w, NEW x, NEW v, NEW u, InOrder(w, v), w.pc = "undo_actions", NEW a \in Actions,
         a \in w.applied, \A b \in w.applied : RoundOf(b) <= RoundOf(a),
         w.applied \subseteq Actions, v.host \subseteq Actions, w.error \in BOOLEAN,
         x.applied = w.applied \ {a}, x.pc = w.pc, x.round = w.round, x.branch = w.branch,
         x.pending = w.pending, x.good = w.good, x.bad = w.bad,
         \/ x.error = w.error /\ u.host = v.host \ (IF a \in Links THEN Links ELSE {a})
         \/ x.error = TRUE,
         u.estado = v.estado, u.nodes = v.nodes, u.links = v.links, u.reserva = v.reserva,
         u.display = v.display, u.owned = v.owned, u.tag = v.tag, u.calls = v.calls
  PROVE  InOrder(x, u)
<1>1. RegistryInOrder(x, u)
  BY DEF InOrder, RegistryInOrder, Live
<1>2. GatherInOrder(x, u)
  BY DEF InOrder, GatherInOrder
<1>3. RoundsInOrder(x, u)
  BY DEF RoundsInOrder, BeforeRounds, BeforeFork, Creating
<1>4. UndoInOrder(x, u)
  <2>1. CASE x.error = TRUE
    BY <2>1 DEF UndoInOrder
  <2>2. CASE x.error = FALSE
    <3>1. /\ u.host = v.host \ (IF a \in Links THEN Links ELSE {a})
          /\ v.host \ w.bad \subseteq w.applied /\ w.error = FALSE
      BY <2>2 DEF InOrder, UndoInOrder
    <3>2. u.host \ x.bad \subseteq x.applied
      BY <3>1
    <3>3. ASSUME NEW n \in (u.host \ x.bad) \cap Nodes
          PROVE  /\ PortsOf(n) \subseteq u.host /\ u.reserva = "RESERVED"
                 /\ u.tag # NoDeployment /\ u.estado \in {"IN_PROGRESS", "COMPLETED"}
      <4>1. /\ n \in v.host \ w.bad /\ n \in w.applied /\ RoundOf(n) = 3
        BY <3>1, <3>3, RoundsOfActions
      <4>2. /\ PortsOf(n) \subseteq v.host /\ u.reserva = "RESERVED"
            /\ u.tag # NoDeployment /\ u.estado \in {"IN_PROGRESS", "COMPLETED"}
        BY <3>1, <3>3, <4>1 DEF InOrder, UndoInOrder
      <4>3. a \notin Ports /\ a \notin Links
        BY <4>1, RoundsOfActions
      <4> QED
        BY <3>1, <4>2, <4>3 DEF PortsOf
    <3> QED
      BY <2>2, <3>2, <3>3 DEF UndoInOrder
  <2> QED
    BY <2>1, <2>2
<1> QED
  BY <1>1, <1>2, <1>3, <1>4 DEF InOrder

-----------------------------------------------------------------------------
\* A slice is used up once.

SpentStates == {"RUNNING", "STOPPED", "FAILED"}

\* A deployment that ends leaves its slice UPDATING until then to it alone.
LEMMA SpentStays ==
  ASSUME CoreInv, SpentOnce, NEW d \in Deployments,
         \A e \in Deployments \ {d} : estado'[e] = estado[e] /\ target'[e] = target[e],
         \A s \in Slices : sliceState[s] \in SpentStates => sliceState'[s] \in SpentStates,
         \/ estado'[d] \notin Spent
         \/ estado'[d] = estado[d] /\ target'[d] = target[d]
         \/ /\ Active(d) /\ target'[d] = target[d]
            /\ sliceState'[SliceOf[target[d]]] \in SpentStates
  PROVE  SpentOnce'
<1>1. \A e \in Deployments : estado[e] \in Spent => SliceOf[target[e]] \in Slices
  BY RegistryAssumption DEF CoreInv, TypeOK, Spent
<1>2. CASE estado'[d] \notin Spent
  BY <1>1, <1>2 DEF SpentOnce, SpentStates
<1>3. CASE estado'[d] = estado[d] /\ target'[d] = target[d]
  <2>1. \A e \in Deployments : estado'[e] = estado[e] /\ target'[e] = target[e]
    BY <1>3
  <2> QED
    BY <1>1, <2>1 DEF SpentOnce, SpentStates
<1>4. CASE /\ Active(d) /\ target'[d] = target[d]
           /\ sliceState'[SliceOf[target[d]]] \in SpentStates
  <2>1. sliceState[SliceOf[target[d]]] = "UPDATING"
    BY <1>4, AboutToFinish
  <2>2. \A e \in Deployments :
          estado[e] \in Spent => SliceOf[target[e]] # SliceOf[target[d]]
    BY <2>1 DEF SpentOnce
  <2> QED
    BY <1>1, <1>4, <2>2 DEF SpentOnce, SpentStates
<1> QED
  BY <1>2, <1>3, <1>4

LEMMA SpentKept ==
  ASSUME CoreInv, SpentOnce, [RegNext]_regVars
  PROVE  SpentOnce'
<1> USE RegistryAssumption
<1>1. TypeOK
  BY DEF CoreInv
<1>2. CASE /\ UNCHANGED <<estado, target>>
           /\ \A s \in Slices : sliceState[s] \in SpentStates => sliceState'[s] \in SpentStates
  BY <1>1, <1>2 DEF SpentOnce, Spent, SpentStates, TypeOK
<1>3. ASSUME NEW s \in Slices, NEW v \in Versions,
             CreateSlice(s, v) \/ CreateVersion(v) \/ DeleteVersion(v)
      PROVE  SpentOnce'
  BY <1>1, <1>2, <1>3 DEF CreateSlice, CreateVersion, DeleteVersion, SpentStates, TypeOK
<1>4. ASSUME NEW d \in Deployments, NEW v \in Versions,
             CreateRejectedDeployment(d, v) \/ CreatePendingDeployment(d, v)
      PROVE  SpentOnce'
  <2>1. /\ estado'[d] \in {"REJECTED", "PENDING"}
        /\ \A e \in Deployments \ {d} : estado'[e] = estado[e] /\ target'[e] = target[e]
    BY <1>1, <1>4 DEF CreateRejectedDeployment, CreatePendingDeployment, TypeOK
  <2>2. \A s \in Slices : sliceState[s] \in SpentStates => sliceState'[s] \in SpentStates
    <3>1. sliceState[SliceOf[v]] = "DRAFT"
      BY <1>4 DEF CreateRejectedDeployment, CreatePendingDeployment, MayDeploy
    <3>2. \A s \in Slices : s # SliceOf[v] => sliceState'[s] = sliceState[s]
      BY <1>1, <1>4 DEF CreateRejectedDeployment, CreatePendingDeployment, TypeOK
    <3> QED
      BY <3>1, <3>2 DEF SpentStates
  <2>3. estado'[d] \notin Spent
    BY <2>1 DEF Spent
  <2> QED
    BY <2>1, <2>2, <2>3, SpentStays
<1>5. ASSUME NEW d \in Deployments, StartDeployment(d)
      PROVE  SpentOnce'
  BY <1>1, <1>5, SpentStays DEF StartDeployment, Spent, SpentStates, TypeOK
<1>6. ASSUME NEW d \in Deployments, NEW good, NEW bad, NEW decision,
             \/ DecideApproval(d, decision) \/ CreateInventory(d) \/ ReservePlacement(d)
             \/ RollbackPlacement(d) \/ RecordRoundFacts(d, good, bad)
      PROVE  SpentOnce'
  BY <1>2, <1>6 DEF DecideApproval, CreateInventory, ReservePlacement, RollbackPlacement,
                    RecordRoundFacts
<1>7. ASSUME NEW d \in Deployments, NEW st, NEW outcome, Active(d), target' = target,
             estado' = [estado EXCEPT ![d] = outcome],
             sliceState' = [sliceState EXCEPT ![SliceOf[target[d]]] = st],
             outcome \in Spent => st \in SpentStates
      PROVE  SpentOnce'
  <2>1. /\ sliceState[SliceOf[target[d]]] = "UPDATING" /\ SliceOf[target[d]] \in Slices
    BY <1>7, AboutToFinish
  <2>2. \A s \in Slices : sliceState[s] \in SpentStates => sliceState'[s] \in SpentStates
    BY <1>1, <1>7, <2>1 DEF SpentStates, TypeOK
  <2>3. estado'[d] = outcome /\ \A e \in Deployments \ {d} : estado'[e] = estado[e]
    BY <1>1, <1>7 DEF TypeOK
  <2>4. sliceState'[SliceOf[target[d]]] = st
    BY <1>1, <1>7, <2>1 DEF TypeOK
  <2> QED
    BY <1>7, <2>2, <2>3, <2>4, SpentStays
<1>8. ASSUME NEW d \in Deployments, FinishCompleted(d)
      PROVE  SpentOnce'
  <2>1. Active(d) /\ target[d] \in Versions /\ target[d] # NoVersion
    BY <1>1, <1>8 DEF FinishCompleted, Active, TypeOK
  <2> DEFINE st == RecalculatedState(SliceOf[target[d]], nodes, target[d])
  <2>2. st \in SpentStates
    BY <2>1, RecalculatedFacts DEF SpentStates
  <2> HIDE DEF st
  <2> QED
    BY <1>7, <1>8, <2>1, <2>2 DEF FinishCompleted, st
<1>9. ASSUME NEW d \in Deployments, NEW outcome, FinishUndone(d, outcome)
      PROVE  SpentOnce'
  <2>1. \E st : sliceState' = [sliceState EXCEPT ![SliceOf[target[d]]] = st]
    BY <1>9 DEF FinishUndone
  <2>2. Active(d) /\ target' = target /\ estado' = [estado EXCEPT ![d] = outcome]
        /\ outcome \notin Spent
    BY <1>9 DEF FinishUndone, Spent
  <2> QED
    BY <1>7, <2>1, <2>2
<1>10. ASSUME NEW d \in Deployments, FinishFailed(d)
       PROVE  SpentOnce'
  BY <1>7, <1>10 DEF FinishFailed, SpentStates
<1>11. CASE UNCHANGED regVars
  BY <1>2, <1>11 DEF regVars
<1>12. CASE UserCall
  BY <1>3, <1>4, <1>6, <1>12 DEF UserCall
<1>13. CASE InternalCall
  BY <1>5, <1>6, <1>8, <1>9, <1>10, <1>11, <1>13
  DEF InternalCall, FinishDeployment, FinishRepeated
<1> QED
  BY <1>11, <1>12, <1>13 DEF RegNext

\* Two deployments that have something deployed are not on the same slice.
LEMMA DeployedAlone ==
  ASSUME CoreInv, SpentOnce, NEW d \in Deployments, NEW e \in Deployments,
         estado[d] \in {"IN_PROGRESS", "COMPLETED"},
         estado[e] \in {"IN_PROGRESS", "COMPLETED", "FAILED"},
         SliceOf[target[d]] = SliceOf[target[e]]
  PROVE  d = e
<1> DEFINE s == SliceOf[target[d]]
<1>1. s \in Slices
  BY RegistryAssumption DEF CoreInv, TypeOK
<1>2. estado[d] = "IN_PROGRESS" => d \in ActiveOn(s) /\ sliceState[s] = "UPDATING"
  BY <1>1, ActiveOnFacts DEF CoreInv, UpdatingIffOneActive, Active
<1>3. estado[e] = "IN_PROGRESS" => e \in ActiveOn(s) /\ sliceState[s] = "UPDATING"
  BY <1>1, ActiveOnFacts DEF CoreInv, UpdatingIffOneActive, Active
<1>4. estado[d] = "COMPLETED" => sliceState[s] # "UPDATING"
  BY DEF SpentOnce, Spent
<1>5. estado[e] \in Spent => sliceState[s] # "UPDATING"
  BY DEF SpentOnce
<1>6. CASE estado[d] = "IN_PROGRESS" /\ estado[e] = "IN_PROGRESS"
  BY <1>1, <1>2, <1>3, <1>6 DEF CoreInv, UpdatingIffOneActive
<1>7. CASE estado[d] \in Spent /\ estado[e] \in Spent
  BY <1>7 DEF SpentOnce
<1> QED
  BY <1>2, <1>3, <1>4, <1>5, <1>6, <1>7 DEF Spent

-----------------------------------------------------------------------------
\* What a step about d leaves of the other deployments' rows and of the tags: no
\* undo but those of d takes anything away.
Elsewhere(d) ==
  /\ Exists(d) => Exists(d)' /\ target'[d] = target[d]
  /\ \A e \in Deployments \ {d} :
       /\ estado'[e] = estado[e] /\ target'[e] = target[e]
       /\ nodes'[e] = nodes[e] /\ links'[e] = links[e] /\ reserva'[e] = reserva[e]
       /\ display'[e] = display[e]
       /\ \/ host'[e] = host[e]
          \/ /\ Pc(d) = "undo_actions" /\ Exists(e) /\ SliceOf[target[e]] = SliceOf[target[d]]
             /\ host'[e] \subseteq host[e]
  /\ \A s \in Slices :
       \/ tagOwner'[s] = tagOwner[s]
       \/ tagOwner[s] = NoDeployment /\ tagOwner'[s] = d /\ Exists(d) /\ s = SliceOf[target[d]]
       \/ Pc(d) = "undo_network" /\ tagOwner[s] = d /\ tagOwner'[s] = NoDeployment

OwnCalls(d) ==
  \E late \in SUBSET {<<d, c>> : c \in Calls} : inflight' = inflight \cup late

LEMMA OthersInOrder ==
  ASSUME SagaInv, DeployInv, NEW d \in Deployments, Elsewhere(d), Changes(d), OwnCalls(d),
         NEW e \in Deployments \ {d}
  PROVE  DeployInOrder(e)'
<1>1. /\ CoreInv /\ TypeOK /\ SpentOnce /\ OwnTags /\ InOrder(wf[e], Rows(e))
      /\ InOrder(wf[d], Rows(d))
  BY DEF SagaInv, RegInv, CoreInv, DeployInv, DeployInOrder
<1>2. /\ wf'[e] = wf[e] /\ estado'[e] = estado[e] /\ target'[e] = target[e]
      /\ nodes'[e] = nodes[e] /\ links'[e] = links[e] /\ reserva'[e] = reserva[e]
      /\ display'[e] = display[e] /\ CallsOf(e)' = CallsOf(e)
  BY DEF Elsewhere, Changes, OwnCalls, CallsOf
<1>3. OwnedBy(e)' = OwnedBy(e)
  <2>1. \A s \in Slices : tagOwner'[s] = e <=> tagOwner[s] = e
    BY SagaAssumption DEF Elsewhere
  <2> QED
    BY <2>1 DEF OwnedBy
<1>4. ASSUME Deployed(Rows(e))
      PROVE  host'[e] = host[e] /\ (SliceTag(e) # NoDeployment => SliceTag(e)' # NoDeployment)
  <2>1. estado[e] \in {"IN_PROGRESS", "COMPLETED"} /\ SliceOf[target[e]] \in Slices
    BY <1>1, <1>4, RegistryAssumption DEF Deployed, Rows, TypeOK
  <2>2. Pc(d) \in Undoing => SliceOf[target[d]] # SliceOf[target[e]]
    <3>1. SUFFICES ASSUME Pc(d) \in Undoing, SliceOf[target[d]] = SliceOf[target[e]]
                   PROVE  FALSE
      OBVIOUS
    <3>2. estado[d] \in {"IN_PROGRESS", "COMPLETED"}
      BY <1>1, <3>1 DEF InOrder, RegistryInOrder, Rows, Pc
    <3> QED
      BY <1>1, <2>1, <3>1, <3>2, DeployedAlone
  <2>3. host'[e] = host[e]
    BY <2>2 DEF Elsewhere, Undoing
  <2>4. SliceTag(e) # NoDeployment => tagOwner'[SliceOf[target[e]]] # NoDeployment
    <3>1. SUFFICES ASSUME SliceTag(e) # NoDeployment,
                          tagOwner'[SliceOf[target[e]]] = NoDeployment
                   PROVE  FALSE
      OBVIOUS
    <3>2. Pc(d) = "undo_network" /\ tagOwner[SliceOf[target[e]]] = d
      BY <2>1, <3>1, SagaAssumption DEF Elsewhere, SliceTag, TagOf, Exists
    <3>3. SliceOf[target[d]] = SliceOf[target[e]]
      BY <1>1, <2>1, <3>2, SagaAssumption DEF OwnTags
    <3> QED
      BY <2>2, <3>2, <3>3 DEF Undoing
  <2> QED
    BY <1>2, <2>3, <2>4 DEF SliceTag, TagOf, Exists
<1>5. host'[e] \subseteq host[e]
  BY DEF Elsewhere
<1> DEFINE v == Rows(e)
           u == [estado |-> estado'[e], nodes |-> nodes'[e], links |-> links'[e],
                 reserva |-> reserva'[e], display |-> display'[e], host |-> host'[e],
                 owned |-> OwnedBy(e)', tag |-> SliceTag(e)', calls |-> CallsOf(e)']
<1>6. /\ u.nodes = v.nodes /\ u.links = v.links /\ u.reserva = v.reserva
      /\ u.display = v.display /\ u.owned = v.owned /\ u.calls = v.calls
      /\ u.estado = v.estado /\ u.host \subseteq v.host
      /\ Deployed(v) => u.host = v.host /\ (v.tag # NoDeployment => u.tag # NoDeployment)
  BY <1>2, <1>3, <1>4, <1>5 DEF Rows
<1>7. Rows(e)' = u /\ InOrder(wf[e], v)
  BY <1>1 DEF Rows
<1> HIDE DEF u, v
<1>8. InOrder(wf[e], u)
  BY <1>6, <1>7, ElsewhereInOrder
<1> QED
  BY <1>2, <1>7, <1>8 DEF DeployInOrder

\* A step about d is in order when it leaves d in order.
LEMMA StepInOrder ==
  ASSUME SagaInv, DeployInv, [RegNext]_regVars, NEW d \in Deployments, Elsewhere(d),
         Changes(d), OwnCalls(d), DeployInOrder(d)'
  PROVE  DeployInv'
<1>1. SpentOnce'
  BY SpentKept DEF SagaInv, RegInv, DeployInv
<1>2. \A e \in Deployments : DeployInOrder(e)'
  BY OthersInOrder
<1>3. OwnTags'
  <2>1. SUFFICES ASSUME NEW s \in Slices, tagOwner'[s] # NoDeployment
                 PROVE  (Exists(tagOwner[s]) /\ SliceOf[target[tagOwner[s]]] = s)'
    BY DEF OwnTags
  <2>2. \/ tagOwner'[s] = tagOwner[s]
        \/ tagOwner'[s] = d /\ Exists(d) /\ s = SliceOf[target[d]]
    BY <2>1 DEF Elsewhere
  <2>3. tagOwner'[s] \in Deployments /\ Exists(tagOwner'[s])
        /\ SliceOf[target[tagOwner'[s]]] = s
    BY <2>1, <2>2 DEF DeployInv, OwnTags, SagaInv, SagaTypeOK
  <2>4. \A e \in Deployments : Exists(e) => Exists(e)' /\ target'[e] = target[e]
    BY DEF Elsewhere, Exists
  <2> QED
    BY <2>3, <2>4 DEF Exists
<1> QED
  BY <1>1, <1>2, <1>3 DEF DeployInv

-----------------------------------------------------------------------------
\* What the calls do to the rows of their deployment, before anything is known of
\* how the workflow takes it.
Then(d) ==
  [estado |-> estado'[d], nodes |-> nodes'[d], links |-> links'[d], reserva |-> reserva'[d],
   display |-> display'[d], host |-> host'[d], owned |-> OwnedBy(d)', tag |-> SliceTag(d)',
   calls |-> CallsOf(d)]

LEMMA RowsTyped ==
  ASSUME SagaInv, DeployInv, NEW d \in Deployments
  PROVE  /\ wf[d] \in Workflows /\ wf \in [Deployments -> Workflows] /\ TypeOK
         /\ InOrder(wf[d], Rows(d)) /\ CoreInv /\ ResultRecorded
         /\ Exists(d) => target[d] \in Versions /\ SliceOf[target[d]] \in Slices
         /\ tagOwner \in [Slices -> Deployments \cup {NoDeployment}]
         /\ display \in [Deployments -> SUBSET Nodes]
         /\ host \in [Deployments -> SUBSET Actions]
         /\ inflight \subseteq Deployments \X Calls
<1>1. SagaTypeOK /\ CoreInv /\ InOrder(wf[d], Rows(d)) /\ ResultRecorded
  BY DEF SagaInv, RegInv, DeployInv, DeployInOrder
<1> QED
  BY <1>1, RegistryAssumption DEF SagaTypeOK, TypeOK, Exists

\* Nothing happens to the rows, the allocators and the hosts.
LEMMA NothingInOrder ==
  ASSUME SagaInv, DeployInv, NEW d \in Deployments, UNCHANGED world
  PROVE  Elsewhere(d) /\ Then(d) = Rows(d) /\ InOrder(wf[d], Then(d)) /\ [RegNext]_regVars
<1>1. /\ UNCHANGED <<estado, target, nodes, links, reserva>>
      /\ UNCHANGED <<tagOwner, display, host>> /\ UNCHANGED regVars
  BY DEF world, regVars, resVars
<1>2. Then(d) = Rows(d)
  BY <1>1 DEF Then, Rows, OwnedBy, SliceTag, TagOf, Exists
<1>3. Elsewhere(d)
  BY <1>1 DEF Elsewhere, Exists
<1> QED
  BY <1>1, <1>2, <1>3, RowsTyped

\* A transaction of the registry changes the rows of one deployment.
LEMMA TransactionInOrder ==
  ASSUME SagaInv, DeployInv, NEW d \in Deployments, Exists(d), RegNext,
         UNCHANGED <<resVars, target>>, estado'[d] # "none",
         \A e \in Deployments \ {d} :
           /\ estado'[e] = estado[e] /\ nodes'[e] = nodes[e] /\ links'[e] = links[e]
           /\ reserva'[e] = reserva[e],
         RowsChange(wf[d], Rows(d), Then(d))
           \/ /\ estado'[d] = estado[d] /\ nodes'[d] = nodes[d] /\ links'[d] = links[d]
              /\ reserva'[d] = reserva[d]
  PROVE  Elsewhere(d) /\ InOrder(wf[d], Then(d))
<1>1. UNCHANGED <<tagOwner, display, host, target>>
  BY DEF resVars
<1>2. Elsewhere(d)
  BY <1>1 DEF Elsewhere, Exists
<1> DEFINE v == Rows(d)
           u == Then(d)
<1>3. /\ u.display = v.display /\ u.host = v.host /\ u.owned = v.owned /\ u.tag = v.tag
      /\ u.calls = v.calls
  BY <1>1 DEF Then, Rows, OwnedBy, SliceTag, TagOf, Exists
<1>4. CASE RowsChange(wf[d], v, u)
  <2>1. InOrder(wf[d], v)
    BY RowsTyped
  <2> HIDE DEF v, u
  <2>2. InOrder(wf[d], u)
    BY <1>3, <1>4, <2>1, RowsInOrder
  <2> QED
    BY <1>2, <2>2 DEF u
<1>5. CASE /\ estado'[d] = estado[d] /\ nodes'[d] = nodes[d] /\ links'[d] = links[d]
           /\ reserva'[d] = reserva[d]
  <2>1. u = v
    BY <1>3, <1>5 DEF Then, Rows
  <2> QED
    BY <1>2, <2>1, RowsTyped
<1> QED
  BY <1>4, <1>5

LEMMA StartedInOrder ==
  ASSUME SagaInv, DeployInv, NEW d \in Deployments, StartDeployment(d), UNCHANGED resVars
  PROVE  /\ Elsewhere(d) /\ InOrder(wf[d], Then(d)) /\ [RegNext]_regVars
         /\ Then(d).estado = "IN_PROGRESS"
<1>1. TypeOK /\ RegNext
  BY RowsTyped DEF RegNext, InternalCall
<1>2. /\ estado[d] \in {"PENDING", "IN_PROGRESS"} /\ estado'[d] = "IN_PROGRESS"
      /\ \A e \in Deployments \ {d} : estado'[e] = estado[e]
      /\ UNCHANGED <<target, nodes, links, reserva>>
  BY <1>1 DEF StartDeployment, StartAccepted, TypeOK
<1>3. estado[d] = "PENDING" => RowsChange(wf[d], Rows(d), Then(d))
  BY <1>2 DEF RowsChange, Rows, Then
<1> QED
  BY <1>1, <1>2, <1>3, TransactionInOrder DEF Exists, Then

LEMMA InventoryInOrder ==
  ASSUME SagaInv, DeployInv, NEW d \in Deployments, CreateInventory(d), UNCHANGED resVars,
         Pc(d) = "inventory" \/ "inventory" \in CallsOf(d)
  PROVE  /\ Elsewhere(d) /\ InOrder(wf[d], Then(d)) /\ [RegNext]_regVars
         /\ \A n \in Nodes : Then(d).nodes[n] # "none"
<1>1. TypeOK /\ RegNext
  BY RowsTyped DEF RegNext, InternalCall
<1>2. /\ Exists(d) /\ UNCHANGED <<target, estado, reserva>>
      /\ \A e \in Deployments \ {d} : nodes'[e] = nodes[e] /\ links'[e] = links[e]
      /\ \A n \in Nodes : nodes'[d][n] = IF nodes[d][n] = "none" THEN "PENDING" ELSE nodes[d][n]
      /\ \A l \in Links : links'[d][l] = IF links[d][l] = "none" THEN "PENDING" ELSE links[d][l]
  BY <1>1 DEF CreateInventory, TypeOK
<1>3. RowsChange(wf[d], Rows(d), Then(d))
  BY <1>2 DEF RowsChange, Rows, Then, Pc
<1>4. \A n \in Nodes : Then(d).nodes[n] # "none"
  BY <1>2 DEF Then
<1> QED
  BY <1>1, <1>2, <1>3, <1>4, TransactionInOrder DEF Exists

LEMMA ReservedInOrder ==
  ASSUME SagaInv, DeployInv, NEW d \in Deployments, ReservePlacement(d), UNCHANGED resVars,
         wf[d].branch["reserve"] # "idle", Pc(d) = "allocate" \/ "reserve" \in CallsOf(d)
  PROVE  /\ Elsewhere(d) /\ InOrder(wf[d], Then(d)) /\ [RegNext]_regVars
         /\ Nodes # {} => Then(d).reserva = "RESERVED"
<1>1. TypeOK /\ RegNext
  BY RowsTyped DEF RegNext, InternalCall
<1>2. /\ Exists(d) /\ UNCHANGED <<target, estado, nodes, links>>
      /\ \A e \in Deployments \ {d} : reserva'[e] = reserva[e]
      /\ reserva'[d] = IF Nodes = {} THEN reserva[d] ELSE "RESERVED"
  BY <1>1 DEF ReservePlacement, ReserveAccepted, Exists, TypeOK
<1>3. Nodes # {} => RowsChange(wf[d], Rows(d), Then(d))
  BY <1>2 DEF RowsChange, Rows, Then, Pc
<1>4. Nodes # {} => Then(d).reserva = "RESERVED"
  BY <1>2 DEF Then
<1> QED
  BY <1>1, <1>2, <1>3, <1>4, TransactionInOrder DEF Exists

LEMMA ReleasedInOrder ==
  ASSUME SagaInv, DeployInv, NEW d \in Deployments, RollbackPlacement(d), UNCHANGED resVars,
         Pc(d) = "undo_placement"
  PROVE  /\ Elsewhere(d) /\ InOrder(wf[d], Then(d)) /\ [RegNext]_regVars
         /\ Then(d).reserva # "RESERVED"
<1>1. TypeOK /\ RegNext
  BY RowsTyped DEF RegNext, InternalCall
<1>2. /\ Exists(d) /\ UNCHANGED <<target, estado, nodes, links>>
      /\ \A e \in Deployments \ {d} : reserva'[e] = reserva[e]
      /\ reserva'[d] = IF reserva[d] = "RESERVED" THEN "RELEASED" ELSE reserva[d]
  BY <1>1 DEF RollbackPlacement, TypeOK
<1>3. RowsChange(wf[d], Rows(d), Then(d))
  BY <1>2 DEF RowsChange, Rows, Then, Pc
<1>4. Then(d).reserva # "RESERVED"
  BY <1>2 DEF Then
<1> QED
  BY <1>1, <1>2, <1>3, <1>4, TransactionInOrder DEF Exists

\* finish_deployment, as the last activity of the workflow.
LEMMA FinishedInOrder ==
  ASSUME SagaInv, DeployInv, NEW d \in Deployments, NEW outcome \in Outcomes,
         FinishDeployment(d, outcome), UNCHANGED resVars,
         \/ Pc(d) \in {"reject", "conclude"} /\ outcome # "COMPLETED"
         \/ Pc(d) = "complete" /\ outcome = "COMPLETED"
  PROVE  /\ Elsewhere(d) /\ InOrder(wf[d], Then(d)) /\ [RegNext]_regVars
         /\ Then(d).estado = outcome
<1>1. TypeOK /\ RegNext /\ estado'[d] = outcome
      /\ \A e \in Deployments \ {d} : estado'[e] = estado[e]
  BY RowsTyped, FinishRecords
<1>2. Then(d).estado = outcome
  BY <1>1 DEF Then
<1>3. CASE FinishRepeated(d, outcome)
  BY <1>2, <1>3, NothingInOrder DEF FinishRepeated, world
<1>4. CASE FinishUndone(d, outcome)
  <2>1. /\ Exists(d) /\ UNCHANGED <<target, reserva>>
        /\ \A e \in Deployments \ {d} : nodes'[e] = nodes[e] /\ links'[e] = links[e]
        /\ \A n \in Nodes : nodes'[d][n] \in {"none", "DELETED"}
        /\ \A l \in Links : links'[d][l] = "none"
    BY <1>1, <1>4 DEF FinishUndone, Active, Exists, TypeOK
  <2>2. outcome # "COMPLETED"
    BY <1>4 DEF FinishUndone
  <2>3. RowsChange(wf[d], Rows(d), Then(d))
    BY <2>1, <2>2 DEF RowsChange, Rows, Then, Live, Pc
  <2> QED
    BY <1>1, <1>2, <2>1, <2>3, TransactionInOrder DEF Outcomes
<1>5. CASE outcome = "FAILED" /\ FinishFailed(d)
  <2>1. /\ Exists(d) /\ UNCHANGED <<target, reserva, links>>
        /\ \A e \in Deployments \ {d} : nodes'[e] = nodes[e]
    BY <1>1, <1>5 DEF FinishFailed, Active, Exists, TypeOK
  <2>2. RowsChange(wf[d], Rows(d), Then(d))
    BY <1>1, <1>5, <2>1 DEF RowsChange, Rows, Then, Pc
  <2> QED
    BY <1>1, <1>2, <2>1, <2>2, TransactionInOrder DEF Outcomes
<1>6. CASE outcome = "COMPLETED" /\ FinishCompleted(d)
  <2>1. Exists(d) /\ UNCHANGED <<target, reserva, links, nodes>>
    BY <1>1, <1>6 DEF FinishCompleted, Active, Exists, TypeOK
  <2>2. RowsChange(wf[d], Rows(d), Then(d))
    BY <1>1, <1>6, <2>1 DEF RowsChange, Rows, Then, Pc
  <2> QED
    BY <1>1, <1>2, <2>1, <2>2, TransactionInOrder DEF Outcomes
<1> QED
  BY <1>3, <1>4, <1>5, <1>6 DEF FinishDeployment

-----------------------------------------------------------------------------
\* What the allocators and the adapters do.

\* A workflow past its approval, and one with a call on its way, is of a deployment
\* that exists.
LEMMA WorkflowExists ==
  ASSUME SagaInv, NEW d \in Deployments,
         Pc(d) \notin Early \/ \E c \in Calls : c \in CallsOf(d)
  PROVE  Exists(d) /\ SliceOf[target[d]] \in Slices
<1>1. approval[d] = "APPROVED"
  BY PastApproval DEF CallsOf
<1>2. Exists(d) /\ TypeOK
  BY <1>1 DEF SagaInv, RegInv, ApprovedBeforeStart, Exists, SagaTypeOK
<1> QED
  BY <1>2, RegistryAssumption DEF TypeOK, Exists

\* An allocator changes tags and displays, the tag of no other deployment's slice.
LEMMA AllocatorInOrder ==
  ASSUME SagaInv, DeployInv, NEW d \in Deployments, UNCHANGED <<regVars, host>>,
         \A e \in Deployments \ {d} : display'[e] = display[e],
         \A s \in Slices :
           \/ tagOwner'[s] = tagOwner[s]
           \/ /\ tagOwner[s] = NoDeployment /\ tagOwner'[s] = d /\ Exists(d)
              /\ s = SliceOf[target[d]]
           \/ Pc(d) = "undo_network" /\ tagOwner[s] = d /\ tagOwner'[s] = NoDeployment,
         ResourcesChange(wf[d], Rows(d), Then(d))
  PROVE  Elsewhere(d) /\ InOrder(wf[d], Then(d)) /\ [RegNext]_regVars
<1>1. UNCHANGED <<estado, target, nodes, links, reserva, host>>
  BY DEF regVars
<1>2. Elsewhere(d)
  BY <1>1 DEF Elsewhere, Exists
<1> DEFINE v == Rows(d)
           u == Then(d)
<1>3. /\ u.estado = v.estado /\ u.nodes = v.nodes /\ u.links = v.links
      /\ u.reserva = v.reserva /\ u.host = v.host /\ u.calls = v.calls
  BY <1>1 DEF Then, Rows
<1>4. InOrder(wf[d], v)
  BY RowsTyped
<1> HIDE DEF v
<1>5. ResourcesChange(wf[d], v, u)
  BY DEF v
<1> HIDE DEF u
<1>6. InOrder(wf[d], u)
  BY <1>3, <1>4, <1>5, ResourcesInOrder
<1> QED
  BY <1>2, <1>6 DEF u

LEMMA TaggedInOrder ==
  ASSUME SagaInv, DeployInv, NEW d \in Deployments, NetworkAllocate(d),
         wf[d].branch["network"] # "idle", Pc(d) = "allocate" \/ "network" \in CallsOf(d)
  PROVE  /\ Elsewhere(d) /\ InOrder(wf[d], Then(d)) /\ [RegNext]_regVars
         /\ Then(d).tag # NoDeployment
<1> DEFINE s == SliceOf[target[d]]
<1>1. /\ Exists(d) /\ s \in Slices /\ tagOwner \in [Slices -> Deployments \cup {NoDeployment}]
  BY WorkflowExists, RowsTyped DEF Early, Calls, Branches
<1>2. /\ UNCHANGED <<regVars, display, host, target, estado>>
      /\ tagOwner' = [tagOwner EXCEPT ![s] = IF @ = NoDeployment THEN d ELSE @]
  BY DEF NetworkAllocate, regVars
<1>3. tagOwner'[s] # NoDeployment /\ SliceTag(d)' = tagOwner'[s]
  BY <1>1, <1>2, SagaAssumption DEF SliceTag, TagOf, Exists
<1>4. ResourcesChange(wf[d], Rows(d), Then(d)) /\ Then(d).tag # NoDeployment
  BY <1>2, <1>3 DEF ResourcesChange, Rows, Then, Pc
<1> QED
  BY <1>1, <1>2, <1>4, AllocatorInOrder

LEMMA DisplaysInOrder ==
  ASSUME SagaInv, DeployInv, NEW d \in Deployments, ComputeAllocate(d)
  PROVE  /\ Elsewhere(d) /\ InOrder(wf[d], Then(d)) /\ [RegNext]_regVars
         /\ Pc(d) = "compute" => Then(d).display = Nodes
<1>1. display \in [Deployments -> SUBSET Nodes] /\ InOrder(wf[d], Rows(d))
  BY RowsTyped
<1>2. /\ UNCHANGED <<regVars, tagOwner, host, target, estado>>
      /\ \A e \in Deployments \ {d} : display'[e] = display[e]
      /\ display'[d] = display[d] \cup {n \in Nodes : nodes[d][n] = "PENDING"}
  BY <1>1 DEF ComputeAllocate, regVars
<1>3. ResourcesChange(wf[d], Rows(d), Then(d))
  BY <1>1, <1>2 DEF ResourcesChange, Rows, Then, OwnedBy, SliceTag, TagOf, Exists
<1>4. Pc(d) = "compute" => \A n \in Nodes : nodes[d][n] = "PENDING"
  BY <1>1 DEF InOrder, RegistryInOrder, Rows, Pc, BeforeRounds
<1>5. Pc(d) = "compute" => Then(d).display = Nodes
  BY <1>1, <1>2, <1>4 DEF Then
<1> QED
  BY <1>2, <1>3, <1>5, AllocatorInOrder

LEMMA DisplaysUndoneInOrder ==
  ASSUME SagaInv, DeployInv, NEW d \in Deployments, Pc(d) = "undo_compute",
         display' = [display EXCEPT ![d] = @ \ {n \in Nodes : nodes[d][n] = "PENDING"}],
         UNCHANGED <<regVars, tagOwner, host>>
  PROVE  Elsewhere(d) /\ InOrder(wf[d], Then(d)) /\ [RegNext]_regVars
<1>1. /\ UNCHANGED <<regVars, tagOwner, host, target, estado>>
      /\ \A e \in Deployments \ {d} : display'[e] = display[e]
  BY RowsTyped DEF regVars
<1>2. ResourcesChange(wf[d], Rows(d), Then(d))
  BY <1>1 DEF ResourcesChange, Rows, Then, OwnedBy, SliceTag, TagOf, Exists, Pc
<1> QED
  BY <1>1, <1>2, AllocatorInOrder

LEMMA UntaggedInOrder ==
  ASSUME SagaInv, DeployInv, NEW d \in Deployments, Pc(d) = "undo_network",
         tagOwner' = [s \in Slices |-> IF tagOwner[s] = d THEN NoDeployment ELSE tagOwner[s]],
         UNCHANGED <<regVars, display, host>>
  PROVE  /\ Elsewhere(d) /\ InOrder(wf[d], Then(d)) /\ [RegNext]_regVars
         /\ Then(d).owned = {}
<1>1. OwnedBy(d)' = {}
  BY SagaAssumption DEF OwnedBy
<1>2. ResourcesChange(wf[d], Rows(d), Then(d)) /\ Then(d).owned = {}
  BY <1>1 DEF ResourcesChange, Rows, Then, Pc
<1> QED
  BY <1>2, AllocatorInOrder

\* The adapters' requests, on the hosts of d and of the others.
LEMMA HandledHosts ==
  ASSUME SagaInv, NEW d \in Deployments, NEW a \in Actions, NEW c \in BOOLEAN,
         Handled(d, a, c), c => Exists(d)
  PROVE  /\ ~c => host'[d] = host[d] \cup {a}
         /\ c => host'[d] = host[d] \ (IF a \in Links THEN Links ELSE {a})
         /\ \A e \in Deployments \ {d} :
              \/ host'[e] = host[e]
              \/ /\ c /\ Exists(e) /\ SliceOf[target[e]] = SliceOf[target[d]]
                 /\ host'[e] \subseteq host[e]
<1>1. CASE ~c
  BY <1>1 DEF Handled
<1>2. CASE c /\ a \in Links
  BY <1>2 DEF Handled
<1>3. CASE c /\ a \notin Links
  BY <1>3 DEF Handled
<1> QED
  BY <1>1, <1>2, <1>3

\* Only the hosts change.
LEMMA HostsElsewhere ==
  ASSUME SagaInv, NEW d \in Deployments, UNCHANGED <<regVars, tagOwner, display>>,
         \A e \in Deployments \ {d} :
           \/ host'[e] = host[e]
           \/ /\ Pc(d) = "undo_actions" /\ Exists(e) /\ SliceOf[target[e]] = SliceOf[target[d]]
              /\ host'[e] \subseteq host[e]
  PROVE  /\ Elsewhere(d) /\ [RegNext]_regVars
         /\ Then(d).estado = Rows(d).estado /\ Then(d).nodes = Rows(d).nodes
         /\ Then(d).links = Rows(d).links /\ Then(d).reserva = Rows(d).reserva
         /\ Then(d).display = Rows(d).display /\ Then(d).owned = Rows(d).owned
         /\ Then(d).tag = Rows(d).tag /\ Then(d).calls = Rows(d).calls
         /\ Then(d).host = host'[d]
<1>1. UNCHANGED <<estado, target, nodes, links, reserva, regVars, tagOwner, display>>
  BY DEF regVars
<1>2. Elsewhere(d)
  BY <1>1 DEF Elsewhere, Exists
<1> QED
  BY <1>1, <1>2 DEF Then, Rows, OwnedBy, SliceTag, TagOf, Exists

-----------------------------------------------------------------------------
\* How the workflow takes the answer of an activity.

LEMMA FailuresLead ==
  ASSUME NEW d \in Deployments, Pc(d) \in Failing \ {"allocate"}
  PROVE  FailureLeads(wf[d], OnFailure(d))
  BY DEF OnFailure, AfterUndoNetwork, Failing, Forward, Compensation, FailureLeads, Pc

\* The step is in order when the workflow is, for the rows as the call left them.
LEMMA TakenInOrder ==
  ASSUME SagaInv, DeployInv, NEW d \in Deployments, Elsewhere(d), [RegNext]_regVars,
         Changes(d), NEW late \in SUBSET {<<d, c>> : c \in Calls},
         inflight' = inflight \cup late,
         \A c \in Branches : <<d, c>> \in late => wf'[d].branch[c] # "idle",
         InOrder(wf'[d], Then(d))
  PROVE  DeployInv'
<1> DEFINE v == Then(d)
           u == [v EXCEPT !.calls = CallsOf(d)']
<1>1. Rows(d)' = u
  BY DEF Rows, Then
<1>2. /\ CallsOf(d) \subseteq CallsOf(d)'
      /\ \A c \in CallsOf(d)' \ CallsOf(d) : <<d, c>> \in late
  BY DEF CallsOf
<1>3. /\ u.estado = v.estado /\ u.nodes = v.nodes /\ u.links = v.links
      /\ u.reserva = v.reserva /\ u.display = v.display /\ u.host = v.host
      /\ u.owned = v.owned /\ u.tag = v.tag /\ v.calls = CallsOf(d) /\ u.calls = CallsOf(d)'
  BY DEF Then
<1> HIDE DEF u, v
<1>4. InOrder(wf'[d], v)
  BY DEF v
<1>5. InOrder(wf'[d], u)
  BY <1>2, <1>3, <1>4, CallsInOrder
<1>6. DeployInOrder(d)'
  BY <1>1, <1>5 DEF DeployInOrder
<1> QED
  BY <1>6, StepInOrder DEF OwnCalls

\* An activity answered, to go on; or not, to try again or give up.
LEMMA AnsweredInOrder ==
  ASSUME SagaInv, DeployInv, NEW d \in Deployments, Elsewhere(d), [RegNext]_regVars,
         InOrder(wf[d], Then(d)), UNCHANGED inflight, NEW next \in Stages,
         Goto(d, next) /\ Achieved(wf[d], Then(d), next)
  PROVE  DeployInv'
<1>1. /\ SagaTypeOK /\ wf[d].error \in BOOLEAN
  BY RowsTyped DEF SagaInv, Workflows
<1>2. /\ Changes(d) /\ SameWork(wf[d], wf'[d]) /\ wf'[d].pc = next
      /\ wf'[d].error = wf[d].error
  BY <1>1, Goes
<1>3. InOrder(wf'[d], Then(d))
  BY <1>1, <1>2, AchievedInOrder
<1>4. {} \in SUBSET {<<d, c>> : c \in Calls} /\ inflight' = inflight \cup {}
  OBVIOUS
<1> QED
  BY <1>2, <1>3, <1>4, TakenInOrder

LEMMA UnansweredInOrder ==
  ASSUME SagaInv, DeployInv, NEW d \in Deployments, Elsewhere(d), [RegNext]_regVars,
         InOrder(wf[d], Then(d)), NEW call, call \notin Branches,
         UNCHANGED inflight \/ Abandon(d, call),
         Pc(d) \in Failing \ {"allocate"}, Retry(d) \/ Fail(d)
  PROVE  DeployInv'
<1>1. /\ SagaTypeOK /\ wf[d].error \in BOOLEAN
  BY RowsTyped DEF SagaInv, Workflows
<1>2. /\ Changes(d) /\ SameWork(wf[d], wf'[d])
      /\ \/ wf'[d].pc = wf[d].pc /\ wf'[d].error = wf[d].error
         \/ /\ wf'[d].pc = OnFailure(d)
            /\ wf'[d].error = (wf[d].error \/ Pc(d) \in Compensation)
  BY <1>1, Stops
<1>3. InOrder(wf'[d], Then(d))
  BY <1>1, <1>2, SameInOrder, FailureInOrder, FailuresLead DEF Pc
<1>4. \E late \in SUBSET {<<d, c>> : c \in Calls} :
        /\ inflight' = inflight \cup late
        /\ \A c \in Branches : <<d, c>> \notin late
  <2>1. CASE UNCHANGED inflight
    <3>1. {} \in SUBSET {<<d, c>> : c \in Calls} /\ inflight' = inflight \cup {}
      BY <2>1
    <3> QED
      BY <3>1
  <2>2. CASE Abandon(d, call)
    <3>1. PICK late \in Leftovers(d, call) : inflight' = inflight \cup late
      BY <2>2 DEF Abandon
    <3>2. late = {} \/ \E c \in {call} \cap LateCalls : late = {<<d, c>>}
      BY <3>1 DEF Leftovers
    <3> QED
      BY <3>1, <3>2, SagaAssumption
  <2> QED
    BY <2>1, <2>2
<1> QED
  BY <1>2, <1>3, <1>4, TakenInOrder

\* Every activity but those of the gather and the facts is an Attempt.
LEMMA EarlyActivitiesInOrder ==
  ASSUME SagaInv, DeployInv, NEW d \in Deployments,
         \/ ReadApproval(d) \/ WaitForApproval(d) \/ Reject(d)
         \/ Start(d) \/ GetPlan(d) \/ Inventory(d)
  PROVE  DeployInv'
<1> USE DEF Stages, Forward, Results, Compensation, Failing, Branches
<1>1. CASE ReadApproval(d)
  <2> DEFINE next == CASE approval[d] = "PENDING"  -> "waiting"
                       [] approval[d] = "APPROVED" -> "start"
                       [] OTHER                    -> "reject"
  <2>1. /\ Pc(d) = "approval" /\ UNCHANGED world
        /\ \/ Goto(d, next) /\ UNCHANGED inflight
           \/ (Retry(d) \/ Fail(d)) /\ (UNCHANGED inflight \/ Abandon(d, "approval"))
    BY <1>1 DEF ReadApproval, Attempt
  <2>2. next \in {"waiting", "start", "reject"}
    OBVIOUS
  <2> HIDE DEF next
  <2>3. Achieved(wf[d], Then(d), next)
    BY <2>1, <2>2 DEF Achieved, Pc
  <2> QED
    BY <2>1, <2>2, <2>3, NothingInOrder, AnsweredInOrder, UnansweredInOrder
<1>2. CASE WaitForApproval(d)
  <2> DEFINE next == IF signal[d] = "APPROVED" THEN "start" ELSE "reject"
  <2>1. Pc(d) = "waiting" /\ UNCHANGED world /\ UNCHANGED inflight /\ Goto(d, next)
    BY <1>2 DEF WaitForApproval
  <2>2. next \in {"start", "reject"}
    OBVIOUS
  <2> HIDE DEF next
  <2>3. Achieved(wf[d], Then(d), next)
    BY <2>1, <2>2 DEF Achieved, Pc
  <2> QED
    BY <2>1, <2>2, <2>3, NothingInOrder, AnsweredInOrder
<1>3. CASE Reject(d)
  <2>1. /\ Pc(d) = "reject"
        /\ UNCHANGED world \/ (FinishDeployment(d, "REJECTED") /\ UNCHANGED resVars)
        /\ \/ Goto(d, "REJECTED") /\ UNCHANGED inflight
           \/ (Retry(d) \/ Fail(d)) /\ (UNCHANGED inflight \/ Abandon(d, "reject"))
    BY <1>3 DEF Reject, Attempt
  <2>2. Elsewhere(d) /\ InOrder(wf[d], Then(d)) /\ [RegNext]_regVars
    BY <2>1, NothingInOrder, FinishedInOrder DEF Outcomes
  <2>3. Achieved(wf[d], Then(d), "REJECTED")
    BY <2>1 DEF Achieved, Pc
  <2> QED
    BY <2>1, <2>2, <2>3, AnsweredInOrder, UnansweredInOrder
<1>4. CASE Start(d)
  <2>1. /\ Pc(d) = "start"
        /\ \/ /\ StartDeployment(d) /\ UNCHANGED resVars
              /\ Goto(d, "plan") \/ Retry(d)
              /\ UNCHANGED inflight
           \/ /\ UNCHANGED world /\ (Retry(d) \/ Fail(d))
              /\ UNCHANGED inflight \/ Abandon(d, "start")
    BY <1>4 DEF Start, Attempt
  <2>2. Elsewhere(d) /\ InOrder(wf[d], Then(d)) /\ [RegNext]_regVars
    BY <2>1, NothingInOrder, StartedInOrder
  <2>3. CASE Goto(d, "plan") /\ StartDeployment(d) /\ UNCHANGED <<resVars, inflight>>
    <3>1. Achieved(wf[d], Then(d), "plan")
      BY <2>1, <2>3, StartedInOrder DEF Achieved, Pc
    <3> QED
      BY <2>2, <2>3, <3>1, AnsweredInOrder
  <2> QED
    BY <2>1, <2>2, <2>3, UnansweredInOrder
<1>5. CASE GetPlan(d)
  <2>1. /\ Pc(d) = "plan" /\ UNCHANGED world
        /\ \/ Goto(d, "inventory") /\ UNCHANGED inflight
           \/ (Retry(d) \/ Fail(d)) /\ (UNCHANGED inflight \/ Abandon(d, "plan"))
    BY <1>5 DEF GetPlan, Attempt
  <2>2. Achieved(wf[d], Then(d), "inventory")
    BY <2>1 DEF Achieved, Pc
  <2> QED
    BY <2>1, <2>2, NothingInOrder, AnsweredInOrder, UnansweredInOrder
<1>6. CASE Inventory(d)
  <2>1. /\ Pc(d) = "inventory"
        /\ \/ /\ CreateInventory(d) /\ UNCHANGED resVars
              /\ Goto(d, "allocate") \/ Retry(d)
              /\ UNCHANGED inflight
           \/ /\ UNCHANGED world /\ (Retry(d) \/ Fail(d))
              /\ UNCHANGED inflight \/ Abandon(d, "inventory")
    BY <1>6 DEF Inventory, Attempt
  <2>2. Elsewhere(d) /\ InOrder(wf[d], Then(d)) /\ [RegNext]_regVars
    BY <2>1, NothingInOrder, InventoryInOrder
  <2>3. CASE Goto(d, "allocate") /\ CreateInventory(d) /\ UNCHANGED <<resVars, inflight>>
    <3>1. Achieved(wf[d], Then(d), "allocate")
      BY <2>1, <2>3, InventoryInOrder DEF Achieved, Pc
    <3> QED
      BY <2>2, <2>3, <3>1, AnsweredInOrder
  <2> QED
    BY <2>1, <2>2, <2>3, UnansweredInOrder
<1> QED
  BY <1>1, <1>2, <1>3, <1>4, <1>5, <1>6

LEMMA LaterActivitiesInOrder ==
  ASSUME SagaInv, DeployInv, NEW d \in Deployments,
         \/ Compute(d) \/ Complete(d) \/ UndoCompute(d) \/ UndoActionsEnds(d)
         \/ UndoNetwork(d) \/ UndoPlacement(d) \/ Conclude(d)
  PROVE  DeployInv'
<1> USE DEF Stages, Forward, Results, Compensation, Failing, Branches
<1>1. CASE Compute(d)
  <2>1. /\ Pc(d) = "compute"
        /\ \/ /\ ComputeAllocate(d)
              /\ Goto(d, "prepare") \/ Retry(d)
              /\ UNCHANGED inflight
           \/ /\ UNCHANGED world /\ (Retry(d) \/ Fail(d))
              /\ UNCHANGED inflight \/ Abandon(d, "compute")
    BY <1>1 DEF Compute, Attempt
  <2>2. Elsewhere(d) /\ InOrder(wf[d], Then(d)) /\ [RegNext]_regVars
    BY <2>1, NothingInOrder, DisplaysInOrder
  <2>3. CASE Goto(d, "prepare") /\ ComputeAllocate(d) /\ UNCHANGED inflight
    <3>1. Achieved(wf[d], Then(d), "prepare")
      BY <2>1, <2>3, DisplaysInOrder DEF Achieved, Pc
    <3> QED
      BY <2>2, <2>3, <3>1, AnsweredInOrder
  <2> QED
    BY <2>1, <2>2, <2>3, UnansweredInOrder
<1>2. CASE Complete(d)
  <2>1. /\ Pc(d) = "complete"
        /\ \/ /\ FinishDeployment(d, "COMPLETED") /\ UNCHANGED resVars
              /\ Goto(d, "COMPLETED") \/ Retry(d)
              /\ UNCHANGED inflight
           \/ /\ UNCHANGED world /\ (Retry(d) \/ Fail(d))
              /\ UNCHANGED inflight \/ Abandon(d, "complete")
    BY <1>2 DEF Complete, Attempt
  <2>2. Elsewhere(d) /\ InOrder(wf[d], Then(d)) /\ [RegNext]_regVars
    BY <2>1, NothingInOrder, FinishedInOrder DEF Outcomes
  <2>3. CASE Goto(d, "COMPLETED") /\ FinishDeployment(d, "COMPLETED")
             /\ UNCHANGED <<resVars, inflight>>
    <3>1. Then(d).host \subseteq Actions
      BY <2>3, RowsTyped DEF Then, resVars
    <3>2. Achieved(wf[d], Then(d), "COMPLETED")
      BY <2>1, <2>3, <3>1, FinishedInOrder DEF Achieved, Pc, Outcomes
    <3> QED
      BY <2>2, <2>3, <3>2, AnsweredInOrder
  <2> QED
    BY <2>1, <2>2, <2>3, UnansweredInOrder
<1>3. CASE UndoCompute(d)
  <2>1. /\ Pc(d) = "undo_compute"
        /\ \/ UNCHANGED world
           \/ /\ display' = [display EXCEPT ![d] = @ \ {n \in Nodes : nodes[d][n] = "PENDING"}]
              /\ UNCHANGED <<regVars, tagOwner, host>>
        /\ \/ Goto(d, "undo_actions") /\ UNCHANGED inflight
           \/ (Retry(d) \/ Fail(d)) /\ (UNCHANGED inflight \/ Abandon(d, "undo_compute"))
    BY <1>3 DEF UndoCompute, Attempt
  <2>2. Elsewhere(d) /\ InOrder(wf[d], Then(d)) /\ [RegNext]_regVars
    BY <2>1, NothingInOrder, DisplaysUndoneInOrder
  <2>3. Achieved(wf[d], Then(d), "undo_actions")
    BY <2>1 DEF Achieved, Pc
  <2> QED
    BY <2>1, <2>2, <2>3, AnsweredInOrder, UnansweredInOrder
<1>4. CASE UndoActionsEnds(d)
  <2>1. /\ Pc(d) = "undo_actions" /\ wf[d].applied = {} /\ Goto(d, "undo_network")
        /\ UNCHANGED world /\ UNCHANGED inflight
    BY <1>4 DEF UndoActionsEnds
  <2>2. Achieved(wf[d], Then(d), "undo_network")
    BY <2>1 DEF Achieved, Pc
  <2> QED
    BY <2>1, <2>2, NothingInOrder, AnsweredInOrder
<1>5. CASE UndoNetwork(d)
  <2> DEFINE next == AfterUndoNetwork(d)
  <2>1. /\ Pc(d) = "undo_network"
        /\ \/ /\ tagOwner' = [s \in Slices |-> IF tagOwner[s] = d THEN NoDeployment
                                               ELSE tagOwner[s]]
              /\ UNCHANGED <<regVars, display, host>>
              /\ Goto(d, next) \/ Retry(d)
              /\ UNCHANGED inflight
           \/ /\ UNCHANGED world /\ (Retry(d) \/ Fail(d))
              /\ UNCHANGED inflight \/ Abandon(d, "undo_network")
    BY <1>5 DEF UndoNetwork, Attempt
  <2>2. /\ next = IF wf[d].branch["reserve"] = "idle" THEN "conclude" ELSE "undo_placement"
    BY DEF AfterUndoNetwork
  <2> HIDE DEF next
  <2>3. Elsewhere(d) /\ InOrder(wf[d], Then(d)) /\ [RegNext]_regVars
    BY <2>1, NothingInOrder, UntaggedInOrder
  <2>4. CASE /\ tagOwner' = [s \in Slices |-> IF tagOwner[s] = d THEN NoDeployment
                                              ELSE tagOwner[s]]
             /\ UNCHANGED <<regVars, display, host>> /\ Goto(d, next) /\ UNCHANGED inflight
    <3>1. Achieved(wf[d], Then(d), next)
      BY <2>1, <2>2, <2>4, UntaggedInOrder DEF Achieved, Pc
    <3> QED
      BY <2>2, <2>3, <2>4, <3>1, AnsweredInOrder
  <2> QED
    BY <2>1, <2>3, <2>4, UnansweredInOrder
<1>6. CASE UndoPlacement(d)
  <2>1. /\ Pc(d) = "undo_placement"
        /\ \/ /\ RollbackPlacement(d) /\ UNCHANGED resVars
              /\ Goto(d, "conclude") \/ Retry(d)
              /\ UNCHANGED inflight
           \/ /\ UNCHANGED world /\ (Retry(d) \/ Fail(d))
              /\ UNCHANGED inflight \/ Abandon(d, "undo_placement")
    BY <1>6 DEF UndoPlacement, Attempt
  <2>2. Elsewhere(d) /\ InOrder(wf[d], Then(d)) /\ [RegNext]_regVars
    BY <2>1, NothingInOrder, ReleasedInOrder
  <2>3. CASE RollbackPlacement(d) /\ UNCHANGED <<resVars, inflight>> /\ Goto(d, "conclude")
    <3>1. Achieved(wf[d], Then(d), "conclude")
      BY <2>1, <2>3, ReleasedInOrder DEF Achieved, Pc
    <3> QED
      BY <2>2, <2>3, <3>1, AnsweredInOrder
  <2> QED
    BY <2>1, <2>2, <2>3, UnansweredInOrder
<1>7. CASE Conclude(d)
  <2> DEFINE next == Outcome(d)
  <2>1. /\ Pc(d) = "conclude"
        /\ UNCHANGED world \/ (FinishDeployment(d, next) /\ UNCHANGED resVars)
        /\ \/ Goto(d, next) /\ UNCHANGED inflight
           \/ (Retry(d) \/ Fail(d)) /\ (UNCHANGED inflight \/ Abandon(d, "conclude"))
    BY <1>7 DEF Conclude, Attempt
  <2>2. next = IF wf[d].error THEN "FAILED" ELSE "COMPENSATED"
    BY DEF Outcome
  <2> HIDE DEF next
  <2>3. next \in {"FAILED", "COMPENSATED"}
    BY <2>2
  <2>4. Elsewhere(d) /\ InOrder(wf[d], Then(d)) /\ [RegNext]_regVars
    BY <2>1, <2>3, NothingInOrder, FinishedInOrder DEF Outcomes
  <2>5. Achieved(wf[d], Then(d), next)
    BY <2>1, <2>2 DEF Achieved, Pc
  <2> QED
    BY <2>1, <2>3, <2>4, <2>5, AnsweredInOrder, UnansweredInOrder
<1> QED
  BY <1>1, <1>2, <1>3, <1>4, <1>5, <1>6, <1>7

-----------------------------------------------------------------------------
\* The gather and what it leaves behind.

\* What a branch of the gather or a call left behind does.
LEMMA BranchEffectInOrder ==
  ASSUME SagaInv, DeployInv, NEW d \in Deployments, NEW b \in Branches, BranchEffect(d, b),
         wf[d].branch[b] # "idle", Pc(d) = "allocate" \/ b \in CallsOf(d)
  PROVE  /\ Elsewhere(d) /\ InOrder(wf[d], Then(d)) /\ [RegNext]_regVars
         /\ b = "reserve" /\ Nodes # {} => Then(d).reserva = "RESERVED"
         /\ b = "network" => Then(d).tag # NoDeployment
<1>1. CASE b = "reserve"
  BY <1>1, ReservedInOrder DEF BranchEffect
<1>2. CASE b = "network"
  BY <1>2, TaggedInOrder DEF BranchEffect
<1> QED
  BY <1>1, <1>2 DEF Branches

LEMMA GatherInOrderStep ==
  ASSUME SagaInv, DeployInv, NEW d \in Deployments, Elsewhere(d), [RegNext]_regVars,
         InOrder(wf[d], Then(d)), Pc(d) = "allocate", NEW b \in Branches,
         wf[d].branch[b] = "run", NEW late \in SUBSET {<<d, c>> : c \in {b}},
         \/ /\ BranchDone(d, b) /\ late = {}
            /\ b = "reserve" => Then(d).reserva = "RESERVED"
            /\ b = "network" => Then(d).tag # NoDeployment
         \/ BranchRetries(d, b, late)
         \/ BranchFails(d, b, late)
  PROVE  DeployInv'
<1> DEFINE w == wf[d]
           zero == [t \in Threads |-> 0]
<1>1. /\ w \in Workflows /\ wf \in [Deployments -> Workflows] /\ SagaTypeOK /\ RoundOK(w)
  BY RowsTyped DEF SagaInv
<1>2. /\ w.branch \in [Branches -> {"idle", "run", "ok", "failed", "lost"}] /\ b \in Calls
      /\ w.pc = "allocate"
  BY <1>1 DEF Workflows, Calls, Pc
<1>3. late \in SUBSET {<<d, c>> : c \in Calls}
  BY <1>2
<1>4. Changes(d)
  BY <1>1, <1>3, GatherMoves
<1>5. CASE /\ BranchDone(d, b) /\ late = {}
           /\ b = "reserve" => Then(d).reserva = "RESERVED"
           /\ b = "network" => Then(d).tag # NoDeployment
  <2> DEFINE done == [w.branch EXCEPT ![b] = "ok"]
             again == [w.tries EXCEPT ![b] = 0]
             pc == IF \A c \in Branches : done[c] # "run" THEN "compute" ELSE w.pc
             x == [w EXCEPT !.branch = done, !.tries = again, !.pc = pc]
  <2>1. wf'[d] = x /\ inflight' = inflight \cup late
    BY <1>1, <1>5 DEF BranchDone, Workflows
  <2>2. /\ x.branch = done /\ x.pc = pc /\ x.error = w.error /\ x.round = w.round
        /\ x.pending = w.pending /\ x.good = w.good /\ x.bad = w.bad
        /\ x.applied = w.applied
    BY <1>1 DEF Workflows
  <2> HIDE DEF x
  <2>3. InOrder(x, Then(d))
    BY <1>2, <1>5, <2>2, BranchDoneInOrder
  <2> QED
    BY <1>3, <1>4, <1>5, <2>1, <2>3, TakenInOrder
<1>6. CASE BranchRetries(d, b, late) /\ ~BranchFails(d, b, late)
  <2> DEFINE more == [w.tries EXCEPT ![b] = @ + 1]
             x == [w EXCEPT !.tries = more]
  <2>1. wf'[d] = x /\ inflight' = inflight \cup late
    BY <1>1, <1>6 DEF BranchRetries, Workflows
  <2>2. SameWork(w, x) /\ x.pc = w.pc /\ x.error = w.error
    BY <1>1 DEF Workflows, SameWork
  <2> HIDE DEF x
  <2>3. InOrder(x, Then(d))
    BY <2>2, SameInOrder
  <2>4. \A c \in Branches : <<d, c>> \in late => x.branch[c] # "idle"
    BY <2>2 DEF SameWork
  <2> QED
    BY <1>3, <1>4, <2>1, <2>3, <2>4, TakenInOrder
<1>7. CASE BranchFails(d, b, late)
  <2> DEFINE left == {c \in Branches \ {b} : w.branch[c] = "run"}
             lost == [c \in Branches |-> IF c = b THEN "failed"
                                         ELSE IF c \in left THEN "lost" ELSE w.branch[c]]
             x == [w EXCEPT !.branch = lost, !.tries = zero, !.pc = OnFailure(d)]
             all == late \cup {<<d, c>> : c \in left}
  <2>1. wf'[d] = x /\ inflight' = inflight \cup all
    BY <1>1, <1>7 DEF BranchFails, Workflows
  <2>2. /\ x.branch = lost /\ x.pc = OnFailure(d) /\ x.error = w.error /\ x.round = w.round
        /\ x.pending = w.pending /\ x.good = w.good /\ x.bad = w.bad
        /\ x.applied = w.applied
    BY <1>1 DEF Workflows
  <2>3. OnFailure(d) = "undo_network"
    BY DEF OnFailure
  <2>4. \A c \in Branches : lost[c] = "idle" <=> w.branch[c] = "idle"
    OBVIOUS
  <2>5. all \in SUBSET {<<d, c>> : c \in Calls}
    BY <1>3 DEF Calls
  <2>6. \A c \in Branches : <<d, c>> \in all => lost[c] # "idle"
    OBVIOUS
  <2> HIDE DEF x, lost, all
  <2>7. InOrder(x, Then(d))
    BY <1>2, <2>2, <2>3, <2>4, BranchFailsInOrder
  <2> QED
    BY <1>4, <2>1, <2>2, <2>5, <2>6, <2>7, TakenInOrder
<1> QED
  BY <1>5, <1>6, <1>7

LEMMA GatherStepsInOrder ==
  ASSUME SagaInv, DeployInv, NEW d \in Deployments,
         \/ Fork(d) \/ \E b \in Branches : AttemptBranch(d, b)
         \/ \E call \in Calls : LateCall(d, call)
  PROVE  DeployInv'
<1> DEFINE w == wf[d]
<1>1. /\ w \in Workflows /\ wf \in [Deployments -> Workflows] /\ InOrder(w, Rows(d))
  BY RowsTyped
<1>2. CASE Fork(d)
  <2> DEFINE br == [b \in Branches |-> IF b = "network" \/ Nodes # {} THEN "run" ELSE "idle"]
             x == [w EXCEPT !.branch = br]
  <2>1. /\ w.pc = "allocate" /\ w.branch["network"] = "idle" /\ UNCHANGED world
        /\ UNCHANGED inflight /\ wf' = [wf EXCEPT ![d] = x]
    BY <1>1, <1>2 DEF Fork, Workflows, Pc
  <2>2. /\ x.branch = br /\ x.pc = w.pc /\ x.error = w.error /\ x.round = w.round
        /\ x.pending = w.pending /\ x.good = w.good /\ x.bad = w.bad
        /\ x.applied = w.applied
    BY <1>1 DEF Workflows
  <2>3. br \in [Branches -> {"idle", "run", "ok", "failed", "lost"}]
    OBVIOUS
  <2>4. x \in Workflows
    BY <1>1, <2>3 DEF Workflows
  <2> HIDE DEF x
  <2>5. Elsewhere(d) /\ InOrder(w, Then(d)) /\ [RegNext]_regVars
    BY <2>1, NothingInOrder
  <2>6. InOrder(x, Then(d))
    BY <2>1, <2>2, <2>5, ForkInOrder
  <2>7. Changes(d) /\ wf'[d] = x /\ inflight' = inflight \cup {}
        /\ {} \in SUBSET {<<d, c>> : c \in Calls}
    BY <1>1, <2>1, <2>4 DEF Changes
  <2> QED
    BY <2>5, <2>6, <2>7, TakenInOrder
<1>3. ASSUME NEW b \in Branches, AttemptBranch(d, b)
      PROVE  DeployInv'
  <2>1. Pc(d) = "allocate" /\ w.branch[b] = "run"
    BY <1>3 DEF AttemptBranch
  <2>2. b = "reserve" => Nodes # {}
    BY <1>1, <2>1 DEF InOrder, GatherInOrder, Pc, Branches
  <2>3. CASE BranchEffect(d, b) /\ (BranchDone(d, b) \/ BranchRetries(d, b, {}))
    <3>1. /\ Elsewhere(d) /\ InOrder(w, Then(d)) /\ [RegNext]_regVars
          /\ b = "reserve" => Then(d).reserva = "RESERVED"
          /\ b = "network" => Then(d).tag # NoDeployment
      BY <2>1, <2>2, <2>3, BranchEffectInOrder
    <3>2. {} \in SUBSET {<<d, c>> : c \in {b}}
      OBVIOUS
    <3> QED
      BY <2>1, <2>3, <3>1, <3>2, GatherInOrderStep
  <2>4. CASE /\ UNCHANGED world
             /\ \/ BranchFails(d, b, {})
                \/ \E late \in Leftovers(d, b) : BranchRetries(d, b, late)
    <3>1. Elsewhere(d) /\ InOrder(w, Then(d)) /\ [RegNext]_regVars
      BY <2>4, NothingInOrder
    <3>2. \E late \in SUBSET {<<d, c>> : c \in {b}} :
            BranchFails(d, b, late) \/ BranchRetries(d, b, late)
      <4>1. {} \in SUBSET {<<d, c>> : c \in {b}}
        OBVIOUS
      <4>2. \A late \in Leftovers(d, b) : late \in SUBSET {<<d, c>> : c \in {b}}
        BY DEF Leftovers
      <4> QED
        BY <2>4, <4>1, <4>2
    <3> QED
      BY <2>1, <3>1, <3>2, GatherInOrderStep
  <2> QED
    BY <1>3, <2>3, <2>4 DEF AttemptBranch
<1>4. ASSUME NEW call \in Calls, LateCall(d, call)
      PROVE  DeployInv'
  <2>1. /\ call \in CallsOf(d) /\ wf' = wf /\ inflight' = inflight
    BY <1>4 DEF LateCall, CallsOf
  <2>2. call \in Branches => w.branch[call] # "idle"
    BY <1>1, <2>1 DEF InOrder, GatherInOrder, Rows, Branches
  <2>3. Elsewhere(d) /\ InOrder(w, Then(d)) /\ [RegNext]_regVars
    <3>1. CASE call \in Branches /\ BranchEffect(d, call)
      BY <2>1, <2>2, <3>1, BranchEffectInOrder
    <3>2. CASE StartDeployment(d) /\ UNCHANGED resVars
      BY <3>2, StartedInOrder
    <3>3. CASE call = "inventory" /\ CreateInventory(d) /\ UNCHANGED resVars
      BY <2>1, <3>3, InventoryInOrder
    <3>4. CASE ComputeAllocate(d)
      BY <3>4, DisplaysInOrder
    <3> QED
      BY <1>4, <3>1, <3>2, <3>3, <3>4 DEF LateCall
  <2>4. Changes(d) /\ wf'[d] = w /\ inflight' = inflight \cup {}
        /\ {} \in SUBSET {<<d, c>> : c \in Calls}
    BY <1>1, <2>1 DEF Changes
  <2> QED
    BY <2>3, <2>4, TakenInOrder
<1> QED
  BY <1>2, <1>3, <1>4

-----------------------------------------------------------------------------
\* The rounds and their undoing.

\* The next round of a workflow, for rows that record what was applied.
LEMMA NextRoundTaken ==
  ASSUME SagaInv, DeployInv, NEW d \in Deployments, Elsewhere(d), [RegNext]_regVars,
         InOrder(wf[d], Then(d)), Pc(d) \in {"prepare", "facts"}, wf[d].bad = {},
         Recorded(wf[d].applied, Then(d)), NextRound(d), UNCHANGED inflight
  PROVE  DeployInv'
<1> DEFINE w == wf[d]
           i == w.round + 1
           more == i <= LastRound
           zero == [t \in Threads |-> 0]
           x == [w EXCEPT !.pc = IF more THEN "round" ELSE "complete",
                          !.round = IF more THEN i ELSE w.round,
                          !.pending = IF more THEN Round(i) ELSE {}, !.good = {},
                          !.tries = zero]
<1>1. /\ w \in Workflows /\ wf \in [Deployments -> Workflows] /\ SagaTypeOK
      /\ w.round \in 0 .. 3
  BY RowsTyped DEF SagaInv, Workflows
<1>2. Changes(d)
  BY <1>1, RoundStarts
<1>3. wf'[d] = x
  BY <1>1 DEF NextRound, Workflows
<1>4. /\ x.pc = (IF more THEN "round" ELSE "complete")
      /\ x.round = (IF more THEN i ELSE w.round)
      /\ x.pending = (IF more THEN Round(i) ELSE {})
      /\ x.good = {} /\ x.bad = w.bad /\ x.applied = w.applied /\ x.branch = w.branch
      /\ x.error = w.error
  BY <1>1 DEF Workflows
<1> HIDE DEF x
<1>5. InOrder(x, Then(d))
  BY <1>1, <1>4, NextRoundInOrder DEF Pc
<1>6. inflight' = inflight \cup {} /\ {} \in SUBSET {<<d, c>> : c \in Calls}
  OBVIOUS
<1> QED
  BY <1>2, <1>3, <1>5, <1>6, TakenInOrder

LEMMA ReportedInOrder ==
  ASSUME SagaInv, DeployInv, NEW d \in Deployments, Pc(d) = "facts",
         RecordRoundFacts(d, wf[d].good, wf[d].bad), UNCHANGED resVars
  PROVE  /\ Elsewhere(d) /\ InOrder(wf[d], Then(d)) /\ [RegNext]_regVars
         /\ Recorded(wf[d].applied, Then(d))
<1> DEFINE w == wf[d]
           v == Rows(d)
           u == Then(d)
<1>1. /\ w \in Workflows /\ TypeOK /\ InOrder(w, v) /\ w.pc = "facts" /\ RoundOK(w)
  BY RowsTyped DEF SagaInv, Pc
<1>2. w.good \in SUBSET Actions /\ w.bad \in SUBSET Actions /\ w.good \cap w.bad = {}
  BY <1>1 DEF Workflows, RoundOK, Rounding
<1>3. RegNext
  BY <1>2, FactsAreRegNext
<1>4. /\ Exists(d) /\ UNCHANGED <<estado, target, reserva, tagOwner, display, host>>
      /\ \A e \in Deployments \ {d} : nodes'[e] = nodes[e] /\ links'[e] = links[e]
      /\ \A n \in Nodes : nodes'[d][n] = IF n \in w.good THEN "RUNNING"
                                         ELSE IF n \in w.bad THEN "FAILED" ELSE nodes[d][n]
      /\ \A l \in Links : links'[d][l] = IF l \in w.good THEN "CREATED"
                                         ELSE IF l \in w.bad THEN "FAILED" ELSE links[d][l]
  BY <1>1 DEF RecordRoundFacts, FactsAccepted, TypeOK, resVars
<1>5. Elsewhere(d)
  BY <1>4 DEF Elsewhere, Exists
<1>6. /\ \A n \in Nodes : u.nodes[n] = IF n \in w.good THEN "RUNNING"
                                       ELSE IF n \in w.bad THEN "FAILED" ELSE v.nodes[n]
      /\ \A l \in Links : u.links[l] = IF l \in w.good THEN "CREATED"
                                       ELSE IF l \in w.bad THEN "FAILED" ELSE v.links[l]
  BY <1>4 DEF Then, Rows
<1>7. /\ u.estado = v.estado /\ u.reserva = v.reserva /\ u.display = v.display
      /\ u.host = v.host /\ u.owned = v.owned /\ u.tag = v.tag /\ u.calls = v.calls
  BY <1>4 DEF Then, Rows, OwnedBy, SliceTag, TagOf, Exists
<1> HIDE DEF u, v
<1>8. InOrder(w, u) /\ Recorded(w.applied, u)
  BY <1>1, <1>2, <1>6, <1>7, FactsInOrder
<1> QED
  BY <1>3, <1>5, <1>8 DEF u

LEMMA RoundStepsInOrder ==
  ASSUME SagaInv, DeployInv, NEW d \in Deployments,
         \/ PrepareActions(d) \/ RoundEnds(d) \/ RecordFacts(d)
         \/ \E a \in Actions : ActionEnds(d, a) \/ UndoAction(d, a)
  PROVE  DeployInv'
<1> DEFINE w == wf[d]
           v == Rows(d)
           u == Then(d)
<1>1. /\ w \in Workflows /\ wf \in [Deployments -> Workflows] /\ InOrder(w, v) /\ RoundOK(w)
      /\ host \in [Deployments -> SUBSET Actions]
  BY RowsTyped DEF SagaInv
<1>2. {} \in SUBSET {<<d, c>> : c \in Calls} /\ inflight = inflight \cup {}
  OBVIOUS
<1>3. CASE PrepareActions(d)
  <2>1. /\ Pc(d) = "prepare" /\ UNCHANGED world /\ UNCHANGED inflight
        /\ NextRound(d) \/ Fail(d)
    BY <1>3 DEF PrepareActions
  <2>2. Elsewhere(d) /\ InOrder(w, u) /\ [RegNext]_regVars
    BY <2>1, NothingInOrder
  <2>3. w.bad = {} /\ w.applied = {}
    BY <1>1, <2>1 DEF RoundOK, Rounding, Forward, InOrder, RoundsInOrder, BeforeRounds, Pc
  <2>4. Recorded(w.applied, u)
    BY <2>3 DEF Recorded
  <2>5. "prepare" \notin Branches /\ Pc(d) \in Failing \ {"allocate"}
    BY <2>1 DEF Branches, Failing, Forward
  <2> QED
    BY <2>1, <2>2, <2>3, <2>4, <2>5, NextRoundTaken, UnansweredInOrder
<1>4. CASE RecordFacts(d)
  <2>1. /\ Pc(d) = "facts" /\ UNCHANGED inflight
        /\ \/ /\ RecordRoundFacts(d, w.good, w.bad) /\ UNCHANGED resVars
              /\ \/ NextRound(d) /\ w.bad = {}
                 \/ Fail(d) \/ Retry(d)
           \/ UNCHANGED world /\ (Fail(d) \/ Retry(d))
    BY <1>4 DEF RecordFacts, AfterFacts
  <2>2. /\ Elsewhere(d) /\ InOrder(w, u) /\ [RegNext]_regVars
        /\ RecordRoundFacts(d, w.good, w.bad) => Recorded(w.applied, u)
    BY <2>1, NothingInOrder, ReportedInOrder DEF world
  <2>3. "facts" \notin Branches /\ Pc(d) \in Failing \ {"allocate"}
    BY <2>1 DEF Branches, Failing, Forward
  <2> QED
    BY <2>1, <2>2, <2>3, NextRoundTaken, UnansweredInOrder
<1>5. CASE RoundEnds(d)
  <2> DEFINE done == w.applied \cup w.good
             x == [w EXCEPT !.pc = "facts", !.applied = done]
  <2>1. /\ w.pc = "round" /\ w.pending = {} /\ UNCHANGED world /\ UNCHANGED inflight
        /\ wf' = [wf EXCEPT ![d] = x]
    BY <1>1, <1>5 DEF RoundEnds, Workflows, Pc
  <2>2. /\ x.pc = "facts" /\ x.applied = done /\ x.error = w.error /\ x.round = w.round
        /\ x.pending = w.pending /\ x.good = w.good /\ x.bad = w.bad /\ x.branch = w.branch
    BY <1>1 DEF Workflows
  <2>3. done \in SUBSET Actions
    BY <1>1 DEF Workflows
  <2>4. x \in Workflows
    BY <1>1, <2>3 DEF Workflows, Stages, Forward
  <2> HIDE DEF x
  <2>5. Elsewhere(d) /\ InOrder(w, u) /\ [RegNext]_regVars
    BY <2>1, NothingInOrder
  <2>6. InOrder(x, u)
    BY <2>1, <2>2, <2>5, RoundEndsInOrder
  <2>7. Changes(d) /\ wf'[d] = x
    BY <1>1, <2>1, <2>4 DEF Changes
  <2> QED
    BY <1>2, <2>1, <2>5, <2>6, <2>7, TakenInOrder
<1>6. ASSUME NEW a \in Actions, ActionEnds(d, a)
      PROVE  DeployInv'
  <2> DEFINE p == w.pending \ {a}
             g == w.good \cup {a}
             b == w.bad \cup {a}
             y == [w EXCEPT !.pending = p, !.good = g]
             z == [w EXCEPT !.pending = p, !.bad = b]
             x == wf'[d]
  <2>1. /\ w.pc = "round" /\ a \in w.pending
        /\ UNCHANGED <<regVars, tagOwner, display, inflight>>
        /\ UNCHANGED host \/ Handled(d, a, FALSE)
        /\ \/ Runnable(d, a) /\ Handled(d, a, FALSE) /\ wf' = [wf EXCEPT ![d] = y]
           \/ wf' = [wf EXCEPT ![d] = z]
    BY <1>1, <1>6 DEF ActionEnds, Workflows, Pc
  <2>2. /\ w.pending \subseteq Actions
        /\ w.good \cap w.bad = {} /\ w.pending \cap w.good = {} /\ w.pending \cap w.bad = {}
        /\ p \in SUBSET Actions /\ g \in SUBSET Actions /\ b \in SUBSET Actions
    BY <1>1, <2>1 DEF RoundOK, Rounding, Workflows
  <2>3. /\ y.pending = p /\ y.pc = w.pc /\ y.error = w.error /\ y.round = w.round
        /\ y.applied = w.applied /\ y.branch = w.branch /\ y.good = g /\ y.bad = w.bad
        /\ z.pending = p /\ z.pc = w.pc /\ z.error = w.error /\ z.round = w.round
        /\ z.applied = w.applied /\ z.branch = w.branch /\ z.good = w.good /\ z.bad = b
    BY <1>1 DEF Workflows
  <2>4. y \in Workflows /\ z \in Workflows
    <3> HIDE DEF p, g, b
    <3> QED
      BY <1>1, <2>2 DEF Workflows
  <2> HIDE DEF y, z
  <2>5. /\ Changes(d)
        /\ \/ Runnable(d, a) /\ Handled(d, a, FALSE) /\ x = y
           \/ x = z
    BY <1>1, <2>1, <2>4 DEF Changes
  <2>6. /\ host'[d] \in {host[d], host[d] \cup {a}}
        /\ Handled(d, a, FALSE) => host'[d] = host[d] \cup {a}
        /\ \A e \in Deployments \ {d} : host'[e] = host[e]
    BY <2>1, HandledHosts
  <2>7. /\ Elsewhere(d) /\ [RegNext]_regVars
        /\ u.estado = v.estado /\ u.nodes = v.nodes /\ u.links = v.links
        /\ u.reserva = v.reserva /\ u.display = v.display /\ u.owned = v.owned
        /\ u.tag = v.tag /\ u.calls = v.calls /\ u.host = host'[d]
    BY <2>1, <2>6, HostsElsewhere
  <2>8. /\ v.host = host[d] /\ v.host \subseteq Actions
        /\ Runnable(d, a) => (a \in Nodes => PortsOf(a) \subseteq v.host)
    BY <1>1 DEF Rows, Runnable
  <2> HIDE DEF x, u, v, w
  <2>9. InOrder(x, u)
    <3>1. CASE Runnable(d, a) /\ Handled(d, a, FALSE) /\ x = y
      BY <1>1, <2>1, <2>2, <2>3, <2>6, <2>7, <2>8, <3>1, ActionInOrder
    <3>2. CASE x = z
      BY <1>1, <2>1, <2>2, <2>3, <2>6, <2>7, <2>8, <3>2, ActionInOrder
    <3> QED
      BY <2>5, <3>1, <3>2
  <2> QED
    BY <1>2, <2>1, <2>5, <2>7, <2>9, TakenInOrder DEF x, u
<1>7. ASSUME NEW a \in Actions, UndoAction(d, a)
      PROVE  DeployInv'
  <2> DEFINE rest == w.applied \ {a}
             y == [w EXCEPT !.applied = rest]
             z == [w EXCEPT !.applied = rest, !.error = TRUE]
             x == wf'[d]
  <2>1. /\ w.pc = "undo_actions" /\ a \in w.applied
        /\ \A b \in w.applied : RoundOf(b) <= RoundOf(a)
        /\ UNCHANGED <<regVars, tagOwner, display, inflight>>
        /\ UNCHANGED host \/ Handled(d, a, TRUE)
        /\ \/ Handled(d, a, TRUE) /\ wf' = [wf EXCEPT ![d] = y]
           \/ wf' = [wf EXCEPT ![d] = z]
    BY <1>1, <1>7 DEF UndoAction, Workflows, Pc
  <2>2. w.applied \subseteq Actions /\ w.error \in BOOLEAN /\ rest \in SUBSET Actions
    BY <1>1 DEF Workflows
  <2>3. /\ y.applied = rest /\ y.pc = w.pc /\ y.round = w.round /\ y.branch = w.branch
        /\ y.pending = w.pending /\ y.good = w.good /\ y.bad = w.bad /\ y.error = w.error
        /\ z.applied = rest /\ z.pc = w.pc /\ z.round = w.round /\ z.branch = w.branch
        /\ z.pending = w.pending /\ z.good = w.good /\ z.bad = w.bad /\ z.error = TRUE
    BY <1>1 DEF Workflows
  <2>4. y \in Workflows /\ z \in Workflows
    <3> HIDE DEF rest
    <3> QED
      BY <1>1, <2>2 DEF Workflows
  <2> HIDE DEF y, z
  <2>5. /\ Changes(d)
        /\ \/ Handled(d, a, TRUE) /\ x = y
           \/ x = z
    BY <1>1, <2>1, <2>4 DEF Changes
  <2>6. Exists(d)
    BY <2>1, WorkflowExists DEF Early, Pc
  <2>7. /\ Handled(d, a, TRUE) => host'[d] = host[d] \ (IF a \in Links THEN Links ELSE {a})
        /\ \A e \in Deployments \ {d} :
             \/ host'[e] = host[e]
             \/ /\ Exists(e) /\ SliceOf[target[e]] = SliceOf[target[d]]
                /\ host'[e] \subseteq host[e]
    BY <2>1, <2>6, HandledHosts
  <2>8. /\ Elsewhere(d) /\ [RegNext]_regVars
        /\ u.estado = v.estado /\ u.nodes = v.nodes /\ u.links = v.links
        /\ u.reserva = v.reserva /\ u.display = v.display /\ u.owned = v.owned
        /\ u.tag = v.tag /\ u.calls = v.calls /\ u.host = host'[d]
    BY <2>1, <2>7, HostsElsewhere DEF Pc
  <2>9. v.host = host[d] /\ v.host \subseteq Actions
    BY <1>1 DEF Rows
  <2> HIDE DEF x, u, v, w
  <2>10. InOrder(x, u)
    <3>1. CASE Handled(d, a, TRUE) /\ x = y
      <4>1. u.host = v.host \ (IF a \in Links THEN Links ELSE {a})
        BY <2>7, <2>8, <2>9, <3>1
      <4>2. /\ x.applied = rest /\ x.pc = w.pc /\ x.round = w.round /\ x.branch = w.branch
            /\ x.pending = w.pending /\ x.good = w.good /\ x.bad = w.bad
            /\ x.error = w.error
        BY <2>3, <3>1
      <4> QED
        BY <1>1, <2>1, <2>2, <2>8, <2>9, <4>1, <4>2, UndoInSteps
    <3>2. CASE x = z
      BY <1>1, <2>1, <2>2, <2>3, <2>8, <2>9, <3>2, UndoInSteps
    <3> QED
      BY <2>5, <3>1, <3>2
  <2> QED
    BY <1>2, <2>1, <2>5, <2>8, <2>10, TakenInOrder DEF x, u
<1> QED
  BY <1>3, <1>4, <1>5, <1>6, <1>7

-----------------------------------------------------------------------------
\* Requests, and what is sent to Temporal.

\* The rows of a deployment appear with nothing deployed.
LEMMA CreationInOrder ==
  ASSUME SagaInv, DeployInv, NEW d \in Deployments, NEW v \in Versions,
         CreateRejectedDeployment(d, v) \/ CreatePendingDeployment(d, v),
         UNCHANGED <<resVars, wf, inflight>>
  PROVE  DeployInv'
<1>1. /\ TypeOK /\ wf \in [Deployments -> Workflows] /\ InOrder(wf[d], Rows(d))
  BY RowsTyped
<1>2. RegNext
  BY DEF RegNext, UserCall
<1>3. /\ ~Exists(d) /\ UNCHANGED <<nodes, links, reserva, tagOwner, display, host>>
      /\ \A e \in Deployments \ {d} : estado'[e] = estado[e] /\ target'[e] = target[e]
  BY <1>1 DEF CreateRejectedDeployment, CreatePendingDeployment, TypeOK, resVars
<1>4. Elsewhere(d)
  BY <1>3 DEF Elsewhere
<1> DEFINE r == Rows(d)
           u == Then(d)
<1>5. /\ u.nodes = r.nodes /\ u.links = r.links /\ u.reserva = r.reserva
      /\ u.display = r.display /\ u.owned = r.owned /\ u.calls = r.calls
      /\ u.host = r.host /\ ~Deployed(r) /\ r.estado # "FAILED"
  BY <1>3 DEF Then, Rows, OwnedBy, Deployed, Exists
<1> HIDE DEF r, u
<1>6. InOrder(wf[d], u)
  BY <1>1, <1>5, ElsewhereInOrder DEF r
<1>7. Changes(d) /\ wf'[d] = wf[d] /\ inflight' = inflight \cup {}
      /\ {} \in SUBSET {<<d, c>> : c \in Calls}
  BY <1>1 DEF Changes
<1> QED
  BY <1>2, <1>4, <1>6, <1>7, TakenInOrder DEF u

\* A step that leaves the deployments' rows, calls and workflows alone.
LEMMA NeutralInOrder ==
  ASSUME SagaInv, DeployInv, [RegNext]_regVars,
         UNCHANGED <<estado, target, nodes, links, reserva, resVars, wf, inflight>>
  PROVE  DeployInv'
<1>1. UNCHANGED <<tagOwner, display, host>>
  BY DEF resVars
<1>2. SpentOnce'
  BY SpentKept DEF SagaInv, RegInv, DeployInv
<1>3. OwnTags'
  BY <1>1 DEF DeployInv, OwnTags, Exists
<1>4. ASSUME NEW d \in Deployments
      PROVE  DeployInOrder(d)'
  <2>1. Rows(d)' = Rows(d)
    BY <1>1 DEF Rows, OwnedBy, SliceTag, TagOf, Exists, CallsOf
  <2> QED
    BY <2>1 DEF DeployInv, DeployInOrder
<1> QED
  BY <1>2, <1>3, <1>4 DEF DeployInv

LEMMA RequestsInOrder ==
  ASSUME SagaInv, DeployInv, Request \/ TemporalCall, [RegNext]_regVars
  PROVE  DeployInv'
<1>1. ASSUME NEW d \in Deployments, NEW v \in Versions,
             \/ CreateRejectedDeployment(d, v) /\ UserRest
             \/ RequestDeploy(d, v)
      PROVE  DeployInv'
  BY <1>1, CreationInOrder DEF RequestDeploy, UserRest
<1>2. CASE /\ UserRest
           /\ \/ \E s \in Slices, v \in Versions : CreateSlice(s, v)
              \/ \E v \in Versions : CreateVersion(v) \/ DeleteVersion(v)
              \/ \E d \in Deployments, decision \in Decisions : DecideApproval(d, decision)
  <2>1. UNCHANGED <<estado, target, nodes, links, reserva>>
    BY <1>2 DEF CreateSlice, CreateVersion, DeleteVersion, DecideApproval
  <2> QED
    BY <1>2, <2>1, NeutralInOrder DEF UserRest
<1>3. CASE UNCHANGED <<regVars, resVars, wf, inflight>>
  BY <1>3, NeutralInOrder DEF regVars
<1>4. ASSUME NEW d \in Deployments, StartWorkflow(d)
      PROVE  DeployInv'
  <2>1. UNCHANGED world /\ UNCHANGED inflight
    BY <1>4 DEF StartWorkflow
  <2>2. CASE Pc(d) = "absent" /\ Goto(d, "approval")
    <3>1. Achieved(wf[d], Then(d), "approval") /\ "approval" \in Stages
      BY <2>2 DEF Achieved, Pc, Stages, Forward
    <3> QED
      BY <2>1, <2>2, <3>1, NothingInOrder, AnsweredInOrder
  <2>3. CASE UNCHANGED wf
    BY <1>3, <2>1, <2>3 DEF world
  <2> QED
    BY <1>4, <2>2, <2>3 DEF StartWorkflow
<1>5. CASE Request
  <2>1. CASE Prepare
    BY <1>1, <1>2, <2>1 DEF Prepare
  <2>2. CASE \E d \in Deployments : RequestAgain(d) \/ \E v \in Versions : RequestDeploy(d, v)
    BY <1>1, <1>3, <2>2 DEF RequestAgain, UserRest
  <2>3. CASE \E d \in Deployments, decision \in Decisions : ApproveDeployment(d, decision)
    BY <1>2, <2>3 DEF ApproveDeployment
  <2> QED
    BY <1>5, <2>1, <2>2, <2>3 DEF Request
<1>6. CASE TemporalCall
  <2>1. PICK d \in Deployments :
          \/ StartWorkflow(d) \/ LoseStart(d)
          \/ \E decision \in Decisions : DeliverSignal(d, decision) \/ LoseSignal(d, decision)
    BY <1>6 DEF TemporalCall
  <2>2. CASE ~StartWorkflow(d)
    BY <1>3, <2>1, <2>2 DEF LoseStart, DeliverSignal, LoseSignal, world
  <2> QED
    BY <1>4, <2>2
<1> QED
  BY <1>5, <1>6

-----------------------------------------------------------------------------
LEMMA DeployStarts == SagaInit => DeployInv
<1> SUFFICES ASSUME SagaInit PROVE DeployInv
  OBVIOUS
<1>1. /\ NewWorkflow.pc = "absent" /\ NewWorkflow.error = FALSE /\ NewWorkflow.round = 0
      /\ NewWorkflow.applied = {} /\ NewWorkflow.branch = [b \in Branches |-> "idle"]
  BY DEF NewWorkflow
<1>2. ASSUME NEW d \in Deployments
      PROVE  DeployInOrder(d)
  <2> DEFINE w == wf[d]
             v == Rows(d)
  <2>1. /\ w.pc = "absent" /\ w.error = FALSE /\ w.round = 0 /\ w.applied = {}
        /\ \A b \in Branches : w.branch[b] = "idle"
    BY <1>1 DEF SagaInit
  <2>2. /\ v.estado = "none" /\ v.reserva = "none" /\ v.host = {} /\ v.owned = {}
        /\ v.calls = {} /\ \A n \in Nodes : v.nodes[n] = "none"
        /\ \A l \in Links : v.links[l] = "none"
    BY SagaAssumption DEF SagaInit, RegInit, Rows, OwnedBy, CallsOf
  <2> HIDE DEF w, v
  <2>3. RegistryInOrder(w, v)
    BY <2>1, <2>2 DEF RegistryInOrder, Live, Working, Undoing
  <2>4. GatherInOrder(w, v)
    BY <2>1, <2>2 DEF GatherInOrder, Branches, Creating
  <2>5. RoundsInOrder(w, v)
    BY <2>1, <2>2 DEF RoundsInOrder, Creating
  <2>6. UndoInOrder(w, v)
    BY <2>1, <2>2 DEF UndoInOrder
  <2> QED
    BY <2>3, <2>4, <2>5, <2>6 DEF DeployInOrder, InOrder, w, v
<1>3. SpentOnce /\ OwnTags
  BY DEF SagaInit, RegInit, SpentOnce, Spent, OwnTags
<1> QED
  BY <1>2, <1>3 DEF DeployInv

LEMMA DeployPreserves ==
  ASSUME SagaInv, DeployInv, [SagaNext]_sagaVars
  PROVE  DeployInv'
<1>1. [RegNext]_regVars
  BY SagaPreserves DEF GoodStep
<1>2. CASE UNCHANGED sagaVars
  BY <1>1, <1>2, NeutralInOrder DEF sagaVars, regVars
<1>3. ASSUME NEW d \in Deployments, WorkflowStep(d)
      PROVE  DeployInv'
  BY <1>3, EarlyActivitiesInOrder, LaterActivitiesInOrder, GatherStepsInOrder, RoundStepsInOrder
  DEF WorkflowStep
<1>4. CASE \E d \in Deployments, call \in Calls : LateCall(d, call)
  BY <1>4, GatherStepsInOrder
<1> QED
  BY <1>1, <1>2, <1>3, <1>4, RequestsInOrder DEF SagaNext

\* DeployInv is an invariant: at every stage the workflow (deploy_workflow.py) knows
\* of what exists, and of what it has still to undo.
THEOREM DeployInvariant == SagaSpec => [](SagaInv /\ DeployInv)
<1>1. SagaInit => SagaInv /\ DeployInv
  BY SagaStarts, DeployStarts
<1>2. SagaInv /\ DeployInv /\ [SagaNext]_sagaVars => (SagaInv /\ DeployInv)'
  BY SagaPreserves, DeployPreserves DEF GoodStep
<1> QED
  BY <1>1, <1>2, PTL DEF SagaSpec

\* When the workflow returns COMPLETED every action is on its host, every node
\* RUNNING, every link CREATED, the capacity reserved and the slice tagged.
THEOREM CompletedDeploys == SagaSpec => []CompletedIsDeployed
<1>1. SagaInv /\ DeployInv => CompletedIsDeployed
  <2> SUFFICES ASSUME SagaInv, DeployInv, NEW d \in Deployments, Pc(d) = "COMPLETED"
               PROVE  /\ host[d] = Actions /\ display[d] = Nodes
                      /\ \A n \in Nodes : nodes[d][n] = "RUNNING"
                      /\ \A l \in Links : links[d][l] = "CREATED"
                      /\ Nodes # {} => reserva[d] = "RESERVED"
                      /\ TagOf(d) # NoDeployment
    BY DEF CompletedIsDeployed
  <2>1. /\ InOrder(wf[d], Rows(d)) /\ wf[d].pc = "COMPLETED"
    BY RowsTyped DEF Pc
  <2>2. host[d] = Actions /\ display[d] = Nodes /\ Recorded(Actions, Rows(d))
    BY <2>1 DEF InOrder, RoundsInOrder, Rows
  <2>3. (Nodes # {} => reserva[d] = "RESERVED") /\ SliceTag(d) # NoDeployment
    BY <2>1 DEF InOrder, GatherInOrder, Rows
  <2> QED
    BY <2>2, <2>3 DEF Recorded, Rows, Actions, SliceTag
<1> QED
  BY <1>1, DeployInvariant, PTL

\* When it returns COMPENSATED nothing is left but what a failed action left on a
\* host and what a call nobody waited for took.
THEOREM CompensationCleans == SagaSpec => []CompensatedIsClean
<1>1. SagaInv /\ DeployInv => CompensatedIsClean
  <2> SUFFICES ASSUME SagaInv, DeployInv, NEW d \in Deployments, Pc(d) = "COMPENSATED"
               PROVE  /\ HostedBy(d) = {}
                      /\ reserva[d] = "RESERVED" => <<d, "reserve">> \in inflight
                      /\ \A s \in Slices : tagOwner[s] = d => <<d, "network">> \in inflight
    BY DEF CompensatedIsClean
  <2>1. /\ InOrder(wf[d], Rows(d)) /\ wf[d].pc = "COMPENSATED"
    BY RowsTyped DEF Pc
  <2>2. /\ Rows(d).host \ wf[d].bad = {}
        /\ Rows(d).owned = {} \/ "network" \in Rows(d).calls
        /\ Rows(d).reserva # "RESERVED" \/ "reserve" \in Rows(d).calls
    BY <2>1 DEF InOrder, UndoInOrder
  <2> QED
    BY <2>2 DEF Rows, HostedBy, OwnedBy, CallsOf
<1> QED
  BY <1>1, DeployInvariant, PTL

\* While a VM runs that no failure report disowned, its ports, its reservation and
\* the S-TAG of its slice are there: in creating and in undoing, in any order of
\* late calls and of the undoing of other deployments.
THEOREM VmsKeepTheirResources == SagaSpec => []VmKeepsItsResources
<1>1. SagaInv /\ DeployInv => VmKeepsItsResources
  <2> SUFFICES ASSUME SagaInv, DeployInv, NEW d \in Deployments, ~wf[d].error,
                      NEW n \in HostedBy(d) \cap Nodes
               PROVE  /\ PortsOf(n) \subseteq host[d]
                      /\ reserva[d] = "RESERVED" /\ TagOf(d) # NoDeployment
    BY DEF VmKeepsItsResources
  <2>1. InOrder(wf[d], Rows(d))
    BY RowsTyped
  <2>2. n \in (Rows(d).host \ wf[d].bad) \cap Nodes
    BY DEF Rows, HostedBy
  <2>3. /\ PortsOf(n) \subseteq Rows(d).host /\ Rows(d).reserva = "RESERVED"
        /\ Rows(d).tag # NoDeployment
    BY <2>1, <2>2 DEF InOrder, UndoInOrder
  <2> QED
    BY <2>3 DEF Rows, SliceTag
<1> QED
  BY <1>1, DeployInvariant, PTL

\* A version in DRAFT of a slice in DRAFT can be deployed again, unless a
\* create_inventory request outlived the workflow that sent it.
THEOREM DeploysAgain == SagaSpec => []Redeployable
<1>1. SagaInv /\ DeployInv => Redeployable
  <2> SUFFICES ASSUME SagaInv, DeployInv, NEW v \in Versions,
                      versionState[v] = "DRAFT", sliceState[SliceOf[v]] = "DRAFT",
                      HasLiveVersionInventory(v)
               PROVE  \E d \in Deployments : target[d] = v /\ <<d, "inventory">> \in inflight
    BY DEF Redeployable
  <2>1. PICK d \in Deployments :
          /\ target[d] = v
          /\ \/ \E n \in Nodes : nodes[d][n] \notin {"none", "DELETED"}
             \/ \E l \in Links : links[d][l] # "none"
    BY DEF HasLiveVersionInventory
  <2>2. Live(Rows(d))
    BY <2>1 DEF Live, Rows
  <2>3. InOrder(wf[d], Rows(d)) /\ CoreInv /\ SpentOnce
    BY RowsTyped DEF DeployInv
  <2>4. \/ estado[d] \in {"IN_PROGRESS", "COMPLETED", "FAILED"}
        \/ "inventory" \in CallsOf(d)
    BY <2>2, <2>3 DEF InOrder, RegistryInOrder, Rows
  <2>5. estado[d] \notin {"COMPLETED", "FAILED"}
    BY <2>1, <2>3 DEF SpentOnce, Spent
  <2>6. estado[d] # "IN_PROGRESS"
    BY <2>1, <2>3, AboutToFinish DEF Active
  <2> QED
    BY <2>1, <2>4, <2>5, <2>6 DEF CallsOf
<1> QED
  BY <1>1, DeployInvariant, PTL
=============================================================================

---------------------------- MODULE RolloutProofs ----------------------------
(***************************************************************************)
(* Proofs about Rollout that hold for every number of nodes, releases,     *)
(* deployments, assignments, replicas and requests.                        *)
(***************************************************************************)
EXTENDS RolloutInvariants, SequenceTheorems, FiniteSetTheorems, TLAPS

(***************************************************************************)
(* The sequences of steps an arm leaves to be done.                        *)
(***************************************************************************)
LEMMA OneStep ==
    ASSUME NEW s PROVE /\ <<s>> # <<>> /\ Len(<<s>>) = 1 /\ <<s>>[1] = s
                       /\ Head(<<s>>) = s /\ Tail(<<s>>) = <<>>
  OBVIOUS

LEMMA TwoSteps ==
    ASSUME NEW s, NEW t
    PROVE  /\ <<s, t>> # <<>> /\ Len(<<s, t>>) = 2 /\ <<s, t>>[1] = s /\ <<s, t>>[2] = t
           /\ Head(<<s, t>>) = s /\ Tail(<<s, t>>) = <<t>>
  OBVIOUS

LEMMA StepSeq ==
    ASSUME NEW s \in Step, NEW t \in Step
    PROVE  <<>> \in Seq(Step) /\ <<s>> \in Seq(Step) /\ <<s, t>> \in Seq(Step)
  OBVIOUS

\* Every command and step the arms build is one.
LEMMA StepTypes ==
    /\ \A puts \in [AssignmentId -> Assignment] : PutAssignments(puts) \in Step
    /\ \A ids \in SUBSET AssignmentId : DeleteAssignments(ids) \in Step
    /\ \A d \in DeploymentId, p \in Phase : SetDeploymentPhase(d, p) \in Step
    /\ \A r \in ReleaseId : PromoteRelease(r) \in Step /\ PutRelease(r) \in Step
    /\ \A d \in DeploymentId : RecheckGreen(d) \in Step
  BY DEF Step, PutAssignments, DeleteAssignments, SetDeploymentPhase, PromoteRelease,
         PutRelease, RecheckGreen

LEMMA GreenTypes == ASSUME NEW d PROVE greenAssignments(d) \in SUBSET AssignmentId
  BY DEF greenAssignments

LEMMA FlipTypes ==
    ASSUME assignment \in [AssignmentId -> Assignment],
           NEW as \in SUBSET AssignmentId, NEW want \in {"RUN", "STOP"}
    PROVE  FlipTo(as, want) \in [AssignmentId -> Assignment]
  BY DEF FlipTo, Assignment, NoAssignment, NoId, InstanceState

LEMMA NewTypes ==
    ASSUME NEW k \in Nat, NEW picks \in [1..k -> Node], minted \in Nat,
           NEW r \in ReleaseId, NEW d \in DeploymentId
    PROVE  NewAssignments(picks, r, d) \in [AssignmentId -> Assignment]
  <1>1. Len(picks) = k
    OBVIOUS
  <1>2. ASSUME NEW a \in AssignmentId, a \in FreshIds(picks)
        PROVE  picks[a - minted] \in Node
    BY <1>1, <1>2, StoreAssumption DEF FreshIds, AssignmentId
  <1> QED
    BY <1>2 DEF NewAssignments, newAssignment, NoAssignment, Assignment, InstanceState, NoId

\* A command of the right shape keeps the state well typed.
LEMMA ApplyTypes ==
    ASSUME StoreTypeOK, NEW c \in Step, Apply(c), UNCHANGED minted
    PROVE  StoreTypeOK'
  <1> USE DEF StoreTypeOK
  <1>1. CASE c.op = "PutAssignments" /\ applyPutAssignments(c.puts)
    BY <1>1 DEF Step, applyPutAssignments
  <1>2. CASE c.op = "DeleteAssignments" /\ applyDeleteAssignments(c.ids)
    BY <1>2 DEF Step, applyDeleteAssignments, NoAssignment, Assignment, InstanceState
  <1>3. CASE c.op = "SetDeploymentPhase" /\ applySetDeploymentPhase(c.dep, c.phase)
    BY <1>3 DEF Step, applySetDeploymentPhase, Deployment
  <1>4. CASE c.op = "PromoteRelease" /\ applyPromoteRelease(c.rel)
    BY <1>4 DEF Step, applyPromoteRelease, Environment
  <1>5. CASE c.op = "PutRelease" /\ applyPutRelease(c.rel)
    BY <1>5 DEF Step, applyPutRelease
  <1> QED
    BY <1>1, <1>2, <1>3, <1>4, <1>5 DEF Apply

(***************************************************************************)
(* Types.                                                                  *)
(***************************************************************************)
TypeInv == TypeOK /\ StepsInv

\* What an arm leaves to be done is well typed and names the deployment visited.
VisitOK(d, steps) ==
    /\ steps \in Seq(Step) /\ Len(steps) \in 0..2
    /\ Len(steps) = 2 => steps[1].op \in CommandOps \ {"SetDeploymentPhase"}
    /\ steps # <<>> =>
         LET goal == steps[Len(steps)]
         IN  /\ goal.op \in {"SetDeploymentPhase", "RecheckGreen"}
             /\ goal.op = "SetDeploymentPhase" => goal.phase \in RolloutPhase \cup TerminalPhase
             /\ goal.dep = d

\* The steps finish the deployment.
Ends(steps) ==
    /\ steps # <<>>
    /\ steps[Len(steps)].op = "SetDeploymentPhase" /\ steps[Len(steps)].phase \in TerminalPhase

\* They delete the green set before they record that the deployment failed.
Reaped(d, steps) ==
    steps # <<>> =>
      LET goal == steps[Len(steps)]
      IN  /\ goal.op = "SetDeploymentPhase" /\ goal.phase \in {"FAILED", "SUPERSEDED"} =>
               IF Len(steps) = 1 THEN greenAssignments(d) = {}
               ELSE /\ steps[1].op = "DeleteAssignments"
                    /\ greenAssignments(d) \subseteq steps[1].ids
          /\ steps[1].op = "PutAssignments" =>
               \A a \in AssignmentId :
                  steps[1].puts[a].desired = "RUN" => steps[1].puts[a].dep = d

\* They switch the traffic before they start the drain window.
Switched(d, steps) ==
    steps # <<>> =>
      LET goal == steps[Len(steps)]
          draining == goal.op = "SetDeploymentPhase" /\ goal.phase = "DRAINING_OLD"
      IN  /\ draining => /\ Len(steps) = 2 /\ steps[1].op = "PromoteRelease"
                         /\ steps[1].rel = deployment[d].rel
          /\ steps[1].op = "PromoteRelease" => draining

ArmOK(d, steps) == VisitOK(d, steps) /\ Reaped(d, steps) /\ Switched(d, steps)

LEMMA ArmSteps ==
    ASSUME NEW d \in DeploymentId
    PROVE  /\ ArmOK(d, <<>>)
           /\ \A p \in (RolloutPhase \cup {"SUCCEEDED"}) \ {"DRAINING_OLD"} :
                ArmOK(d, setPhase(d, p))
           /\ Ends(setPhase(d, "SUCCEEDED"))
           /\ \A p \in {"FAILED", "SUPERSEDED"} :
                ArmOK(d, reapGreen(d, p)) /\ Ends(reapGreen(d, p))
           /\ ArmOK(d, abort(d)) /\ Ends(abort(d))
           /\ \A r \in ReleaseId :
                /\ ArmOK(d, <<PutRelease(r), SetDeploymentPhase(d, "PLACING")>>)
                /\ r = deployment[d].rel =>
                     ArmOK(d, <<PromoteRelease(r), SetDeploymentPhase(d, "DRAINING_OLD")>>)
           /\ \A puts \in [AssignmentId -> Assignment] :
                (\A a \in AssignmentId : puts[a].desired = "RUN" => puts[a].dep = d) =>
                  /\ ArmOK(d, <<PutAssignments(puts), SetDeploymentPhase(d, "SUCCEEDED")>>)
                  /\ ArmOK(d, <<PutAssignments(puts), RecheckGreen(d)>>)
  <1>1. RolloutPhase \cup TerminalPhase \subseteq Phase
    BY DEF RolloutPhase, TerminalPhase, Phase, LivePhase
  <1>2. ArmOK(d, <<>>)
    BY DEF ArmOK, VisitOK, Reaped, Switched
  <1>3. ASSUME NEW p \in RolloutPhase \cup TerminalPhase, p # "DRAINING_OLD",
               p \in {"FAILED", "SUPERSEDED"} => greenAssignments(d) = {}
        PROVE  /\ ArmOK(d, setPhase(d, p))
               /\ p \in TerminalPhase => Ends(setPhase(d, p))
    <2>1. SetDeploymentPhase(d, p) \in Step
      BY <1>1, StepTypes
    <2>2. VisitOK(d, setPhase(d, p))
      BY <2>1, OneStep, StepSeq DEF VisitOK, setPhase, SetDeploymentPhase
    <2>3. Reaped(d, setPhase(d, p)) /\ Switched(d, setPhase(d, p))
      BY <1>3, OneStep DEF Reaped, Switched, setPhase, SetDeploymentPhase
    <2>4. p \in TerminalPhase => Ends(setPhase(d, p))
      BY OneStep DEF Ends, setPhase, SetDeploymentPhase
    <2> QED
      BY <2>2, <2>3, <2>4 DEF ArmOK
  <1>4. ASSUME NEW p \in RolloutPhase \cup TerminalPhase, NEW c \in Step,
               c.op \in CommandOps \ {"SetDeploymentPhase"}
        PROVE  /\ VisitOK(d, <<c, SetDeploymentPhase(d, p)>>)
               /\ p \in TerminalPhase => Ends(<<c, SetDeploymentPhase(d, p)>>)
    <2>1. SetDeploymentPhase(d, p) \in Step
      BY <1>1, StepTypes
    <2>2. VisitOK(d, <<c, SetDeploymentPhase(d, p)>>)
      BY <2>1, <1>4, TwoSteps, StepSeq DEF VisitOK, SetDeploymentPhase
    <2> QED
      BY <2>2, TwoSteps DEF Ends, SetDeploymentPhase
  <1>5. ASSUME NEW p \in {"FAILED", "SUPERSEDED"}
        PROVE  ArmOK(d, reapGreen(d, p)) /\ Ends(reapGreen(d, p))
    <2>1. p \in TerminalPhase /\ p # "DRAINING_OLD"
      BY DEF TerminalPhase
    <2>2. CASE greenAssignments(d) = {}
      BY <2>1, <2>2, <1>3 DEF reapGreen
    <2>3. CASE greenAssignments(d) # {}
      <3> DEFINE c == DeleteAssignments(greenAssignments(d))
      <3>1. /\ c \in Step /\ c.op = "DeleteAssignments" /\ c.ids = greenAssignments(d)
            /\ c.op \in CommandOps \ {"SetDeploymentPhase"}
        BY GreenTypes, StepTypes DEF DeleteAssignments, CommandOps
      <3> HIDE DEF c
      <3>2. /\ VisitOK(d, <<c, SetDeploymentPhase(d, p)>>)
            /\ Ends(<<c, SetDeploymentPhase(d, p)>>)
        BY <2>1, <3>1, <1>4
      <3>3. /\ Reaped(d, <<c, SetDeploymentPhase(d, p)>>)
            /\ Switched(d, <<c, SetDeploymentPhase(d, p)>>)
        BY <2>1, <3>1, TwoSteps DEF Reaped, Switched, SetDeploymentPhase
      <3> QED
        BY <2>3, <3>2, <3>3 DEF ArmOK, reapGreen, c
    <2> QED
      BY <2>2, <2>3
  <1>6. ArmOK(d, abort(d)) /\ Ends(abort(d))
    BY <1>5 DEF abort
  <1>7. ASSUME NEW r \in ReleaseId
        PROVE  /\ ArmOK(d, <<PutRelease(r), SetDeploymentPhase(d, "PLACING")>>)
               /\ r = deployment[d].rel =>
                    ArmOK(d, <<PromoteRelease(r), SetDeploymentPhase(d, "DRAINING_OLD")>>)
    <2>1. /\ PutRelease(r) \in Step /\ PutRelease(r).op \in CommandOps \ {"SetDeploymentPhase"}
          /\ PromoteRelease(r) \in Step
          /\ PromoteRelease(r).op \in CommandOps \ {"SetDeploymentPhase"}
      BY StepTypes DEF PutRelease, PromoteRelease, CommandOps
    <2>2. /\ VisitOK(d, <<PutRelease(r), SetDeploymentPhase(d, "PLACING")>>)
          /\ VisitOK(d, <<PromoteRelease(r), SetDeploymentPhase(d, "DRAINING_OLD")>>)
      BY <2>1, <1>4 DEF RolloutPhase
    <2>3. /\ Reaped(d, <<PutRelease(r), SetDeploymentPhase(d, "PLACING")>>)
          /\ Switched(d, <<PutRelease(r), SetDeploymentPhase(d, "PLACING")>>)
      BY TwoSteps DEF Reaped, Switched, SetDeploymentPhase, PutRelease
    <2>4. r = deployment[d].rel =>
            /\ Reaped(d, <<PromoteRelease(r), SetDeploymentPhase(d, "DRAINING_OLD")>>)
            /\ Switched(d, <<PromoteRelease(r), SetDeploymentPhase(d, "DRAINING_OLD")>>)
      BY TwoSteps DEF Reaped, Switched, SetDeploymentPhase, PromoteRelease
    <2> QED
      BY <2>2, <2>3, <2>4 DEF ArmOK
  <1>8. ASSUME NEW puts \in [AssignmentId -> Assignment],
               \A a \in AssignmentId : puts[a].desired = "RUN" => puts[a].dep = d
        PROVE  /\ ArmOK(d, <<PutAssignments(puts), SetDeploymentPhase(d, "SUCCEEDED")>>)
               /\ ArmOK(d, <<PutAssignments(puts), RecheckGreen(d)>>)
    <2>1. /\ PutAssignments(puts) \in Step
          /\ PutAssignments(puts).op \in CommandOps \ {"SetDeploymentPhase"}
      BY StepTypes DEF PutAssignments, CommandOps
    <2>2. VisitOK(d, <<PutAssignments(puts), RecheckGreen(d)>>)
      BY <2>1, StepTypes, TwoSteps, StepSeq DEF VisitOK, RecheckGreen
    <2>3. VisitOK(d, <<PutAssignments(puts), SetDeploymentPhase(d, "SUCCEEDED")>>)
      BY <2>1, <1>4 DEF TerminalPhase
    <2>4. /\ Reaped(d, <<PutAssignments(puts), RecheckGreen(d)>>)
          /\ Switched(d, <<PutAssignments(puts), RecheckGreen(d)>>)
      BY <1>8, TwoSteps DEF Reaped, Switched, RecheckGreen, PutAssignments
    <2>5. /\ Reaped(d, <<PutAssignments(puts), SetDeploymentPhase(d, "SUCCEEDED")>>)
          /\ Switched(d, <<PutAssignments(puts), SetDeploymentPhase(d, "SUCCEEDED")>>)
      BY <1>8, TwoSteps DEF Reaped, Switched, SetDeploymentPhase, PutAssignments
    <2> QED
      BY <2>2, <2>3, <2>4, <2>5 DEF ArmOK
  <1>9. ASSUME NEW p \in (RolloutPhase \cup {"SUCCEEDED"}) \ {"DRAINING_OLD"}
        PROVE  /\ p \in RolloutPhase \cup TerminalPhase /\ p # "DRAINING_OLD"
               /\ p \notin {"FAILED", "SUPERSEDED"}
    BY DEF RolloutPhase, TerminalPhase
  <1>10. "SUCCEEDED" \in TerminalPhase
    BY DEF TerminalPhase
  <1> QED
    BY <1>2, <1>3, <1>5, <1>6, <1>7, <1>8, <1>9, <1>10

\* Every arm of reconcile is a visit of its deployment that leaves such steps.
LEMMA ReconcileVisits ==
    ASSUME TypeInv, NEW d \in DeploymentId, reconcile(d)
    PROVE  /\ d \in pass /\ Idle
           /\ \E steps : Visit(d, steps) /\ ArmOK(d, steps) /\ (superseded(d) => Ends(steps))
           /\ minted' \in 0..MaxAssignment
  <1>1. d \in pass /\ Idle
    BY DEF reconcile, Turn
  <1>2. deployment[d].rel \in ReleaseId /\ minted \in 0..MaxAssignment
    BY <1>1 DEF TypeInv, StepsInv, PassLive, NamesRelease, LivePhase, RolloutPhase, TypeOK, StoreTypeOK
  <1>3. {"SUCCEEDED", "PLACING", "BUILDING", "STARTING", "HEALTHCHECKING", "PROMOTING"}
          \subseteq (RolloutPhase \cup {"SUCCEEDED"}) \ {"DRAINING_OLD"}
    BY DEF RolloutPhase
  <1>4. CASE ReleaseGone(d)
    BY <1>1, <1>2, <1>4, ArmSteps DEF ReleaseGone
  <1>5. CASE Supersede(d)
    BY <1>1, <1>2, <1>3, <1>5, ArmSteps DEF Supersede
  <1>6. CASE Pending(d)
    BY <1>1, <1>2, <1>3, <1>6, ArmSteps DEF Pending, Current
  <1>7. CASE Building(d)
    BY <1>1, <1>2, <1>3, <1>7, ArmSteps DEF Building, checkBuild, Current
  <1>8. CASE place(d)
    <2>0. ~superseded(d)
      BY <1>8 DEF place, Current
    <2>1. CASE Visit(d, setPhase(d, "STARTING")) /\ UNCHANGED minted
      BY <1>1, <1>2, <1>3, <2>0, <2>1, ArmSteps
    <2>2. CASE \E picks \in Place(deployReplicas - Cardinality(greenAssignments(d)),
                                  {assignment[a].node : a \in greenAssignments(d)}) :
                 /\ picks # <<>> /\ minted + Len(picks) <= MaxAssignment
                 /\ minted' = minted + Len(picks)
                 /\ Visit(d, <<PutAssignments(NewAssignments(picks, deployment[d].rel, d)),
                               RecheckGreen(d)>>)
      <3>1. PICK picks \in Place(deployReplicas - Cardinality(greenAssignments(d)),
                                 {assignment[a].node : a \in greenAssignments(d)}) :
                 /\ minted + Len(picks) <= MaxAssignment
                 /\ minted' = minted + Len(picks)
                 /\ Visit(d, <<PutAssignments(NewAssignments(picks, deployment[d].rel, d)),
                               RecheckGreen(d)>>)
        BY <2>2
      <3>2. PICK k \in 0..(deployReplicas - Cardinality(greenAssignments(d))) :
                 picks \in [1..k -> Eligible({assignment[a].node : a \in greenAssignments(d)})]
        BY DEF Place
      <3>3. k \in Nat /\ picks \in [1..k -> Node]
        BY <3>2 DEF Eligible
      <3>4. Len(picks) = k
        BY <3>3
      <3>5. NewAssignments(picks, deployment[d].rel, d) \in [AssignmentId -> Assignment]
        BY <1>2, <3>3, NewTypes
      <3>6. minted' \in 0..MaxAssignment
        BY <1>2, <3>1, <3>3, <3>4, StoreAssumption
      <3>7. ArmOK(d, <<PutAssignments(NewAssignments(picks, deployment[d].rel, d)),
                         RecheckGreen(d)>>)
        <4>1. \A a \in AssignmentId :
                LET new == NewAssignments(picks, deployment[d].rel, d)[a]
                IN  new.desired = "RUN" => new.dep = d
          BY DEF NewAssignments, newAssignment, NoAssignment
        <4> QED
          BY <3>5, <4>1, ArmSteps
      <3> QED
        BY <1>1, <2>0, <3>1, <3>6, <3>7
    <2> QED
      BY <1>8, <2>1, <2>2 DEF place
  <1>9. CASE checkStarting(d)
    BY <1>1, <1>2, <1>3, <1>9, ArmSteps DEF checkStarting, Current
  <1>10. CASE checkHealth(d)
    BY <1>1, <1>2, <1>3, <1>10, ArmSteps DEF checkHealth, Current
  <1>11. CASE promote(d)
    BY <1>1, <1>2, <1>3, <1>11, ArmSteps DEF promote, Current
  <1>12. CASE drain(d)
    <2>1. blueAssignments(d) \in SUBSET AssignmentId
      BY DEF blueAssignments
    <2>2. FlipTo(blueAssignments(d), "STOP") \in [AssignmentId -> Assignment]
      BY <2>1, FlipTypes DEF TypeInv, TypeOK, StoreTypeOK
    <2>3. \A a \in AssignmentId : FlipTo(blueAssignments(d), "STOP")[a].desired # "RUN"
      BY DEF FlipTo, NoAssignment, TypeInv, TypeOK, StoreTypeOK, Assignment
    <2> QED
      BY <1>1, <1>2, <1>3, <1>12, <2>2, <2>3, ArmSteps DEF drain, Current
  <1>13. CASE Wait(d)
    BY <1>1, <1>2, <1>13, ArmSteps DEF Wait, Current
  <1> QED
    BY <1>4, <1>5, <1>6, <1>7, <1>8, <1>9, <1>10, <1>11, <1>12, <1>13 DEF reconcile

LEMMA InitTypes == Init => TypeInv
  <1> SUFFICES ASSUME Init PROVE TypeInv
    OBVIOUS
  <1> USE DEF Init
  <1>1. MinReplicas \in Nat /\ MaxAssignment \in Nat /\ 1 \in ReleaseId /\ 0 \in Nat
    BY StoreAssumption DEF ReleaseId
  <1>2. /\ deployment \in [DeploymentId -> Deployment]
        /\ build \in [DeploymentId -> {"NONE", "QUEUED", "SUCCEEDED", "FAILED"}]
        /\ node \in [Node -> NodeRecord]
    BY DEF NoDeployment, Deployment, Phase, NodeRecord, NodeStatus
  <1>3. assignment \in [AssignmentId -> Assignment]
    <2>1. NoAssignment \in Assignment
      BY DEF NoAssignment, Assignment, InstanceState
    <2>2. ASSUME NEW a \in AssignmentId, NEW home \in Node
          PROVE  SteadyAssignment(a, home) \in Assignment
      BY <1>1, <2>1 DEF SteadyAssignment, newAssignment, Assignment, InstanceState
    <2> QED
      BY <2>1, <2>2
  <1>4. /\ env \in Environment
        /\ release \in [ReleaseId -> {"ABSENT", "SOURCE", "IMAGE"}]
        /\ minted \in 0..MaxAssignment
    BY <1>1 DEF Environment
  <1>5. ApiTypeOK
    BY <1>1 DEF ApiTypeOK
  <1>6. pass \subseteq DeploymentId /\ todo \in Seq(Step) /\ doomed \subseteq ReleaseId
    OBVIOUS
  <1>7. StepsInv
    BY DEF StepsInv, NamesRelease, PassLive, NoDeployment, Idle
  <1> QED
    BY <1>2, <1>3, <1>4, <1>5, <1>6, <1>7 DEF TypeInv, TypeOK, StoreTypeOK

\* What the steps of an arm leave behind once the first is done.
LEMMA RestOfArm ==
    ASSUME TypeInv, ~Idle, NEW rest, rest = Tail(todo)
    PROVE  /\ rest \in Seq(Step) /\ Head(todo) = todo[1] /\ Head(todo) \in Step
           /\ Len(todo) = 1 => rest = <<>>
           /\ Len(todo) = 2 => rest # <<>> /\ Len(rest) = 1 /\ rest[1] = Goal
           /\ rest # <<>> => Len(todo) = 2
           /\ Goal \in Step
  <1>1. todo \in Seq(Step) /\ todo # <<>> /\ Len(todo) \in 1..2
    BY DEF TypeInv, TypeOK, StepsInv, PassLive, Idle
  <1>2. rest \in Seq(Step) /\ Head(todo) = todo[1] /\ Head(todo) \in Step
    BY <1>1
  <1>3. Len(rest) = Len(todo) - 1 /\ \A i \in 1..Len(rest) : rest[i] = todo[i + 1]
    BY <1>1
  <1>4. rest = <<>> <=> Len(rest) = 0
    BY <1>2, EmptySeq
  <1>5. Goal \in Step
    BY <1>1 DEF Goal
  <1> QED
    BY <1>1, <1>2, <1>3, <1>4, <1>5 DEF Goal


\* The requests touch neither the orchestrator nor what it relies on.
LEMMA ApiTypes ==
    ASSUME TypeInv, ApiStep \/ (\E q \in requests : AbandonRequest(q)), UNCHANGED <<orch, doomed>>
    PROVE  TypeInv'
  <1> USE DEF TypeInv, TypeOK, StepsInv, NamesRelease, Numbered, PassLive, orch, store, Goal, Idle
  <1>1. CASE DeployGit
    <2>1. lastRelease + 1 \in ReleaseId /\ lastDeployment + 1 \in DeploymentId
      BY <1>1, StoreAssumption
         DEF DeployGit, CanMint, ApiTypeOK, ReleaseId, DeploymentId, NoId
    <2>2. ApiTypeOK'
      BY <1>1, <2>1 DEF DeployGit, ApiTypeOK, Request, RequestKind
    <2> QED
      BY <1>1, <2>1, <2>2 DEF DeployGit, StoreTypeOK
  <1>2. ASSUME NEW kind \in Inputs, resolveEnv(kind) PROVE TypeInv'
    <2>1. ApiTypeOK'
      BY <1>2, DeployApiAssumption DEF resolveEnv, ApiTypeOK, Request, StoreTypeOK, Environment
    <2> QED
      BY <1>2, <2>1 DEF resolveEnv, StoreTypeOK
  <1>3. ASSUME NEW q \in requests, Refuse(q) \/ AbandonRequest(q) PROVE TypeInv'
    BY <1>3 DEF Refuse, AbandonRequest, ApiTypeOK, StoreTypeOK
  <1>4. ASSUME NEW q \in requests, Check(q) PROVE TypeInv'
    BY <1>4 DEF Check, ApiTypeOK, Request, StoreTypeOK
  <1>5. ASSUME NEW q \in requests, buildDeployment(q) PROVE TypeInv'
    <2>1. lastRelease + 1 \in ReleaseId /\ lastDeployment + 1 \in DeploymentId
      BY <1>5, StoreAssumption
         DEF buildDeployment, CanMint, ApiTypeOK, ReleaseId, DeploymentId, NoId
    <2> QED
      <3>1. ApiTypeOK'
        BY <1>5, <2>1 DEF buildDeployment, ApiTypeOK, Request
      <3> QED BY <1>5, <2>1, <3>1 DEF buildDeployment, ApiTypeOK, Request, StoreTypeOK
  <1>6. ASSUME NEW q \in requests, NEW r \in ReleaseId, Rollback(q, r) PROVE TypeInv'
    <2>1. lastDeployment + 1 \in DeploymentId
      BY <1>6, StoreAssumption DEF Rollback, CanMint, ApiTypeOK, DeploymentId, NoId
    <2> QED
      <3>1. ApiTypeOK'
        BY <1>6, <2>1 DEF Rollback, ApiTypeOK, Request
      <3> QED BY <1>6, <2>1, <3>1 DEF Rollback, ApiTypeOK, Request, StoreTypeOK
  <1>7. ASSUME NEW q \in requests, CommitBuild(q) PROVE TypeInv'
    BY <1>7 DEF CommitBuild, ApiTypeOK, Request, StoreTypeOK
  <1>8. ASSUME NEW q \in requests, CommitRelease(q) PROVE TypeInv'
    BY <1>8 DEF CommitRelease, ApiTypeOK, Request, StoreTypeOK
  <1>9. ASSUME NEW q \in requests, CommitDeployment(q) PROVE TypeInv'
    <2>1. q.dep \in DeploymentId /\ q.rel \in ReleaseId /\ q.prev \in {NoId} \cup ReleaseId
      BY <1>9 DEF CommitDeployment, ApiTypeOK, Request
    <2>2. \A d \in DeploymentId \ {q.dep} : deployment'[d] = deployment[d]
      BY <1>9 DEF CommitDeployment, StoreTypeOK
    <2>3. /\ deployment'[q.dep].phase = "PENDING" /\ deployment'[q.dep].rel = q.rel
          /\ deployment' \in [DeploymentId -> Deployment]
      BY <1>9, <2>1 DEF CommitDeployment, StoreTypeOK, Deployment, Phase, LivePhase
    <2>4. "PENDING" \in LivePhase
      BY DEF LivePhase
    <2>5. ApiTypeOK' /\ StoreTypeOK'
      BY <1>9, <2>3 DEF CommitDeployment, ApiTypeOK, StoreTypeOK
    <2>6. PassLive'
      BY <1>9, <2>2, <2>3, <2>4 DEF CommitDeployment, Step
    <2>7. NamesRelease'
      BY <1>9, <2>1, <2>2, <2>3 DEF CommitDeployment
    <2> QED
      BY <2>5, <2>6, <2>7
  <1> QED
    BY <1>1, <1>2, <1>3, <1>4, <1>5, <1>6, <1>7, <1>8, <1>9 DEF ApiStep

LEMMA VisitTypes ==
    ASSUME TypeInv, NEW d \in DeploymentId, d \in pass, NEW steps,
           Visit(d, steps), VisitOK(d, steps), minted' \in 0..MaxAssignment,
           UNCHANGED <<api, doomed>>
    PROVE  TypeInv'
  <1>1. TypeOK'
    BY DEF TypeInv, TypeOK, StoreTypeOK, ApiTypeOK, Visit, VisitOK, store, api
  <1>2. NamesRelease'
    BY DEF TypeInv, StepsInv, NamesRelease, Visit, store, api
  <1>3. deployment[d].phase \in LivePhase /\ deployment' = deployment
        /\ d \notin pass' /\ pass' \subseteq pass
    BY DEF TypeInv, StepsInv, PassLive, Visit, store
  <1>4. PassLive'
    BY <1>3 DEF TypeInv, StepsInv, PassLive, Visit, VisitOK, Idle, Goal
  <1> QED
    BY <1>1, <1>2, <1>4 DEF TypeInv, StepsInv

\* Deployments keep their release, and only the goal of an arm changes a phase.
LEMMA ApplyDeployments ==
    ASSUME TypeInv, ~Idle, Apply(Head(todo))
    PROVE  /\ Head(todo).op # "SetDeploymentPhase" => deployment' = deployment
           /\ Head(todo).op = "SetDeploymentPhase" =>
                /\ Len(todo) = 1 /\ Head(todo) = Goal
                /\ deployment' = [deployment EXCEPT ![Goal.dep].phase = Goal.phase]
                /\ UNCHANGED <<env, release, build, assignment, node>>
  <1>1. Head(todo) = todo[1] /\ Head(todo) \in Step
    BY RestOfArm
  <1>2. Head(todo).op = "SetDeploymentPhase" => Len(todo) = 1 /\ Head(todo) = Goal
    BY <1>1 DEF TypeInv, StepsInv, PassLive, CommandOps, Goal
  <1> QED
    BY <1>1, <1>2 DEF Apply, applyPutAssignments, applyDeleteAssignments,
       applySetDeploymentPhase, applyPromoteRelease, applyPutRelease

LEMMA ApplyNextTypes ==
    ASSUME TypeInv, ApplyNext, UNCHANGED <<api, doomed>>
    PROVE  TypeInv'
  <1>1. ~Idle /\ Apply(Head(todo)) /\ todo' = Tail(todo) /\ UNCHANGED <<minted, pass>>
    BY DEF ApplyNext
  <1>2. /\ todo' \in Seq(Step) /\ Head(todo) = todo[1] /\ Head(todo) \in Step
        /\ Len(todo) = 1 => todo' = <<>>
        /\ Len(todo) = 2 => todo' # <<>> /\ Len(todo') = 1 /\ todo'[1] = Goal
        /\ todo' # <<>> => Len(todo) = 2
    BY <1>1, RestOfArm
  <1>3. StoreTypeOK'
    BY <1>1, <1>2, ApplyTypes DEF TypeInv, TypeOK
  <1>4. TypeOK'
    BY <1>1, <1>2, <1>3 DEF TypeInv, TypeOK, ApiTypeOK, api
  <1>5. /\ \A d \in pass : deployment[d].phase \in LivePhase
        /\ Goal \in Step /\ Len(todo) \in 1..2 /\ Goal.dep \notin pass
        /\ Goal.dep \in DeploymentId
        /\ Goal.op = "SetDeploymentPhase" => Goal.phase \in RolloutPhase \cup TerminalPhase
        /\ deployment[Goal.dep].phase \in LivePhase
        /\ Goal.op \in {"SetDeploymentPhase", "RecheckGreen"}
    BY <1>1, RestOfArm DEF TypeInv, StepsInv, PassLive, Step
  <1>6. CASE Head(todo).op # "SetDeploymentPhase"
    <2>1. deployment' = deployment
      BY <1>1, <1>6, ApplyDeployments
    <2>2. NamesRelease'
      BY <2>1 DEF TypeInv, StepsInv, NamesRelease, api
    <2>3. todo' # <<>> => Len(todo') = 1 /\ Goal' = Goal
      BY <1>2 DEF Goal
    <2>4. PassLive'
      BY <1>1, <1>5, <2>1, <2>3 DEF PassLive, Idle
    <2> QED
      BY <1>4, <2>2, <2>4 DEF TypeInv, StepsInv
  <1>7. CASE Head(todo).op = "SetDeploymentPhase"
    <2>1. Len(todo) = 1 /\ deployment' = [deployment EXCEPT ![Goal.dep].phase = Goal.phase]
      BY <1>1, <1>7, ApplyDeployments
    <2>2. deployment \in [DeploymentId -> Deployment]
      BY DEF TypeInv, TypeOK, StoreTypeOK
    <2>3. \A d \in DeploymentId : /\ deployment'[d].rel = deployment[d].rel
                                  /\ d # Goal.dep => deployment'[d] = deployment[d]
      BY <2>1, <2>2, <1>5 DEF Deployment
    <2>4. deployment[Goal.dep].phase # "ABSENT"
      BY <1>5 DEF LivePhase, RolloutPhase
    <2>5. NamesRelease'
      BY <1>5, <2>3, <2>4 DEF TypeInv, StepsInv, NamesRelease, api
    <2>6. PassLive'
      BY <1>1, <1>2, <1>5, <2>1, <2>3 DEF TypeInv, TypeOK, StepsInv, PassLive, Idle
    <2> QED
      BY <1>4, <2>5, <2>6 DEF TypeInv, StepsInv
  <1> QED
    BY <1>6, <1>7

LEMMA RecheckTypes ==
    ASSUME TypeInv, RecheckPlacement, UNCHANGED <<api, doomed>>
    PROVE  TypeInv'
  <1>1. ~Idle /\ Head(todo).op = "RecheckGreen" /\ UNCHANGED <<store, minted, pass>>
    BY DEF RecheckPlacement
  <1>2. Head(todo) = todo[1] /\ Len(todo) \in 1..2
    BY <1>1, RestOfArm DEF TypeInv, StepsInv, PassLive
  <1>3. Len(todo) = 1 /\ Head(todo) = Goal
    BY <1>1, <1>2 DEF TypeInv, StepsInv, PassLive, Goal, CommandOps
  <1>4. /\ Goal.dep \in DeploymentId /\ Goal.dep \notin pass
        /\ deployment[Goal.dep].phase \in LivePhase
    BY <1>1, <1>3, RestOfArm DEF TypeInv, StepsInv, PassLive, Step
  <1>5. todo' = <<>> \/ todo' = setPhase(Goal.dep, "STARTING")
    BY <1>3 DEF RecheckPlacement
  <1>6. VisitOK(Goal.dep, todo')
    BY <1>4, <1>5, ArmSteps DEF RolloutPhase, ArmOK
  <1>7. TypeOK'
    BY <1>1, <1>6 DEF TypeInv, TypeOK, StoreTypeOK, ApiTypeOK, VisitOK, store, api
  <1>8. NamesRelease'
    BY <1>1 DEF TypeInv, StepsInv, NamesRelease, store, api
  <1>9. PassLive'
    BY <1>1, <1>4, <1>6 DEF TypeInv, StepsInv, PassLive, VisitOK, Idle, Goal, store
  <1> QED
    BY <1>7, <1>8, <1>9 DEF TypeInv, StepsInv

LEMMA NextTypes == TypeInv /\ [Next]_vars => TypeInv'
  <1> SUFFICES ASSUME TypeInv, [Next]_vars PROVE TypeInv'
    OBVIOUS
  <1>1. CASE (ApiStep \/ (\E q \in requests : AbandonRequest(q))) /\ UNCHANGED <<orch, doomed>>
    BY <1>1, ApiTypes
  <1>2. CASE OrchStep
    <2>1. CASE BeginPass
      <3>1. pass' \subseteq DeploymentId /\ \A d \in pass' : deployment[d].phase \in LivePhase
        BY <2>1 DEF BeginPass, isTerminalPhase
      <3> QED
        BY <1>2, <2>1, <3>1 DEF OrchStep, BeginPass, TypeInv, TypeOK, StoreTypeOK, ApiTypeOK, StepsInv,
           NamesRelease, PassLive, store, api, Idle, Goal
    <2>2. CASE ApplyNext
      BY <1>2, <2>2, ApplyNextTypes DEF OrchStep
    <2>3. CASE RecheckPlacement
      BY <1>2, <2>3, RecheckTypes DEF OrchStep
    <2>4. ASSUME NEW d \in DeploymentId, reconcile(d) PROVE TypeInv'
      BY <1>2, <2>4, ReconcileVisits, VisitTypes DEF OrchStep, ArmOK
    <2> QED
      BY <1>2, <2>1, <2>2, <2>3, <2>4 DEF OrchStep
  <1>3. CASE LeaderChange
    <2>1. pass' = {} /\ todo' = <<>> /\ doomed' = {} /\ UNCHANGED <<store, minted, api>>
      BY <1>3 DEF LeaderChange, Failover
    <2> QED
      BY <2>1 DEF TypeInv, TypeOK, StoreTypeOK, ApiTypeOK, StepsInv, NamesRelease, PassLive, store, api, Idle
  <1>4. CASE Timeout
    <2>1. ~Idle /\ todo' = Tail(todo) /\ UNCHANGED <<store, minted, pass, api, doomed>>
      BY <1>4 DEF Timeout, ApplyTimesOut
    <2>2. /\ todo' \in Seq(Step) /\ Len(todo) \in 1..2
          /\ Len(todo) = 1 => todo' = <<>>
          /\ Len(todo) = 2 => Len(todo') = 1 /\ todo'[1] = Goal
      BY <2>1, RestOfArm DEF TypeInv, StepsInv, PassLive
    <2>3. TypeOK' /\ NamesRelease'
      BY <2>1, <2>2 DEF TypeInv, TypeOK, StoreTypeOK, ApiTypeOK, StepsInv, NamesRelease, store, api
    <2>4. todo' # <<>> => Len(todo') = 1 /\ Goal' = Goal
      BY <2>2 DEF Goal
    <2>5. UNCHANGED <<deployment, pass>>
      BY <2>1 DEF store
    <2>6. /\ \A d \in pass : deployment[d].phase \in LivePhase
          /\ Goal.op \in {"SetDeploymentPhase", "RecheckGreen"}
          /\ Goal.op = "SetDeploymentPhase" => Goal.phase \in RolloutPhase \cup TerminalPhase
          /\ Goal.dep \notin pass /\ deployment[Goal.dep].phase \in LivePhase
      BY <2>1 DEF TypeInv, StepsInv, PassLive
    <2>7. PassLive'
      BY <2>4, <2>5, <2>6 DEF PassLive, Idle
    <2> QED
      BY <2>3, <2>7 DEF TypeInv, StepsInv
  <1>5. CASE Sweep
    BY <1>5 DEF Sweep, sweepEnv, DeleteRelease, StoredReleases, TypeInv, TypeOK, StoreTypeOK, ApiTypeOK, StepsInv,
       NamesRelease, PassLive, store, api, orch, Idle, Goal
  <1>6. ASSUME NEW d \in DeploymentId, FinishBuild(d) PROVE TypeInv'
    BY <1>6 DEF FinishBuild, TypeInv, TypeOK, StoreTypeOK, ApiTypeOK, StepsInv,
       NamesRelease, PassLive, store, api, orch, Idle, Goal
  <1>7. ASSUME NEW a \in AssignmentId, Report(a) PROVE TypeInv'
    <2>1. assignment' \in [AssignmentId -> Assignment]
      BY <1>7, RolloutAssumption DEF Report, SetAssignmentObserved, MergeObserved, TypeInv,
         TypeOK, StoreTypeOK, Assignment
    <2> QED
      BY <1>7, <2>1 DEF Report, SetAssignmentObserved, TypeInv, TypeOK, StoreTypeOK, ApiTypeOK, StepsInv,
         NamesRelease, PassLive, store, api, orch, Idle, Goal
  <1>8. CASE UNCHANGED vars
    BY <1>8 DEF vars, TypeInv, TypeOK, StoreTypeOK, ApiTypeOK, StepsInv,
       NamesRelease, PassLive, store, api, orch, Idle, Goal
  <1> QED
    BY <1>1, <1>2, <1>3, <1>4, <1>5, <1>6, <1>7, <1>8 DEF Next, Abandon

\* The state of a rollout is always well formed, whatever requests race, commands
\* are lost and leaders change: in particular every step an arm still has to do
\* names a stored deployment and, where it stores or promotes one, a release.
THEOREM TypeCorrect == Spec => []TypeOK
  <1>1. TypeInv => TypeOK
    BY DEF TypeInv
  <1> QED
    BY <1>1, InitTypes, NextTypes, PTL DEF Spec

(***************************************************************************)
(* Safety, when no command is lost.                                        *)
(***************************************************************************)
\* A step that neither the orchestrator takes nor creates a deployment.
Quiet ==
    /\ UNCHANGED <<env, deployment, pass, todo>>
    /\ \A d \in DeploymentId : greenAssignments(d)' = greenAssignments(d)

LEMMA StepKinds ==
    ASSUME "timeout" \notin Faults, TypeInv, [Next]_vars
    PROVE  \/ Quiet
           \/ (\E q \in requests : CommitDeployment(q)) /\ UNCHANGED orch
           \/ BeginPass \/ ApplyNext \/ RecheckPlacement
           \/ \E d \in DeploymentId : reconcile(d)
           \/ Failover
  <1>1. ASSUME UNCHANGED <<env, deployment, assignment, pass, todo>> PROVE Quiet
    BY <1>1 DEF Quiet, greenAssignments
  <1>2. CASE ApiStep /\ UNCHANGED <<orch, doomed>>
    BY <1>1, <1>2 DEF ApiStep, DeployGit, resolveEnv, Refuse, Check, buildDeployment, Rollback,
       CommitBuild, CommitRelease, orch, store
  <1>3. CASE Abandon
    BY <1>1, <1>3 DEF Abandon, AbandonRequest, orch, store
  <1>4. CASE Sweep
    BY <1>1, <1>4 DEF Sweep, sweepEnv, DeleteRelease, orch, store
  <1>5. CASE \E d \in DeploymentId : FinishBuild(d)
    BY <1>1, <1>5 DEF FinishBuild, orch
  <1>6. ASSUME NEW a \in AssignmentId, Report(a) PROVE Quiet
    <2>1. /\ assignment \in [AssignmentId -> Assignment]
          /\ \E s : assignment' = [assignment EXCEPT ![a].obs = s]
      BY <1>6 DEF Report, SetAssignmentObserved, TypeInv, TypeOK, StoreTypeOK
    <2>2. \A b \in AssignmentId : /\ assignment'[b].dep = assignment[b].dep
                                  /\ assignment'[b].desired = assignment[b].desired
      BY <2>1 DEF Assignment
    <2> QED
      BY <1>6, <2>2 DEF Report, SetAssignmentObserved, Quiet, greenAssignments, orch
  <1>7. CASE UNCHANGED vars
    BY <1>1, <1>7 DEF vars, orch, store
  <1> QED
    BY <1>2, <1>3, <1>4, <1>5, <1>6, <1>7 DEF Next, OrchStep, LeaderChange, Timeout

\* A command is the goal of its arm, or leaves the goal as the only step to do.
LEMMA ApplyKinds ==
    ASSUME TypeInv, ApplyNext
    PROVE  /\ ~Idle /\ UNCHANGED pass /\ Goal \in Step /\ Goal.dep \in DeploymentId
           /\ deployment \in [DeploymentId -> Deployment]
           /\ \/ /\ Len(todo) = 1 /\ todo[1] = Goal /\ todo' = <<>>
                 /\ Goal.op = "SetDeploymentPhase"
                 /\ deployment' = [deployment EXCEPT ![Goal.dep].phase = Goal.phase]
                 /\ UNCHANGED <<env, assignment>>
              \/ /\ Len(todo) = 2 /\ Len(todo') = 1 /\ todo' # <<>>
                 /\ todo'[1] = Goal /\ Goal' = Goal
                 /\ todo[1] \in Step /\ todo[1].op # "SetDeploymentPhase" /\ Apply(todo[1])
                 /\ UNCHANGED deployment
  <1>1. ~Idle /\ Apply(Head(todo)) /\ todo' = Tail(todo) /\ UNCHANGED pass
        /\ Head(todo).op \in CommandOps
    BY DEF ApplyNext
  <1>2. /\ todo' \in Seq(Step) /\ Head(todo) = todo[1] /\ Head(todo) \in Step
        /\ Len(todo) = 1 => todo' = <<>>
        /\ Len(todo) = 2 => todo' # <<>> /\ Len(todo') = 1 /\ todo'[1] = Goal
        /\ Goal \in Step
    BY <1>1, RestOfArm
  <1>3. /\ Len(todo) \in 1..2 /\ Goal.op \in {"SetDeploymentPhase", "RecheckGreen"}
        /\ Len(todo) = 2 => todo[1].op # "SetDeploymentPhase"
        /\ deployment \in [DeploymentId -> Deployment]
    BY <1>1 DEF TypeInv, TypeOK, StoreTypeOK, StepsInv, PassLive
  <1>4. Goal.dep \in DeploymentId
    BY <1>2, <1>3 DEF Step
  <1>5. CASE Len(todo) = 1
    <2>1. todo[1] = Goal
      BY <1>5 DEF Goal
    <2>2. Goal.op = "SetDeploymentPhase"
      BY <1>1, <1>2, <1>3, <2>1 DEF CommandOps
    <2> QED
      BY <1>1, <1>2, <1>3, <1>4, <1>5, <2>1, <2>2, ApplyDeployments
  <1>6. CASE Len(todo) = 2
    <2>1. Goal' = Goal
      BY <1>2, <1>6 DEF Goal
    <2> QED
      BY <1>1, <1>2, <1>3, <1>4, <1>6, <2>1, ApplyDeployments
  <1> QED
    BY <1>3, <1>5, <1>6

\* RecheckPlacement either gives up or goes on to STARTING.
LEMMA RecheckKinds ==
    ASSUME TypeInv, RecheckPlacement
    PROVE  /\ ~Idle /\ Len(todo) = 1 /\ todo[1] = Goal /\ Goal.op = "RecheckGreen"
           /\ UNCHANGED <<env, deployment, assignment, pass>> /\ Goal.dep \in DeploymentId
           /\ \/ todo' = <<>>
              \/ todo' = setPhase(Goal.dep, "STARTING")
  <1>1. ~Idle /\ Head(todo).op = "RecheckGreen" /\ UNCHANGED <<store, minted, pass>>
    BY DEF RecheckPlacement
  <1>2. Head(todo) = todo[1] /\ Len(todo) \in 1..2 /\ Goal \in Step
    BY <1>1, RestOfArm DEF TypeInv, StepsInv, PassLive
  <1>3. Len(todo) = 1 /\ Head(todo) = Goal
    BY <1>1, <1>2 DEF TypeInv, StepsInv, PassLive, Goal, CommandOps
  <1> QED
    BY <1>1, <1>2, <1>3 DEF RecheckPlacement, store, Step

(***************************************************************************)
(* Exclusive rollouts.                                                     *)
(***************************************************************************)
LEMMA InitOrder == Init => OrderInv
  BY DEF Init, OrderInv, PassOrder, ExclusiveRollout, NoDeployment, RolloutPhase, Idle

LEMMA NextOrder ==
    ASSUME "timeout" \notin Faults, TypeInv, OrderInv, [Next]_vars
    PROVE  OrderInv'
  <1>0. /\ pass \subseteq DeploymentId /\ DeploymentId \subseteq Nat
        /\ \A d \in pass : deployment[d].phase \in LivePhase
        /\ RolloutPhase \subseteq LivePhase /\ "PENDING" \notin RolloutPhase
        /\ RolloutPhase \cap TerminalPhase = {}
    BY DEF TypeInv, TypeOK, StepsInv, PassLive, DeploymentId, LivePhase, RolloutPhase, TerminalPhase
  <1>1. CASE Quiet
    BY <1>1 DEF Quiet, OrderInv, PassOrder, ExclusiveRollout, Idle, Goal, Advances, GoalPhase
  <1>2. ASSUME NEW q \in requests, CommitDeployment(q), UNCHANGED orch PROVE OrderInv'
    <2>1. q.dep \in DeploymentId
      BY <1>2 DEF CommitDeployment, TypeInv, StepsInv, NamesRelease, Numbered
    <2>2. /\ \A d \in DeploymentId : d # q.dep => deployment'[d].phase = deployment[d].phase
          /\ deployment'[q.dep].phase = "PENDING"
      BY <1>2, <2>1 DEF CommitDeployment, TypeInv, TypeOK, StoreTypeOK
    <2>3. UNCHANGED <<pass, todo, Goal, Advances, Idle>>
      BY <1>2 DEF orch, Goal, Advances, GoalPhase, Idle
    <2>4. \A d \in DeploymentId :
            deployment'[d].phase \in RolloutPhase => deployment[d].phase \in RolloutPhase
      BY <1>0, <2>2
    <2>5. ExclusiveRollout'
      BY <2>4 DEF OrderInv, ExclusiveRollout
    <2>6. PassOrder'
      BY <2>3, <2>4 DEF OrderInv, PassOrder
    <2> QED
      BY <2>5, <2>6 DEF OrderInv
  <1>3. CASE BeginPass
    <2>1. /\ Idle' /\ UNCHANGED deployment
          /\ pass' = {d \in DeploymentId : deployment[d].phase \in LivePhase}
      BY <1>3 DEF BeginPass, store, Idle, isTerminalPhase
    <2> QED
      BY <1>0, <2>1 DEF OrderInv, PassOrder, ExclusiveRollout
  <1>4. CASE ApplyNext
    <2>1. CASE /\ Len(todo) = 1 /\ todo[1] = Goal /\ todo' = <<>>
               /\ Goal.op = "SetDeploymentPhase"
               /\ deployment' = [deployment EXCEPT ![Goal.dep].phase = Goal.phase]
      <3>1. /\ \A d \in DeploymentId : d # Goal.dep => deployment'[d].phase = deployment[d].phase
            /\ deployment'[Goal.dep].phase = Goal.phase /\ Goal.dep \in DeploymentId
            /\ Idle' /\ ~Idle /\ pass' = pass
        BY <1>4, <2>1, ApplyKinds DEF Deployment, Idle
      <3>2. CASE Goal.phase \in RolloutPhase
        <4>1. /\ \A e \in pass : e < Goal.dep
              /\ \A d \in DeploymentId : d # Goal.dep => deployment[d].phase \notin RolloutPhase
          BY <3>1, <3>2, <2>1 DEF OrderInv, PassOrder, Advances, GoalPhase
        <4> QED
          BY <1>0, <3>1, <4>1 DEF OrderInv, PassOrder, ExclusiveRollout
      <3>3. CASE Goal.phase \notin RolloutPhase
        BY <3>1, <3>3 DEF OrderInv, PassOrder, ExclusiveRollout
      <3> QED
        BY <3>2, <3>3
    <2>2. CASE todo' # <<>> /\ Goal' = Goal /\ UNCHANGED deployment
      <3>1. ~Idle /\ ~Idle' /\ UNCHANGED <<pass, Goal, Advances>>
        BY <1>4, <2>2, ApplyKinds DEF Idle, Advances, GoalPhase
      <3> QED
        BY <2>2, <3>1 DEF OrderInv, PassOrder, ExclusiveRollout
    <2> QED
      BY <1>4, <2>1, <2>2, ApplyKinds
  <1>5. CASE RecheckPlacement
    <2>1. /\ ~Idle /\ Advances /\ UNCHANGED <<deployment, pass>> /\ Goal.dep \in DeploymentId
          /\ todo' = <<>> \/ todo' = setPhase(Goal.dep, "STARTING")
      BY <1>5, RecheckKinds DEF Advances
    <2>2. /\ \A e \in pass : e < Goal.dep
          /\ \A d \in DeploymentId : d # Goal.dep => deployment[d].phase \notin RolloutPhase
      BY <2>1 DEF OrderInv, PassOrder
    <2>3. CASE todo' = <<>>
      BY <1>0, <2>1, <2>2, <2>3 DEF OrderInv, PassOrder, ExclusiveRollout, Idle
    <2>4. CASE todo' = setPhase(Goal.dep, "STARTING")
      <3>1. ~Idle' /\ Goal'.dep = Goal.dep
        BY <2>4, OneStep DEF setPhase, SetDeploymentPhase, Idle, Goal
      <3> QED
        BY <2>1, <2>2, <3>1 DEF OrderInv, PassOrder, ExclusiveRollout
    <2> QED
      BY <2>1, <2>3, <2>4
  <1>6. ASSUME NEW d \in DeploymentId, reconcile(d) PROVE OrderInv'
    <2>1. PICK steps : Visit(d, steps) /\ ArmOK(d, steps) /\ (superseded(d) => Ends(steps))
      BY <1>6, ReconcileVisits
    <2>2. /\ d \in pass /\ Idle /\ \A e \in pass : d <= e
          /\ UNCHANGED deployment /\ todo' = steps /\ pass' = pass \ {d}
      BY <1>6, <2>1 DEF reconcile, Turn, Visit, store
    <2>3. ~Idle' => Goal'.dep = d
      BY <2>1, <2>2 DEF ArmOK, VisitOK, Idle, Goal
    <2>4. ASSUME NEW e \in pass' PROVE superseded(d)
      BY <1>0, <2>2 DEF superseded, isTerminalPhase
    <2>5. Ends(steps) => ~Idle' /\ ~Advances'
      BY <1>0, <2>2 DEF Ends, Idle, Advances, GoalPhase, Goal
    <2>6. \A e \in pass' : \A c \in DeploymentId :
             c < e => \/ c \in pass'
                      \/ ~Idle' /\ Goal'.dep = c
                      \/ deployment'[c].phase \notin RolloutPhase
      <3>0. pass' # {} => ~Idle' /\ Goal'.dep = d
        BY <2>1, <2>3, <2>4, <2>5
      <3> SUFFICES ASSUME NEW e \in pass', NEW c \in DeploymentId, c < e, c \notin pass', c # d
                   PROVE  deployment'[c].phase \notin RolloutPhase
        BY <3>0
      <3>1. e \in pass /\ c \notin pass
        BY <2>2
      <3> QED
        BY <2>2, <3>1 DEF OrderInv, PassOrder
    <2>7. ASSUME ~Idle', Advances'
          PROVE  /\ \A e \in pass' : e < Goal'.dep
                 /\ \A c \in DeploymentId : c # Goal'.dep => deployment'[c].phase \notin RolloutPhase
      <3>1. ~superseded(d)
        BY <2>1, <2>5, <2>7
      <3>2. pass' = {}
        BY <2>4, <3>1
      <3>3. ASSUME NEW c \in DeploymentId, c # d PROVE deployment[c].phase \notin RolloutPhase
        <4>1. CASE c > d
          BY <1>0, <3>1, <4>1 DEF superseded, isTerminalPhase
        <4>2. CASE c < d
          <5>1. c \notin pass
            BY <1>0, <2>2, <4>2
          <5> QED
            BY <2>2, <4>2, <5>1 DEF OrderInv, PassOrder
        <4> QED
          BY <1>0, <3>3, <4>1, <4>2
      <3> QED
        BY <2>2, <2>3, <2>7, <3>2, <3>3
    <2> QED
      BY <2>2, <2>6, <2>7 DEF OrderInv, PassOrder, ExclusiveRollout
  <1>7. CASE Failover
    BY <1>7 DEF Failover, OrderInv, PassOrder, ExclusiveRollout, store, Idle
  <1> QED
    BY <1>1, <1>2, <1>3, <1>4, <1>5, <1>6, <1>7, StepKinds

\* However deployments are requested and wherever the leader changes, reconcile
\* never has two rollouts of one environment under way, as long as the outcome of
\* a command is known.
THEOREM OneRollout ==
    ASSUME "timeout" \notin Faults
    PROVE  Spec => []ExclusiveRollout
  <1>1. TypeInv /\ OrderInv /\ [Next]_vars => OrderInv'
    BY NextOrder
  <1>2. OrderInv => ExclusiveRollout
    BY DEF OrderInv
  <1> QED
    BY <1>1, <1>2, InitTypes, NextTypes, InitOrder, PTL DEF Spec

(***************************************************************************)
(* No replica outlives a failed or superseded rollout.                     *)
(***************************************************************************)
LEMMA InitReap == Init => ReapInv
  BY DEF Init, ReapInv, ReapedFirst, NoLeakedGreen, NoDeployment, Idle

LEMMA NextReap ==
    ASSUME "timeout" \notin Faults, TypeInv, ReapInv, [Next]_vars
    PROVE  ReapInv'
  <1>0. /\ ~Idle => deployment[Goal.dep].phase \in LivePhase
        /\ ~Idle => Goal.op \in {"SetDeploymentPhase", "RecheckGreen"}
        /\ {"FAILED", "SUPERSEDED"} \cap LivePhase = {}
        /\ assignment \in [AssignmentId -> Assignment]
    BY DEF TypeInv, TypeOK, StoreTypeOK, StepsInv, PassLive, LivePhase, RolloutPhase
  <1>1. CASE Quiet
    <2>1. ~Idle => Goal.dep \in DeploymentId
      BY <1>0, RestOfArm DEF Step
    <2> QED
      BY <1>1, <2>1 DEF Quiet, ReapInv, ReapedFirst, NoLeakedGreen, Idle, Goal, GoalPhase
  <1>2. ASSUME NEW q \in requests, CommitDeployment(q), UNCHANGED orch PROVE ReapInv'
    <2>1. q.dep \in DeploymentId
      BY <1>2 DEF CommitDeployment, TypeInv, StepsInv, NamesRelease, Numbered
    <2>2. /\ \A d \in DeploymentId : d # q.dep => deployment'[d].phase = deployment[d].phase
          /\ deployment'[q.dep].phase = "PENDING"
      BY <1>2, <2>1 DEF CommitDeployment, TypeInv, TypeOK, StoreTypeOK
    <2>3. UNCHANGED <<assignment, todo>>
      BY <1>2 DEF CommitDeployment, orch
    <2>4. NoLeakedGreen'
      BY <2>2, <2>3 DEF ReapInv, NoLeakedGreen, greenAssignments
    <2>5. ReapedFirst'
      BY <2>3 DEF ReapInv, ReapedFirst, greenAssignments, Idle, Goal, GoalPhase
    <2> QED
      BY <2>4, <2>5 DEF ReapInv
  <1>3. CASE BeginPass \/ Failover
    BY <1>3 DEF BeginPass, Failover, store, ReapInv, ReapedFirst, NoLeakedGreen, greenAssignments, Idle
  <1>4. CASE ApplyNext
    <2>1. CASE /\ Len(todo) = 1 /\ todo[1] = Goal /\ todo' = <<>>
               /\ Goal.op = "SetDeploymentPhase"
               /\ deployment' = [deployment EXCEPT ![Goal.dep].phase = Goal.phase]
               /\ UNCHANGED <<env, assignment>>
      <3>1. /\ \A d \in DeploymentId : d # Goal.dep => deployment'[d].phase = deployment[d].phase
            /\ deployment'[Goal.dep].phase = Goal.phase /\ Goal.dep \in DeploymentId
            /\ Idle' /\ ~Idle
        BY <1>4, <2>1, ApplyKinds DEF Deployment, Idle
      <3>2. Goal.phase \in {"FAILED", "SUPERSEDED"} => greenAssignments(Goal.dep) = {}
        BY <2>1, <3>1 DEF ReapInv, ReapedFirst, GoalPhase
      <3>3. NoLeakedGreen'
        BY <2>1, <3>1, <3>2 DEF ReapInv, NoLeakedGreen, greenAssignments
      <3> QED
        BY <3>1, <3>3 DEF ReapInv, ReapedFirst
    <2>2. CASE /\ Len(todo) = 2 /\ Len(todo') = 1 /\ todo' # <<>>
               /\ todo'[1] = Goal /\ Goal' = Goal
               /\ todo[1] \in Step /\ todo[1].op # "SetDeploymentPhase" /\ Apply(todo[1])
               /\ UNCHANGED deployment
      <3>1. ~Idle /\ Goal.dep \in DeploymentId
        BY <1>4, ApplyKinds
      <3>2. CASE todo[1].op = "PutAssignments"
        <4>1. ~GoalPhase({"FAILED", "SUPERSEDED"})
          BY <2>2, <3>1, <3>2 DEF ReapInv, ReapedFirst
        <4>2. \A a \in AssignmentId : assignment'[a] = assignment[a] \/ assignment'[a] = todo[1].puts[a]
          BY <2>2, <3>2 DEF Apply, applyPutAssignments
        <4>3. \A d \in DeploymentId : d # Goal.dep => greenAssignments(d)' \subseteq greenAssignments(d)
          BY <3>1, <3>2, <4>2 DEF ReapInv, ReapedFirst, greenAssignments
        <4>4. NoLeakedGreen'
          BY <1>0, <2>2, <3>1, <4>3 DEF ReapInv, NoLeakedGreen
        <4>5. ReapedFirst'
          BY <1>0, <2>2, <3>1, <4>1 DEF ReapedFirst, GoalPhase
        <4> QED
          BY <4>4, <4>5 DEF ReapInv
      <3>3. CASE todo[1].op = "DeleteAssignments"
        <4>1. \A a \in AssignmentId :
                assignment'[a] = IF a \in todo[1].ids THEN NoAssignment ELSE assignment[a]
          BY <2>2, <3>3 DEF Apply, applyDeleteAssignments
        <4>2. \A d \in DeploymentId : greenAssignments(d)' \subseteq greenAssignments(d) \ todo[1].ids
          BY <4>1 DEF greenAssignments, NoAssignment
        <4>3. NoLeakedGreen'
          BY <2>2, <4>2 DEF ReapInv, NoLeakedGreen
        <4>4. GoalPhase({"FAILED", "SUPERSEDED"}) => greenAssignments(Goal.dep)' = {}
          BY <2>2, <3>1, <4>2 DEF ReapInv, ReapedFirst
        <4> QED
          BY <1>0, <2>2, <3>1, <4>3, <4>4 DEF ReapInv, ReapedFirst, GoalPhase
      <3>4. CASE todo[1].op \notin {"PutAssignments", "DeleteAssignments"}
        <4>1. UNCHANGED assignment
          BY <2>2, <3>4 DEF Apply, applyPromoteRelease, applyPutRelease, Step
        <4>2. ~GoalPhase({"FAILED", "SUPERSEDED"})
          BY <2>2, <3>1, <3>4 DEF ReapInv, ReapedFirst
        <4>3. NoLeakedGreen'
          BY <2>2, <4>1 DEF ReapInv, NoLeakedGreen, greenAssignments
        <4>4. ReapedFirst'
          BY <1>0, <2>2, <3>1, <4>2 DEF ReapedFirst, GoalPhase
        <4> QED
          BY <4>3, <4>4 DEF ReapInv
      <3> QED
        BY <3>2, <3>3, <3>4
    <2> QED
      BY <1>4, <2>1, <2>2, ApplyKinds
  <1>5. CASE RecheckPlacement
    <2>1. /\ UNCHANGED <<deployment, assignment>>
          /\ todo' = <<>> \/ todo' = setPhase(Goal.dep, "STARTING")
      BY <1>5, RecheckKinds
    <2>2. NoLeakedGreen'
      BY <2>1 DEF ReapInv, NoLeakedGreen, greenAssignments
    <2>3. ReapedFirst'
      BY <2>1, OneStep DEF ReapedFirst, setPhase, SetDeploymentPhase, Idle, Goal, GoalPhase
    <2> QED
      BY <2>2, <2>3 DEF ReapInv
  <1>6. ASSUME NEW d \in DeploymentId, reconcile(d) PROVE ReapInv'
    <2>1. PICK steps : Visit(d, steps) /\ ArmOK(d, steps)
      BY <1>6, ReconcileVisits
    <2>2. UNCHANGED <<deployment, assignment>> /\ todo' = steps
      BY <2>1 DEF Visit, store
    <2>3. NoLeakedGreen'
      BY <2>2 DEF ReapInv, NoLeakedGreen, greenAssignments
    <2>4. ~Idle' => Goal'.dep = d
      BY <2>1, <2>2 DEF ArmOK, VisitOK, Idle, Goal
    <2>5. greenAssignments(d)' = greenAssignments(d)
      BY <2>2 DEF greenAssignments
    <2>6. ReapedFirst'
      BY <2>1, <2>2, <2>4, <2>5 DEF ArmOK, Reaped, ReapedFirst, Idle, Goal, GoalPhase
    <2> QED
      BY <2>3, <2>6 DEF ReapInv
  <1> QED
    BY <1>1, <1>2, <1>3, <1>4, <1>5, <1>6, StepKinds

\* abort and reapGreen leave nothing behind: a deployment that failed or was
\* superseded has no replica that is still wanted, wherever the leader changed
\* between the deletion and the phase, as long as the outcome of a command is known.
THEOREM NothingLeaked ==
    ASSUME "timeout" \notin Faults
    PROVE  Spec => []NoLeakedGreen
  <1>1. TypeInv /\ ReapInv /\ [Next]_vars => ReapInv'
    BY NextReap
  <1>2. ReapInv => NoLeakedGreen
    BY DEF ReapInv
  <1> QED
    BY <1>1, <1>2, InitTypes, NextTypes, InitReap, PTL DEF Spec

(***************************************************************************)
(* Deployment ids are used once.                                           *)
(***************************************************************************)
LEMMA InitFresh == Init => FreshDeployments
  BY DEF Init, FreshDeployments, NoDeployment

LEMMA NextFresh ==
    ASSUME TypeInv, FreshDeployments, [Next]_vars
    PROVE  FreshDeployments'
  <1>0. /\ lastDeployment \in Nat /\ DeploymentId \subseteq Nat
        /\ deployment \in [DeploymentId -> Deployment]
        /\ requests \subseteq Request
        /\ \A q \in requests : Numbered(q) => q.dep \in DeploymentId
    BY DEF TypeInv, TypeOK, StoreTypeOK, ApiTypeOK, StepsInv, NamesRelease, DeploymentId, NoId
  <1>1. ASSUME UNCHANGED lastDeployment, requests' \subseteq requests,
               \A d \in DeploymentId : deployment'[d].phase = "ABSENT" <=> deployment[d].phase = "ABSENT"
        PROVE  FreshDeployments'
    BY <1>0, <1>1 DEF FreshDeployments
  <1>2. CASE ApplyNext /\ UNCHANGED api
    <2>1. \A d \in DeploymentId :
             \/ deployment'[d].phase = deployment[d].phase
             \/ /\ deployment'[d].phase = Goal.phase /\ Goal.dep = d
                /\ Goal.op = "SetDeploymentPhase" /\ ~Idle
      BY <1>2, ApplyKinds DEF Deployment
    <2>2. \A d \in DeploymentId :
             deployment'[d].phase = "ABSENT" <=> deployment[d].phase = "ABSENT"
      BY <2>1 DEF TypeInv, StepsInv, PassLive, LivePhase, RolloutPhase, TerminalPhase
    <2> QED
      BY <1>1, <1>2, <2>2 DEF api
  <1>3. CASE UNCHANGED <<deployment, api>>
    BY <1>1, <1>3 DEF api
  <1>4. CASE OrchStep
    BY <1>2, <1>3, <1>4, RecheckKinds, ReconcileVisits DEF OrchStep, BeginPass, Visit, store
  <1>5. CASE LeaderChange \/ Timeout \/ Sweep
    BY <1>3, <1>5 DEF LeaderChange, Failover, Timeout, ApplyTimesOut, Sweep, sweepEnv,
       DeleteRelease, store
  <1>6. CASE (\E d \in DeploymentId : FinishBuild(d)) \/ (\E a \in AssignmentId : Report(a))
    BY <1>3, <1>6 DEF FinishBuild, Report, SetAssignmentObserved
  <1>7. CASE UNCHANGED vars
    BY <1>3, <1>7 DEF vars, store
  <1>8. CASE Abandon
    BY <1>1, <1>8 DEF Abandon, AbandonRequest, store
  <1>9. CASE ApiStep
    <2>1. ASSUME NEW q, Numbered(q), q.dep = lastDeployment + 1, lastDeployment < MaxDeployment,
                 lastDeployment' = lastDeployment + 1,
                 requests' \subseteq requests \cup {q}, UNCHANGED deployment
          PROVE  FreshDeployments'
      <3>1. q.dep \in DeploymentId /\ deployment[q.dep].phase = "ABSENT"
        BY <1>0, <2>1, StoreAssumption DEF FreshDeployments, DeploymentId
      <3>2. ASSUME NEW p \in requests, Numbered(p)
            PROVE  p.dep \in DeploymentId /\ p.dep < q.dep /\ p.dep <= lastDeployment'
        <4>1. p.dep \in DeploymentId /\ p.dep \in Nat
          BY <1>0, <3>2
        <4>2. p.dep <= lastDeployment
          BY <3>2 DEF FreshDeployments
        <4> QED
          BY <1>0, <2>1, <4>1, <4>2
      <3>3. \A d \in DeploymentId : d > lastDeployment' => deployment'[d].phase = "ABSENT"
        BY <1>0, <2>1 DEF FreshDeployments
      <3>4. ASSUME NEW p \in requests', Numbered(p)
            PROVE  /\ p.dep <= lastDeployment' /\ deployment'[p.dep].phase = "ABSENT"
                   /\ \A r \in requests' : Numbered(r) /\ r.dep = p.dep => r = p
        <4>1. CASE p \in requests
          BY <1>0, <2>1, <3>2, <3>4, <4>1 DEF FreshDeployments
        <4>2. CASE p = q
          BY <1>0, <2>1, <3>1, <3>2, <4>2
        <4> QED
          BY <2>1, <4>1, <4>2
      <3> QED
        BY <3>3, <3>4 DEF FreshDeployments
    <2>2. ASSUME NEW q \in requests, NEW p, requests' = (requests \ {q}) \cup {p},
                 p.dep = q.dep, Numbered(p) => Numbered(q), UNCHANGED <<deployment, lastDeployment>>
          PROVE  FreshDeployments'
      <3>1. ASSUME NEW r \in requests', Numbered(r)
            PROVE  \E s \in requests : Numbered(s) /\ s.dep = r.dep /\ (r = s \/ (r = p /\ s = q))
        BY <2>2, <3>1
      <3>2. ASSUME NEW r \in requests', Numbered(r)
            PROVE  /\ r.dep <= lastDeployment' /\ deployment'[r.dep].phase = "ABSENT"
                   /\ \A s \in requests' : Numbered(s) /\ s.dep = r.dep => s = r
        BY <2>2, <3>1, <3>2 DEF FreshDeployments
      <3> QED
        BY <2>2, <3>2 DEF FreshDeployments
    <2>3. CASE DeployGit
      <3> DEFINE p == [stage |-> "build", kind |-> "git", dep |-> lastDeployment + 1,
                       rel |-> lastRelease + 1, prev |-> NoId]
      <3>1. p.dep = lastDeployment + 1 /\ Numbered(p)
        BY DEF Numbered
      <3>2. /\ lastDeployment < MaxDeployment /\ lastDeployment' = lastDeployment + 1
            /\ requests' \subseteq requests \cup {p} /\ UNCHANGED deployment
        BY <2>3 DEF DeployGit, CanMint, store
      <3> QED
        BY <2>1, <3>1, <3>2
    <2>4. ASSUME NEW kind \in Inputs, resolveEnv(kind) PROVE FreshDeployments'
      <3>1. PICK p : ~Numbered(p) /\ requests' = requests \cup {p}
        BY <2>4 DEF resolveEnv, Numbered
      <3>2. UNCHANGED <<deployment, lastDeployment>>
        BY <2>4 DEF resolveEnv, store
      <3>3. \A r \in requests' : Numbered(r) => r \in requests
        BY <3>1
      <3> QED
        BY <3>2, <3>3 DEF FreshDeployments
    <2>5. ASSUME NEW q \in requests, Refuse(q) PROVE FreshDeployments'
      BY <1>1, <2>5 DEF Refuse, store
    <2>6. ASSUME NEW q \in requests, Check(q) PROVE FreshDeployments'
      <3>1. [q EXCEPT !.stage = "checked"].dep = q.dep /\ ~Numbered([q EXCEPT !.stage = "checked"])
        BY <1>0 DEF Request, Numbered
      <3> QED
        BY <2>2, <2>6, <3>1 DEF Check, store
    <2>7. ASSUME NEW q \in requests, buildDeployment(q) PROVE FreshDeployments'
      <3> DEFINE p == [q EXCEPT !.stage = IF q.kind = "upload" THEN "build" ELSE "release",
                                !.rel = lastRelease + 1, !.dep = lastDeployment + 1]
      <3>1. p.dep = lastDeployment + 1 /\ Numbered(p)
        BY <1>0 DEF Request, Numbered
      <3>2. /\ lastDeployment < MaxDeployment /\ lastDeployment' = lastDeployment + 1
            /\ requests' \subseteq requests \cup {p} /\ UNCHANGED deployment
        BY <2>7 DEF buildDeployment, CanMint, store
      <3> QED
        BY <2>1, <3>1, <3>2
    <2>8. ASSUME NEW q \in requests, NEW r \in ReleaseId, Rollback(q, r) PROVE FreshDeployments'
      <3> DEFINE p == [q EXCEPT !.stage = "deployment", !.rel = r, !.dep = lastDeployment + 1]
      <3>1. p.dep = lastDeployment + 1 /\ Numbered(p)
        BY <1>0 DEF Request, Numbered
      <3>2. /\ lastDeployment < MaxDeployment /\ lastDeployment' = lastDeployment + 1
            /\ requests' \subseteq requests \cup {p} /\ UNCHANGED deployment
        BY <2>8 DEF Rollback, CanMint, store
      <3> QED
        BY <2>1, <3>1, <3>2
    <2>9. ASSUME NEW q \in requests, CommitBuild(q) PROVE FreshDeployments'
      <3>1. [q EXCEPT !.stage = "release"].dep = q.dep /\ Numbered(q)
        BY <1>0, <2>9 DEF Request, Numbered, CommitBuild
      <3> QED
        BY <2>2, <2>9, <3>1 DEF CommitBuild
    <2>10. ASSUME NEW q \in requests, CommitRelease(q) PROVE FreshDeployments'
      <3>1. [q EXCEPT !.stage = "deployment"].dep = q.dep /\ Numbered(q)
        BY <1>0, <2>10 DEF Request, Numbered, CommitRelease
      <3> QED
        BY <2>2, <2>10, <3>1 DEF CommitRelease
    <2>11. ASSUME NEW q \in requests, CommitDeployment(q) PROVE FreshDeployments'
      <3>1. /\ Numbered(q) /\ requests' = requests \ {q} /\ UNCHANGED lastDeployment
            /\ \A d \in DeploymentId : d # q.dep => deployment'[d] = deployment[d]
        BY <1>0, <2>11 DEF CommitDeployment, Numbered
      <3>2. \A p \in requests' : Numbered(p) => p \in requests /\ p.dep # q.dep
        BY <3>1 DEF FreshDeployments
      <3>3. \A d \in DeploymentId : d > lastDeployment' => deployment'[d].phase = "ABSENT"
        <4>1. q.dep \in Nat /\ q.dep <= lastDeployment
          BY <1>0, <3>1 DEF FreshDeployments
        <4> QED
          BY <1>0, <3>1, <4>1 DEF FreshDeployments
      <3>4. ASSUME NEW p \in requests', Numbered(p)
            PROVE  /\ p.dep <= lastDeployment' /\ deployment'[p.dep].phase = "ABSENT"
                   /\ \A r \in requests' : Numbered(r) /\ r.dep = p.dep => r = p
        BY <1>0, <3>1, <3>2, <3>4 DEF FreshDeployments
      <3> QED
        BY <3>3, <3>4 DEF FreshDeployments
    <2> QED
      BY <1>9, <2>3, <2>4, <2>5, <2>6, <2>7, <2>8, <2>9, <2>10, <2>11 DEF ApiStep
  <1> QED
    BY <1>4, <1>5, <1>6, <1>7, <1>8, <1>9 DEF Next

(***************************************************************************)
(* The drain window starts after the traffic has switched.                 *)
(***************************************************************************)
SwitchInv == SwitchedFirst /\ DrainingHasSwitched

LEMMA InitSwitch == Init => SwitchInv
  BY DEF Init, SwitchInv, SwitchedFirst, DrainingHasSwitched, NoDeployment, Idle

LEMMA NextSwitch ==
    ASSUME "timeout" \notin Faults, RolloutReleaseKept,
           TypeInv, OrderInv, FreshDeployments, SwitchInv, [Next]_vars
    PROVE  SwitchInv'
  <1>0. /\ ~Idle => deployment[Goal.dep].phase \in LivePhase
        /\ ~Idle => Goal.op \in {"SetDeploymentPhase", "RecheckGreen"}
        /\ "ABSENT" \notin LivePhase /\ "DRAINING_OLD" \in RolloutPhase
        /\ env \in Environment
    BY DEF TypeInv, TypeOK, StoreTypeOK, StepsInv, PassLive, LivePhase, RolloutPhase
  <1>1. CASE Quiet
    BY <1>1 DEF Quiet, SwitchInv, SwitchedFirst, DrainingHasSwitched, Idle, Goal, GoalPhase
  <1>2. ASSUME NEW q \in requests, CommitDeployment(q), UNCHANGED orch PROVE SwitchInv'
    <2>1. q.dep \in DeploymentId /\ deployment[q.dep].phase = "ABSENT"
      BY <1>2 DEF CommitDeployment, TypeInv, StepsInv, NamesRelease, Numbered, FreshDeployments
    <2>2. /\ \A d \in DeploymentId : d # q.dep => deployment'[d] = deployment[d]
          /\ deployment'[q.dep].phase = "PENDING"
      BY <1>2, <2>1 DEF CommitDeployment, TypeInv, TypeOK, StoreTypeOK
    <2>3. UNCHANGED <<env, todo, Goal, Idle>>
      BY <1>2 DEF CommitDeployment, orch, Goal, Idle
    <2>4. ~Idle => Goal.dep # q.dep /\ Goal.dep \in DeploymentId
      BY <1>0, <2>1, RestOfArm DEF Step
    <2>5. DrainingHasSwitched'
      BY <2>2, <2>3 DEF SwitchInv, DrainingHasSwitched
    <2>6. SwitchedFirst'
      BY <2>2, <2>3, <2>4 DEF SwitchInv, SwitchedFirst, GoalPhase
    <2> QED
      BY <2>5, <2>6 DEF SwitchInv
  <1>3. CASE BeginPass \/ Failover
    BY <1>3 DEF BeginPass, Failover, store, SwitchInv, SwitchedFirst, DrainingHasSwitched, Idle
  <1>4. CASE ApplyNext
    <2>1. CASE /\ Len(todo) = 1 /\ todo[1] = Goal /\ todo' = <<>>
               /\ Goal.op = "SetDeploymentPhase"
               /\ deployment' = [deployment EXCEPT ![Goal.dep].phase = Goal.phase]
               /\ UNCHANGED <<env, assignment>>
      <3>1. /\ \A d \in DeploymentId :
                 /\ d # Goal.dep => deployment'[d] = deployment[d]
                 /\ deployment'[d].rel = deployment[d].rel
            /\ deployment'[Goal.dep].phase = Goal.phase /\ Goal.dep \in DeploymentId
            /\ Idle' /\ ~Idle
        BY <1>4, <2>1, ApplyKinds DEF Deployment, Idle
      <3>2. Goal.phase = "DRAINING_OLD" => env.active = deployment[Goal.dep].rel
        BY <2>1, <3>1 DEF SwitchInv, SwitchedFirst, GoalPhase
      <3>3. DrainingHasSwitched'
        BY <2>1, <3>1, <3>2 DEF SwitchInv, DrainingHasSwitched
      <3> QED
        BY <3>1, <3>3 DEF SwitchInv, SwitchedFirst
    <2>2. CASE /\ Len(todo) = 2 /\ Len(todo') = 1 /\ todo' # <<>>
               /\ todo'[1] = Goal /\ Goal' = Goal
               /\ todo[1] \in Step /\ todo[1].op # "SetDeploymentPhase" /\ Apply(todo[1])
               /\ UNCHANGED deployment
      <3>1. ~Idle /\ ~Idle' /\ Goal.dep \in DeploymentId
        BY <1>4, <2>2, ApplyKinds DEF Idle
      <3>2. CASE todo[1].op = "PromoteRelease"
        <4>1. /\ GoalPhase({"DRAINING_OLD"}) /\ todo[1].rel = deployment[Goal.dep].rel
          BY <2>2, <3>1, <3>2 DEF SwitchInv, SwitchedFirst
        <4>2. release[todo[1].rel] # "ABSENT"
          BY <1>0, <3>1, <4>1 DEF RolloutReleaseKept, isTerminalPhase
        <4>3. env'.active = deployment[Goal.dep].rel
          BY <1>0, <2>2, <3>2, <4>1, <4>2 DEF Apply, applyPromoteRelease, Environment
        <4>4. \A d \in DeploymentId : d # Goal.dep => deployment[d].phase # "DRAINING_OLD"
          BY <1>0, <3>1, <4>1 DEF OrderInv, PassOrder, Advances, GoalPhase
        <4>5. DrainingHasSwitched'
          BY <2>2, <4>3, <4>4 DEF DrainingHasSwitched
        <4>6. SwitchedFirst'
          BY <1>0, <2>2, <3>1, <4>1, <4>3 DEF SwitchedFirst, GoalPhase
        <4> QED
          BY <4>5, <4>6 DEF SwitchInv
      <3>3. CASE todo[1].op # "PromoteRelease"
        <4>1. UNCHANGED env
          BY <2>2, <3>3 DEF Apply, applyPutAssignments, applyDeleteAssignments, applyPutRelease
        <4>2. ~GoalPhase({"DRAINING_OLD"})
          BY <2>2, <3>1, <3>3 DEF SwitchInv, SwitchedFirst
        <4>3. DrainingHasSwitched'
          BY <2>2, <4>1 DEF SwitchInv, DrainingHasSwitched
        <4>4. SwitchedFirst'
          BY <1>0, <2>2, <3>1, <4>2 DEF SwitchedFirst, GoalPhase
        <4> QED
          BY <4>3, <4>4 DEF SwitchInv
      <3> QED
        BY <3>2, <3>3
    <2> QED
      BY <1>4, <2>1, <2>2, ApplyKinds
  <1>5. CASE RecheckPlacement
    <2>1. /\ UNCHANGED <<env, deployment>>
          /\ todo' = <<>> \/ todo' = setPhase(Goal.dep, "STARTING")
      BY <1>5, RecheckKinds
    <2>2. DrainingHasSwitched'
      BY <2>1 DEF SwitchInv, DrainingHasSwitched
    <2>3. SwitchedFirst'
      BY <2>1, OneStep DEF SwitchedFirst, setPhase, SetDeploymentPhase, Idle, Goal, GoalPhase
    <2> QED
      BY <2>2, <2>3 DEF SwitchInv
  <1>6. ASSUME NEW d \in DeploymentId, reconcile(d) PROVE SwitchInv'
    <2>1. PICK steps : Visit(d, steps) /\ ArmOK(d, steps)
      BY <1>6, ReconcileVisits
    <2>2. UNCHANGED <<env, deployment>> /\ todo' = steps
      BY <2>1 DEF Visit, store
    <2>3. DrainingHasSwitched'
      BY <2>2 DEF SwitchInv, DrainingHasSwitched
    <2>4. ~Idle' => Goal'.dep = d
      BY <2>1, <2>2 DEF ArmOK, VisitOK, Idle, Goal
    <2>5. SwitchedFirst'
      BY <2>1, <2>2, <2>4 DEF ArmOK, Switched, SwitchedFirst, Idle, Goal, GoalPhase
    <2> QED
      BY <2>3, <2>5 DEF SwitchInv
  <1> QED
    BY <1>1, <1>2, <1>3, <1>4, <1>5, <1>6, StepKinds

\* promote's two commands are enough: a deployment in its drain window is the one
\* that serves, wherever the leader changed between them, as long as the outcome
\* of a command is known and retention deletes no release that is being rolled out
\* (applyPromoteRelease refuses a release that is gone, and promote goes on).
THEOREM SwitchBeforeDrain ==
    ASSUME "timeout" \notin Faults
    PROVE  Spec /\ []RolloutReleaseKept => []DrainingHasSwitched
  <1>1. TypeInv /\ OrderInv /\ [Next]_vars => OrderInv'
    BY NextOrder
  <1>2. TypeInv /\ FreshDeployments /\ [Next]_vars => FreshDeployments'
    BY NextFresh
  <1>3. TypeInv /\ OrderInv /\ FreshDeployments /\ RolloutReleaseKept /\ SwitchInv /\ [Next]_vars
          => SwitchInv'
    BY NextSwitch
  <1>4. SwitchInv => DrainingHasSwitched
    BY DEF SwitchInv
  <1> QED
    BY <1>1, <1>2, <1>3, <1>4, InitTypes, NextTypes, InitOrder, InitFresh, InitSwitch, PTL DEF Spec

(***************************************************************************)
(* What each arm of reconcile leaves to be done, and in which phase.       *)
(***************************************************************************)
ArmLeaves(d) ==
    LET r == deployment[d].rel
        phase == deployment[d].phase
    IN  \/ todo' = <<>>
        \/ /\ \E p \in {"FAILED", "SUPERSEDED"} : todo' = reapGreen(d, p)
           /\ release[r] = "ABSENT" \/ phase # "DRAINING_OLD"
        \/ todo' = setPhase(d, "SUCCEEDED") /\ phase = "DRAINING_OLD"
        \/ /\ \E p \in {"BUILDING", "PLACING"} : todo' = setPhase(d, p)
           /\ phase \in {"PENDING", "BUILDING"}
        \/ /\ todo' = setPhase(d, "STARTING") /\ phase = "PLACING"
           /\ Cardinality(greenAssignments(d)) >= deployReplicas
        \/ todo' = setPhase(d, "HEALTHCHECKING") /\ phase = "STARTING"
        \/ /\ todo' = setPhase(d, "PROMOTING")
           /\ \/ /\ phase = "HEALTHCHECKING"
                 /\ \A a \in greenAssignments(d) : assignment[a].obs = "HEALTHY"
              \/ phase = "PENDING" /\ warmEnough(d)
        \/ todo' = <<PutRelease(r), SetDeploymentPhase(d, "PLACING")>> /\ phase = "BUILDING"
        \/ todo' = <<PromoteRelease(r), SetDeploymentPhase(d, "DRAINING_OLD")>> /\ phase = "PROMOTING"
        \/ /\ todo' = <<PutAssignments(FlipTo(blueAssignments(d), "STOP")),
                        SetDeploymentPhase(d, "SUCCEEDED")>>
           /\ phase = "DRAINING_OLD"

PlaceLeaves(d) ==
    /\ deployment[d].phase = "PLACING"
    /\ \E picks : /\ Len(picks) \in Nat /\ minted' = minted + Len(picks)
                  /\ todo' = <<PutAssignments(NewAssignments(picks, deployment[d].rel, d)),
                               RecheckGreen(d)>>

LEMMA ReconcileLeaves ==
    ASSUME NEW d \in DeploymentId, reconcile(d)
    PROVE  /\ UNCHANGED store /\ Idle /\ d \in pass
           /\ (ArmLeaves(d) /\ UNCHANGED minted) \/ PlaceLeaves(d)
  <1>1. Idle /\ d \in pass
    BY DEF reconcile, Turn
  <1>2. CASE ReleaseGone(d)
    BY <1>1, <1>2 DEF ReleaseGone, Visit, ArmLeaves, abort
  <1>3. CASE Supersede(d)
    BY <1>1, <1>3 DEF Supersede, Visit, ArmLeaves
  <1>4. CASE Pending(d)
    BY <1>1, <1>4 DEF Pending, Current, Visit, ArmLeaves, abort
  <1>5. CASE Building(d)
    BY <1>1, <1>5 DEF Building, Current, checkBuild, Visit, ArmLeaves, abort
  <1>6. CASE place(d)
    <2>1. CASE /\ Cardinality(greenAssignments(d)) >= deployReplicas
               /\ Visit(d, setPhase(d, "STARTING")) /\ UNCHANGED minted
      BY <1>1, <1>6, <2>1 DEF place, Current, Visit, ArmLeaves
    <2>2. ASSUME NEW picks \in Place(deployReplicas - Cardinality(greenAssignments(d)),
                                     {assignment[a].node : a \in greenAssignments(d)}),
                 minted' = minted + Len(picks),
                 Visit(d, <<PutAssignments(NewAssignments(picks, deployment[d].rel, d)),
                            RecheckGreen(d)>>)
          PROVE  UNCHANGED store /\ PlaceLeaves(d)
      <3>1. PICK k \in 0..(deployReplicas - Cardinality(greenAssignments(d))) :
                 picks \in [1..k -> Eligible({assignment[a].node : a \in greenAssignments(d)})]
        BY DEF Place
      <3>2. Len(picks) = k /\ k \in Nat
        BY <3>1
      <3> QED BY <1>6, <2>2, <3>2 DEF place, Current, Visit, PlaceLeaves
    <2> QED BY <1>1, <1>6, <2>1, <2>2 DEF place
  <1>7. CASE checkStarting(d)
    BY <1>1, <1>7 DEF checkStarting, Current, Visit, ArmLeaves, abort
  <1>8. CASE checkHealth(d)
    BY <1>1, <1>8 DEF checkHealth, Current, Visit, ArmLeaves, abort
  <1>9. CASE promote(d)
    BY <1>1, <1>9 DEF promote, Current, Visit, ArmLeaves
  <1>10. CASE drain(d)
    BY <1>1, <1>10 DEF drain, Current, Visit, ArmLeaves
  <1>11. CASE Wait(d)
    BY <1>1, <1>11 DEF Wait, Current, Visit, ArmLeaves
  <1> QED
    BY <1>2, <1>3, <1>4, <1>5, <1>6, <1>7, <1>8, <1>9, <1>10, <1>11 DEF reconcile

\* The fields of what is left.
LEMMA LeftOne ==
    ASSUME NEW d, NEW p, todo' = setPhase(d, p)
    PROVE  /\ ~Idle' /\ Len(todo') = 1 /\ todo'[1] = Goal' /\ Goal'.dep = d
           /\ Goal'.op = "SetDeploymentPhase" /\ Goal'.phase = p
           /\ \A phases : GoalPhase(phases)' <=> p \in phases
  <1>1. PICK g : g = SetDeploymentPhase(d, p)
    OBVIOUS
  <1>2. g.op = "SetDeploymentPhase" /\ g.dep = d /\ g.phase = p
    BY <1>1 DEF SetDeploymentPhase
  <1>3. todo' = <<g>>
    BY <1>1 DEF setPhase
  <1>4. Len(todo') = 1 /\ todo'[1] = g /\ todo' # <<>>
    BY <1>3, OneStep
  <1>5. Goal' = g
    BY <1>4 DEF Goal
  <1>6. \A phases : GoalPhase(phases)' <=> p \in phases
    BY <1>2, <1>5 DEF GoalPhase
  <1> QED BY <1>2, <1>4, <1>5, <1>6 DEF Idle

LEMMA LeftTwo ==
    ASSUME NEW c, NEW g, todo' = <<c, g>>
    PROVE  /\ ~Idle' /\ Len(todo') = 2 /\ todo'[1] = c /\ Goal' = g
           /\ \A phases : GoalPhase(phases)' <=> g.op = "SetDeploymentPhase" /\ g.phase \in phases
  <1>1. Len(todo') = 2 /\ todo'[1] = c /\ todo'[2] = g /\ todo' # <<>>
    BY TwoSteps
  <1>2. Goal' = g
    BY <1>1 DEF Goal
  <1>3. \A phases : GoalPhase(phases)' <=> g.op = "SetDeploymentPhase" /\ g.phase \in phases
    BY <1>2 DEF GoalPhase
  <1> QED BY <1>1, <1>2, <1>3 DEF Idle

(***************************************************************************)
(* Releases are numbered in order.                                         *)
(***************************************************************************)
LEMMA InitVersions == Init => Versions
  <1> SUFFICES ASSUME Init PROVE Versions
    OBVIOUS
  <1>1. lastRelease \in {0, 1} /\ env.active = lastRelease
    BY DEF Init, NoId
  <1>2. \A r \in ReleaseId : release[r] # "ABSENT" => r <= lastRelease
    BY StoreAssumption DEF Init, ReleaseId, NoId
  <1>3. \A d \in DeploymentId : deployment[d].rel <= lastRelease
    BY <1>1 DEF Init, NoDeployment, NoId
  <1> QED BY <1>1, <1>2, <1>3 DEF Init, Versions, Idle

\* The step an arm leaves first, when it is about a release.
LEMMA LeavesRelease ==
    ASSUME NEW d \in DeploymentId, reconcile(d)
    PROVE  /\ UNCHANGED store
           /\ ~Idle' /\ todo'[1].op \in {"PromoteRelease", "PutRelease"} =>
                todo'[1].rel = deployment[Goal'.dep].rel
  <1> DEFINE Fine == ~Idle' /\ todo'[1].op \in {"PromoteRelease", "PutRelease"} =>
                       todo'[1].rel = deployment[Goal'.dep].rel
  <1>0. UNCHANGED store /\ ((ArmLeaves(d) /\ UNCHANGED minted) \/ PlaceLeaves(d))
    BY ReconcileLeaves
  <1>1. ASSUME NEW p, todo' = setPhase(d, p) PROVE Fine
    BY <1>1, LeftOne
  <1>2. ASSUME NEW c, NEW g, todo' = <<c, g>>, g.dep = d,
               c.op \in {"PromoteRelease", "PutRelease"} => c.rel = deployment[d].rel
        PROVE  Fine
    BY <1>2, LeftTwo
  <1>3. ASSUME NEW p, todo' = reapGreen(d, p) PROVE Fine
    <2>1. CASE greenAssignments(d) = {}
      BY <1>1, <1>3, <2>1 DEF reapGreen
    <2>2. CASE greenAssignments(d) # {}
      <3>1. todo' = <<DeleteAssignments(greenAssignments(d)), SetDeploymentPhase(d, p)>>
        BY <1>3, <2>2 DEF reapGreen
      <3> QED BY <1>2, <3>1 DEF DeleteAssignments, SetDeploymentPhase
    <2> QED BY <2>1, <2>2
  <1>4. CASE todo' = <<>>
    BY <1>0, <1>4 DEF Idle
  <1>5. CASE PlaceLeaves(d)
    BY <1>0, <1>2, <1>5 DEF PlaceLeaves, PutAssignments, RecheckGreen
  <1>6. CASE todo' = <<PutRelease(deployment[d].rel), SetDeploymentPhase(d, "PLACING")>>
    BY <1>0, <1>2, <1>6 DEF PutRelease, SetDeploymentPhase
  <1>7. CASE todo' = <<PromoteRelease(deployment[d].rel), SetDeploymentPhase(d, "DRAINING_OLD")>>
    BY <1>0, <1>2, <1>7 DEF PromoteRelease, SetDeploymentPhase
  <1>8. CASE todo' = <<PutAssignments(FlipTo(blueAssignments(d), "STOP")),
                       SetDeploymentPhase(d, "SUCCEEDED")>>
    BY <1>0, <1>2, <1>8 DEF PutAssignments, SetDeploymentPhase
  <1> QED BY <1>0, <1>1, <1>3, <1>4, <1>5, <1>6, <1>7, <1>8 DEF ArmLeaves

LEMMA NextVersions ==
    ASSUME TypeInv, FreshDeployments, Versions, [Next]_vars
    PROVE  Versions'
  <1>0. /\ lastRelease \in Nat /\ ReleaseId \subseteq Nat /\ env \in Environment /\ env.active \in Nat
        /\ requests \subseteq Request /\ deployment \in [DeploymentId -> Deployment]
        /\ \A q \in requests : q.rel \in Nat /\ q.prev \in Nat
        /\ \A d \in DeploymentId : deployment[d].rel \in Nat
        /\ release \in [ReleaseId -> {"ABSENT", "SOURCE", "IMAGE"}]
    BY DEF TypeInv, TypeOK, StoreTypeOK, ApiTypeOK, ReleaseId, NoId, Environment, Request, Deployment
  <1>g. ~Idle => /\ Goal \in Step /\ Goal.dep \in DeploymentId
                 /\ Goal.op \in {"SetDeploymentPhase", "RecheckGreen"}
                 /\ deployment[Goal.dep].phase # "ABSENT"
    <2>1. ~Idle => /\ Goal.op \in {"SetDeploymentPhase", "RecheckGreen"}
                   /\ deployment[Goal.dep].phase \in LivePhase
      BY DEF TypeInv, StepsInv, PassLive
    <2>2. ~Idle => Goal \in Step
      BY RestOfArm
    <2> QED BY <2>1, <2>2 DEF Step, LivePhase, RolloutPhase
  \* A step of a request: what it names has been handed out.
  <1>1. ASSUME lastRelease' \in Nat, lastRelease' >= lastRelease,
               \A q \in requests' : q \in requests \/ (q.prev <= lastRelease' /\ q.rel <= lastRelease'),
               \A r \in ReleaseId : release'[r] # "ABSENT" => release[r] # "ABSENT" \/ r <= lastRelease',
               \A d \in DeploymentId : deployment'[d].rel = deployment[d].rel \/ deployment'[d].rel <= lastRelease',
               ~Idle => deployment'[Goal.dep].rel = deployment[Goal.dep].rel,
               UNCHANGED <<env, todo>>
        PROVE  Versions'
    <2>1. \A q \in requests' : q.prev <= lastRelease' /\ q.rel <= lastRelease'
      BY <1>0, <1>1 DEF Versions
    <2>2. \A r \in ReleaseId : release'[r] # "ABSENT" => r <= lastRelease'
      BY <1>0, <1>1 DEF Versions
    <2>3. env'.active <= lastRelease' /\ \A d \in DeploymentId : deployment'[d].rel <= lastRelease'
      BY <1>0, <1>1 DEF Versions
    <2>4. ~Idle' /\ todo'[1].op \in {"PromoteRelease", "PutRelease"} =>
             todo'[1].rel = deployment'[Goal'.dep].rel
      BY <1>1 DEF Versions, Idle, Goal
    <2> QED BY <2>1, <2>2, <2>3, <2>4 DEF Versions
  <1>2. ASSUME requests' \subseteq requests, UNCHANGED <<lastRelease, release, deployment, env, todo>>
        PROVE  Versions'
    BY <1>0, <1>1, <1>2
  <1>3. CASE ApiStep /\ UNCHANGED <<orch, doomed>>
    <2>0. UNCHANGED todo
      BY <1>3 DEF orch
    <2>1. CASE DeployGit
      <3>1. PICK p : p.prev = 0 /\ p.rel = lastRelease + 1 /\ requests' = requests \cup {p}
        BY <2>1 DEF DeployGit, NoId
      <3>2. lastRelease' = lastRelease + 1 /\ UNCHANGED <<release, deployment, env>>
        BY <2>1 DEF DeployGit, store
      <3>3. \A q \in requests' : q \in requests \/ (q.prev <= lastRelease' /\ q.rel <= lastRelease')
        BY <1>0, <3>1, <3>2
      <3> QED BY <1>0, <1>1, <2>0, <3>2, <3>3
    <2>2. ASSUME NEW kind \in Inputs, resolveEnv(kind) PROVE Versions'
      <3>1. PICK p : p.prev = env.active /\ p.rel = 0 /\ requests' = requests \cup {p}
        BY <2>2 DEF resolveEnv, NoId
      <3>2. UNCHANGED <<release, deployment, env, lastRelease>>
        BY <2>2 DEF resolveEnv, store
      <3>3. \A q \in requests' : q \in requests \/ (q.prev <= lastRelease' /\ q.rel <= lastRelease')
        BY <1>0, <3>1, <3>2 DEF Versions
      <3> QED BY <1>0, <1>1, <2>0, <3>2, <3>3
    <2>3. ASSUME NEW q \in requests, Refuse(q) PROVE Versions'
      BY <1>2, <2>0, <2>3 DEF Refuse, store
    <2>4. ASSUME NEW q \in requests, NEW st,
                 requests' = (requests \ {q}) \cup {[q EXCEPT !.stage = st]}
          PROVE  \A p \in requests' : p \in requests \/ (p.prev <= lastRelease /\ p.rel <= lastRelease)
      <3>1. q \in Request
        BY <1>0
      <3>2. [q EXCEPT !.stage = st].prev = q.prev /\ [q EXCEPT !.stage = st].rel = q.rel
        BY <3>1 DEF Request
      <3> QED BY <2>4, <3>2 DEF Versions
    <2>5. ASSUME NEW q \in requests, Check(q) PROVE Versions'
      BY <1>0, <1>1, <2>0, <2>4, <2>5 DEF Check, store
    <2>6. ASSUME NEW q \in requests, buildDeployment(q) PROVE Versions'
      <3> DEFINE p == [q EXCEPT !.stage = IF q.kind = "upload" THEN "build" ELSE "release",
                                !.rel = lastRelease + 1, !.dep = lastDeployment + 1]
      <3>1. p.prev = q.prev /\ p.rel = lastRelease + 1 /\ requests' = (requests \ {q}) \cup {p}
        BY <1>0, <2>6 DEF buildDeployment, Request
      <3> HIDE DEF p
      <3>2. lastRelease' = lastRelease + 1 /\ UNCHANGED <<release, deployment, env>>
        BY <2>6 DEF buildDeployment, store
      <3>3. q.prev <= lastRelease
        BY DEF Versions
      <3>4. \A x \in requests' : x \in requests \/ (x.prev <= lastRelease' /\ x.rel <= lastRelease')
        BY <1>0, <3>1, <3>2, <3>3
      <3> QED BY <1>0, <1>1, <2>0, <3>2, <3>4
    <2>7. ASSUME NEW q \in requests, NEW r \in ReleaseId, Rollback(q, r) PROVE Versions'
      <3>1. PICK p : p.prev = q.prev /\ p.rel = r /\ requests' = (requests \ {q}) \cup {p}
        BY <1>0, <2>7 DEF Rollback, Request
      <3>2. UNCHANGED <<release, deployment, env, lastRelease>> /\ release[r] # "ABSENT"
        BY <2>7 DEF Rollback, store
      <3>3. q.prev <= lastRelease /\ r <= lastRelease
        BY <3>2 DEF Versions
      <3>4. \A x \in requests' : x \in requests \/ (x.prev <= lastRelease' /\ x.rel <= lastRelease')
        BY <3>1, <3>2, <3>3
      <3> QED BY <1>0, <1>1, <2>0, <3>2, <3>4
    <2>8. ASSUME NEW q \in requests, CommitBuild(q) PROVE Versions'
      <3>1. UNCHANGED <<env, release, deployment, lastRelease>>
            /\ \A p \in requests' : p \in requests \/ (p.prev <= lastRelease /\ p.rel <= lastRelease)
        BY <2>4, <2>8 DEF CommitBuild
      <3> QED BY <1>0, <1>1, <2>0, <3>1
    <2>9. ASSUME NEW q \in requests, CommitRelease(q) PROVE Versions'
      <3>1. UNCHANGED <<env, deployment, lastRelease>>
            /\ \A p \in requests' : p \in requests \/ (p.prev <= lastRelease /\ p.rel <= lastRelease)
        BY <2>4, <2>9 DEF CommitRelease
      <3>2. \A r \in ReleaseId : r # q.rel => release'[r] = release[r]
        BY <1>0, <2>9 DEF CommitRelease
      <3>3. \A r \in ReleaseId : release'[r] # "ABSENT" => release[r] # "ABSENT" \/ r <= lastRelease'
        BY <3>1, <3>2 DEF Versions
      <3> QED BY <1>0, <1>1, <2>0, <3>1, <3>3
    <2>10. ASSUME NEW q \in requests, CommitDeployment(q) PROVE Versions'
      <3>1. q.dep \in DeploymentId /\ deployment[q.dep].phase = "ABSENT"
        BY <2>10 DEF CommitDeployment, TypeInv, StepsInv, NamesRelease, Numbered, FreshDeployments
      <3>2. /\ \A d \in DeploymentId : d # q.dep => deployment'[d] = deployment[d]
            /\ deployment'[q.dep].rel = q.rel
            /\ requests' \subseteq requests /\ UNCHANGED <<release, env, lastRelease>>
        BY <1>0, <2>10, <3>1 DEF CommitDeployment
      <3>3. q.rel <= lastRelease
        BY DEF Versions
      <3>4. ~Idle => deployment'[Goal.dep].rel = deployment[Goal.dep].rel
        BY <1>g, <3>1, <3>2
      <3>5. \A d \in DeploymentId : deployment'[d].rel = deployment[d].rel \/ deployment'[d].rel <= lastRelease'
        BY <3>2, <3>3
      <3> QED BY <1>0, <1>1, <2>0, <3>2, <3>4, <3>5
    <2> QED BY <1>3, <2>1, <2>2, <2>3, <2>5, <2>6, <2>7, <2>8, <2>9, <2>10 DEF ApiStep
  <1>4. CASE OrchStep
    <2>0. UNCHANGED <<requests, lastRelease>>
      BY <1>4 DEF OrchStep, api
    <2>1. CASE BeginPass
      BY <1>2, <2>0, <2>1 DEF BeginPass, store
    <2>2. CASE RecheckPlacement
      <3>1. UNCHANGED <<env, deployment, release>> /\ (todo' = <<>> \/ todo' = setPhase(Goal.dep, "STARTING"))
        BY <2>2, RecheckKinds DEF RecheckPlacement, store
      <3>2. ~Idle' => todo'[1].op = "SetDeploymentPhase"
        BY <3>1, LeftOne DEF Idle
      <3> QED BY <2>0, <3>1, <3>2 DEF Versions
    <2>3. ASSUME NEW d \in DeploymentId, reconcile(d) PROVE Versions'
      BY <2>0, <2>3, LeavesRelease DEF Versions, store
    <2>4. CASE ApplyNext
      <3>1. /\ ~Idle /\ Apply(todo[1]) /\ todo[1] \in Step
            /\ todo' = <<>> \/ (todo'[1] = Goal)
        BY <2>4, ApplyKinds, RestOfArm DEF ApplyNext
      <3>2. ~Idle' => todo'[1].op \notin {"PromoteRelease", "PutRelease"}
        BY <1>g, <3>1 DEF Idle
      <3>3. \A d \in DeploymentId : deployment'[d].rel = deployment[d].rel
        <4>1. \/ UNCHANGED deployment
              \/ deployment' = [deployment EXCEPT ![Goal.dep].phase = Goal.phase]
          BY <2>4, ApplyKinds
        <4> QED BY <1>0, <1>g, <3>1, <4>1 DEF Deployment
      <3>4. todo[1].op \in {"PromoteRelease", "PutRelease"} =>
               todo[1].rel = deployment[Goal.dep].rel /\ todo[1].rel <= lastRelease
        BY <1>g, <3>1 DEF Versions
      <3>5. env'.active <= lastRelease
        <4>1. CASE todo[1].op = "PromoteRelease"
          <5>1. env' \in {env, [env EXCEPT !.active = todo[1].rel]}
            BY <3>1, <4>1 DEF Apply, applyPromoteRelease
          <5> QED BY <1>0, <3>4, <4>1, <5>1 DEF Versions, Environment
        <4>2. CASE todo[1].op # "PromoteRelease"
          BY <3>1, <4>2 DEF Versions, Apply, applyPutAssignments, applyDeleteAssignments,
             applySetDeploymentPhase, applyPutRelease
        <4> QED BY <4>1, <4>2
      <3>6. \A r \in ReleaseId : release'[r] # "ABSENT" => r <= lastRelease
        <4>1. CASE todo[1].op = "PutRelease"
          <5>1. release' = [release EXCEPT ![todo[1].rel] = "IMAGE"]
            BY <3>1, <4>1 DEF Apply, applyPutRelease
          <5> QED BY <1>0, <3>4, <4>1, <5>1 DEF Versions
        <4>2. CASE todo[1].op # "PutRelease"
          BY <3>1, <4>2 DEF Versions, Apply, applyPutAssignments, applyDeleteAssignments,
             applySetDeploymentPhase, applyPromoteRelease
        <4> QED BY <4>1, <4>2
      <3> QED BY <2>0, <3>2, <3>3, <3>5, <3>6 DEF Versions
    <2> QED BY <1>4, <2>1, <2>2, <2>3, <2>4 DEF OrchStep
  <1>5. CASE LeaderChange
    BY <1>5 DEF LeaderChange, Failover, store, api, Versions, Idle
  <1>6. CASE Timeout
    <2>1. ~Idle /\ todo' = Tail(todo) /\ UNCHANGED <<env, release, deployment, requests, lastRelease>>
      BY <1>6 DEF Timeout, ApplyTimesOut, store, api
    <2>2. todo' = <<>> \/ todo'[1] = Goal
      BY <2>1, RestOfArm DEF TypeInv, StepsInv, PassLive
    <2> QED BY <1>g, <2>1, <2>2 DEF Versions, Idle
  <1>7. CASE Sweep
    <2>1. UNCHANGED <<env, deployment, requests, lastRelease, todo>>
      BY <1>7 DEF Sweep, sweepEnv, DeleteRelease, store, orch, api
    <2>2. \A r \in ReleaseId : release'[r] # "ABSENT" => release[r] # "ABSENT"
      BY <1>0, <1>7 DEF Sweep, sweepEnv, DeleteRelease, store
    <2> QED BY <1>0, <1>1, <2>1, <2>2
  <1>8. CASE Abandon
    BY <1>2, <1>8 DEF Abandon, AbandonRequest, store, orch
  <1>9. CASE (\E d \in DeploymentId : FinishBuild(d)) \/ (\E a \in AssignmentId : Report(a))
    BY <1>2, <1>9 DEF FinishBuild, Report, SetAssignmentObserved, orch, api
  <1>10. CASE UNCHANGED vars
    BY <1>2, <1>10 DEF vars, store, orch, api
  <1> QED
    BY <1>3, <1>4, <1>5, <1>6, <1>7, <1>8, <1>9, <1>10 DEF Next

(***************************************************************************)
(* Retention.                                                              *)
(***************************************************************************)
LEMMA InitUnpruned == Init => Unpruned
  <1> SUFFICES ASSUME Init PROVE Unpruned
    OBVIOUS
  <1>1. \A d \in DeploymentId : isTerminalPhase(d)
    BY DEF Init, NoDeployment, isTerminalPhase, LivePhase, RolloutPhase
  <1>2. env.active # NoId => release[env.active] # "ABSENT"
    BY StoreAssumption DEF Init, ReleaseId, NoId
  <1> QED BY <1>1, <1>2 DEF Init, Unpruned, DeployedReleaseKept, RolloutReleaseKept

\* The newest release is kept by every sweep.
LEMMA NewestKept ==
    ASSUME NEW r \in StoredReleases, \A s \in StoredReleases : ~(s > r)
    PROVE  r \in Newest
  <1>1. {s \in StoredReleases : s > r} = {}
    OBVIOUS
  <1>2. Cardinality({s \in StoredReleases : s > r}) = 0
    BY <1>1, FS_EmptySet
  <1> QED BY <1>2, RetentionAssumption DEF Newest

LEMMA NextUnpruned ==
    ASSUME OneByOne, TypeInv, FreshDeployments, Versions, Unpruned, [Next]_vars
    PROVE  Unpruned'
  <1>0. /\ lastRelease \in Nat /\ ReleaseId \subseteq Nat /\ env \in Environment /\ NoId \notin ReleaseId
        /\ requests \subseteq Request /\ deployment \in [DeploymentId -> Deployment]
        /\ release \in [ReleaseId -> {"ABSENT", "SOURCE", "IMAGE"}] /\ doomed \subseteq ReleaseId
        /\ \A q \in requests : Numbered(q) => q.rel \in ReleaseId /\ q.dep \in DeploymentId
        /\ \A d \in DeploymentId : ~isTerminalPhase(d) => deployment[d].rel \in ReleaseId
        /\ \A d \in pass : d \in DeploymentId
    BY StoreAssumption DEF TypeInv, TypeOK, StoreTypeOK, ApiTypeOK, StepsInv, NamesRelease, ReleaseId, NoId,
       isTerminalPhase, LivePhase, RolloutPhase
  <1>g. ~Idle => /\ Goal.dep \in DeploymentId /\ ~isTerminalPhase(Goal.dep)
                 /\ Goal.op \in {"SetDeploymentPhase", "RecheckGreen"}
                 /\ Goal.op = "SetDeploymentPhase" => Goal.phase \in RolloutPhase \cup TerminalPhase
    <2>1. ~Idle => /\ Goal.op \in {"SetDeploymentPhase", "RecheckGreen"}
                   /\ Goal.op = "SetDeploymentPhase" => Goal.phase \in RolloutPhase \cup TerminalPhase
                   /\ deployment[Goal.dep].phase \in LivePhase
      BY DEF TypeInv, StepsInv, PassLive
    <2>2. ~Idle => Goal \in Step
      BY RestOfArm
    <2> QED BY <2>1, <2>2 DEF Step, isTerminalPhase
  <1>k. \A q \in requests : q.kind \in Inputs /\ q.kind \notin {"rollback", "rollbackToActive"}
    BY DEF Unpruned, OneByOne
  \* Fewer requests, fewer releases on the list, and none gone.
  <1>1. ASSUME requests' \subseteq requests, doomed' \subseteq doomed,
               UNCHANGED <<lastRelease, env>>,
               \A r \in ReleaseId : release[r] # "ABSENT" => release'[r] # "ABSENT",
               \A d \in DeploymentId : ~isTerminalPhase(d)' =>
                  ~isTerminalPhase(d) /\ deployment'[d].rel = deployment[d].rel
        PROVE  Unpruned'
    <2>1. /\ \A p, q \in requests' : p = q
          /\ \A q \in requests' :
                /\ q.kind \in Inputs
                /\ Numbered(q) => q.rel = lastRelease' /\ q.rel \notin doomed'
                /\ q.stage = "deployment" => release'[q.rel] # "ABSENT"
      BY <1>0, <1>1 DEF Unpruned, Numbered
    <2>2. \A d \in DeploymentId : ~isTerminalPhase(d)' =>
             deployment'[d].rel \notin doomed' /\ release'[deployment'[d].rel] # "ABSENT"
      BY <1>0, <1>1 DEF Unpruned, DeployedReleaseKept, RolloutReleaseKept
    <2>3. env'.active # NoId => env'.active \notin doomed' /\ release'[env'.active] # "ABSENT"
      BY <1>0, <1>1 DEF Unpruned, DeployedReleaseKept, Environment
    <2>4. \A r \in doomed' : r <= lastRelease'
      BY <1>1 DEF Unpruned
    <2> QED BY <2>1, <2>2, <2>3, <2>4 DEF Unpruned, DeployedReleaseKept, RolloutReleaseKept
  <1>2. ASSUME requests' \subseteq requests, doomed' \subseteq doomed,
               UNCHANGED <<lastRelease, env, release, deployment>>
        PROVE  Unpruned'
    BY <1>1, <1>2 DEF isTerminalPhase
  \* One request takes the place of another, or is the only one.
  <1>3. ASSUME NEW p, requests' = {p}, p.kind \in Inputs,
               Numbered(p) => p.rel = lastRelease' /\ p.rel \notin doomed,
               p.stage = "deployment" => release'[p.rel] # "ABSENT",
               lastRelease' \in Nat, lastRelease' >= lastRelease,
               UNCHANGED <<env, deployment, doomed>>,
               \A r \in ReleaseId : release[r] # "ABSENT" => release'[r] # "ABSENT"
        PROVE  Unpruned'
    <2>1. /\ \A q, r \in requests' : q = r
          /\ \A q \in requests' :
                /\ q.kind \in Inputs
                /\ Numbered(q) => q.rel = lastRelease' /\ q.rel \notin doomed'
                /\ q.stage = "deployment" => release'[q.rel] # "ABSENT"
      BY <1>3
    <2>2. \A d \in DeploymentId : ~isTerminalPhase(d)' =>
             deployment'[d].rel \notin doomed' /\ release'[deployment'[d].rel] # "ABSENT"
      BY <1>0, <1>3 DEF Unpruned, DeployedReleaseKept, RolloutReleaseKept, isTerminalPhase
    <2>3. env'.active # NoId => env'.active \notin doomed' /\ release'[env'.active] # "ABSENT"
      BY <1>0, <1>3 DEF Unpruned, DeployedReleaseKept, Environment
    <2>4. \A r \in doomed' : r <= lastRelease'
      BY <1>0, <1>3 DEF Unpruned
    <2> QED BY <2>1, <2>2, <2>3, <2>4 DEF Unpruned, DeployedReleaseKept, RolloutReleaseKept
  <1>4. ASSUME NEW q \in requests PROVE requests = {q}
    BY DEF Unpruned
  <1>5. ASSUME Cardinality(requests) < MaxInFlight PROVE requests = {}
    <2>1. ASSUME NEW q \in requests PROVE FALSE
      <3>1. Cardinality(requests) = 1
        BY <1>4, FS_Singleton
      <3> QED BY <1>5, <3>1 DEF OneByOne
    <2> QED BY <2>1
  <1>6. lastRelease + 1 \notin doomed
    BY <1>0 DEF Unpruned
  <1>7. CASE ApiStep /\ UNCHANGED <<orch, doomed>>
    <2>1. CASE DeployGit
      <3> DEFINE p == [stage |-> "build", kind |-> "git", dep |-> lastDeployment + 1,
                       rel |-> lastRelease + 1, prev |-> NoId]
      <3>1. /\ requests' = requests \cup {p} /\ Cardinality(requests) < MaxInFlight
            /\ p.kind \in Inputs /\ p.rel = lastRelease + 1 /\ p.stage = "build"
            /\ lastRelease' = lastRelease + 1 /\ UNCHANGED <<env, release, deployment>>
        BY <2>1 DEF DeployGit, store
      <3> HIDE DEF p
      <3>2. requests' = {p}
        BY <1>5, <3>1
      <3> QED BY <1>0, <1>3, <1>6, <1>7, <3>1, <3>2
    <2>2. ASSUME NEW kind \in Inputs, resolveEnv(kind) PROVE Unpruned'
      <3> DEFINE p == [stage |-> "read", kind |-> kind, dep |-> NoId, rel |-> NoId, prev |-> env.active]
      <3>1. /\ requests' = requests \cup {p} /\ Cardinality(requests) < MaxInFlight
            /\ p.kind \in Inputs /\ p.stage = "read" /\ ~Numbered(p)
            /\ UNCHANGED <<env, release, deployment, lastRelease>>
        BY <2>2 DEF resolveEnv, store, Numbered
      <3> HIDE DEF p
      <3>2. requests' = {p}
        BY <1>5, <3>1
      <3> QED BY <1>0, <1>3, <1>7, <3>1, <3>2
    <2>3. ASSUME NEW q \in requests, Refuse(q) PROVE Unpruned'
      BY <1>2, <1>7, <2>3 DEF Refuse, store
    <2>4. ASSUME NEW q \in requests, Check(q) PROVE Unpruned'
      <3> DEFINE p == [q EXCEPT !.stage = "checked"]
      <3>1. p.kind \in Inputs /\ p.stage = "checked" /\ ~Numbered(p)
        BY <1>0, <1>k DEF Request, Numbered
      <3>2. requests' = (requests \ {q}) \cup {p} /\ UNCHANGED <<env, release, deployment, lastRelease>>
        BY <2>4 DEF Check, store
      <3> HIDE DEF p
      <3>3. requests' = {p}
        BY <1>4, <3>2
      <3> QED BY <1>0, <1>3, <1>7, <3>1, <3>2, <3>3
    <2>5. ASSUME NEW q \in requests, buildDeployment(q) PROVE Unpruned'
      <3> DEFINE p == [q EXCEPT !.stage = IF q.kind = "upload" THEN "build" ELSE "release",
                                !.rel = lastRelease + 1, !.dep = lastDeployment + 1]
      <3>1. p.kind \in Inputs /\ p.stage # "deployment" /\ p.rel = lastRelease + 1
        BY <1>0, <1>k DEF Request
      <3>2. /\ requests' = (requests \ {q}) \cup {p}
            /\ lastRelease' = lastRelease + 1 /\ UNCHANGED <<env, release, deployment>>
        BY <2>5 DEF buildDeployment, store
      <3> HIDE DEF p
      <3>3. requests' = {p}
        BY <1>4, <3>2
      <3> QED BY <1>0, <1>3, <1>6, <1>7, <3>1, <3>2, <3>3
    <2>6. ASSUME NEW q \in requests, NEW r \in ReleaseId, Rollback(q, r) PROVE Unpruned'
      BY <1>k, <2>6 DEF Rollback
    <2>7. ASSUME NEW q \in requests, CommitBuild(q) PROVE Unpruned'
      <3> DEFINE p == [q EXCEPT !.stage = "release"]
      <3>1. p.kind \in Inputs /\ p.stage # "deployment" /\ p.rel = q.rel /\ Numbered(q)
        BY <1>0, <1>k, <2>7 DEF Request, CommitBuild, Numbered
      <3>2. /\ requests' = (requests \ {q}) \cup {p} /\ UNCHANGED <<env, release, deployment, lastRelease>>
        BY <2>7 DEF CommitBuild
      <3> HIDE DEF p
      <3>3. requests' = {p}
        BY <1>4, <3>2
      <3>4. p.rel = lastRelease /\ p.rel \notin doomed
        BY <3>1 DEF Unpruned
      <3> QED BY <1>0, <1>3, <1>7, <3>1, <3>2, <3>3, <3>4
    <2>8. ASSUME NEW q \in requests, CommitRelease(q) PROVE Unpruned'
      <3> DEFINE p == [q EXCEPT !.stage = "deployment"]
      <3>1. p.kind \in Inputs /\ p.rel = q.rel /\ Numbered(q)
        BY <1>0, <1>k, <2>8 DEF Request, CommitRelease, Numbered
      <3>2. /\ requests' = (requests \ {q}) \cup {p} /\ UNCHANGED <<env, deployment, lastRelease>>
            /\ \E s \in {"IMAGE", "SOURCE"} : release' = [release EXCEPT ![q.rel] = s]
        BY <2>8 DEF CommitRelease
      <3> HIDE DEF p
      <3>3. requests' = {p}
        BY <1>4, <3>2
      <3>4. p.rel = lastRelease /\ p.rel \notin doomed
        BY <3>1 DEF Unpruned
      <3>5. /\ release'[q.rel] # "ABSENT"
            /\ \A r \in ReleaseId : release[r] # "ABSENT" => release'[r] # "ABSENT"
        BY <1>0, <3>1, <3>2
      <3> QED BY <1>0, <1>3, <1>7, <3>1, <3>2, <3>3, <3>4, <3>5
    <2>9. ASSUME NEW q \in requests, CommitDeployment(q) PROVE Unpruned'
      <3>1. /\ Numbered(q) /\ q.dep \in DeploymentId /\ q.rel \in ReleaseId
            /\ requests' = requests \ {q} /\ UNCHANGED <<env, release, lastRelease>>
            /\ release[q.rel] # "ABSENT" /\ q.rel \notin doomed
        BY <1>0, <2>9 DEF CommitDeployment, Numbered, Unpruned
      <3>2. /\ \A d \in DeploymentId : d # q.dep => deployment'[d] = deployment[d]
            /\ deployment'[q.dep].rel = q.rel
        BY <1>0, <2>9, <3>1 DEF CommitDeployment
      <3>3. \A d \in DeploymentId : ~isTerminalPhase(d)' =>
               deployment'[d].rel \notin doomed' /\ release'[deployment'[d].rel] # "ABSENT"
        BY <1>7, <3>1, <3>2 DEF Unpruned, DeployedReleaseKept, RolloutReleaseKept, isTerminalPhase
      <3>4. \A p \in requests' : p \in requests
        BY <3>1
      <3> QED BY <1>7, <3>1, <3>3, <3>4 DEF Unpruned, DeployedReleaseKept, RolloutReleaseKept
    <2> QED BY <1>7, <2>1, <2>2, <2>3, <2>4, <2>5, <2>6, <2>7, <2>8, <2>9 DEF ApiStep
  <1>8. CASE OrchStep
    <2>0. UNCHANGED <<requests, lastRelease, doomed>>
      BY <1>8 DEF OrchStep, api
    <2>1. CASE BeginPass \/ RecheckPlacement
      BY <1>2, <2>0, <2>1 DEF BeginPass, RecheckPlacement, store
    <2>2. ASSUME NEW d \in DeploymentId, reconcile(d) PROVE Unpruned'
      BY <1>2, <2>0, <2>2, ReconcileLeaves DEF store
    <2>3. CASE ApplyNext
      <3>1. ~Idle /\ Apply(todo[1]) /\ todo[1] \in Step
        BY <2>3, RestOfArm DEF ApplyNext
      <3>2. CASE todo[1].op = "PromoteRelease"
        <4>1. /\ UNCHANGED <<release, deployment>>
              /\ env' \in {env, [env EXCEPT !.active = todo[1].rel]}
          BY <3>1, <3>2 DEF Apply, applyPromoteRelease
        <4>2. todo[1].rel = deployment[Goal.dep].rel
          BY <3>1, <3>2 DEF Versions
        <4>3. todo[1].rel \notin doomed /\ release[todo[1].rel] # "ABSENT"
          BY <1>g, <3>1, <4>2 DEF Unpruned, DeployedReleaseKept, RolloutReleaseKept
        <4>4. env'.active # NoId => env'.active \notin doomed /\ release[env'.active] # "ABSENT"
          BY <1>0, <4>1, <4>3 DEF Unpruned, DeployedReleaseKept, Environment
        <4> QED BY <2>0, <4>1, <4>4 DEF Unpruned, DeployedReleaseKept, RolloutReleaseKept, isTerminalPhase
      <3>3. CASE todo[1].op = "PutRelease"
        <4>1. UNCHANGED <<env, deployment>> /\ release' = [release EXCEPT ![todo[1].rel] = "IMAGE"]
          BY <3>1, <3>3 DEF Apply, applyPutRelease
        <4>2. \A r \in ReleaseId : release[r] # "ABSENT" => release'[r] # "ABSENT"
          BY <1>0, <4>1
        <4> QED BY <1>1, <2>0, <4>1, <4>2 DEF isTerminalPhase
      <3>4. CASE todo[1].op \in {"PutAssignments", "DeleteAssignments"}
        BY <1>2, <2>0, <3>1, <3>4 DEF Apply, applyPutAssignments, applyDeleteAssignments
      <3>5. CASE todo[1].op = "SetDeploymentPhase"
        <4>1. /\ Goal.op = "SetDeploymentPhase" /\ UNCHANGED <<env, release>>
              /\ deployment' = [deployment EXCEPT ![Goal.dep].phase = Goal.phase]
          BY <3>1, <3>5, ApplyDeployments, RestOfArm
        <4>2. \A d \in DeploymentId : /\ deployment'[d].rel = deployment[d].rel
                                      /\ d # Goal.dep => deployment'[d] = deployment[d]
          BY <1>0, <1>g, <3>1, <4>1 DEF Deployment
        <4>3. \A d \in DeploymentId : ~isTerminalPhase(d)' => ~isTerminalPhase(d)
          BY <1>g, <3>1, <4>2 DEF isTerminalPhase
        <4> QED BY <1>1, <2>0, <4>1, <4>2, <4>3
      <3> QED BY <3>1, <3>2, <3>3, <3>4, <3>5 DEF Apply
    <2> QED BY <1>8, <2>1, <2>2, <2>3 DEF OrchStep
  <1>9. CASE LeaderChange
    BY <1>2, <1>9 DEF LeaderChange, Failover, store, api
  <1>10. CASE Timeout
    BY <1>2, <1>10 DEF Timeout, ApplyTimesOut, store, api
  <1>11. CASE sweepEnv /\ UNCHANGED <<orch, api>>
    <2>1. /\ doomed' = StoredReleases \ ({env.active} \cup previousReleaseID \cup Newest \cup Referenced)
          /\ UNCHANGED <<env, release, deployment, requests, lastRelease>>
      BY <1>11 DEF sweepEnv, store, api
    <2>2. \A r \in StoredReleases : r <= lastRelease
      BY DEF StoredReleases, Versions
    <2>3. \A q \in requests : Numbered(q) => q.rel \notin doomed'
      <3> SUFFICES ASSUME NEW q \in requests, Numbered(q), q.rel \in StoredReleases PROVE q.rel \in Newest
        BY <2>1
      <3>1. q.rel = lastRelease
        BY DEF Unpruned
      <3>2. \A s \in StoredReleases : ~(s > q.rel)
        BY <1>0, <2>2, <3>1 DEF StoredReleases
      <3> QED BY <3>2, NewestKept
    <2>4. \A d \in DeploymentId : ~isTerminalPhase(d) => deployment[d].rel \notin doomed'
      BY <2>1 DEF Referenced
    <2>5. env.active \notin doomed' /\ \A r \in doomed' : r <= lastRelease
      BY <2>1, <2>2
    <2> QED
      BY <2>1, <2>3, <2>4, <2>5 DEF Unpruned, DeployedReleaseKept, RolloutReleaseKept, isTerminalPhase
  <1>12. ASSUME NEW r \in ReleaseId, DeleteRelease(r), UNCHANGED <<orch, api>> PROVE Unpruned'
    <2>1. /\ r \in doomed /\ doomed' = doomed \ {r} /\ release' = [release EXCEPT ![r] = "ABSENT"]
          /\ UNCHANGED <<env, deployment, requests, lastRelease>>
      BY <1>12 DEF DeleteRelease, api
    <2>2. \A s \in ReleaseId : s # r => release'[s] = release[s]
      BY <1>0, <2>1
    <2>3. \A q \in requests : q.stage = "deployment" => release'[q.rel] # "ABSENT"
      BY <1>0, <2>1, <2>2 DEF Unpruned, Numbered
    <2>4. \A d \in DeploymentId : ~isTerminalPhase(d) => release'[deployment[d].rel] # "ABSENT"
      BY <1>0, <2>1, <2>2 DEF Unpruned, DeployedReleaseKept, RolloutReleaseKept
    <2>5. env.active # NoId => release'[env.active] # "ABSENT"
      BY <1>0, <2>1, <2>2 DEF Unpruned, DeployedReleaseKept, Environment
    <2> QED
      BY <2>1, <2>3, <2>4, <2>5 DEF Unpruned, DeployedReleaseKept, RolloutReleaseKept, isTerminalPhase
  <1>13. CASE Abandon
    BY <1>2, <1>13 DEF Abandon, AbandonRequest, store
  <1>14. CASE (\E d \in DeploymentId : FinishBuild(d)) \/ (\E a \in AssignmentId : Report(a))
    BY <1>2, <1>14 DEF FinishBuild, Report, SetAssignmentObserved, api
  <1>15. CASE UNCHANGED vars
    BY <1>2, <1>15 DEF vars, store, api
  <1> QED
    BY <1>7, <1>8, <1>9, <1>10, <1>11, <1>12, <1>13, <1>14, <1>15 DEF Next, Sweep

\* Retention, which lists what to delete and then deletes it while the handlers and
\* the orchestrator go on, takes away neither the release that serves nor one that
\* is being rolled out, whatever the leader changes and lost commands in between,
\* as long as requests come one at a time and none is a rollback: a release waits
\* for its deployment only while it is the newest, and that one is always kept.
THEOREM ReleasesKept ==
    ASSUME OneByOne
    PROVE  Spec => []DeployedReleaseKept
  <1>1. TypeInv /\ FreshDeployments /\ [Next]_vars => FreshDeployments'
    BY NextFresh
  <1>2. TypeInv /\ FreshDeployments /\ Versions /\ [Next]_vars => Versions'
    BY NextVersions
  <1>3. TypeInv /\ FreshDeployments /\ Versions /\ Unpruned /\ [Next]_vars => Unpruned'
    BY NextUnpruned
  <1>4. Unpruned => DeployedReleaseKept
    BY DEF Unpruned
  <1> QED
    BY <1>1, <1>2, <1>3, <1>4, InitTypes, NextTypes, InitFresh, InitVersions, InitUnpruned, PTL DEF Spec

(***************************************************************************)
(* The release that serves keeps its replicas.                             *)
(***************************************************************************)
LEMMA FullGrows ==
    ASSUME NEW S, NEW T \in SUBSET AssignmentId, S \subseteq T, Full(S)
    PROVE  Full(T)
  <1>1. IsFiniteSet(AssignmentId)
    BY StoreAssumption, FS_Interval DEF AssignmentId
  <1>2. IsFiniteSet(T)
    BY <1>1, FS_Subset
  <1>3. IsFiniteSet(S) /\ Cardinality(S) <= Cardinality(T)
    BY <1>2, FS_Subset
  <1>4. Cardinality(S) \in Nat /\ Cardinality(T) \in Nat
    BY <1>2, <1>3, FS_CardinalityType
  <1> QED BY <1>3, <1>4, StoreAssumption DEF Full

\* No deployment goes from a release to itself, unless a rollback is asked to.
LEMMA InitForward == Init => Forward
  BY DEF Init, Forward, NoDeployment

LEMMA NextForward ==
    ASSUME "rollbackToActive" \notin Inputs, TypeInv, FreshDeployments, Versions, Forward, [Next]_vars
    PROVE  Forward'
  <1>0. /\ lastRelease \in Nat /\ requests \subseteq Request
        /\ deployment \in [DeploymentId -> Deployment]
        /\ \A q \in requests : q.rel \in Nat /\ q.prev \in Nat /\ q.prev <= lastRelease
    BY DEF TypeInv, TypeOK, StoreTypeOK, ApiTypeOK, ReleaseId, NoId, Request, Versions
  <1>1. ASSUME requests' \subseteq requests, UNCHANGED deployment PROVE Forward'
    BY <1>1 DEF Forward, Numbered
  <1>2. ASSUME NEW p, requests' \subseteq requests \cup {p}, UNCHANGED deployment,
               p.kind \in Inputs, Numbered(p) => p.rel # p.prev
        PROVE  Forward'
    BY <1>2 DEF Forward, Numbered
  <1>3. CASE ApiStep /\ UNCHANGED <<orch, doomed>>
    <2>1. CASE DeployGit
      <3> DEFINE p == [stage |-> "build", kind |-> "git", dep |-> lastDeployment + 1,
                       rel |-> lastRelease + 1, prev |-> NoId]
      <3>1. p.kind \in Inputs /\ p.rel = lastRelease + 1 /\ p.prev = 0
            /\ requests' = requests \cup {p} /\ UNCHANGED deployment
        BY <2>1 DEF DeployGit, store, NoId
      <3> HIDE DEF p
      <3>2. p.rel # p.prev
        BY <1>0, <3>1
      <3> QED BY <1>2, <3>1, <3>2
    <2>2. ASSUME NEW kind \in Inputs, resolveEnv(kind) PROVE Forward'
      <3> DEFINE p == [stage |-> "read", kind |-> kind, dep |-> NoId, rel |-> NoId, prev |-> env.active]
      <3>1. p.kind \in Inputs /\ p.stage = "read" /\ requests' = requests \cup {p} /\ UNCHANGED deployment
        BY <2>2 DEF resolveEnv, store
      <3> HIDE DEF p
      <3> QED BY <1>2, <3>1 DEF Numbered
    <2>3. ASSUME NEW q \in requests, Refuse(q) PROVE Forward'
      BY <1>1, <2>3 DEF Refuse, store
    <2>4. ASSUME NEW q \in requests, NEW st, UNCHANGED deployment,
                 requests' = (requests \ {q}) \cup {[q EXCEPT !.stage = st]},
                 st = "checked" \/ Numbered(q)
          PROVE  Forward'
      <3> DEFINE p == [q EXCEPT !.stage = st]
      <3>1. p.kind = q.kind /\ p.rel = q.rel /\ p.prev = q.prev /\ p.stage = st
        BY <1>0 DEF Request
      <3>2. requests' \subseteq requests \cup {p}
        BY <2>4
      <3> HIDE DEF p
      <3> QED BY <1>2, <2>4, <3>1, <3>2 DEF Forward, Numbered
    <2>5. ASSUME NEW q \in requests, Check(q) PROVE Forward'
      BY <2>4, <2>5 DEF Check, store
    <2>6. ASSUME NEW q \in requests, buildDeployment(q) PROVE Forward'
      <3> DEFINE p == [q EXCEPT !.stage = IF q.kind = "upload" THEN "build" ELSE "release",
                                !.rel = lastRelease + 1, !.dep = lastDeployment + 1]
      <3>1. p.kind = q.kind /\ p.rel = lastRelease + 1 /\ p.prev = q.prev
        BY <1>0 DEF Request
      <3>2. requests' \subseteq requests \cup {p} /\ UNCHANGED deployment
        BY <2>6 DEF buildDeployment, store
      <3> HIDE DEF p
      <3>3. p.rel # p.prev /\ p.kind \in Inputs
        BY <1>0, <3>1 DEF Forward
      <3> QED BY <1>2, <3>2, <3>3
    <2>7. ASSUME NEW q \in requests, NEW r \in ReleaseId, Rollback(q, r) PROVE Forward'
      <3> DEFINE p == [q EXCEPT !.stage = "deployment", !.rel = r, !.dep = lastDeployment + 1]
      <3>1. p.kind = q.kind /\ p.rel = r /\ p.prev = q.prev
        BY <1>0 DEF Request
      <3>2. requests' \subseteq requests \cup {p} /\ UNCHANGED deployment
            /\ (r = q.prev <=> q.kind = "rollbackToActive")
        BY <2>7 DEF Rollback, store
      <3> HIDE DEF p
      <3>3. p.rel # p.prev /\ p.kind \in Inputs
        BY <3>1, <3>2 DEF Forward
      <3> QED BY <1>2, <3>2, <3>3
    <2>8. ASSUME NEW q \in requests, CommitBuild(q) \/ CommitRelease(q) PROVE Forward'
      BY <2>4, <2>8 DEF CommitBuild, CommitRelease, Numbered
    <2>9. ASSUME NEW q \in requests, CommitDeployment(q) PROVE Forward'
      <3>1. Numbered(q) /\ q.dep \in DeploymentId /\ requests' \subseteq requests
        BY <2>9 DEF CommitDeployment, TypeInv, StepsInv, NamesRelease, Numbered
      <3>2. /\ \A d \in DeploymentId : d # q.dep => deployment'[d] = deployment[d]
            /\ deployment'[q.dep].rel = q.rel /\ deployment'[q.dep].prev = q.prev
        BY <1>0, <2>9, <3>1 DEF CommitDeployment
      <3>3. q.rel # q.prev
        BY <3>1 DEF Forward
      <3> QED BY <3>1, <3>2, <3>3 DEF Forward, Numbered
    <2> QED BY <1>3, <2>1, <2>2, <2>3, <2>5, <2>6, <2>7, <2>8, <2>9 DEF ApiStep
  <1>4. CASE OrchStep
    <2>1. UNCHANGED requests
      BY <1>4 DEF OrchStep, api
    <2>2. CASE BeginPass \/ RecheckPlacement
      BY <1>1, <2>1, <2>2 DEF BeginPass, RecheckPlacement, store
    <2>3. ASSUME NEW d \in DeploymentId, reconcile(d) PROVE Forward'
      BY <1>1, <2>1, <2>3, ReconcileLeaves DEF store
    <2>4. CASE ApplyNext
      <3>1. CASE UNCHANGED deployment
        BY <1>1, <2>1, <3>1
      <3>2. CASE deployment' = [deployment EXCEPT ![Goal.dep].phase = Goal.phase] /\ ~Idle
        <4>1. Goal.dep \in DeploymentId /\ deployment[Goal.dep].phase # "ABSENT"
          BY <2>4, <3>2, ApplyKinds DEF TypeInv, StepsInv, PassLive, LivePhase, RolloutPhase
        <4>2. \A d \in DeploymentId : /\ deployment'[d].rel = deployment[d].rel
                                      /\ deployment'[d].prev = deployment[d].prev
                                      /\ d # Goal.dep => deployment'[d] = deployment[d]
          BY <1>0, <3>2, <4>1 DEF Deployment
        <4> QED BY <2>1, <4>1, <4>2 DEF Forward, Numbered
      <3> QED BY <2>4, <3>1, <3>2, ApplyKinds
    <2> QED BY <1>4, <2>2, <2>3, <2>4 DEF OrchStep
  <1>5. CASE LeaderChange \/ Timeout
    BY <1>1, <1>5 DEF LeaderChange, Failover, Timeout, ApplyTimesOut, store, api
  <1>6. CASE Sweep
    BY <1>1, <1>6 DEF Sweep, sweepEnv, DeleteRelease, store, api
  <1>7. CASE Abandon
    BY <1>1, <1>7 DEF Abandon, AbandonRequest, store
  <1>8. CASE (\E d \in DeploymentId : FinishBuild(d)) \/ (\E a \in AssignmentId : Report(a))
    BY <1>1, <1>8 DEF FinishBuild, Report, SetAssignmentObserved, api
  <1>9. CASE UNCHANGED vars
    BY <1>1, <1>9 DEF vars, store, api
  <1> QED
    BY <1>3, <1>4, <1>5, <1>6, <1>7, <1>8, <1>9 DEF Next

LEMMA InitStaff == Init => StaffInv
  <1> SUFFICES ASSUME Init PROVE StaffInv
    OBVIOUS
  <1>1. Idle /\ (\A d \in DeploymentId : deployment[d].phase = "ABSENT") /\ env.effective = 0
    BY DEF Init, Idle, NoDeployment
  <1>2. CASE /\ assignment = [a \in AssignmentId |-> NoAssignment] /\ env.active = NoId
    <2>1. Replicated
      BY <1>1, <1>2 DEF Replicated, NoAssignment
    <2> QED BY <1>1, <1>2, <2>1 DEF StaffInv, PhaseOfGoal, ReplicasOfGoal, Staffed
  <1>3. ASSUME NEW home \in Node, assignment = [a \in AssignmentId |-> SteadyAssignment(a, home)],
               MinReplicas <= MaxAssignment, minted = MinReplicas, env.active = 1
        PROVE  StaffInv
    <2>1. \A a \in AssignmentId : a > minted => assignment[a] = NoAssignment
      BY <1>3, StoreAssumption DEF SteadyAssignment, AssignmentId
    <2>2. \A a \in AssignmentId : a <= MinReplicas =>
             /\ assignment[a].rel = 1 /\ assignment[a].dep = NoId
             /\ assignment[a].desired = "RUN" /\ assignment[a].obs = "HEALTHY"
      BY <1>3 DEF SteadyAssignment, newAssignment
    <2>3. \A a \in AssignmentId : assignment[a].dep = NoId
      BY <1>3 DEF SteadyAssignment, newAssignment, NoAssignment
    <2>4. Replicated
      BY <1>1, <2>1, <2>3 DEF Replicated
    <2>5. 1..MinReplicas \subseteq KeptOf(1)
      BY <1>3, <2>2, StoreAssumption DEF KeptOf, UpOf, Up, Kept, AssignmentId
    <2>6. Full(1..MinReplicas)
      BY StoreAssumption, FS_Interval DEF Full
    <2>7. Full(KeptOf(1))
      BY <2>5, <2>6, FullGrows DEF KeptOf, UpOf
    <2> QED BY <1>1, <1>3, <2>4, <2>7 DEF StaffInv, PhaseOfGoal, ReplicasOfGoal, Staffed
  <1> QED BY <1>2, <1>3 DEF Init

\* A step that leaves alone what the invariant is about.
LEMMA StaffUntouched ==
    ASSUME StaffInv, UNCHANGED <<env, deployment, assignment, todo, minted>>
    PROVE  StaffInv'
  <1>1. UNCHANGED <<Idle, Goal>>
    BY DEF Idle, Goal
  <1>2. \A phases : GoalPhase(phases)' <=> GoalPhase(phases)
    BY <1>1 DEF GoalPhase
  <1>3. /\ \A d \in DeploymentId : Condemned(d)' <=> Condemned(d)
        /\ \A d \in DeploymentId : greenAssignments(d)' = greenAssignments(d)
        /\ \A r : UpOf(r)' = UpOf(r)
        /\ \A r : KeptOf(r)' = KeptOf(r)
    BY <1>1, <1>2 DEF Condemned, greenAssignments, UpOf, Up, KeptOf, Kept
  <1>4. Replicated'
    BY DEF StaffInv, Replicated
  <1>5. PhaseOfGoal'
    BY <1>1, <1>2 DEF StaffInv, PhaseOfGoal
  <1>6. ReplicasOfGoal'
    BY <1>1, <1>2 DEF StaffInv, ReplicasOfGoal
  <1>7. Staffed'
    <2>1. \A S : Full(S)' <=> Full(S)
      BY DEF Full
    <2>2. /\ Full(greenAssignments(Goal.dep))' = Full(greenAssignments(Goal.dep))
          /\ Full(UpOf(deployment[Goal.dep].rel))' = Full(UpOf(deployment[Goal.dep].rel))
          /\ Full(KeptOf(env.active))' = Full(KeptOf(env.active))
      BY <1>1, <1>3 DEF Full, greenAssignments
    <2>3. \A d \in DeploymentId :
             /\ Full(greenAssignments(d))' = Full(greenAssignments(d))
             /\ Full(UpOf(deployment[d].rel))' = Full(UpOf(deployment[d].rel))
      BY <1>3 DEF Full
    <2> QED BY <1>1, <1>2, <1>3, <2>2, <2>3 DEF StaffInv, Staffed
  <1> QED BY <1>4, <1>5, <1>6, <1>7 DEF StaffInv

\* What an arm leaves when it is decided; nobody was condemned before.
LEMMA ReconcileStaff ==
    ASSUME RolloutReleaseKept, TypeInv, StaffInv, NEW d \in DeploymentId, reconcile(d)
    PROVE  StaffInv'
  <1>0. /\ UNCHANGED <<env, deployment, assignment>> /\ Idle /\ d \in pass
        /\ (ArmLeaves(d) /\ UNCHANGED minted) \/ PlaceLeaves(d)
        /\ minted \in Nat /\ env.effective = 0 /\ d # NoId
        /\ assignment \in [AssignmentId -> Assignment] /\ AssignmentId \subseteq Nat
    BY ReconcileLeaves
       DEF store, StaffInv, Replicated, TypeInv, TypeOK, StoreTypeOK, DeploymentId, NoId, AssignmentId
  <1>1. release[deployment[d].rel] # "ABSENT"
    BY <1>0 DEF TypeInv, StepsInv, PassLive, RolloutReleaseKept, isTerminalPhase
  <1>2. minted' \in Nat /\ minted <= minted'
    BY <1>0 DEF PlaceLeaves
  <1>3. Replicated'
    BY <1>0, <1>2 DEF StaffInv, Replicated
  <1>4. \A e \in DeploymentId :
           /\ deployment[e].phase \in {"STARTING", "HEALTHCHECKING"} => Full(greenAssignments(e))
           /\ deployment[e].phase = "PROMOTING" => Full(UpOf(deployment[e].rel))
    BY <1>0 DEF StaffInv, Staffed, Condemned
  <1>5. /\ \A e : greenAssignments(e)' = greenAssignments(e)
        /\ \A r : UpOf(r)' = UpOf(r)
        /\ \A r : KeptOf(r) \subseteq KeptOf(r)'
    BY <1>0 DEF greenAssignments, UpOf, Up, KeptOf, Kept
  <1>6. env'.active # NoId => Full(KeptOf(env.active)')
    <2>1. KeptOf(env.active)' \subseteq AssignmentId
      BY DEF KeptOf, UpOf
    <2> QED BY <1>0, <1>5, <2>1, FullGrows DEF StaffInv, Staffed
  <1>7. ASSUME ~Idle' =>
                 /\ GoalPhase({"STARTING"})' => Full(greenAssignments(Goal'.dep))
                 /\ GoalPhase({"PROMOTING"})' => Full(UpOf(deployment[Goal'.dep].rel))
        PROVE  Staffed'
    BY <1>0, <1>4, <1>5, <1>6, <1>7 DEF Staffed, Full
  \* The goal alone is left.
  <1>8. ASSUME NEW p, todo' = setPhase(d, p),
               p = "HEALTHCHECKING" => deployment[d].phase = "STARTING",
               p # "DRAINING_OLD",
               p = "SUCCEEDED" <=> deployment[d].phase = "DRAINING_OLD",
               p = "STARTING" => Full(greenAssignments(d)),
               p = "PROMOTING" => Full(UpOf(deployment[d].rel))
        PROVE  StaffInv'
    <2>1. /\ ~Idle' /\ Len(todo') = 1 /\ todo'[1] = Goal' /\ Goal'.dep = d
          /\ Goal'.op = "SetDeploymentPhase" /\ Goal'.phase = p
          /\ \A phases : GoalPhase(phases)' <=> p \in phases
      BY <1>8, LeftOne
    <2>2. Staffed'
      BY <1>7, <1>8, <2>1
    <2>3. PhaseOfGoal'
      BY <1>0, <1>8, <2>1 DEF PhaseOfGoal
    <2>4. ReplicasOfGoal'
      BY <2>1 DEF ReplicasOfGoal
    <2> QED BY <1>3, <2>2, <2>3, <2>4 DEF StaffInv
  \* A command is left before it.
  <1>9. ASSUME NEW c, NEW g, todo' = <<c, g>>, g.dep = d,
               \/ /\ g.op = "SetDeploymentPhase"
                  /\ g.phase \in {"FAILED", "SUPERSEDED", "PLACING"}
                  /\ deployment[d].phase # "DRAINING_OLD"
               \/ /\ g.op = "SetDeploymentPhase" /\ g.phase = "DRAINING_OLD"
                  /\ deployment[d].phase = "PROMOTING"
               \/ /\ g.op = "SetDeploymentPhase" /\ g.phase = "SUCCEEDED"
                  /\ deployment[d].phase = "DRAINING_OLD"
               \/ g.op = "RecheckGreen" /\ deployment[d].phase = "PLACING",
               c.op = "DeleteAssignments" =>
                  /\ g.op = "SetDeploymentPhase" /\ g.phase \in {"FAILED", "SUPERSEDED"}
                  /\ \A a \in c.ids : assignment[a].dep = d,
               c.op = "PutAssignments" =>
                  \A a \in AssignmentId : c.puts[a] # NoAssignment =>
                     /\ a <= minted'
                     /\ \/ /\ g.op = "RecheckGreen" /\ assignment[a] = NoAssignment
                           /\ c.puts[a].dep = d /\ c.puts[a].rel = deployment[d].rel
                        \/ /\ g.op = "SetDeploymentPhase" /\ g.phase = "SUCCEEDED"
                           /\ c.puts[a].desired = "STOP"
                           /\ assignment[a].rel = deployment[d].prev
        PROVE  StaffInv'
    <2>1. /\ ~Idle' /\ Len(todo') = 2 /\ todo'[1] = c /\ Goal' = g
          /\ \A phases : GoalPhase(phases)' <=> g.op = "SetDeploymentPhase" /\ g.phase \in phases
      BY <1>9, LeftTwo
    <2>2. Staffed'
      BY <1>7, <1>9, <2>1
    <2>3. PhaseOfGoal'
      BY <1>0, <1>9, <2>1 DEF PhaseOfGoal
    <2>4. ReplicasOfGoal'
      BY <1>0, <1>9, <2>1 DEF ReplicasOfGoal
    <2> QED BY <1>3, <2>2, <2>3, <2>4 DEF StaffInv
  <1>10. CASE todo' = <<>>
    <2>1. Idle'
      BY <1>10 DEF Idle
    <2>2. Staffed'
      BY <1>7, <2>1
    <2> QED BY <1>3, <2>1, <2>2 DEF StaffInv, PhaseOfGoal, ReplicasOfGoal
  <1>11. ASSUME NEW p \in {"FAILED", "SUPERSEDED"}, todo' = reapGreen(d, p),
                deployment[d].phase # "DRAINING_OLD"
         PROVE  StaffInv'
    <2>1. CASE greenAssignments(d) = {}
      BY <1>8, <1>11, <2>1 DEF reapGreen
    <2>2. CASE greenAssignments(d) # {}
      <3> DEFINE c == DeleteAssignments(greenAssignments(d))
                 g == SetDeploymentPhase(d, p)
      <3>1. todo' = <<c, g>>
        BY <1>11, <2>2 DEF reapGreen
      <3>2. /\ g.op = "SetDeploymentPhase" /\ g.dep = d /\ g.phase = p
            /\ c.op = "DeleteAssignments" /\ c.ids = greenAssignments(d)
        BY DEF DeleteAssignments, SetDeploymentPhase
      <3>3. \A a \in c.ids : assignment[a].dep = d
        BY <3>2 DEF greenAssignments
      <3> HIDE DEF c, g
      <3> QED BY <1>9, <1>11, <3>1, <3>2, <3>3
    <2> QED BY <2>1, <2>2
  <1>12. CASE todo' = setPhase(d, "SUCCEEDED") /\ deployment[d].phase = "DRAINING_OLD"
    BY <1>8, <1>12
  <1>13. ASSUME NEW p \in {"BUILDING", "PLACING"}, todo' = setPhase(d, p),
                deployment[d].phase \in {"PENDING", "BUILDING"}
         PROVE  StaffInv'
    BY <1>8, <1>13
  <1>14. CASE /\ todo' = setPhase(d, "STARTING") /\ deployment[d].phase = "PLACING"
              /\ Cardinality(greenAssignments(d)) >= deployReplicas
    <2>1. Full(greenAssignments(d))
      BY <1>0, <1>14 DEF deployReplicas, Full
    <2> QED BY <1>8, <1>14, <2>1
  <1>15. CASE todo' = setPhase(d, "HEALTHCHECKING") /\ deployment[d].phase = "STARTING"
    BY <1>8, <1>15
  <1>16. CASE /\ todo' = setPhase(d, "PROMOTING") /\ deployment[d].phase = "HEALTHCHECKING"
              /\ \A a \in greenAssignments(d) : assignment[a].obs = "HEALTHY"
    <2>1. greenAssignments(d) \subseteq UpOf(deployment[d].rel)
      BY <1>0, <1>16 DEF greenAssignments, UpOf, Up, StaffInv, Replicated
    <2>2. Full(UpOf(deployment[d].rel))
      BY <1>4, <1>16, <2>1, FullGrows DEF UpOf
    <2> QED BY <1>8, <1>16, <2>2
  <1>17. CASE todo' = setPhase(d, "PROMOTING") /\ deployment[d].phase = "PENDING" /\ warmEnough(d)
    <2> DEFINE warm == {a \in AssignmentId : /\ assignment[a].rel = deployment[d].rel
                                             /\ assignment[a].desired = "RUN"
                                             /\ assignment[a].obs = "HEALTHY"}
    <2>1. Full(warm)
      BY <1>0, <1>17 DEF warmEnough, deployReplicas, Full
    <2>2. warm \subseteq UpOf(deployment[d].rel)
      BY DEF UpOf, Up
    <2> HIDE DEF warm
    <2>3. Full(UpOf(deployment[d].rel))
      BY <2>1, <2>2, FullGrows DEF UpOf
    <2> QED BY <1>8, <1>17, <2>3
  <1>18. CASE /\ todo' = <<PutRelease(deployment[d].rel), SetDeploymentPhase(d, "PLACING")>>
              /\ deployment[d].phase = "BUILDING"
    BY <1>9, <1>18 DEF PutRelease, SetDeploymentPhase
  <1>19. CASE /\ todo' = <<PromoteRelease(deployment[d].rel), SetDeploymentPhase(d, "DRAINING_OLD")>>
              /\ deployment[d].phase = "PROMOTING"
    BY <1>9, <1>19 DEF PromoteRelease, SetDeploymentPhase
  <1>20. CASE /\ todo' = <<PutAssignments(FlipTo(blueAssignments(d), "STOP")),
                           SetDeploymentPhase(d, "SUCCEEDED")>>
              /\ deployment[d].phase = "DRAINING_OLD" /\ UNCHANGED minted
    <2> DEFINE c == PutAssignments(FlipTo(blueAssignments(d), "STOP"))
               g == SetDeploymentPhase(d, "SUCCEEDED")
    <2>1. /\ g.op = "SetDeploymentPhase" /\ g.dep = d /\ g.phase = "SUCCEEDED"
          /\ c.op = "PutAssignments" /\ c.puts = FlipTo(blueAssignments(d), "STOP")
      BY DEF PutAssignments, SetDeploymentPhase
    <2>2. ASSUME NEW a \in AssignmentId, c.puts[a] # NoAssignment
          PROVE  a <= minted' /\ c.puts[a].desired = "STOP" /\ assignment[a].rel = deployment[d].prev
      <3>1. a \in blueAssignments(d) /\ c.puts[a] = [assignment[a] EXCEPT !.desired = "STOP"]
        BY <2>1, <2>2 DEF FlipTo
      <3>2. assignment[a].desired = "RUN" /\ assignment[a].rel = deployment[d].prev
        BY <3>1 DEF blueAssignments
      <3>3. ~(a > minted)
        BY <3>2 DEF StaffInv, Replicated, NoAssignment
      <3> QED BY <1>0, <1>20, <3>1, <3>2, <3>3 DEF Assignment
    <2> HIDE DEF c, g
    <2>3. todo' = <<c, g>>
      BY <1>20 DEF c, g
    <2> QED BY <1>9, <1>20, <2>1, <2>2, <2>3
  <1>21. CASE PlaceLeaves(d)
    <2>1. PICK picks : /\ Len(picks) \in Nat /\ minted' = minted + Len(picks)
                       /\ todo' = <<PutAssignments(NewAssignments(picks, deployment[d].rel, d)),
                                    RecheckGreen(d)>>
      BY <1>21 DEF PlaceLeaves
    <2> DEFINE c == PutAssignments(NewAssignments(picks, deployment[d].rel, d))
               g == RecheckGreen(d)
    <2>2. /\ g.op = "RecheckGreen" /\ g.dep = d /\ c.op = "PutAssignments"
          /\ c.puts = NewAssignments(picks, deployment[d].rel, d)
      BY DEF PutAssignments, RecheckGreen
    <2>3. ASSUME NEW a \in AssignmentId, c.puts[a] # NoAssignment
          PROVE  /\ a <= minted' /\ assignment[a] = NoAssignment
                 /\ c.puts[a].dep = d /\ c.puts[a].rel = deployment[d].rel
      <3>1. a \in FreshIds(picks) /\ c.puts[a] = newAssignment(picks[a - minted], deployment[d].rel, d)
        BY <2>2, <2>3 DEF NewAssignments
      <3>2. a > minted /\ a <= minted'
        BY <1>0, <2>1, <3>1 DEF FreshIds
      <3> QED BY <3>1, <3>2 DEF newAssignment, StaffInv, Replicated
    <2> HIDE DEF c, g
    <2>4. todo' = <<c, g>>
      BY <2>1 DEF c, g
    <2> QED BY <1>9, <1>21, <2>2, <2>3, <2>4 DEF PlaceLeaves
  <1> QED
    BY <1>0, <1>1, <1>10, <1>11, <1>12, <1>13, <1>14, <1>15, <1>16, <1>17, <1>18, <1>19, <1>20, <1>21
       DEF ArmLeaves

\* A new deployment has no replicas, and no arm is about it.
LEMMA CommitStaff ==
    ASSUME TypeInv, FreshDeployments, StaffInv, NEW q \in requests, CommitDeployment(q),
           UNCHANGED orch
    PROVE  StaffInv'
  <1>0. q.dep \in DeploymentId /\ deployment[q.dep].phase = "ABSENT"
    BY DEF CommitDeployment, TypeInv, StepsInv, NamesRelease, Numbered, FreshDeployments
  <1>1. /\ \A d \in DeploymentId : d # q.dep => deployment'[d] = deployment[d]
        /\ deployment'[q.dep].phase = "PENDING"
        /\ UNCHANGED <<env, assignment, minted, todo, Idle, Goal>>
    BY <1>0 DEF CommitDeployment, TypeInv, TypeOK, StoreTypeOK, orch, Idle, Goal
  <1>2. ~Idle => Goal.dep \in DeploymentId /\ Goal.dep # q.dep
    <2>1. ~Idle => /\ Goal.op \in {"SetDeploymentPhase", "RecheckGreen"}
                   /\ deployment[Goal.dep].phase \in LivePhase
      BY DEF TypeInv, StepsInv, PassLive
    <2> QED BY <1>0, <2>1, RestOfArm DEF Step, LivePhase, RolloutPhase
  <1>3. \A phases : GoalPhase(phases)' <=> GoalPhase(phases)
    BY <1>1 DEF GoalPhase
  <1>4. \A a \in AssignmentId : assignment[a].desired = "RUN" /\ assignment[a].dep # NoId =>
           assignment[a].dep # q.dep
    BY <1>0 DEF StaffInv, Replicated, RolloutPhase, TerminalPhase
  <1>5. Replicated'
    <2>1. \A a \in AssignmentId : assignment[a].dep # NoId => assignment[a].dep \in DeploymentId
      BY DEF TypeInv, TypeOK, StoreTypeOK, Assignment
    <2> QED BY <1>1, <1>4, <2>1 DEF StaffInv, Replicated
  <1>6. PhaseOfGoal'
    BY <1>1, <1>2, <1>3 DEF StaffInv, PhaseOfGoal
  <1>7. ReplicasOfGoal'
    BY <1>1, <1>2, <1>3 DEF StaffInv, ReplicasOfGoal
  <1>8. /\ \A d \in DeploymentId : Condemned(d)' <=> Condemned(d)
        /\ \A d \in DeploymentId : greenAssignments(d)' = greenAssignments(d)
        /\ \A r : UpOf(r)' = UpOf(r)
    BY <1>1, <1>3 DEF Condemned, greenAssignments, UpOf, Up
  <1>9. KeptOf(env.active)' = KeptOf(env.active)
    <2>1. \A a \in AssignmentId : Up(a) => (Kept(a)' <=> Kept(a))
      <3> SUFFICES ASSUME NEW a \in AssignmentId, Up(a), assignment[a].dep # NoId
                   PROVE  Kept(a)' <=> Kept(a)
        BY <1>1 DEF Kept
      <3>1. assignment[a].dep \in DeploymentId /\ assignment[a].dep # q.dep
        BY <1>4 DEF Up, TypeInv, TypeOK, StoreTypeOK, Assignment
      <3> QED BY <1>1, <1>3, <3>1 DEF Kept
    <2> QED BY <1>1, <1>8, <2>1 DEF KeptOf, UpOf
  <1>10. Staffed'
    BY <1>0, <1>1, <1>2, <1>3, <1>8, <1>9 DEF StaffInv, Staffed, Full
  <1> QED BY <1>5, <1>6, <1>7, <1>10 DEF StaffInv

\* An agent's report changes what is observed, and never for the worse when
\* instances do not regress.
LEMMA ReportStaff ==
    ASSUME TypeInv, StaffInv, NEW b \in AssignmentId, Report(b)
    PROVE  StaffInv'
  <1>0. PICK s \in Reports :
           /\ Stored(b) /\ assignment' = [assignment EXCEPT ![b].obs = MergeObserved(assignment[b].obs, s)]
           /\ UNCHANGED <<env, deployment, minted, todo>>
    BY DEF Report, SetAssignmentObserved, orch
  <1>1. /\ assignment \in [AssignmentId -> Assignment]
        /\ \A a \in AssignmentId : a # b => assignment'[a] = assignment[a]
        /\ assignment[b] # NoAssignment
    BY <1>0 DEF TypeInv, TypeOK, StoreTypeOK, Stored, NoAssignment
  <1>2. \A a \in AssignmentId :
           /\ assignment'[a].dep = assignment[a].dep /\ assignment'[a].rel = assignment[a].rel
           /\ assignment'[a].desired = assignment[a].desired
    BY <1>0, <1>1 DEF Assignment
  <1>3. \A a \in AssignmentId : Up(a) => Up(a)'
    <2>1. assignment'[b].obs = MergeObserved(assignment[b].obs, s)
      BY <1>0, <1>1 DEF Assignment
    <2>2. Steady /\ assignment[b].obs = "HEALTHY" => assignment'[b].obs = "HEALTHY"
      BY <2>1 DEF Steady, MergeObserved
    <2> QED BY <1>1, <1>2, <2>2 DEF Up, Steady
  <1>4. UNCHANGED <<Idle, Goal>> /\ \A phases : GoalPhase(phases)' <=> GoalPhase(phases)
    BY <1>0 DEF Idle, Goal, GoalPhase
  <1>5. /\ \A d \in DeploymentId : Condemned(d)' <=> Condemned(d)
        /\ \A d : greenAssignments(d)' = greenAssignments(d)
        /\ \A r : UpOf(r) \subseteq UpOf(r)' /\ UpOf(r)' \subseteq AssignmentId
        /\ \A r : KeptOf(r) \subseteq KeptOf(r)' /\ KeptOf(r)' \subseteq AssignmentId
    BY <1>0, <1>2, <1>3, <1>4 DEF Condemned, greenAssignments, UpOf, KeptOf, Kept
  <1>6. Replicated'
    BY <1>0, <1>1, <1>2 DEF StaffInv, Replicated, TypeInv, TypeOK, StoreTypeOK, AssignmentId
  <1>7. PhaseOfGoal'
    BY <1>0, <1>4 DEF StaffInv, PhaseOfGoal
  <1>8. ReplicasOfGoal'
    BY <1>0, <1>1, <1>2, <1>4 DEF StaffInv, ReplicasOfGoal
  <1>9. Staffed'
    <2>1. \A r : (Full(UpOf(r)) => Full(UpOf(r)')) /\ (Full(KeptOf(r)) => Full(KeptOf(r)'))
      BY <1>5, FullGrows
    <2> QED BY <1>0, <1>4, <1>5, <2>1 DEF StaffInv, Staffed, Full
  <1> QED BY <1>6, <1>7, <1>8, <1>9 DEF StaffInv

\* place counts again, and goes on to STARTING only with the full set.
LEMMA RecheckStaff ==
    ASSUME TypeInv, StaffInv, RecheckPlacement
    PROVE  StaffInv'
  <1>0. /\ ~Idle /\ Goal.op = "RecheckGreen" /\ Goal.dep \in DeploymentId
        /\ UNCHANGED <<env, deployment, assignment, minted>>
        /\ deployment[Goal.dep].phase = "PLACING"
    BY RecheckKinds DEF RecheckPlacement, StaffInv, PhaseOfGoal
  <1>1. \/ todo' = <<>>
        \/ todo' = setPhase(Goal.dep, "STARTING") /\ Full(greenAssignments(Goal.dep))
    <2>1. todo' = IF Cardinality(greenAssignments(Goal.dep)) >= deployReplicas
                  THEN setPhase(Goal.dep, "STARTING") ELSE <<>>
      <3>1. Head(todo) = todo[1] /\ todo[1] = Goal
        BY <1>0, RestOfArm, RecheckKinds
      <3> QED BY <3>1 DEF RecheckPlacement
    <2> QED BY <2>1 DEF deployReplicas, Full, StaffInv, Replicated
  <1>2. Replicated'
    BY <1>0 DEF StaffInv, Replicated
  <1>3. /\ \A e : greenAssignments(e)' = greenAssignments(e)
        /\ \A r : UpOf(r)' = UpOf(r)
        /\ \A r : KeptOf(r) \subseteq KeptOf(r)' /\ KeptOf(r)' \subseteq AssignmentId
        /\ \A e \in DeploymentId : ~Condemned(e)
    BY <1>0 DEF greenAssignments, UpOf, Up, KeptOf, Kept, GoalPhase, Condemned
  <1>4. env'.active # NoId => Full(KeptOf(env.active)')
    BY <1>0, <1>3, FullGrows DEF StaffInv, Staffed
  <1>5. CASE todo' = <<>>
    BY <1>0, <1>2, <1>3, <1>4, <1>5
       DEF StaffInv, Staffed, Full, Idle, PhaseOfGoal, ReplicasOfGoal
  <1>6. CASE todo' = setPhase(Goal.dep, "STARTING") /\ Full(greenAssignments(Goal.dep))
    <2>1. PICK d \in DeploymentId : d = Goal.dep
      BY <1>0
    <2>2. todo' = setPhase(d, "STARTING") /\ Full(greenAssignments(d)) /\ deployment[d].phase = "PLACING"
      BY <1>0, <1>6, <2>1
    <2>3. /\ ~Idle' /\ Len(todo') = 1 /\ todo'[1] = Goal' /\ Goal'.dep = d
          /\ Goal'.op = "SetDeploymentPhase" /\ Goal'.phase = "STARTING"
          /\ \A phases : GoalPhase(phases)' <=> "STARTING" \in phases
      BY <2>2, LeftOne
    <2>4. PhaseOfGoal' /\ ReplicasOfGoal'
      BY <1>0, <2>2, <2>3 DEF PhaseOfGoal, ReplicasOfGoal
    <2>5. Staffed'
      BY <1>0, <1>3, <1>4, <2>2, <2>3 DEF StaffInv, Staffed, Full
    <2> QED BY <1>2, <2>4, <2>5 DEF StaffInv
  <1> QED BY <1>1, <1>5, <1>6

\* The last command of an arm sets the phase its replicas are ready for.
LEMMA GoalStaff ==
    ASSUME TypeInv, StaffInv, ~Idle, todo' = <<>>, Goal.op = "SetDeploymentPhase",
           Goal.dep \in DeploymentId, deployment \in [DeploymentId -> Deployment],
           deployment' = [deployment EXCEPT ![Goal.dep].phase = Goal.phase],
           UNCHANGED <<env, assignment, minted>>
    PROVE  StaffInv'
  <1>0. PICK g, p : g = Goal.dep /\ p = Goal.phase /\ g \in DeploymentId
    OBVIOUS
  <1>1. /\ \A d \in DeploymentId : /\ d # g => deployment'[d] = deployment[d]
                                   /\ deployment'[d].rel = deployment[d].rel
        /\ deployment'[g].phase = p
        /\ Idle' /\ \A phases : GoalPhase(phases) <=> p \in phases
    BY <1>0 DEF Deployment, Idle, GoalPhase
  <1>2. p \in RolloutPhase \cup TerminalPhase /\ deployment[g].phase \in LivePhase
    BY <1>0 DEF TypeInv, StepsInv, PassLive
  <1>3. \A a \in AssignmentId : assignment[a].dep # NoId => assignment[a].dep \in DeploymentId
    BY DEF TypeInv, TypeOK, StoreTypeOK, Assignment
  <1>4. Replicated'
    BY <1>1, <1>2, <1>3 DEF StaffInv, Replicated
  <1>5. /\ \A e : greenAssignments(e)' = greenAssignments(e)
        /\ \A r : UpOf(r)' = UpOf(r) /\ UpOf(r) \subseteq AssignmentId
    BY DEF greenAssignments, UpOf, Up
  <1>6. \A d \in DeploymentId : d # g => ~Condemned(d)
    BY <1>0 DEF Condemned
  <1>7. p \notin {"FAILED", "SUPERSEDED"} => ~Condemned(g)
    BY <1>1 DEF Condemned
  <1>8. /\ p = "HEALTHCHECKING" => deployment[g].phase = "STARTING"
        /\ p = "SUCCEEDED" <=> deployment[g].phase = "DRAINING_OLD"
    BY <1>0, <1>1 DEF StaffInv, PhaseOfGoal
  <1>9. /\ p \in {"STARTING", "HEALTHCHECKING"} => Full(greenAssignments(g))
        /\ p = "PROMOTING" => Full(UpOf(deployment[g].rel))
    BY <1>0, <1>1, <1>7, <1>8 DEF StaffInv, Staffed
  <1>10. ASSUME NEW a \in AssignmentId, Kept(a) PROVE Kept(a)'
    <2>1. CASE assignment[a].dep = g
      BY <1>0, <1>1, <1>2, <1>8, <1>10, <2>1 DEF Kept, LivePhase, RolloutPhase
    <2>2. CASE assignment[a].dep # g
      BY <1>0, <1>1, <1>3, <1>10, <2>2 DEF Kept
    <2> QED BY <2>1, <2>2
  <1>11. \A r : KeptOf(r) \subseteq KeptOf(r)' /\ KeptOf(r)' \subseteq AssignmentId
    BY <1>5, <1>10 DEF KeptOf
  <1>12. env.active # NoId => Full(KeptOf(env.active)')
    BY <1>11, FullGrows DEF StaffInv, Staffed
  <1>13. \A d \in DeploymentId :
            /\ deployment'[d].phase \in {"STARTING", "HEALTHCHECKING"} => Full(greenAssignments(d))
            /\ deployment'[d].phase = "PROMOTING" => Full(UpOf(deployment[d].rel))
    BY <1>1, <1>6, <1>9 DEF StaffInv, Staffed
  <1>14. Staffed'
    BY <1>1, <1>5, <1>12, <1>13 DEF Staffed, Full
  <1> QED BY <1>1, <1>4, <1>14 DEF StaffInv, PhaseOfGoal, ReplicasOfGoal

\* The command before it takes nothing away that is needed.
LEMMA CommandStaff ==
    ASSUME RolloutReleaseKept, TypeInv, OrderInv, ReapInv, SwitchInv, Forward, StaffInv,
           ~Idle, Goal.dep \in DeploymentId, Len(todo) = 2, Len(todo') = 1, todo' # <<>>,
           todo'[1] = Goal, Goal' = Goal,
           todo[1] \in Step, todo[1].op # "SetDeploymentPhase", Apply(todo[1]),
           UNCHANGED <<deployment, minted>>
    PROVE  StaffInv'
  <1>0. PICK g \in DeploymentId : g = Goal.dep
    OBVIOUS
  <1>1. /\ ~Idle' /\ \A phases : GoalPhase(phases)' <=> GoalPhase(phases)
        /\ \A d \in DeploymentId : Condemned(d)' <=> Condemned(d)
        /\ Goal.op \in {"SetDeploymentPhase", "RecheckGreen"}
        /\ deployment[g].phase \in LivePhase
        /\ \A a \in AssignmentId : assignment[a].dep # NoId => assignment[a].dep \in DeploymentId
        /\ assignment \in [AssignmentId -> Assignment] /\ env \in Environment
    BY <1>0 DEF Idle, GoalPhase, Condemned, TypeInv, TypeOK, StoreTypeOK, StepsInv, PassLive, Assignment
  <1>2. PhaseOfGoal'
    BY <1>1 DEF StaffInv, PhaseOfGoal
  <1>3. ReplicasOfGoal'
    BY <1>1 DEF ReplicasOfGoal
  <1>4. \A S, T : S \subseteq T /\ T \subseteq AssignmentId /\ Full(S) => Full(T)
    BY FullGrows
  \* The replicas of the deployments that need them are still there.
  <1>5. ASSUME Replicated', UNCHANGED env,
               \A d \in DeploymentId : deployment[d].phase \in {"STARTING", "HEALTHCHECKING"}
                                       /\ ~Condemned(d) =>
                  greenAssignments(d) \subseteq greenAssignments(d)',
               \A d \in DeploymentId : deployment[d].phase = "PROMOTING" /\ ~Condemned(d) =>
                  UpOf(deployment[d].rel) \subseteq UpOf(deployment[d].rel)',
               env.active # NoId => KeptOf(env.active) \subseteq KeptOf(env.active)'
        PROVE  StaffInv'
    <2>1. \A d : greenAssignments(d)' \subseteq AssignmentId
      BY DEF greenAssignments
    <2>2. \A r : UpOf(r)' \subseteq AssignmentId /\ KeptOf(r)' \subseteq AssignmentId
      BY DEF UpOf, KeptOf
    <2>3. \A d \in DeploymentId : ~Condemned(d) =>
             /\ deployment[d].phase \in {"STARTING", "HEALTHCHECKING"} => Full(greenAssignments(d)')
             /\ deployment[d].phase = "PROMOTING" => Full(UpOf(deployment[d].rel)')
      BY <1>4, <1>5, <2>1, <2>2 DEF StaffInv, Staffed
    <2>4. env.active # NoId => Full(KeptOf(env.active)')
      BY <1>4, <1>5, <2>2 DEF StaffInv, Staffed
    <2>5. ~GoalPhase({"STARTING"}) /\ ~GoalPhase({"PROMOTING"})
      BY DEF StaffInv, PhaseOfGoal, GoalPhase
    <2>6. Staffed'
      BY <1>1, <1>5, <2>3, <2>4, <2>5 DEF Staffed, Full
    <2> QED BY <1>2, <1>3, <1>5, <2>6 DEF StaffInv
  <1>6. CASE todo[1].op = "PutRelease"
    <2>1. UNCHANGED <<env, assignment>>
      BY <1>6 DEF Apply, applyPutRelease
    <2>2. Replicated'
      BY <2>1 DEF StaffInv, Replicated
    <2>3. \A d : greenAssignments(d)' = greenAssignments(d)
      BY <2>1 DEF greenAssignments
    <2>4. \A r : UpOf(r)' = UpOf(r) /\ KeptOf(r)' = KeptOf(r)
      BY <1>1, <2>1 DEF UpOf, Up, KeptOf, Kept
    <2> QED BY <1>5, <2>1, <2>2, <2>3, <2>4
  <1>7. CASE todo[1].op = "PromoteRelease"
    <2>1. /\ GoalPhase({"DRAINING_OLD"}) /\ todo[1].rel = deployment[g].rel
          /\ deployment[g].phase = "PROMOTING" /\ ~Condemned(g)
      BY <1>0, <1>7 DEF SwitchInv, SwitchedFirst, StaffInv, PhaseOfGoal, GoalPhase, Condemned
    <2>2. release[todo[1].rel] # "ABSENT"
      BY <1>1, <2>1 DEF RolloutReleaseKept, isTerminalPhase
    <2>3. /\ env'.active = deployment[g].rel /\ env'.effective = env.effective
          /\ UNCHANGED assignment
      BY <1>1, <1>7, <2>1, <2>2 DEF Apply, applyPromoteRelease, Environment
    <2>4. Replicated'
      BY <2>3 DEF StaffInv, Replicated
    <2>5. UpOf(deployment[g].rel) \subseteq KeptOf(deployment[g].rel)'
      <3> SUFFICES ASSUME NEW a \in UpOf(deployment[g].rel)
                   PROVE  a \in KeptOf(deployment[g].rel)'
        OBVIOUS
      <3>1. a \in AssignmentId /\ assignment[a].desired = "RUN" /\ a \in UpOf(deployment[g].rel)'
        BY <2>3 DEF UpOf, Up
      <3>2. CASE assignment[a].dep \in {NoId, g}
        BY <1>0, <1>1, <2>1, <2>3, <3>1, <3>2 DEF KeptOf, Kept
      <3>3. CASE assignment[a].dep \notin {NoId, g}
        <4>1. /\ assignment[a].dep \in DeploymentId
              /\ deployment[assignment[a].dep].phase \in RolloutPhase \cup TerminalPhase
          BY <1>1, <3>1, <3>3 DEF StaffInv, Replicated
        <4>2. deployment[assignment[a].dep].phase \notin RolloutPhase
          BY <2>1, <3>3, <4>1 DEF OrderInv, ExclusiveRollout, RolloutPhase
        <4>3. deployment[assignment[a].dep].phase \notin {"FAILED", "SUPERSEDED"}
          BY <3>1, <4>1 DEF ReapInv, NoLeakedGreen, greenAssignments
        <4>4. deployment[assignment[a].dep].phase = "SUCCEEDED"
          BY <4>1, <4>2, <4>3 DEF TerminalPhase
        <4> QED BY <2>3, <3>1, <4>4 DEF KeptOf, Kept
      <3> QED BY <3>2, <3>3
    <2>6. Full(KeptOf(deployment[g].rel)')
      <3>1. KeptOf(deployment[g].rel)' \subseteq AssignmentId
        BY DEF KeptOf, UpOf
      <3>2. Full(UpOf(deployment[g].rel))
        BY <2>1 DEF StaffInv, Staffed
      <3> QED BY <1>4, <2>5, <3>1, <3>2
    <2>7. /\ \A d : greenAssignments(d)' = greenAssignments(d)
          /\ \A r : UpOf(r)' = UpOf(r)
      BY <2>3 DEF greenAssignments, UpOf, Up
    <2>8. Staffed'
      BY <1>1, <2>3, <2>6, <2>7 DEF StaffInv, Staffed, Full
    <2> QED BY <1>2, <1>3, <2>4, <2>8 DEF StaffInv
  <1>8. CASE todo[1].op = "DeleteAssignments"
    <2>1. /\ GoalPhase({"FAILED", "SUPERSEDED"}) /\ Condemned(g)
          /\ \A a \in todo[1].ids : assignment[a].dep = g
          /\ deployment[g].phase # "DRAINING_OLD"
      BY <1>0, <1>8 DEF StaffInv, ReplicasOfGoal, PhaseOfGoal, GoalPhase, Condemned
    <2>2. /\ UNCHANGED env
          /\ assignment' = [a \in AssignmentId |-> IF a \in todo[1].ids THEN NoAssignment ELSE assignment[a]]
      BY <1>8 DEF Apply, applyDeleteAssignments
    <2>3. \A a \in AssignmentId : assignment'[a] = assignment[a] \/ (assignment'[a] = NoAssignment /\ assignment[a].dep = g)
      BY <2>1, <2>2
    <2>4. Replicated'
      BY <2>2, <2>3 DEF StaffInv, Replicated, NoAssignment
    <2>5. \A d \in DeploymentId : ~Condemned(d) => d # g
      BY <2>1
    <2>6. \A d \in DeploymentId : ~Condemned(d) => greenAssignments(d) \subseteq greenAssignments(d)'
      BY <2>3, <2>5 DEF greenAssignments
    <2>7. ASSUME NEW d \in DeploymentId, deployment[d].phase = "PROMOTING", ~Condemned(d)
          PROVE  UpOf(deployment[d].rel) \subseteq UpOf(deployment[d].rel)'
      <3>1. d # g /\ deployment[g].phase \notin RolloutPhase \cup TerminalPhase
        BY <1>1, <2>5, <2>7 DEF OrderInv, ExclusiveRollout, RolloutPhase, LivePhase, TerminalPhase
      <3>2. \A a \in AssignmentId : Up(a) => assignment[a].dep # g
        BY <3>1 DEF Up, StaffInv, Replicated, DeploymentId, NoId
      <3> QED BY <2>3, <3>2 DEF UpOf, Up
    <2>8. KeptOf(env.active) \subseteq KeptOf(env.active)'
      <3>1. \A a \in AssignmentId : Kept(a) => assignment[a].dep # g
        BY <1>0, <1>1, <2>1 DEF Kept, LivePhase, RolloutPhase, GoalPhase, DeploymentId, NoId
      <3>2. \A a \in AssignmentId : Kept(a) => assignment'[a] = assignment[a]
        BY <2>3, <3>1
      <3> QED BY <1>1, <2>2, <3>2 DEF KeptOf, UpOf, Up, Kept
    <2> QED BY <1>5, <2>2, <2>4, <2>6, <2>7, <2>8
  <1>9. CASE todo[1].op = "PutAssignments"
    <2> DEFINE put(a) == todo[1].puts[a]
    <2>1. /\ UNCHANGED env
          /\ \A a \in AssignmentId :
                assignment'[a] = IF put(a) # NoAssignment THEN put(a) ELSE assignment[a]
      BY <1>9 DEF Apply, applyPutAssignments
    <2>2. \A a \in AssignmentId : put(a) # NoAssignment =>
             /\ a <= minted
             /\ \/ /\ Goal.op = "RecheckGreen" /\ assignment[a] = NoAssignment
                   /\ put(a).dep = g /\ put(a).rel = deployment[g].rel
                \/ /\ GoalPhase({"SUCCEEDED"}) /\ put(a).desired = "STOP"
                   /\ assignment[a].rel = deployment[g].prev
      BY <1>0, <1>9 DEF StaffInv, ReplicasOfGoal
    <2> HIDE DEF put
    <2>3. AssignmentId \subseteq Nat /\ minted \in Nat
      BY DEF AssignmentId, TypeInv, TypeOK, StoreTypeOK
    <2>4. CASE Goal.op = "RecheckGreen"
      <3>1. \A a \in AssignmentId :
               \/ assignment'[a] = assignment[a]
               \/ /\ assignment[a] = NoAssignment /\ a <= minted
                  /\ assignment'[a].dep = g /\ assignment'[a].rel = deployment[g].rel
        BY <2>1, <2>2, <2>4 DEF GoalPhase
      <3>2. deployment[g].phase = "PLACING"
        BY <1>0, <2>4 DEF StaffInv, PhaseOfGoal
      <3>3. \A a \in AssignmentId : a > minted => assignment'[a] = NoAssignment
        BY <2>3, <3>1 DEF StaffInv, Replicated
      <3>4. Replicated'
        BY <2>1, <3>1, <3>2, <3>3 DEF StaffInv, Replicated, RolloutPhase
      <3>5. \A a \in AssignmentId : assignment[a].desired = "RUN" => assignment'[a] = assignment[a]
        BY <3>1 DEF NoAssignment
      <3>6. \A d : greenAssignments(d) \subseteq greenAssignments(d)'
        BY <3>5 DEF greenAssignments
      <3>7. \A r : UpOf(r) \subseteq UpOf(r)' /\ KeptOf(r) \subseteq KeptOf(r)'
        BY <1>1, <3>5 DEF UpOf, Up, KeptOf, Kept
      <3> QED BY <1>5, <2>1, <3>4, <3>6, <3>7
    <2>5. CASE Goal.op # "RecheckGreen"
      <3>1. \A a \in AssignmentId :
               \/ assignment'[a] = assignment[a]
               \/ /\ assignment'[a].desired = "STOP" /\ a <= minted
                  /\ assignment[a].rel = deployment[g].prev /\ GoalPhase({"SUCCEEDED"})
        BY <2>1, <2>2, <2>5
      <3>2. CASE UNCHANGED assignment
        <4>1. Replicated'
          BY <2>1, <3>2 DEF StaffInv, Replicated
        <4>2. \A d : greenAssignments(d)' = greenAssignments(d)
          BY <3>2 DEF greenAssignments
        <4>3. \A r : UpOf(r)' = UpOf(r) /\ KeptOf(r)' = KeptOf(r)
          BY <1>1, <3>2 DEF UpOf, Up, KeptOf, Kept
        <4> QED BY <1>5, <2>1, <4>1, <4>2, <4>3
      <3>3. CASE GoalPhase({"SUCCEEDED"})
        <4>1. /\ deployment[g].phase = "DRAINING_OLD" /\ env.active = deployment[g].rel
              /\ deployment[g].rel # deployment[g].prev
          BY <1>0, <3>3 DEF StaffInv, PhaseOfGoal, SwitchInv, DrainingHasSwitched, Forward
        <4>2. \A d \in DeploymentId : deployment[d].phase \notin {"STARTING", "HEALTHCHECKING", "PROMOTING"}
          BY <4>1 DEF OrderInv, ExclusiveRollout, RolloutPhase
        <4>3. \A a \in AssignmentId : a > minted => assignment'[a] = NoAssignment
          BY <2>3, <3>1 DEF StaffInv, Replicated
        <4>4. Replicated'
          BY <2>1, <3>1, <4>3 DEF StaffInv, Replicated
        <4>5. \A a \in AssignmentId : assignment[a].rel = env.active => assignment'[a] = assignment[a]
          BY <3>1, <4>1
        <4>6. KeptOf(env.active) \subseteq KeptOf(env.active)'
          BY <1>1, <2>1, <4>5 DEF KeptOf, UpOf, Up, Kept
        <4> QED BY <1>5, <2>1, <4>2, <4>4, <4>6
      <3>4. CASE ~GoalPhase({"SUCCEEDED"})
        <4>1. \A a \in AssignmentId : assignment'[a] = assignment[a]
          BY <3>1, <3>4
        <4>2. assignment' = [a \in AssignmentId |-> assignment'[a]]
          BY <1>9 DEF Apply, applyPutAssignments
        <4>3. UNCHANGED assignment
          BY <1>1, <4>1, <4>2
        <4> QED BY <3>2, <4>3
      <3> QED BY <3>3, <3>4
    <2> QED BY <2>4, <2>5
  <1> QED BY <1>6, <1>7, <1>8, <1>9 DEF Apply

LEMMA NextStaff ==
    ASSUME "timeout" \notin Faults, RolloutReleaseKept, LeaderChange => Idle,
           TypeInv, OrderInv, ReapInv, FreshDeployments, SwitchInv, Forward, StaffInv, [Next]_vars
    PROVE  StaffInv'
  <1>1. CASE ApiStep /\ UNCHANGED <<orch, doomed>>
    <2>1. CASE \E q \in requests : CommitDeployment(q)
      BY <1>1, <2>1, CommitStaff
    <2>2. CASE ~\E q \in requests : CommitDeployment(q)
      BY <1>1, <2>2, StaffUntouched DEF ApiStep, DeployGit, resolveEnv, Refuse, Check,
         buildDeployment, Rollback, CommitBuild, CommitRelease, orch, store
    <2> QED BY <2>1, <2>2
  <1>2. CASE BeginPass
    BY <1>2, StaffUntouched DEF BeginPass, store
  <1>3. CASE ApplyNext
    BY <1>3, ApplyKinds, GoalStaff, CommandStaff DEF ApplyNext
  <1>4. CASE RecheckPlacement
    BY <1>4, RecheckStaff
  <1>5. CASE \E d \in DeploymentId : reconcile(d)
    BY <1>5, ReconcileStaff
  <1>6. CASE LeaderChange
    BY <1>6, StaffUntouched DEF LeaderChange, Failover, Idle, store
  <1>7. CASE Sweep \/ Abandon \/ \E d \in DeploymentId : FinishBuild(d)
    BY <1>7, StaffUntouched DEF Sweep, sweepEnv, DeleteRelease, Abandon, AbandonRequest, FinishBuild,
       orch, store
  <1>8. CASE \E a \in AssignmentId : Report(a)
    BY <1>8, ReportStaff
  <1>9. CASE UNCHANGED vars
    BY <1>9, StaffUntouched DEF vars, store, orch
  <1> QED
    BY <1>1, <1>2, <1>3, <1>4, <1>5, <1>6, <1>7, <1>8, <1>9 DEF Next, OrchStep, Timeout

\* Only the traffic switch changes which release serves, and it changes nothing else.
LEMMA NextTraffic ==
    ASSUME TypeInv, [Next]_vars
    PROVE  UNCHANGED env \/ (UNCHANGED assignment /\ env'.active # NoId)
  <1>1. CASE ApiStep
    BY <1>1 DEF ApiStep, DeployGit, resolveEnv, Refuse, Check, buildDeployment, Rollback,
       CommitBuild, CommitRelease, CommitDeployment, store
  <1>2. CASE BeginPass \/ RecheckPlacement \/ LeaderChange \/ Timeout
    BY <1>2 DEF BeginPass, RecheckPlacement, LeaderChange, Failover, Timeout, ApplyTimesOut, store
  <1>3. CASE \E d \in DeploymentId : reconcile(d)
    BY <1>3, ReconcileLeaves DEF store
  <1>4. CASE ApplyNext
    <2>1. Apply(todo[1]) /\ todo[1] \in Step /\ env \in Environment
      BY <1>4, RestOfArm DEF ApplyNext, TypeInv, TypeOK, StoreTypeOK
    <2>2. CASE todo[1].op = "PromoteRelease"
      <3>1. todo[1].rel # NoId
        BY <2>1, <2>2 DEF Step, ReleaseId, NoId
      <3> QED BY <2>1, <2>2, <3>1 DEF Apply, applyPromoteRelease, Environment
    <2>3. CASE todo[1].op # "PromoteRelease"
      BY <2>1, <2>3 DEF Apply, applyPutAssignments, applyDeleteAssignments,
         applySetDeploymentPhase, applyPutRelease
    <2> QED BY <2>2, <2>3
  <1>5. CASE Sweep \/ Abandon
    BY <1>5 DEF Sweep, sweepEnv, DeleteRelease, Abandon, AbandonRequest, store
  <1>6. CASE (\E d \in DeploymentId : FinishBuild(d)) \/ (\E a \in AssignmentId : Report(a))
    BY <1>6 DEF FinishBuild, Report, SetAssignmentObserved
  <1>7. CASE UNCHANGED vars
    BY <1>7 DEF vars, store
  <1> QED
    BY <1>1, <1>2, <1>3, <1>4, <1>5, <1>6, <1>7 DEF Next, OrchStep

\* Enough of the replicas that are up are replicas of the release that serves.
LEMMA StaffedReady ==
    ASSUME StaffInv
    PROVE  ServingStaffed /\ (Steady => ServingHealthy)
  <1> SUFFICES ASSUME env.active # NoId
               PROVE  /\ Cardinality(Replicas(env.active)) >= MinReplicas
                      /\ Steady => Cardinality(HealthyReplicas(env.active)) >= MinReplicas
    BY DEF ServingStaffed, ServingHealthy
  <1>1. Full(KeptOf(env.active))
    BY DEF StaffInv, Staffed
  <1>2. KeptOf(env.active) \subseteq Replicas(env.active)
    BY DEF KeptOf, UpOf, Up, Replicas
  <1>3. Steady => KeptOf(env.active) \subseteq HealthyReplicas(env.active)
    BY DEF KeptOf, UpOf, Up, Replicas, HealthyReplicas
  <1>4. Full(Replicas(env.active)) /\ (Steady => Full(HealthyReplicas(env.active)))
    BY <1>1, <1>2, <1>3, FullGrows DEF Replicas, HealthyReplicas
  <1> QED BY <1>4 DEF Full

\* A step of the rollout is a step of Serving, or changes nothing that Serving sees.
LEMMA RefinedStep ==
    ASSUME TypeInv, TypeOK', ServingStaffed', [Next]_vars
    PROVE  Abs!Next
  <1> DEFINE ready == {r \in ReleaseId : Cardinality(Replicas(r)) >= MinReplicas}
  <1>1. env'.active # NoId => env'.active \in ready'
    BY DEF ServingStaffed, TypeOK, StoreTypeOK, Environment
  <1>2. CASE UNCHANGED env
    <2>1. Abs!Restaff
      BY <1>1, <1>2 DEF Abs!Restaff
    <2> QED BY <2>1 DEF Abs!Next
  <1>3. CASE UNCHANGED assignment /\ env'.active # NoId
    <2>1. ready' = ready
      BY <1>3 DEF Replicas
    <2>2. Abs!Switch
      BY <1>1, <1>3, <2>1 DEF Abs!Switch
    <2> QED BY <2>2 DEF Abs!Next
  <1> QED BY <1>2, <1>3, NextTraffic

\* Everything the staffing of the release that serves rests on.
TrafficInv ==
    /\ TypeInv /\ OrderInv /\ ReapInv /\ FreshDeployments
    /\ SwitchInv /\ Versions /\ Forward /\ StaffInv

LEMMA InitTraffic == Init => TrafficInv
  BY InitTypes, InitOrder, InitReap, InitFresh, InitSwitch, InitVersions, InitForward, InitStaff
     DEF TrafficInv

LEMMA NextTrafficInv ==
    ASSUME "timeout" \notin Faults, "rollbackToActive" \notin Inputs, RolloutReleaseKept,
           [LeaderChange => Idle]_vars, TrafficInv, [Next]_vars
    PROVE  TrafficInv'
  <1>0. /\ TypeInv /\ OrderInv /\ ReapInv /\ FreshDeployments
        /\ SwitchInv /\ Versions /\ Forward /\ StaffInv
    BY DEF TrafficInv
  <1>1. TypeInv' /\ OrderInv' /\ FreshDeployments' /\ SwitchInv'
    BY <1>0, NextTypes, NextOrder, NextFresh, NextSwitch
  <1>2. ReapInv'
    BY <1>0, NextReap
  <1>3. Versions' /\ Forward'
    BY <1>0, NextVersions, NextForward
  <1>4. StaffInv'
    <2>1. CASE LeaderChange => Idle
      BY <1>0, <2>1, NextStaff
    <2>2. CASE UNCHANGED vars
      BY <1>0, <2>2, StaffUntouched DEF vars, store, orch
    <2> QED BY <2>1, <2>2
  <1> QED BY <1>1, <1>2, <1>3, <1>4 DEF TrafficInv

\* The orchestrator's commands switch traffic to releases with their full set of
\* replicas only, and leave that set alone while the release serves, as long as no
\* leader is replaced in the middle of an arm, the outcome of every command is
\* known, retention deletes nothing that is being rolled out and no rollback asks
\* for the release that serves.  Each of the four is needed: a leader replaced inside
\* abort leaves a deployment whose empty green set counts as healthy, one replaced
\* inside promote leaves the serving replicas to reapGreen, a lost or refused switch
\* is followed by completeDrain, and completeDrain stops what serves when a release
\* replaces itself.
THEOREM TrafficReady ==
    ASSUME "timeout" \notin Faults, "rollbackToActive" \notin Inputs
    PROVE  Spec /\ []RolloutReleaseKept /\ [][LeaderChange => Idle]_vars => ServingRefined
  <1>1. RolloutReleaseKept /\ [LeaderChange => Idle]_vars /\ TrafficInv /\ [Next]_vars => TrafficInv'
    BY NextTrafficInv
  <1>2. TrafficInv => TypeInv /\ TypeOK /\ ServingStaffed
    BY StaffedReady DEF TrafficInv, TypeInv
  <1>3. Init => Abs!Init
    <2> SUFFICES ASSUME Init PROVE Abs!Init
      OBVIOUS
    <2>1. TypeOK /\ ServingStaffed
      BY InitTraffic, <1>2
    <2> QED BY <2>1 DEF Abs!Init, ServingStaffed, TypeOK, StoreTypeOK, Environment
  <1>4. TypeInv /\ TypeOK' /\ ServingStaffed' /\ [Next]_vars => Abs!Next
    BY RefinedStep
  <1> QED
    BY <1>1, <1>2, <1>3, <1>4, InitTraffic, PTL DEF Spec, ServingRefined, Abs!Spec

\* In the same circumstances, with instances that do not regress once they are
\* healthy, the full set is healthy: traffic is switched to instances that have
\* passed their health check and stays on them.
THEOREM TrafficHealthy ==
    ASSUME "timeout" \notin Faults, "rollbackToActive" \notin Inputs, Steady
    PROVE  Spec /\ []RolloutReleaseKept /\ [][LeaderChange => Idle]_vars => []ServingHealthy
  <1>1. RolloutReleaseKept /\ [LeaderChange => Idle]_vars /\ TrafficInv /\ [Next]_vars => TrafficInv'
    BY NextTrafficInv
  <1>2. TrafficInv => ServingHealthy
    BY StaffedReady DEF TrafficInv
  <1> QED
    BY <1>1, <1>2, InitTraffic, PTL DEF Spec

\* With requests one at a time and none of them a rollback retention takes nothing
\* away, so that only the leader changes are left to assume about.
COROLLARY TrafficOneByOne ==
    ASSUME "timeout" \notin Faults, OneByOne
    PROVE  Spec /\ [][LeaderChange => Idle]_vars => ServingRefined /\ []DrainingHasSwitched
  <1>1. "rollbackToActive" \notin Inputs
    BY DEF OneByOne
  <1>2. DeployedReleaseKept => RolloutReleaseKept
    BY DEF DeployedReleaseKept
  <1> QED
    BY <1>1, <1>2, ReleasesKept, TrafficReady, SwitchBeforeDrain, PTL
==============================================================================

---------------------------- MODULE StatefulProofs ----------------------------
(***************************************************************************)
(* Theorems about the update of a stateful service: the shape of its state *)
(* for every value of the constants, and, while no request overlaps a      *)
(* deployment, that the volume has one writer and that traffic moves only  *)
(* to the instance that alone runs.                                        *)
(***************************************************************************)
EXTENDS StatefulInvariants, RolloutProofs

(***************************************************************************)
(* Types.                                                                  *)
(***************************************************************************)
Puts == [AssignmentId -> Assignment]
AnyRelease == {NoId} \cup ReleaseId

ArmStep ==
    [op : {"PutAssignments"}, puts : Puts]
      \cup [op : {"DeleteAssignments"}, ids : SUBSET AssignmentId]
      \cup [op : {"SetDeploymentPhase"}, dep : DeploymentId, phase : Phase]
      \cup [op : {"PromoteRelease", "PutRelease"}, rel : AnyRelease]
      \cup [op : {"RestartOld"}, dep : DeploymentId]
      \cup [op : {"PutVolume"}]

EvalStep ==
    [op : {"CheckOwner", "Converge", "RenewLease"}]
      \cup [op : {"Batch"}, puts : Puts, stop : SUBSET AssignmentId]
      \cup [op : {"PutAssignments"}, puts : Puts]
      \cup [op : {"DeleteAssignments"}, ids : SUBSET AssignmentId]
      \cup [op : {"PutVolumeLease"}, holder : AssignmentId]

Shape ==
    /\ StatefulTypeOK
    /\ todo \in Seq(ArmStep) /\ work \in Seq(EvalStep)

LEMMA ArmStepTypes ==
    /\ \A puts \in Puts : PutAssignments(puts) \in ArmStep
    /\ \A ids \in SUBSET AssignmentId : DeleteAssignments(ids) \in ArmStep
    /\ \A d \in DeploymentId, p \in Phase : SetDeploymentPhase(d, p) \in ArmStep
    /\ \A r \in AnyRelease : PromoteRelease(r) \in ArmStep /\ PutRelease(r) \in ArmStep
    /\ \A d \in DeploymentId : RestartOld(d) \in ArmStep
    /\ PutVolume \in ArmStep
  BY DEF ArmStep, PutAssignments, DeleteAssignments, SetDeploymentPhase, PromoteRelease,
         PutRelease, RestartOld, PutVolume

\* Two sequences of at most one step joined.
LEMMA Joined ==
    ASSUME NEW s, NEW t
    PROVE  /\ <<s>> \o <<t>> = <<s, t>> /\ <<>> \o <<t>> = <<t>> /\ <<s>> \o <<>> = <<s>>
           /\ <<>> \o <<>> = <<>>
  <1> DEFINE S == {s, t}
  <1>1. /\ <<s>> \in Seq(S) /\ <<t>> \in Seq(S) /\ <<s, t>> \in Seq(S) /\ <<>> \in Seq(S)
    OBVIOUS
  <1>2. <<>> \o <<t>> = <<t>> /\ <<s>> \o <<>> = <<s>> /\ <<>> \o <<>> = <<>>
    BY <1>1, ConcatEmptySeq
  <1> DEFINE u == <<s>> \o <<t>>
  <1>3. /\ u \in Seq(S) /\ Len(u) = Len(<<s>>) + Len(<<t>>)
        /\ \A i \in 1..Len(<<s>>) + Len(<<t>>) :
              u[i] = IF i <= Len(<<s>>) THEN <<s>>[i] ELSE <<t>>[i - Len(<<s>>)]
    BY <1>1, ConcatProperties
  <1>4. Len(u) = 2 /\ u[1] = s /\ u[2] = t
    BY <1>3
  <1>5. Len(<<s, t>>) = 2 /\ <<s, t>>[1] = s /\ <<s, t>>[2] = t
    OBVIOUS
  <1> HIDE DEF u
  <1>6. \A i \in 1..2 : u[i] = <<s, t>>[i]
    BY <1>4, <1>5
  <1>7. u = <<s, t>>
    BY <1>1, <1>3, <1>4, <1>5, <1>6, SeqEqual
  <1> QED
    BY <1>2, <1>7 DEF u

LEMMA ArmSeq ==
    ASSUME NEW s \in ArmStep, NEW t \in ArmStep
    PROVE  /\ <<>> \in Seq(ArmStep) /\ <<s>> \in Seq(ArmStep) /\ <<s, t>> \in Seq(ArmStep)
           /\ <<s>> \o <<t>> = <<s, t>> /\ <<>> \o <<t>> = <<t>>
  <1>1. <<>> \in Seq(ArmStep) /\ <<s>> \in Seq(ArmStep) /\ <<s, t>> \in Seq(ArmStep)
    OBVIOUS
  <1> QED
    BY <1>1, Joined, Zenon

LEMMA EvalStepTypes ==
    /\ CheckOwner \in EvalStep /\ Converge \in EvalStep /\ RenewLease \in EvalStep
    /\ \A puts \in Puts, stop \in SUBSET AssignmentId : Batch(puts, stop) \in EvalStep
    /\ \A puts \in Puts : PutAssignments(puts) \in EvalStep
    /\ \A ids \in SUBSET AssignmentId : DeleteAssignments(ids) \in EvalStep
    /\ \A a \in AssignmentId : PutVolumeLease(a) \in EvalStep
  BY DEF EvalStep, CheckOwner, Converge, RenewLease, Batch, PutAssignments, DeleteAssignments,
         PutVolumeLease

LEMMA EvalSeq ==
    ASSUME NEW s \in EvalStep, NEW t \in EvalStep
    PROVE  /\ <<>> \in Seq(EvalStep) /\ <<s>> \in Seq(EvalStep) /\ <<s, t>> \in Seq(EvalStep)
           /\ <<s>> \o <<t>> = <<s, t>> /\ <<>> \o <<t>> = <<t>> /\ <<s>> \o <<>> = <<s>>
           /\ <<>> \o <<>> = <<>>
  <1>1. <<>> \in Seq(EvalStep) /\ <<s>> \in Seq(EvalStep) /\ <<s, t>> \in Seq(EvalStep)
    OBVIOUS
  <1> QED
    BY <1>1, Joined, Zenon

\* The steps an evaluation has left after its first one is replaced by others.
LEMMA Expanded ==
    ASSUME NEW steps \in Seq(EvalStep), work \in Seq(EvalStep), work # <<>>,
           NEW w, w = steps \o Tail(work)
    PROVE  /\ w \in Seq(EvalStep) /\ Head(work) = work[1] /\ Head(work) \in EvalStep
           /\ Tail(work) \in Seq(EvalStep)
           /\ 1 \in DOMAIN work
           /\ \A i \in DOMAIN w : \/ \E j \in DOMAIN steps : w[i] = steps[j]
                                  \/ \E j \in DOMAIN work : w[i] = work[j]
           /\ \A i \in DOMAIN Tail(work) : \E j \in DOMAIN work : Tail(work)[i] = work[j]
  <1>1. /\ Head(work) \in EvalStep /\ Tail(work) \in Seq(EvalStep)
        /\ Len(Tail(work)) = Len(work) - 1
        /\ \A i \in 1..Len(Tail(work)) : Tail(work)[i] = work[i + 1]
    BY HeadTailProperties
  <1>2. /\ w \in Seq(EvalStep) /\ Len(w) = Len(steps) + Len(Tail(work))
        /\ \A i \in 1..Len(steps) + Len(Tail(work)) :
              w[i] = IF i <= Len(steps) THEN steps[i] ELSE Tail(work)[i - Len(steps)]
    BY <1>1, ConcatProperties
  <1>3. /\ DOMAIN work = 1..Len(work) /\ DOMAIN steps = 1..Len(steps)
        /\ DOMAIN w = 1..Len(w) /\ DOMAIN Tail(work) = 1..Len(Tail(work))
        /\ Len(work) \in Nat /\ Len(steps) \in Nat /\ Len(work) > 0
    BY <1>1, <1>2
  <1>4. ASSUME NEW i \in DOMAIN Tail(work)
        PROVE  \E j \in DOMAIN work : Tail(work)[i] = work[j]
    <2>1. i + 1 \in DOMAIN work /\ Tail(work)[i] = work[i + 1]
      BY <1>1, <1>3
    <2> QED
      BY <2>1
  <1>5. ASSUME NEW i \in DOMAIN w
        PROVE  \/ \E j \in DOMAIN steps : w[i] = steps[j]
               \/ \E j \in DOMAIN work : w[i] = work[j]
    <2>1. CASE i <= Len(steps)
      BY <2>1, <1>2, <1>3
    <2>2. CASE ~(i <= Len(steps))
      <3>1. i - Len(steps) \in DOMAIN Tail(work) /\ w[i] = Tail(work)[i - Len(steps)]
        BY <2>2, <1>1, <1>2, <1>3
      <3> QED
        BY <3>1, <1>4
    <2> QED
      BY <2>1, <2>2
  <1>6. Head(work) = work[1] /\ 1 \in DOMAIN work
    BY <1>3
  <1> QED
    BY <1>1, <1>2, <1>4, <1>5, <1>6

LEMMA FlipPuts ==
    ASSUME assignment \in Puts, NEW as \in SUBSET AssignmentId, NEW want \in {"RUN", "STOP"}
    PROVE  FlipTo(as, want) \in Puts
  BY FlipTypes DEF Puts

LEMMA MintPuts ==
    ASSUME NEW k \in Nat, NEW picks \in [1..k -> Node], minted \in Nat,
           NEW r \in AnyRelease, NEW d \in {NoId} \cup DeploymentId
    PROVE  NewAssignments(picks, r, d) \in Puts
  <1>1. Len(picks) = k
    OBVIOUS
  <1>2. ASSUME NEW a \in AssignmentId, a \in FreshIds(picks)
        PROVE  picks[a - minted] \in Node
    BY <1>1, <1>2, StoreAssumption DEF FreshIds, AssignmentId
  <1> QED
    BY <1>2 DEF NewAssignments, newAssignment, NoAssignment, Puts, Assignment, InstanceState, NoId,
                AnyRelease

LEMMA PlacedOn ==
    ASSUME NEW n \in Nat, NEW picks \in Place(n, {})
    PROVE  \E k \in 0..n : picks \in [1..k -> Node] /\ Len(picks) = k
  <1>1. PICK k \in 0..n : picks \in [1..k -> Eligible({})]
    BY DEF Place
  <1>2. picks \in [1..k -> Node]
    BY <1>1 DEF Eligible
  <1> QED
    BY <1>1, <1>2

\* Of the arms of red/green a stateful deployment takes only the first two.
LEMMA StatefulTakes ==
    ASSUME NEW d \in DeploymentId, reconcile(d)
    PROVE  Turn(d) /\ (ReleaseGone(d) \/ Supersede(d))
  BY StatefulAssumption DEF reconcile, Pending, Building, place, checkStarting, checkHealth, promote,
     drain, Wait, Current

LEMMA ReapSteps ==
    ASSUME NEW d \in DeploymentId, NEW p \in Phase
    PROVE  /\ setPhase(d, p) \in Seq(ArmStep) /\ reapGreen(d, p) \in Seq(ArmStep)
           /\ statefulFail(d) \in Seq(ArmStep)
           /\ statefulFail(d) = IF greenAssignments(d) = {} THEN <<RestartOld(d)>>
                                ELSE <<DeleteAssignments(greenAssignments(d)), RestartOld(d)>>
  <1>1. /\ SetDeploymentPhase(d, p) \in ArmStep /\ RestartOld(d) \in ArmStep
        /\ DeleteAssignments(greenAssignments(d)) \in ArmStep
    BY ArmStepTypes, GreenTypes
  <1>2. setPhase(d, p) \in Seq(ArmStep) /\ reapGreen(d, p) \in Seq(ArmStep)
    BY <1>1, ArmSeq DEF setPhase, reapGreen
  <1>3. /\ greenAssignments(d) = {} => statefulFail(d) = <<>> \o <<RestartOld(d)>>
        /\ greenAssignments(d) # {} =>
             statefulFail(d) = <<DeleteAssignments(greenAssignments(d))>> \o <<RestartOld(d)>>
    BY DEF statefulFail
  <1>4. /\ <<>> \o <<RestartOld(d)>> = <<RestartOld(d)>>
        /\ <<DeleteAssignments(greenAssignments(d))>> \o <<RestartOld(d)>>
             = <<DeleteAssignments(greenAssignments(d)), RestartOld(d)>>
        /\ <<RestartOld(d)>> \in Seq(ArmStep)
        /\ <<DeleteAssignments(greenAssignments(d)), RestartOld(d)>> \in Seq(ArmStep)
    BY <1>1, ArmSeq
  <1> QED
    BY <1>2, <1>3, <1>4

\* The starting arm with an instance to start.
StartSteps(d, picks) ==
    (IF volume.exists THEN <<>> ELSE <<PutVolume>>)
      \o <<PutAssignments(NewAssignments(picks, deployment[d].rel, d))>>

LEMMA StartTypes ==
    ASSUME NEW d \in DeploymentId, NEW picks, NewAssignments(picks, deployment[d].rel, d) \in Puts,
           volume \in Volume
    PROVE  LET put == PutAssignments(NewAssignments(picks, deployment[d].rel, d))
           IN  /\ StartSteps(d, picks) \in Seq(ArmStep)
               /\ StartSteps(d, picks) \in {<<put>>, <<PutVolume, put>>}
  <1> DEFINE put == PutAssignments(NewAssignments(picks, deployment[d].rel, d))
  <1>1. put \in ArmStep /\ PutVolume \in ArmStep
    BY ArmStepTypes
  <1> HIDE DEF put
  <1>2. /\ <<>> \o <<put>> = <<put>> /\ <<PutVolume>> \o <<put>> = <<PutVolume, put>>
        /\ <<put>> \in Seq(ArmStep) /\ <<PutVolume, put>> \in Seq(ArmStep)
    BY <1>1, ArmSeq
  <1>3. /\ volume.exists => StartSteps(d, picks) = <<>> \o <<put>>
        /\ ~volume.exists => StartSteps(d, picks) = <<PutVolume>> \o <<put>>
    BY DEF StartSteps, put
  <1> QED
    BY <1>2, <1>3 DEF put

\* What an arm leaves to be done is well typed.
LEMMA StatefulArms ==
    ASSUME Shape, NEW d \in DeploymentId, reconcileStateful(d)
    PROVE  /\ Turn(d) /\ UNCHANGED <<api, doomed, volume>>
           /\ \E steps \in Seq(ArmStep) : Visit(d, steps)
           /\ minted' \in 0..MaxAssignment
  <1>1. Turn(d) /\ UNCHANGED <<api, doomed, volume>>
    BY DEF reconcileStateful
  <1>2. /\ assignment \in Puts /\ deployment[d].rel \in AnyRelease /\ minted \in 0..MaxAssignment
        /\ volume \in Volume
    BY DEF Shape, StatefulTypeOK, StoreTypeOK, AgentTypeOK, Puts, Deployment, AnyRelease
  <1>3. {"STOPPING_OLD", "STARTING", "BUILDING", "FAILED", "HEALTHCHECKING", "PROMOTING", "SUCCEEDED"}
          \subseteq Phase
    BY DEF Phase, LivePhase, RolloutPhase, TerminalPhase
  <1>4. /\ \A p \in Phase : setPhase(d, p) \in Seq(ArmStep)
        /\ abort(d) \in Seq(ArmStep) /\ statefulFail(d) \in Seq(ArmStep)
    BY <1>3, ReapSteps DEF abort
  <1>5. CASE statefulPending(d)
    BY <1>1, <1>2, <1>3, <1>4, <1>5 DEF statefulPending
  <1>6. CASE stopOld(d)
    <2>1. <<PutAssignments(FlipTo(Running(oldInstances(d)), "STOP"))>> \in Seq(ArmStep)
      <3>1. Running(oldInstances(d)) \in SUBSET AssignmentId
        BY DEF Running, oldInstances
      <3> QED
        BY <1>2, <3>1, FlipPuts, ArmStepTypes, ArmSeq
    <2> QED
      BY <1>1, <1>2, <1>3, <1>4, <1>6, <2>1 DEF stopOld
  <1>7. CASE statefulStart(d)
    <2>1. CASE (Visit(d, statefulFail(d)) \/ Visit(d, setPhase(d, "HEALTHCHECKING"))) /\ UNCHANGED minted
      BY <1>1, <1>2, <1>3, <1>4, <2>1
    <2>2. ASSUME NEW picks \in Place(1, {}), minted + Len(picks) <= MaxAssignment,
                 minted' = minted + Len(picks),
                 Visit(d, IF picks = <<>> THEN statefulFail(d) ELSE StartSteps(d, picks))
          PROVE  (\E steps \in Seq(ArmStep) : Visit(d, steps)) /\ minted' \in 0..MaxAssignment
      <3>1. PICK k \in 0..1 : picks \in [1..k -> Node] /\ Len(picks) = k
        BY PlacedOn
      <3>2. NewAssignments(picks, deployment[d].rel, d) \in Puts
        BY <1>2, <3>1, MintPuts, StoreAssumption
      <3>3. StartSteps(d, picks) \in Seq(ArmStep)
        BY <1>2, <3>2, StartTypes
      <3>4. minted' \in 0..MaxAssignment
        BY <1>2, <2>2, <3>1, StoreAssumption
      <3> QED
        BY <1>4, <2>2, <3>3, <3>4
    <2> QED
      BY <1>1, <1>7, <2>1, <2>2 DEF statefulStart, StartSteps
  <1>8. CASE Current(d, TRUE, "BUILDING") /\ checkBuild(d, "STOPPING_OLD")
    <2>1. /\ <<PutRelease(deployment[d].rel), SetDeploymentPhase(d, "STOPPING_OLD")>> \in Seq(ArmStep)
      BY <1>2, <1>3, ArmStepTypes, ArmSeq
    <2> QED
      BY <1>1, <1>2, <1>3, <1>4, <1>8, <2>1 DEF checkBuild
  <1>9. CASE statefulHealth(d)
    BY <1>1, <1>2, <1>3, <1>4, <1>9 DEF statefulHealth
  <1>10. CASE statefulPromote(d)
    <2>1. <<PromoteRelease(deployment[d].rel), SetDeploymentPhase(d, "SUCCEEDED")>> \in Seq(ArmStep)
      BY <1>2, <1>3, ArmStepTypes, ArmSeq
    <2> QED
      BY <1>1, <1>2, <1>10, <2>1 DEF statefulPromote
  <1>11. CASE statefulWait(d)
    <2>1. <<>> \in Seq(ArmStep)
      OBVIOUS
    <2> QED
      BY <1>1, <1>2, <1>11, <2>1 DEF statefulWait
  <1> QED
    BY <1>1, <1>5, <1>6, <1>7, <1>8, <1>9, <1>10, <1>11 DEF reconcileStateful

LEMMA CommandTypes ==
    ASSUME StoreTypeOK, NEW c \in ArmStep, Apply(c), UNCHANGED minted
    PROVE  StoreTypeOK'
  <1> USE DEF StoreTypeOK
  <1>1. CASE c.op = "PutAssignments" /\ applyPutAssignments(c.puts)
    BY <1>1 DEF ArmStep, Puts, applyPutAssignments
  <1>2. CASE c.op = "DeleteAssignments" /\ applyDeleteAssignments(c.ids)
    BY <1>2 DEF ArmStep, applyDeleteAssignments, NoAssignment, Assignment, InstanceState
  <1>3. CASE c.op = "SetDeploymentPhase" /\ applySetDeploymentPhase(c.dep, c.phase)
    BY <1>3 DEF ArmStep, applySetDeploymentPhase, Deployment
  <1>4. CASE c.op = "PromoteRelease" /\ applyPromoteRelease(c.rel)
    BY <1>4 DEF ArmStep, AnyRelease, applyPromoteRelease, Environment
  <1>5. CASE c.op = "PutRelease" /\ applyPutRelease(c.rel)
    BY <1>5 DEF ArmStep, AnyRelease, applyPutRelease
  <1> QED
    BY <1>1, <1>2, <1>3, <1>4, <1>5 DEF Apply

\* Requests keep the shape of what they write.
LEMMA RequestTypes ==
    ASSUME StoreTypeOK, ApiTypeOK, ApiStep
    PROVE  StoreTypeOK' /\ ApiTypeOK' /\ UNCHANGED <<env, assignment, node, minted>>
  <1> USE DEF StoreTypeOK, store
  <1>1. CASE DeployGit
    <2>1. lastRelease + 1 \in ReleaseId /\ lastDeployment + 1 \in DeploymentId
      BY <1>1, StoreAssumption DEF DeployGit, CanMint, ApiTypeOK, ReleaseId, DeploymentId, NoId
    <2> QED
      BY <1>1, <2>1 DEF DeployGit, ApiTypeOK, Request, RequestKind
  <1>2. ASSUME NEW kind \in Inputs, resolveEnv(kind)
        PROVE  StoreTypeOK' /\ ApiTypeOK' /\ UNCHANGED <<env, assignment, node, minted>>
    BY <1>2, DeployApiAssumption DEF resolveEnv, ApiTypeOK, Request, Environment
  <1>3. ASSUME NEW q \in requests, Refuse(q) \/ Check(q) \/ CommitBuild(q) \/ CommitRelease(q)
        PROVE  StoreTypeOK' /\ ApiTypeOK' /\ UNCHANGED <<env, assignment, node, minted>>
    BY <1>3 DEF Refuse, Check, CommitBuild, CommitRelease, ApiTypeOK, Request
  <1>4. ASSUME NEW q \in requests, buildDeployment(q)
        PROVE  StoreTypeOK' /\ ApiTypeOK' /\ UNCHANGED <<env, assignment, node, minted>>
    <2>1. lastRelease + 1 \in ReleaseId /\ lastDeployment + 1 \in DeploymentId
      BY <1>4, StoreAssumption DEF buildDeployment, CanMint, ApiTypeOK, ReleaseId, DeploymentId, NoId
    <2> QED
      BY <1>4, <2>1 DEF buildDeployment, ApiTypeOK, Request
  <1>5. ASSUME NEW q \in requests, NEW r \in ReleaseId, Rollback(q, r)
        PROVE  StoreTypeOK' /\ ApiTypeOK' /\ UNCHANGED <<env, assignment, node, minted>>
    <2>1. lastDeployment + 1 \in DeploymentId
      BY <1>5, StoreAssumption DEF Rollback, CanMint, ApiTypeOK, DeploymentId, NoId
    <2> QED
      BY <1>5, <2>1 DEF Rollback, ApiTypeOK, Request
  <1>6. ASSUME NEW q \in requests, CommitDeployment(q)
        PROVE  StoreTypeOK' /\ ApiTypeOK' /\ UNCHANGED <<env, assignment, node, minted>>
    <2> DEFINE r == [rel |-> q.rel, prev |-> q.prev, phase |-> "PENDING",
                     rollback |-> q.kind \in {"rollback", "rollbackToActive"}]
    <2>1. r \in Deployment
      BY DEF ApiTypeOK, Request, Deployment, Phase, LivePhase
    <2>2. deployment' = [deployment EXCEPT ![q.dep] = r]
      BY <1>6 DEF CommitDeployment
    <2> HIDE DEF r
    <2> QED
      BY <1>6, <2>1, <2>2 DEF CommitDeployment, ApiTypeOK
  <1> QED
    BY <1>1, <1>2, <1>3, <1>4, <1>5, <1>6 DEF ApiStep

\* The orchestrator.
LEMMA OrchTypes ==
    ASSUME Shape, StatefulOrch
    PROVE  Shape'
  <1>1. /\ UNCHANGED <<view, work, frame, containers, failCount, reported>>
        /\ StoreTypeOK /\ ApiTypeOK /\ AgentTypeOK /\ pass \subseteq DeploymentId
        /\ view \in Environment /\ todo \in Seq(ArmStep) /\ work \in Seq(EvalStep)
    BY DEF StatefulOrch, sched, agent, Shape, StatefulTypeOK
  <1>2. ASSUME StoreTypeOK', UNCHANGED <<api, volume>>, pass' \subseteq DeploymentId,
               todo' \in Seq(ArmStep)
        PROVE  Shape'
    BY <1>1, <1>2 DEF Shape, StatefulTypeOK, ApiTypeOK, AgentTypeOK, api
  <1>3. ASSUME ~Idle
        PROVE  /\ Head(todo) \in ArmStep /\ Tail(todo) \in Seq(ArmStep)
    BY <1>1, <1>3, HeadTailProperties DEF Idle
  <1>4. ASSUME UNCHANGED store, minted' \in 0..MaxAssignment PROVE StoreTypeOK'
    BY <1>1, <1>4 DEF StoreTypeOK, store
  <1>5. minted \in 0..MaxAssignment
    BY <1>1 DEF StoreTypeOK
  <1>6. ASSUME NEW d \in DeploymentId, NEW steps \in Seq(ArmStep), Visit(d, steps),
               minted' \in 0..MaxAssignment, UNCHANGED <<api, volume>>
        PROVE  Shape'
    BY <1>1, <1>2, <1>4, <1>6 DEF Visit
  <1>7. CASE BeginPass /\ UNCHANGED <<api, volume>>
    BY <1>1, <1>2, <1>4, <1>5, <1>7 DEF BeginPass
  <1>8. CASE ApplyNext /\ UNCHANGED <<api, volume>>
    <2>1. StoreTypeOK'
      BY <1>1, <1>3, <1>8, CommandTypes DEF ApplyNext
    <2> QED
      BY <1>1, <1>2, <1>3, <1>8, <2>1 DEF ApplyNext
  <1>9. CASE ApplyTimesOut /\ UNCHANGED <<api, volume>>
    BY <1>1, <1>2, <1>3, <1>4, <1>5, <1>9 DEF ApplyTimesOut
  <1>10. ~RecheckPlacement
    BY <1>3 DEF RecheckPlacement, ArmStep
  <1>11. ASSUME NEW d \in DeploymentId, reconcile(d), UNCHANGED <<api, volume>> PROVE Shape'
    <2>1. Phase \subseteq Phase /\ {"FAILED", "SUPERSEDED", "SUCCEEDED"} \subseteq Phase
      BY DEF Phase, TerminalPhase
    <2>2. (\E steps \in Seq(ArmStep) : Visit(d, steps)) /\ UNCHANGED minted
      BY <1>11, <2>1, StatefulTakes, ReapSteps DEF ReleaseGone, Supersede, abort
    <2> QED
      BY <1>5, <1>6, <1>11, <2>2
  <1>12. ASSUME NEW d \in DeploymentId, reconcileStateful(d) PROVE Shape'
    BY <1>6, <1>12, StatefulArms
  <1>13. CASE RestartOldStep
    <2> DEFINE d == Head(todo).dep
               stopped == oldInstances(d) \ Running(oldInstances(d))
               put == PutAssignments(FlipTo(stopped, "RUN"))
               set == SetDeploymentPhase(d, "FAILED")
    <2>1. d \in DeploymentId
      BY <1>3, <1>13 DEF RestartOldStep, ArmStep
    <2>2. stopped \in SUBSET AssignmentId
      BY DEF oldInstances
    <2>3. put \in ArmStep
      BY <1>1, <2>2, FlipPuts, ArmStepTypes DEF StoreTypeOK, Puts
    <2>4. set \in ArmStep
      BY <2>1, ArmStepTypes DEF Phase, TerminalPhase
    <2>5. todo' = (IF stopped = {} THEN <<>> ELSE <<put>>) \o <<set>>
      BY <1>13 DEF RestartOldStep, setPhase
    <2> HIDE DEF put, set, stopped, d
    <2>6. todo' \in Seq(ArmStep)
      <3>1. <<>> \o <<set>> \in Seq(ArmStep) /\ <<put>> \o <<set>> \in Seq(ArmStep)
        BY <2>3, <2>4, ArmSeq
      <3>2. CASE stopped = {}
        BY <2>5, <3>1, <3>2
      <3>3. CASE stopped # {}
        BY <2>5, <3>1, <3>3
      <3> QED
        BY <3>2, <3>3
    <2> QED
      BY <1>1, <1>2, <1>4, <1>5, <1>13, <2>6 DEF RestartOldStep
  <1>14. CASE applyPutVolume
    <2>1. StoreTypeOK' /\ AgentTypeOK' /\ ApiTypeOK'
      BY <1>1, <1>4, <1>5, <1>14 DEF applyPutVolume, AgentTypeOK, ApiTypeOK, api, Volume
    <2> QED
      BY <1>1, <1>3, <1>14, <2>1 DEF applyPutVolume, Shape, StatefulTypeOK
  <1> QED
    BY <1>7, <1>8, <1>9, <1>10, <1>11, <1>12, <1>13, <1>14 DEF StatefulOrch, OrchStep, Timeout

\* The scheduler.
LEMMA NoPutsType == NoPuts \in Puts
  BY DEF NoPuts, Puts, NoAssignment, Assignment, InstanceState

LEMMA BatchTypes ==
    ASSUME NEW puts \in Puts, NEW stop \in SUBSET AssignmentId, NEW delete \in SUBSET AssignmentId
    PROVE  LET steps == BatchSteps(puts, stop, delete)
           IN  /\ steps \in Seq(EvalStep)
               /\ \A i \in DOMAIN steps :
                     \/ steps[i] = Batch(puts, stop) /\ i = 1
                     \/ steps[i] = DeleteAssignments(delete)
  <1> DEFINE b == Batch(puts, stop)
             e == DeleteAssignments(delete)
  <1>1. b \in EvalStep /\ e \in EvalStep
    BY EvalStepTypes
  <1>2. BatchSteps(puts, stop, delete) =
          (IF puts = NoPuts /\ stop = {} THEN <<>> ELSE <<b>>) \o (IF delete = {} THEN <<>> ELSE <<e>>)
    BY DEF BatchSteps
  <1> HIDE DEF b, e
  <1>3. /\ <<b>> \o <<e>> = <<b, e>> /\ <<>> \o <<e>> = <<e>> /\ <<b>> \o <<>> = <<b>>
        /\ <<>> \o <<>> = <<>>
        /\ <<>> \in Seq(EvalStep) /\ <<b>> \in Seq(EvalStep) /\ <<e>> \in Seq(EvalStep)
        /\ <<b, e>> \in Seq(EvalStep)
    BY <1>1, EvalSeq
  <1>4. BatchSteps(puts, stop, delete) \in {<<>>, <<b>>, <<e>>, <<b, e>>}
    BY <1>2, <1>3
  <1>5. /\ DOMAIN <<>> = {} /\ DOMAIN <<b>> = {1} /\ DOMAIN <<e>> = {1} /\ DOMAIN <<b, e>> = {1, 2}
        /\ <<b>>[1] = b /\ <<e>>[1] = e /\ <<b, e>>[1] = b /\ <<b, e>>[2] = e
    OBVIOUS
  <1>6. PICK steps : steps = BatchSteps(puts, stop, delete)
    OBVIOUS
  <1>7. steps \in Seq(EvalStep)
    BY <1>3, <1>4, <1>6
  <1>8. \A i \in DOMAIN steps : (steps[i] = b /\ i = 1) \/ steps[i] = e
    <2>1. CASE steps = <<>>
      BY <2>1, <1>5
    <2>2. CASE steps = <<b>>
      BY <2>2, <1>5
    <2>3. CASE steps = <<e>>
      BY <2>3, <1>5
    <2>4. CASE steps = <<b, e>>
      BY <2>4, <1>5
    <2> QED
      BY <1>4, <1>6, <2>1, <2>2, <2>3, <2>4
  <1> QED
    BY <1>6, <1>7, <1>8 DEF b, e

LEMMA SchedTypes ==
    ASSUME Shape, StatefulSched
    PROVE  Shape'
  <1>1. /\ UNCHANGED <<pass, todo, requests, lastRelease, lastDeployment,
                       frame, containers, failCount, reported>>
        /\ StoreTypeOK /\ ApiTypeOK /\ AgentTypeOK /\ pass \subseteq DeploymentId
        /\ view \in Environment /\ todo \in Seq(ArmStep) /\ work \in Seq(EvalStep)
    BY DEF StatefulSched, orch, api, agent, Shape, StatefulTypeOK
  <1>2. ASSUME StoreTypeOK', volume' \in Volume, view' \in Environment, work' \in Seq(EvalStep)
        PROVE  Shape'
    BY <1>1, <1>2 DEF Shape, StatefulTypeOK, ApiTypeOK, AgentTypeOK
  <1>3. minted \in 0..MaxAssignment /\ volume \in Volume /\ env \in Environment /\ assignment \in Puts
    BY <1>1 DEF StoreTypeOK, AgentTypeOK, Puts
  <1>4. ASSUME UNCHANGED store, minted' \in 0..MaxAssignment PROVE StoreTypeOK'
    BY <1>1, <1>4 DEF StoreTypeOK, store
  <1>5. ASSUME NEW steps \in Seq(EvalStep), Expand(steps), work # <<>>, UNCHANGED volume,
               minted' \in 0..MaxAssignment
        PROVE  Shape'
    BY <1>1, <1>2, <1>3, <1>4, <1>5, Expanded DEF Expand
  <1>6. ASSUME work # <<>>
        PROVE  Head(work) \in EvalStep /\ Tail(work) \in Seq(EvalStep)
    BY <1>1, <1>6, HeadTailProperties
  <1>7. CASE statefulEvaluate
    BY <1>2, <1>3, <1>4, <1>7, EvalStepTypes, EvalSeq DEF statefulEvaluate
  <1>8. CASE evaluateEnv /\ UNCHANGED volume
    <2>1. <<>> \in Seq(EvalStep) /\ <<Converge>> \in Seq(EvalStep)
      BY EvalStepTypes, EvalSeq
    <2> QED
      BY <1>3, <1>5, <1>8, <2>1 DEF evaluateEnv, AtStep
  <1>9. CASE reconcileLeases
    <2>1. <<>> \in Seq(EvalStep) /\ \A a \in statefulHolder : <<PutVolumeLease(a)>> \in Seq(EvalStep)
      BY EvalStepTypes, EvalSeq DEF statefulHolder, Running
    <2> QED
      BY <1>3, <1>5, <1>9, <2>1 DEF reconcileLeases, AtStep
  <1>10. CASE applyPutVolumeLease
    <2>1. Head(work) \in EvalStep /\ Tail(work) \in Seq(EvalStep) /\ Head(work).op = "PutVolumeLease"
      BY <1>6, <1>10 DEF applyPutVolumeLease, AtStep
    <2>2. Head(work).holder \in AssignmentId
      BY <2>1 DEF EvalStep
    <2>3. volume' \in Volume
      BY <1>3, <1>10, <2>2 DEF applyPutVolumeLease, Volume
    <2> QED
      BY <1>1, <1>2, <1>3, <1>4, <1>10, <2>1, <2>3 DEF applyPutVolumeLease
  <1>11. CASE ConvergeEnv /\ UNCHANGED volume
    <2> DEFINE desired == desiredReplicas(view)
               have == Cardinality(Good)
               excess == IF have > desired THEN NewestOf(Good, have - desired) ELSE {}
               short == IF desired > have THEN desired - have ELSE 0
    <2>1. Good \in SUBSET AssignmentId /\ StaleRelease \in SUBSET AssignmentId
          /\ Reapable(AssignmentId) \in SUBSET AssignmentId /\ Lost \in SUBSET AssignmentId
      BY DEF Good, CurrentReplicas, StaleRelease, Running, Reapable, Lost
    <2>2. excess \in SUBSET AssignmentId
      BY <2>1 DEF NewestOf
    <2>3. have \in Nat
      <3>1. IsFiniteSet(AssignmentId)
        BY StoreAssumption, FS_Interval DEF AssignmentId
      <3> QED
        BY <2>1, <3>1, FS_Subset, FS_CardinalityType
    <2>4. desired \in Nat
      BY <1>1, StoreAssumption DEF desiredReplicas, Environment
    <2>5. short \in Nat
      BY <2>3, <2>4
    <2>6. PICK picks \in Place(short, {}) :
              /\ minted + Len(picks) <= MaxAssignment
              /\ minted' = minted + Len(picks)
              /\ Expand(BatchSteps(IF picks = <<>> THEN NoPuts
                              ELSE NewAssignments(picks, view.active, NoId),
                              StaleRelease \cup excess,
                              Reapable(AssignmentId) \cup Lost))
      BY <1>11 DEF ConvergeEnv
    <2> HIDE DEF desired, have, excess, short
    <2>7. PICK k \in 0..short : picks \in [1..k -> Node] /\ Len(picks) = k
      BY <2>5, PlacedOn
    <2>8. NewAssignments(picks, view.active, NoId) \in Puts
      <3>1. view.active \in AnyRelease /\ k \in Nat /\ minted \in Nat
        BY <1>1, <1>3, <2>5, StoreAssumption DEF Environment, AnyRelease
      <3> QED
        BY <2>7, <3>1, MintPuts
    <2>9. minted' \in 0..MaxAssignment
      BY <1>3, <2>5, <2>6, <2>7, StoreAssumption
    <2>10. work # <<>>
      BY <1>11 DEF ConvergeEnv, AtStep
    <2>11. (IF picks = <<>> THEN NoPuts ELSE NewAssignments(picks, view.active, NoId)) \in Puts
      BY <2>8, NoPutsType
    <2> QED
      BY <1>5, <1>11, <2>1, <2>2, <2>6, <2>9, <2>10, <2>11, BatchTypes
  <1>12. CASE applyBatch /\ UNCHANGED volume
    <2> DEFINE flip == {a \in Head(work).stop : assignment[a].desired = "RUN"}
               puts == [a \in AssignmentId |->
                      IF a \in flip THEN FlipTo(flip, "STOP")[a] ELSE Head(work).puts[a]]
    <2>1. /\ work # <<>> /\ Head(work) \in EvalStep /\ Head(work).op = "Batch"
          /\ UNCHANGED minted /\ Expand(IF puts = NoPuts THEN <<>> ELSE <<PutAssignments(puts)>>)
      BY <1>6, <1>12 DEF applyBatch, AtStep
    <2>2. Head(work).stop \in SUBSET AssignmentId /\ Head(work).puts \in Puts
      BY <2>1 DEF EvalStep
    <2>3. FlipTo(flip, "STOP") \in Puts
      BY <1>3, <2>2, FlipPuts
    <2>4. puts \in Puts
      BY <2>2, <2>3 DEF Puts
    <2> HIDE DEF puts
    <2>5. <<>> \in Seq(EvalStep) /\ <<PutAssignments(puts)>> \in Seq(EvalStep)
      BY <2>4, EvalStepTypes, EvalSeq
    <2> QED
      BY <1>3, <1>5, <1>12, <2>1, <2>5
  <1>13. CASE SchedApply /\ UNCHANGED volume
    <2>1. /\ work # <<>> /\ Head(work) \in EvalStep /\ Tail(work) \in Seq(EvalStep)
          /\ Head(work).op # "SetDrained"
      BY <1>6, <1>13 DEF SchedApply, EvalStep
    <2>2. StoreTypeOK'
      <3>1. CASE Head(work).op = "PutAssignments" /\ applyPutAssignments(Head(work).puts)
        BY <1>1, <1>13, <2>1, <3>1 DEF SchedApply, EvalStep, Puts, applyPutAssignments, StoreTypeOK
      <3>2. CASE Head(work).op = "DeleteAssignments" /\ applyDeleteAssignments(Head(work).ids)
        BY <1>1, <1>13, <2>1, <3>2 DEF SchedApply, EvalStep, applyDeleteAssignments, StoreTypeOK,
           NoAssignment, Assignment, InstanceState
      <3> QED
        BY <1>13, <2>1, <3>1, <3>2 DEF SchedApply, AtStep
    <2> QED
      BY <1>1, <1>2, <1>3, <1>13, <2>1, <2>2 DEF SchedApply
  <1> QED
    BY <1>7, <1>8, <1>9, <1>10, <1>11, <1>12, <1>13 DEF StatefulSched

\* The agent.
LEMMA MergedTypes ==
    ASSUME NEW cur \in InstanceState, NEW s \in InstanceState
    PROVE  MergeObserved(cur, s) \in InstanceState
  BY DEF MergeObserved

LEMMA AgentTypes ==
    ASSUME Shape, AgentStep, UNCHANGED <<orch, api, doomed, sched>>
    PROVE  Shape'
  <1>1. /\ UNCHANGED <<pass, todo, requests, lastRelease, lastDeployment, view, work>>
        /\ StoreTypeOK /\ ApiTypeOK /\ AgentTypeOK /\ pass \subseteq DeploymentId
        /\ view \in Environment /\ todo \in Seq(ArmStep) /\ work \in Seq(EvalStep)
    BY DEF orch, api, sched, Shape, StatefulTypeOK
  <1>2. ASSUME StoreTypeOK', AgentTypeOK' PROVE Shape'
    BY <1>1, <1>2 DEF Shape, StatefulTypeOK, ApiTypeOK
  <1>3. ASSUME UNCHANGED <<store, minted>> PROVE StoreTypeOK'
    BY <1>1, <1>3 DEF StoreTypeOK, store
  <1>4. CASE sendAssignments
    <2>1. CurrentFrame \in Frame
      BY <1>1 DEF CurrentFrame, Frame, StoreTypeOK, Assignment, AgentTypeOK, Volume
    <2> QED
      BY <1>1, <1>2, <1>3, <1>4, <2>1 DEF sendAssignments, AgentTypeOK
  <1>5. CASE reconcileExecutor
    <2> DEFINE gone == {c \in containers : frame.desired[c] # "RUN"}
               withheld == {a \in Missing : leaseWithholds(a)}
    <2>1. PICK failed \in SUBSET (Missing \ withheld), stuck \in SUBSET gone :
           LET started == Missing \ (withheld \cup failed)
           IN  /\ containers' = (containers \ (gone \ stuck)) \cup started
               /\ failCount' = [a \in AssignmentId |->
                     CASE a \in failed -> failCount[a] + 1
                       [] a \in started -> 0
                       [] OTHER -> failCount[a]]
               /\ reported' = [a \in AssignmentId |->
                     CASE a \in gone /\ frame.desired[a] = "STOP" -> "STOPPED"
                       [] a \in withheld -> "STARTING"
                       [] a \in failed -> "FAILED"
                       [] a \in started -> "RUNNING"
                       [] OTHER -> reported[a]]
               /\ UNCHANGED <<store, minted, volume, frame>>
      BY <1>5 DEF reconcileExecutor
    <2>2. Missing \subseteq AssignmentId /\ \A a \in Missing : failCount[a] < MaxAttempts
      BY DEF Missing
    <2>3. containers' \subseteq AssignmentId
      BY <1>1, <2>1, <2>2 DEF AgentTypeOK
    <2>4. failCount' \in [AssignmentId -> 0..MaxAttempts]
      BY <1>1, <2>1, <2>2, AgentAssumption DEF AgentTypeOK
    <2>5. reported' \in [AssignmentId -> InstanceState \cup {"NONE"}]
      BY <1>1, <2>1 DEF AgentTypeOK, InstanceState
    <2> QED
      BY <1>1, <1>2, <1>3, <2>1, <2>3, <2>4, <2>5 DEF AgentTypeOK
  <1>6. CASE flushStatus
    <2>1. ASSUME NEW a \in AssignmentId, reported[a] # "NONE"
          PROVE  [assignment[a] EXCEPT !.obs = MergeObserved(@, reported[a])] \in Assignment
      <3>1. assignment[a] \in Assignment /\ assignment[a].obs \in InstanceState
            /\ reported[a] \in InstanceState
        BY <1>1, <2>1 DEF StoreTypeOK, Assignment, AgentTypeOK
      <3>2. PICK s \in InstanceState : s = MergeObserved(assignment[a].obs, reported[a])
        BY <3>1, MergedTypes
      <3>3. [assignment[a] EXCEPT !.obs = s] \in Assignment
        BY <3>1 DEF Assignment
      <3> QED
        BY <3>2, <3>3
    <2>2. assignment' \in [AssignmentId -> Assignment]
      BY <1>1, <1>6, <2>1 DEF flushStatus, StoreTypeOK
    <2>3. reported' \in [AssignmentId -> InstanceState \cup {"NONE"}]
      BY <1>6 DEF flushStatus, NoReports
    <2> QED
      BY <1>1, <1>2, <1>6, <2>2, <2>3 DEF flushStatus, StoreTypeOK, AgentTypeOK
  <1>7. CASE dropStatus
    BY <1>1, <1>2, <1>3, <1>7 DEF dropStatus, AgentTypeOK, NoReports
  <1>8. ASSUME NEW c \in AssignmentId, pollLiveness(c) PROVE Shape'
    BY <1>1, <1>2, <1>3, <1>8, AgentAssumption DEF pollLiveness, AgentTypeOK
  <1> QED
    BY <1>4, <1>5, <1>6, <1>7, <1>8 DEF AgentStep

LEMMA StatefulInitTypes == StatefulInit => Shape
  <1> SUFFICES ASSUME StatefulInit PROVE Shape
    OBVIOUS
  <1>1. StoreTypeOK /\ ApiTypeOK /\ pass \subseteq DeploymentId
    BY InitTypes DEF StatefulInit, TypeInv, TypeOK
  <1>2. view \in Environment /\ todo \in Seq(ArmStep) /\ work \in Seq(EvalStep)
    BY <1>1 DEF StatefulInit, Init, StoreTypeOK
  <1>3. volume \in Volume /\ containers \subseteq AssignmentId
    BY StoreAssumption DEF StatefulInit, Volume, AssignmentId
  <1>4. frame \in Frame
    BY <1>1, <1>3 DEF StatefulInit, CurrentFrame, Frame, StoreTypeOK, Assignment, Volume
  <1>5. /\ failCount \in [AssignmentId -> 0..MaxAttempts]
        /\ reported \in [AssignmentId -> InstanceState \cup {"NONE"}]
    BY AgentAssumption DEF StatefulInit, NoReports
  <1> QED
    BY <1>1, <1>2, <1>3, <1>4, <1>5 DEF Shape, StatefulTypeOK, AgentTypeOK

LEMMA StatefulNextTypes == Shape /\ [StatefulNext]_statefulVars => Shape'
  <1> SUFFICES ASSUME Shape, [StatefulNext]_statefulVars PROVE Shape'
    OBVIOUS
  <1>1. CASE StatefulApi
    <2>1. StoreTypeOK' /\ ApiTypeOK'
      BY <1>1, RequestTypes DEF StatefulApi, Shape, StatefulTypeOK
    <2> QED
      BY <1>1, <2>1 DEF StatefulApi, Shape, StatefulTypeOK, AgentTypeOK, orch, sched, agent
  <1>2. CASE StatefulOrch
    BY <1>2, OrchTypes
  <1>3. CASE StatefulSched
    BY <1>3, SchedTypes
  <1>4. CASE AgentStep /\ UNCHANGED <<orch, api, doomed, sched>>
    BY <1>4, AgentTypes
  <1>5. ASSUME NEW d \in DeploymentId, FinishBuild(d), UNCHANGED <<sched, volume, agent>>
        PROVE  Shape'
    BY <1>5 DEF FinishBuild, Shape, StatefulTypeOK, StoreTypeOK, ApiTypeOK, AgentTypeOK,
                orch, api, sched, agent
  <1>6. CASE StatefulLeaderMoves
    <2>1. <<>> \in Seq(ArmStep) /\ <<>> \in Seq(EvalStep)
      OBVIOUS
    <2> QED
      BY <1>6, <2>1 DEF StatefulLeaderMoves, Shape, StatefulTypeOK, StoreTypeOK, ApiTypeOK,
         AgentTypeOK, store, api, agent
  <1>7. CASE UNCHANGED statefulVars
    BY <1>7 DEF statefulVars, vars, store, orch, api, sched, agent, Shape, StatefulTypeOK, StoreTypeOK,
       ApiTypeOK, AgentTypeOK
  <1> QED
    BY <1>1, <1>2, <1>3, <1>4, <1>5, <1>6, <1>7 DEF StatefulNext

\* The shape of the state, for every number of releases, deployments, instances and
\* attempts, every kind of fault and however stale what is read; in particular an
\* instance is never started more than maxAttempts times in a row.
THEOREM StatefulTypes == StatefulSpec => []StatefulTypeOK
  <1>1. Shape => StatefulTypeOK
    BY DEF Shape
  <1> QED
    BY <1>1, StatefulInitTypes, StatefulNextTypes, PTL DEF StatefulSpec

(***************************************************************************)
(* One writer.                                                             *)
(***************************************************************************)
LEMMA Typed ==
    ASSUME Shape
    PROVE  /\ assignment \in [AssignmentId -> Assignment] /\ deployment \in [DeploymentId -> Deployment]
           /\ release \in [ReleaseId -> {"ABSENT", "SOURCE", "IMAGE"}] /\ requests \subseteq Request
           /\ env \in Environment /\ env.active \in Nat /\ minted \in Nat
           /\ lastRelease \in Nat /\ lastDeployment \in Nat
           /\ AssignmentId \subseteq Nat \ {0} /\ DeploymentId \subseteq Nat \ {0}
           /\ ReleaseId \subseteq Nat \ {0} /\ NoId = 0
           /\ containers \subseteq AssignmentId /\ pass \subseteq DeploymentId
           /\ volume \in Volume /\ frame \in Frame
           /\ reported \in [AssignmentId -> InstanceState \cup {"NONE"}]
           /\ todo \in Seq(ArmStep) /\ work \in Seq(EvalStep)
  BY SMTT(20), StoreAssumption DEF Shape, StatefulTypeOK, StoreTypeOK, ApiTypeOK, AgentTypeOK, Environment,
     AssignmentId, DeploymentId, ReleaseId, NoId

\* The instance is the one it was, whatever has been reported of it.
SameInstance(a) ==
    /\ assignment'[a].desired = assignment[a].desired /\ assignment'[a].node = assignment[a].node
    /\ assignment'[a].rel = assignment[a].rel /\ assignment'[a].dep = assignment[a].dep

\* A step of neither request nor orchestrator that adds no instance, stops none and
\* touches none but the lowest.
LEMMA QuietStep ==
    ASSUME WriterInv,
           UNCHANGED <<env, deployment, node, minted, requests, lastRelease, lastDeployment>>,
           \A r \in ReleaseId : release[r] # "ABSENT" => release'[r] # "ABSENT",
           \/ UNCHANGED <<pass, todo>>
           \/ pass' = {} /\ todo' = <<>>
           \/ UNCHANGED pass /\ ~Idle /\ ArmsFit',
           \A a \in AssignmentId : SameInstance(a) /\ (Pristine(a) => Pristine(a)'),
           \A d \in Live, a \in AssignmentId : Stored(a) /\ Started(d, a) =>
              Started(d, a)' /\ (a \in containers => a \in containers'),
           LowestTouched', containers \subseteq AssignmentId, todo \in Seq(ArmStep),
           FrameSafe', OneContainer', WorkFits'
    PROVE  WriterInv'
  <1>1. /\ Live' = Live /\ Live \subseteq DeploymentId
        /\ \A d \in DeploymentId : isTerminalPhase(d)' <=> isTerminalPhase(d)
    BY DEF Live, isTerminalPhase
  <1>2. \A a \in AssignmentId : /\ Stored(a)' <=> Stored(a)
                                /\ Wanted(a)' <=> Wanted(a)
                                /\ Serves(a)' <=> Serves(a)
                                /\ Wanted(a) => Stored(a)
    BY DEF SameInstance, Stored, Wanted, Serves
  <1>3. OneAtATime'
    BY <1>1 DEF WriterInv, OneAtATime, Idle
  <1>4. RequestsFit'
    BY <1>2 DEF WriterInv, RequestsFit, Numbered, SameInstance
  <1>5. DeploymentsFit'
    BY <1>1 DEF WriterInv, DeploymentsFit
  <1>6. InstancesFit'
    <2>1. \A n \in Node : node'[n].status = "ALIVE"
      BY DEF WriterInv, InstancesFit
    <2>2. \A a \in AssignmentId : a > minted' => Pristine(a)'
      BY DEF WriterInv, InstancesFit
    <2>3. \A a \in AssignmentId : Stored(a)' =>
             /\ assignment'[a].node \in Node /\ assignment'[a].rel # NoId
             /\ assignment'[a].rel <= lastRelease' /\ assignment'[a].dep <= lastDeployment'
      BY <1>2 DEF WriterInv, InstancesFit, SameInstance
    <2>4. \A a, b \in AssignmentId : Serves(a)' /\ Serves(b)' => a = b
      BY <1>2 DEF WriterInv, InstancesFit
    <2>5. \A a \in AssignmentId : Wanted(a)' => Serves(a)' \/ assignment'[a].dep \in Live'
      BY <1>1, <1>2 DEF WriterInv, InstancesFit, SameInstance
    <2>6. ASSUME NEW d \in Live', NEW a \in AssignmentId, Stored(a)',
                 assignment'[a].dep = d \/ assignment'[a].rel = deployment'[d].rel
          PROVE  Started(d, a)'
      BY <1>1, <1>2, <2>6 DEF WriterInv, InstancesFit, SameInstance
    <2> QED
      BY <2>1, <2>2, <2>3, <2>4, <2>5, <2>6 DEF InstancesFit
  <1>7. ServesKept'
    BY <1>1, <1>2 DEF WriterInv, ServesKept
  <1>8. ASSUME NEW d \in Live, RunningOwn(d) PROVE RunningOwn(d)'
    <2>1. PICK a \in containers : assignment[a].dep = d /\ Wanted(a)
      BY <1>8 DEF RunningOwn
    <2>2. a \in AssignmentId /\ Stored(a) /\ Started(d, a)
      BY <1>2, <2>1 DEF WriterInv, InstancesFit
    <2>3. a \in containers' /\ assignment'[a].dep = d /\ Wanted(a)'
      BY <1>2, <2>1, <2>2 DEF SameInstance
    <2> QED
      BY <2>3 DEF RunningOwn
  <1>9. PromotesRunning'
    BY <1>1, <1>8 DEF WriterInv, PromotesRunning
  <1>10. ArmsFit'
    <2>1. CASE todo' = <<>>
      BY <2>1 DEF ArmsFit, Idle
    <2>2. CASE todo' = todo
      <3> SUFFICES ASSUME ~Idle, NEW d \in Live PROVE ArmFits(d, todo)'
        BY <1>1, <2>2 DEF ArmsFit, Idle
      <3>1. ArmFits(d, todo)
        BY DEF WriterInv, ArmsFit
      <3>2. NoOwn(d)' <=> NoOwn(d)
        BY <1>2 DEF NoOwn, SameInstance
      <3>3. \A p : Moves(d, p) => Moves(d, p)'
        BY <1>2, <1>8, <3>2 DEF Moves
      <3>4. \A a \in AssignmentId : \A put, want : Rewrites(a, put, want)' <=> Rewrites(a, put, want)
        BY <1>2 DEF Rewrites, SameInstance
      <3>5. \A puts : Stops(d, puts) => Stops(d, puts)'
        BY <3>4 DEF Stops, SameInstance
      <3>6. \A puts : Starts(d, puts) => Starts(d, puts)'
        BY <3>2 DEF Starts
      <3>7. \A puts : Restarts(puts) => Restarts(puts)'
        BY <1>2, <3>4 DEF Restarts
      <3>8. Failing(d)' <=> Failing(d)
        BY DEF Failing
      <3>9. PICK s : s = todo
        OBVIOUS
      <3>10. deployment' = deployment
             /\ (\A a \in AssignmentId : Stored(a)' /\ assignment'[a].dep = d => a \in s[1].ids)
                  <=> (\A a \in AssignmentId : Stored(a) /\ assignment[a].dep = d => a \in s[1].ids)
        BY <1>2 DEF SameInstance
      <3>11. s[1].op = "DeleteAssignments" => s[1].ids \subseteq AssignmentId
        <4>1. s # <<>> /\ s \in Seq(ArmStep)
          BY <3>9 DEF Idle
        <4>2. s[1] \in ArmStep
          BY <4>1
        <4> QED
          BY <4>2 DEF ArmStep
      <3>12. s[1].op = "DeleteAssignments" /\ (\A a \in s[1].ids : assignment[a].dep = d)
               => \A a \in s[1].ids : assignment'[a].dep = d
        BY <3>11 DEF SameInstance
      <3>13. ArmFits(d, s)
        BY <3>1, <3>9
      <3>14. ArmFits(d, s)'
        BY <3>2, <3>3, <3>5, <3>6, <3>7, <3>8, <3>10, <3>12, <3>13 DEF ArmFits
      <3> QED
        BY <2>2, <3>9, <3>14
    <2> QED
      BY <2>1, <2>2
  <1> QED
    BY <1>3, <1>4, <1>5, <1>6, <1>7, <1>9, <1>10 DEF WriterInv

\* A step of the agent stores nothing.
LEMMA AgentQuiet ==
    ASSUME Shape, WriterInv, AgentStep, UNCHANGED <<orch, api, doomed, sched>>,
           \A a \in AssignmentId : SameInstance(a) /\ (Untouched(a) => Untouched(a)')
                                     /\ (Pristine(a) => Pristine(a)'),
           \A d \in Live, a \in AssignmentId : Stored(a) /\ Started(d, a) =>
              Started(d, a)' /\ (a \in containers => a \in containers'),
           FrameSafe', OneContainer'
    PROVE  WriterInv'
  <1>1. /\ UNCHANGED <<env, release, deployment, node, minted, requests, lastRelease, lastDeployment>>
        /\ UNCHANGED <<pass, todo>> /\ UNCHANGED <<view, work>>
    BY DEF AgentStep, sendAssignments, reconcileExecutor, flushStatus, dropStatus, pollLiveness,
           orch, api, sched, store
  <1>2. \A a \in AssignmentId : (Stored(a)' <=> Stored(a)) /\ (Serves(a)' <=> Serves(a))
                                  /\ (Wanted(a)' <=> Wanted(a))
    BY <1>1 DEF SameInstance, Stored, Serves, Wanted
  <1>3. Live' = Live
    BY <1>1 DEF Live, isTerminalPhase
  <1>4. WorkFits'
    <2> SUFFICES ASSUME NEW i \in DOMAIN work, NEW w, w = work[i], EvalFits(i, w)
                 PROVE  EvalFits(i, w)'
      BY <1>1 DEF WriterInv, WorkFits
    <2>1. \A a \in AssignmentId : \A put, want : Rewrites(a, put, want)' <=> Rewrites(a, put, want)
      BY <1>2 DEF Rewrites, SameInstance
    <2>2. w \in EvalStep
      BY Typed
    <2>3. /\ w.op = "Batch" => w.stop \subseteq AssignmentId
          /\ w.op = "DeleteAssignments" => w.ids \subseteq AssignmentId
      BY <2>2 DEF EvalStep
    <2> QED
      BY <1>1, <1>2, <1>3, <2>1, <2>3 DEF EvalFits
  <1>5. containers \subseteq AssignmentId /\ todo \in Seq(ArmStep)
    BY Typed
  <1>6. LowestTouched'
    BY <1>2 DEF WriterInv, LowestTouched
  <1> QED
    BY <1>1, <1>4, <1>5, <1>6, QuietStep

LEMMA AgentWriter ==
    ASSUME OneWriterSetting, Shape, WriterInv, AgentStep, UNCHANGED <<orch, api, doomed, sched>>
    PROVE  WriterInv'
  <1>1. /\ assignment \in [AssignmentId -> Assignment] /\ AssignmentId \subseteq Nat \ {0}
        /\ containers \subseteq AssignmentId /\ frame \in Frame /\ volume \in Volume
        /\ reported \in [AssignmentId -> InstanceState \cup {"NONE"}]
        /\ Live \subseteq DeploymentId /\ work' = work /\ NoId = 0
    BY Typed DEF Live, sched
  <1>2. /\ FrameSafe /\ OneContainer /\ LowestTouched
    BY DEF WriterInv
  <1>3. CASE sendAssignments
    <2>1. /\ UNCHANGED <<env, release, deployment, assignment, volume, containers, reported>>
          /\ frame' = CurrentFrame /\ frame'.lease = volume.lease
          /\ \A a \in AssignmentId : frame'.desired[a] = assignment[a].desired
      BY <1>1, <1>3 DEF sendAssignments, store, CurrentFrame
    <2>2. \A a \in AssignmentId : SameInstance(a) /\ (Untouched(a) => Untouched(a)')
      BY <1>1, <2>1 DEF SameInstance, Untouched
    <2>3. \A a \in AssignmentId : Pristine(a) => Pristine(a)'
      BY <2>1, <2>2 DEF Pristine, Stored
    <2>4. \A d \in Live, a \in AssignmentId : Stored(a) /\ Started(d, a) =>
              Started(d, a)' /\ (a \in containers => a \in containers')
      BY <1>1, <2>1 DEF Started, Wanted, Stored
    <2>5. FrameSafe'
      <3> SUFFICES ASSUME NEW c \in containers, NEW a \in AssignmentId,
                          Wanted(c), Wanted(a), volume.lease = a, c # a
                   PROVE  FALSE
        BY <1>1, <2>1 DEF FrameSafe, Wanted
      <3>1. c \in AssignmentId /\ (c < a \/ a < c)
        BY <1>1
      <3>2. ~Untouched(a) /\ ~Untouched(c)
        BY DEF Untouched
      <3> QED
        BY <1>2, <3>1, <3>2 DEF LowestTouched
    <2> QED
      BY <1>2, <2>1, <2>2, <2>3, <2>4, <2>5, AgentQuiet DEF OneContainer
  <1>4. CASE reconcileExecutor
    <2> DEFINE gone == {c \in containers : frame.desired[c] # "RUN"}
               withheld == {a \in Missing : leaseWithholds(a)}
    <2>1. PICK failed \in SUBSET (Missing \ withheld) :
           LET started == Missing \ (withheld \cup failed)
           IN  /\ containers' = (containers \ gone) \cup started
               /\ reported' = [a \in AssignmentId |->
                     CASE a \in gone /\ frame.desired[a] = "STOP" -> "STOPPED"
                       [] a \in withheld -> "STARTING"
                       [] a \in failed -> "FAILED"
                       [] a \in started -> "RUNNING"
                       [] OTHER -> reported[a]]
               /\ UNCHANGED <<store, minted, volume, frame>>
      <3>1. "stopFails" \notin AgentFaults
        BY DEF OneWriterSetting
      <3>2. gone \ {} = gone
        OBVIOUS
      <3> QED
        BY <1>4, <3>1, <3>2 DEF reconcileExecutor
    <2> DEFINE started == Missing \ (withheld \cup failed)
    <2>2. \A a \in started : a \in AssignmentId /\ frame.desired[a] = "RUN" /\ frame.lease = a
      BY DEF Missing, leaseWithholds
    <2>3. /\ containers' = (containers \ gone) \cup started
          /\ UNCHANGED <<env, release, deployment, assignment, volume, frame>>
      BY <2>1 DEF store
    <2>4. \A a \in AssignmentId : reported'[a] # reported[a] =>
             /\ reported'[a] \in {"STOPPED", "STARTING", "FAILED", "RUNNING"}
             /\ a \in containers \/ frame.desired[a] = "RUN"
      <3> SUFFICES ASSUME NEW a \in AssignmentId, reported'[a] # reported[a]
                   PROVE  /\ reported'[a] \in {"STOPPED", "STARTING", "FAILED", "RUNNING"}
                          /\ a \in containers \/ frame.desired[a] = "RUN"
        OBVIOUS
      <3>1. \A b \in Missing : frame.desired[b] = "RUN"
        BY DEF Missing
      <3>2. CASE a \in gone \/ a \in Missing
        BY <2>1, <3>1, <3>2
      <3>3. CASE a \notin gone /\ a \notin Missing
        BY <2>1, <3>3
      <3> QED
        BY <3>2, <3>3
    <2> HIDE DEF gone, started, withheld
    <2>5. \A c \in containers : c \notin containers' => frame.desired[c] # "RUN"
      BY <2>3 DEF gone
    <2>6. \A c \in containers' : frame.desired[c] = "RUN" /\ (c \in containers \/ frame.lease = c)
      BY <2>2, <2>3 DEF gone
    <2>7. \A a \in AssignmentId : SameInstance(a) /\ (Untouched(a) => Untouched(a)')
      BY <1>1, <2>3, <2>6 DEF SameInstance, Untouched
    <2>8. \A a \in AssignmentId : Pristine(a) => Pristine(a)'
      BY <2>3, <2>4, <2>7 DEF Pristine, Stored, Untouched
    <2>9. \A d \in Live, a \in AssignmentId : Stored(a) /\ Started(d, a) =>
              Started(d, a)' /\ (a \in containers => a \in containers')
      BY <2>3, <2>4, <2>5, <2>6 DEF Started, Wanted, Stored
    <2>10. FrameSafe'
      BY <1>2, <2>3, <2>6 DEF FrameSafe
    <2>11. OneContainer'
      <3> SUFFICES ASSUME NEW c \in containers', NEW a \in containers' PROVE c = a
        BY DEF OneContainer
      <3>1. c \in AssignmentId /\ a \in AssignmentId
        BY <1>1, <2>2, <2>3
      <3> QED
        BY <1>2, <2>6, <3>1 DEF FrameSafe, OneContainer
    <2> QED
      BY <2>7, <2>8, <2>9, <2>10, <2>11, AgentQuiet
  <1>5. CASE flushStatus
    <2>1. /\ UNCHANGED <<env, release, deployment, volume, frame, containers>>
          /\ \A a \in AssignmentId : reported'[a] = "NONE"
          /\ assignment' = [a \in AssignmentId |->
               IF Stored(a) /\ reported[a] # "NONE"
               THEN [assignment[a] EXCEPT !.obs = MergeObserved(assignment[a].obs, reported[a])]
               ELSE assignment[a]]
      BY <1>5 DEF flushStatus, NoReports
    <2>2. ASSUME NEW a \in AssignmentId
          PROVE  /\ SameInstance(a)
                 /\ assignment'[a].obs \in {assignment[a].obs, reported[a]}
      <3>1. PICK s : s = MergeObserved(assignment[a].obs, reported[a])
        OBVIOUS
      <3>2. s \in {assignment[a].obs, reported[a]}
        BY <3>1 DEF MergeObserved
      <3>3. assignment[a] \in Assignment
        BY <1>1
      <3>4. assignment'[a] = assignment[a] \/ assignment'[a] = [assignment[a] EXCEPT !.obs = s]
        BY <2>1, <3>1
      <3> QED
        BY <3>2, <3>3, <3>4 DEF SameInstance, Assignment
    <2>3. \A a \in AssignmentId : Untouched(a) => Untouched(a)'
      BY <1>1, <2>1 DEF Untouched
    <2>4. \A a \in AssignmentId : Pristine(a) => Pristine(a)'
      BY <2>1, <2>2, <2>3 DEF Pristine, Stored, SameInstance
    <2>5. \A d \in Live, a \in AssignmentId : Stored(a) /\ Started(d, a) =>
              Started(d, a)' /\ (a \in containers => a \in containers')
      BY <2>1, <2>2 DEF Started, Wanted, Stored, SameInstance
    <2> QED
      BY <1>2, <2>1, <2>2, <2>3, <2>4, <2>5, AgentQuiet DEF FrameSafe, OneContainer
  <1>6. ASSUME UNCHANGED <<env, release, deployment, assignment, volume, frame, containers>>,
               \A a \in AssignmentId : reported'[a] \in {reported[a], "NONE"} \/ a \in containers
        PROVE  WriterInv'
    <2>1. \A a \in AssignmentId : SameInstance(a) /\ (Untouched(a) => Untouched(a)')
      BY <1>1, <1>6 DEF SameInstance, Untouched
    <2>2. \A a \in AssignmentId : Pristine(a) => Pristine(a)'
      BY <1>6, <2>1 DEF Pristine, Stored, Untouched
    <2>3. \A d \in Live, a \in AssignmentId : Stored(a) /\ Started(d, a) =>
              Started(d, a)' /\ (a \in containers => a \in containers')
      BY <1>6 DEF Started, Wanted, Stored
    <2> QED
      BY <1>2, <1>6, <2>1, <2>2, <2>3, AgentQuiet DEF FrameSafe, OneContainer
  <1>7. CASE dropStatus
    BY <1>6, <1>7 DEF dropStatus, NoReports, store
  <1>8. ASSUME NEW c \in AssignmentId, pollLiveness(c) PROVE WriterInv'
    <2>1. \A a \in AssignmentId : reported'[a] \in {reported[a], "NONE"} \/ a \in containers
      BY <1>1, <1>8 DEF pollLiveness
    <2> QED
      BY <1>6, <1>8, <2>1 DEF pollLiveness, store
  <1> QED
    BY <1>3, <1>4, <1>5, <1>7, <1>8 DEF AgentStep

\* Where the steps an evaluation has left come from.
LEMMA ExpandedAt ==
    ASSUME NEW steps \in Seq(EvalStep), work \in Seq(EvalStep), work # <<>>
    PROVE  /\ \A w : w = steps \o Tail(work) =>
                 \A i \in DOMAIN w : \/ i \in DOMAIN steps /\ w[i] = steps[i]
                                     \/ \E j \in DOMAIN work : j # 1 /\ w[i] = work[j]
           /\ \A i \in DOMAIN Tail(work) : \E j \in DOMAIN work : j # 1 /\ Tail(work)[i] = work[j]
  <1> DEFINE w == steps \o Tail(work)
  <1>1. /\ Tail(work) \in Seq(EvalStep) /\ Len(Tail(work)) = Len(work) - 1
        /\ \A i \in 1..Len(Tail(work)) : Tail(work)[i] = work[i + 1]
    BY HeadTailProperties
  <1>2. /\ w \in Seq(EvalStep) /\ Len(w) = Len(steps) + Len(Tail(work))
        /\ \A i \in 1..Len(steps) + Len(Tail(work)) :
              w[i] = IF i <= Len(steps) THEN steps[i] ELSE Tail(work)[i - Len(steps)]
    BY <1>1, ConcatProperties
  <1>3. /\ DOMAIN work = 1..Len(work) /\ DOMAIN steps = 1..Len(steps)
        /\ DOMAIN w = 1..Len(w) /\ DOMAIN Tail(work) = 1..Len(Tail(work))
        /\ Len(work) \in Nat /\ Len(steps) \in Nat /\ Len(work) > 0
    BY <1>1, <1>2
  <1> HIDE DEF w
  <1>4. ASSUME NEW i \in DOMAIN Tail(work)
        PROVE  \E j \in DOMAIN work : j # 1 /\ Tail(work)[i] = work[j]
    <2>1. i + 1 \in DOMAIN work /\ i + 1 # 1 /\ Tail(work)[i] = work[i + 1]
      BY <1>1, <1>3
    <2> QED
      BY <2>1
  <1>5. ASSUME NEW i \in DOMAIN w
        PROVE  \/ i \in DOMAIN steps /\ w[i] = steps[i]
               \/ \E j \in DOMAIN work : j # 1 /\ w[i] = work[j]
    <2>1. CASE i <= Len(steps)
      BY <2>1, <1>2, <1>3
    <2>2. CASE ~(i <= Len(steps))
      <3>1. i \in 1..Len(steps) + Len(Tail(work)) /\ Len(Tail(work)) \in Nat
        BY <1>1, <1>2, <1>3
      <3>2. i - Len(steps) \in DOMAIN Tail(work)
        BY <2>2, <3>1, <1>3
      <3>3. w[i] = Tail(work)[i - Len(steps)]
        BY <2>2, <3>1, <1>2
      <3> QED
        BY <3>2, <3>3, <1>4
    <2> QED
      BY <2>1, <2>2
  <1> QED
    BY <1>4, <1>5 DEF w

\* The steps behind the first fit wherever they end up.
LEMMA RestFits ==
    ASSUME WriterInv, NEW j \in DOMAIN work, j # 1, NEW i
    PROVE  EvalFits(i, work[j]) /\ work[j].op \notin {"Batch", "PutAssignments"}
  <1>1. EvalFits(j, work[j])
    BY DEF WriterInv, WorkFits
  <1>2. work[j].op \notin {"Batch", "PutAssignments"}
    BY <1>1 DEF EvalFits
  <1> QED
    BY <1>1, <1>2 DEF EvalFits

\* A step of an evaluation that sends no command.
LEMMA ExpandWriter ==
    ASSUME Shape, WriterInv, work # <<>>, NEW steps \in Seq(EvalStep), Expand(steps),
           UNCHANGED <<minted, orch, api, volume, agent>>,
           \A i \in DOMAIN steps : EvalFits(i, steps[i]),
           \A i \in DOMAIN steps : steps[i].op = "PutVolumeLease" =>
              steps[i].holder \in statefulHolder
    PROVE  WriterInv'
  <1>1. /\ UNCHANGED <<env, release, deployment, node, assignment, minted>>
        /\ UNCHANGED <<requests, lastRelease, lastDeployment, pass, todo>>
        /\ UNCHANGED <<view, volume, frame, containers, failCount, reported>>
        /\ work' = steps \o Tail(work)
    BY DEF Expand, store, orch, api, agent
  <1>2. work \in Seq(EvalStep) /\ containers \subseteq AssignmentId /\ todo \in Seq(ArmStep)
        /\ AssignmentId \subseteq Nat \ {0}
    BY Typed
  <1>3. \A i \in DOMAIN work' : \/ i \in DOMAIN steps /\ work'[i] = steps[i]
                                \/ \E j \in DOMAIN work : j # 1 /\ work'[i] = work[j]
    BY <1>1, <1>2, ExpandedAt
  <1>4. \A i, w : EvalFits(i, w)' <=> EvalFits(i, w)
    BY <1>1 DEF EvalFits, Live, isTerminalPhase, Serves, Stored, Wanted, Rewrites
  <1>5. WorkFits'
    <2> SUFFICES ASSUME NEW i \in DOMAIN work' PROVE EvalFits(i, work'[i])
      BY <1>4 DEF WorkFits
    <2>1. CASE i \in DOMAIN steps /\ work'[i] = steps[i]
      BY <2>1
    <2>2. CASE \E j \in DOMAIN work : j # 1 /\ work'[i] = work[j]
      BY <2>2, RestFits
    <2> QED
      BY <1>3, <2>1, <2>2
  <1>6. \A a \in AssignmentId : SameInstance(a) /\ (Stored(a)' <=> Stored(a)) /\ (Wanted(a)' <=> Wanted(a))
    BY <1>1 DEF SameInstance, Stored, Wanted
  <1>7. ASSUME NEW a \in AssignmentId, Untouched(a), a \notin statefulHolder
        PROVE  Untouched(a)'
    BY <1>1, <1>3, <1>7 DEF Untouched
  <1>8. \A a \in statefulHolder : /\ a \in AssignmentId /\ Wanted(a)
                                  /\ \A b \in AssignmentId : Wanted(b) => a <= b
    BY DEF statefulHolder, Running, Wanted
  <1>9. \A a \in AssignmentId : Pristine(a) => Pristine(a)'
    BY <1>1, <1>7, <1>8 DEF Pristine, Stored, Wanted
  <1>10. LowestTouched'
    <2> SUFFICES ASSUME NEW a \in AssignmentId, NEW b \in AssignmentId, Wanted(a), Wanted(b), b < a
                 PROVE  Untouched(a)'
      BY <1>6 DEF LowestTouched
    <2>1. Untouched(a)
      BY DEF WriterInv, LowestTouched
    <2>2. a \notin statefulHolder
      BY <1>2, <1>8
    <2> QED
      BY <1>7, <2>1, <2>2
  <1>11. \A d \in Live, a \in AssignmentId : Stored(a) /\ Started(d, a) =>
              Started(d, a)' /\ (a \in containers => a \in containers')
    BY <1>1 DEF Started, Wanted, Stored
  <1>12. FrameSafe' /\ OneContainer'
    BY <1>1 DEF WriterInv, FrameSafe, OneContainer
  <1> QED
    BY <1>1, <1>2, <1>5, <1>6, <1>9, <1>10, <1>11, <1>12, QuietStep

\* A command of an evaluation: some instances are stopped or deleted.
LEMMA ReapWriter ==
    ASSUME Shape, WriterInv, work # <<>>, Live = {}, work' = Tail(work),
           UNCHANGED <<env, release, deployment, node, minted, view, volume, orch, api, agent>>,
           \A a \in AssignmentId :
              \/ SameInstance(a)
              \/ assignment'[a] = NoAssignment /\ ~Wanted(a)
              \/ Rewrites(a, assignment'[a], "STOP") /\ (ScaleToZero \/ ~Serves(a))
    PROVE  WriterInv'
  <1>1. /\ UNCHANGED <<requests, lastRelease, lastDeployment, pass, todo>>
        /\ UNCHANGED <<frame, containers, failCount, reported>>
    BY DEF orch, api, agent
  <1>2. /\ work \in Seq(EvalStep) /\ containers \subseteq AssignmentId
        /\ AssignmentId \subseteq Nat \ {0}
    BY Typed
  <1>3. Idle /\ Idle' /\ Live' = {}
    BY <1>1 DEF WriterInv, OneAtATime, Idle, Live, isTerminalPhase
  <1>4. \A a \in AssignmentId : /\ Stored(a)' => Stored(a) /\ assignment'[a].rel = assignment[a].rel
                                     /\ assignment'[a].dep = assignment[a].dep
                                     /\ assignment'[a].node = assignment[a].node
                                /\ Wanted(a)' => Wanted(a)
                                /\ Serves(a)' => Serves(a)
    BY DEF SameInstance, Rewrites, Stored, Wanted, Serves, NoAssignment
  <1>5. ~ScaleToZero => \A a \in AssignmentId : Serves(a) => Wanted(a)
    BY DEF WriterInv, ServesKept
  <1>6. ~ScaleToZero => \A a \in AssignmentId : Serves(a) => Serves(a)' /\ Wanted(a)'
    BY <1>5 DEF SameInstance, Stored, Wanted, Serves, NoAssignment
  <1>7. \A i \in DOMAIN work' : \E j \in DOMAIN work : j # 1 /\ work'[i] = work[j]
    <2>1. <<>> \in Seq(EvalStep)
      OBVIOUS
    <2> QED
      BY <1>2, <2>1, ExpandedAt
  <1>8. \A a \in AssignmentId : Untouched(a) => Untouched(a)'
    BY <1>1, <1>7 DEF Untouched
  <1>9. \A a \in AssignmentId : Pristine(a) => Pristine(a)'
    BY <1>1, <1>4, <1>8 DEF Pristine
  <1>10. OneAtATime'
    BY <1>1, <1>3 DEF WriterInv, OneAtATime
  <1>11. RequestsFit'
    BY <1>1, <1>4 DEF WriterInv, RequestsFit, Numbered
  <1>12. DeploymentsFit'
    BY <1>1, <1>3 DEF WriterInv, DeploymentsFit
  <1>13. InstancesFit'
    <2>1. \A a \in AssignmentId : Wanted(a)' => Serves(a)'
      BY <1>4 DEF WriterInv, InstancesFit, SameInstance, Stored, Wanted, Serves, Rewrites, NoAssignment
    <2>2. \A a \in AssignmentId : Stored(a)' =>
             /\ assignment'[a].node \in Node /\ assignment'[a].rel # NoId
             /\ assignment'[a].rel <= lastRelease' /\ assignment'[a].dep <= lastDeployment'
      BY <1>1, <1>4 DEF WriterInv, InstancesFit
    <2> QED
      BY <1>1, <1>3, <1>4, <1>9, <2>1, <2>2 DEF WriterInv, InstancesFit
  <1>14. ServesKept'
    BY <1>4, <1>6 DEF WriterInv, ServesKept
  <1>15. LowestTouched'
    BY <1>4, <1>8 DEF WriterInv, LowestTouched
  <1>16. FrameSafe' /\ OneContainer' /\ PromotesRunning' /\ ArmsFit'
    BY <1>1, <1>3 DEF WriterInv, FrameSafe, OneContainer, PromotesRunning, ArmsFit
  <1>17. WorkFits'
    <2> SUFFICES ASSUME NEW i \in DOMAIN work', NEW w, w = work'[i] PROVE EvalFits(i, w)'
      BY DEF WorkFits
    <2>1. PICK j \in DOMAIN work : j # 1 /\ work'[i] = work[j]
      BY <1>7
    <2>2. w = work[j]
      BY <2>1
    <2>3. EvalFits(i, w) /\ w.op \notin {"Batch", "PutAssignments"} /\ w \in EvalStep
      BY <1>2, <2>1, <2>2, RestFits
    <2>4. w.op = "DeleteAssignments" => w.ids \subseteq AssignmentId
      BY <2>3 DEF EvalStep
    <2> QED
      BY <1>3, <1>4, <2>3, <2>4 DEF EvalFits
  <1> QED
    BY <1>10, <1>11, <1>12, <1>13, <1>14, <1>15, <1>16, <1>17 DEF WriterInv

\* Converging a settled environment starts nothing, and stops what serves only to
\* scale it to zero.
LEMMA ConvergeWriter ==
    ASSUME OneWriterSetting, Shape, WriterInv, ConvergeEnv,
           UNCHANGED <<orch, api, volume, agent>>
    PROVE  WriterInv'
  <1> DEFINE desired == desiredReplicas(view)
             have == Cardinality(Good)
             excess == IF have > desired THEN NewestOf(Good, have - desired) ELSE {}
             short == IF desired > have THEN desired - have ELSE 0
             stop == StaleRelease \cup excess
             delete == Reapable(AssignmentId) \cup Lost
  <1>1. work # <<>> /\ Head(work).op = "Converge"
    BY DEF ConvergeEnv, AtStep
  <1>2. /\ work \in Seq(EvalStep) /\ env \in Environment /\ AssignmentId \subseteq Nat \ {0}
        /\ minted \in Nat /\ NoId = 0
    BY Typed
  <1>3. 1 \in DOMAIN work /\ Head(work) = work[1]
    BY <1>1, <1>2
  <1>4. Live = {} /\ view = env
    BY <1>1, <1>3 DEF WriterInv, WorkFits, EvalFits
  <1>5. /\ \A a \in AssignmentId : Wanted(a) => Serves(a)
        /\ \A a, b \in AssignmentId : Serves(a) /\ Serves(b) => a = b
        /\ \A a \in AssignmentId : Stored(a) => assignment[a].node \in Node /\ assignment[a].rel # NoId
        /\ \A n \in Node : node[n].status = "ALIVE"
    BY <1>4 DEF WriterInv, InstancesFit
  <1>6. /\ StaleRelease = {} /\ Lost = {}
        /\ Good = {a \in AssignmentId : Wanted(a)}
    BY <1>4, <1>5, StatefulAssumption DEF StaleRelease, Lost, Good, CurrentReplicas, Running, Serves,
       Stored, Wanted, nodeDown
  <1>7. IsFiniteSet(Good) /\ have \in Nat
    <2>1. IsFiniteSet(AssignmentId)
      BY StoreAssumption, FS_Interval DEF AssignmentId
    <2> QED
      BY <1>6, <2>1, FS_Subset, FS_CardinalityType
  <1>8. env.effective = 0 /\ (~ScaleToZero /\ env.active # NoId => \E a \in AssignmentId : Wanted(a))
    BY <1>4 DEF WriterInv, DeploymentsFit, ServesKept
  <1>9. /\ ScaleToZero => desired = 0
        /\ ~ScaleToZero => desired = IF env.active = NoId THEN 0 ELSE 1
    BY <1>4, <1>8 DEF desiredReplicas, OneWriterSetting
  <1>10. ~ScaleToZero => have = desired
    <2>1. CASE env.active = NoId
      <3>1. Good = {}
        BY <1>5, <1>6, <2>1 DEF Serves
      <3> QED
        BY <1>9, <2>1, <3>1, FS_EmptySet
    <2>2. CASE env.active # NoId /\ ~ScaleToZero
      <3>1. PICK a \in AssignmentId : Wanted(a)
        BY <1>8, <2>2
      <3>2. Good = {a}
        BY <1>5, <1>6, <3>1
      <3> QED
        BY <1>9, <2>2, <3>2, FS_Singleton
    <2> QED
      BY <2>1, <2>2
  <1>11. desired \in Nat /\ desired <= have
    BY <1>7, <1>9, <1>10, StoreAssumption
  <1>12. short = 0
    BY <1>7, <1>11
  <1>13. excess \subseteq Good /\ (~ScaleToZero => excess = {})
    BY <1>7, <1>10 DEF NewestOf
  <1>14. PICK picks \in Place(short, {}) :
              /\ minted' = minted + Len(picks)
              /\ Expand(BatchSteps(IF picks = <<>> THEN NoPuts
                                   ELSE NewAssignments(picks, view.active, NoId), stop, delete))
    BY DEF ConvergeEnv
  <1> HIDE DEF desired, have, excess, short
  <1>15. picks = <<>> /\ Len(picks) = 0
    <2>1. PICK k \in 0..0 : picks \in [1..k -> Node] /\ Len(picks) = k
      BY <1>12, PlacedOn
    <2> QED
      BY <2>1
  <1>16. minted' = minted /\ Expand(BatchSteps(NoPuts, stop, delete))
    BY <1>2, <1>14, <1>15
  <1>17. stop \in SUBSET AssignmentId /\ delete \in SUBSET AssignmentId
    BY <1>6, <1>13 DEF Reapable
  <1>18. /\ \A a \in stop : ScaleToZero \/ ~Serves(a)
         /\ \A a \in delete : ~Wanted(a)
    BY <1>6, <1>13 DEF Reapable, Wanted
  <1> HIDE DEF stop, delete
  <1>19. PICK steps : steps = BatchSteps(NoPuts, stop, delete)
    OBVIOUS
  <1>20. /\ steps \in Seq(EvalStep)
         /\ \A i \in DOMAIN steps : (steps[i] = Batch(NoPuts, stop) /\ i = 1)
                                       \/ steps[i] = DeleteAssignments(delete)
    BY <1>17, <1>19, NoPutsType, BatchTypes
  <1>21. EvalFits(1, Batch(NoPuts, stop)) /\ \A i : EvalFits(i, DeleteAssignments(delete))
    BY <1>4, <1>18 DEF EvalFits, Batch, DeleteAssignments
  <1>22. \A i \in DOMAIN steps : EvalFits(i, steps[i]) /\ steps[i].op # "PutVolumeLease"
    BY <1>20, <1>21 DEF Batch, DeleteAssignments
  <1>23. Expand(steps)
    BY <1>16, <1>19
  <1> QED
    BY <1>1, <1>16, <1>20, <1>22, <1>23, ExpandWriter

LEMMA SchedWriter ==
    ASSUME OneWriterSetting, Shape, WriterInv, StatefulSched
    PROVE  WriterInv'
  <1>1. UNCHANGED <<orch, api, agent>>
    BY DEF StatefulSched
  <1>2. /\ work \in Seq(EvalStep) /\ assignment \in [AssignmentId -> Assignment]
        /\ AssignmentId \subseteq Nat \ {0} /\ todo \in Seq(ArmStep)
        /\ containers \subseteq AssignmentId /\ volume \in Volume
    BY Typed
  <1>3. ASSUME work # <<>>
        PROVE  1 \in DOMAIN work /\ Head(work) = work[1] /\ EvalFits(1, Head(work)) /\ Head(work) \in EvalStep
    BY <1>2, <1>3 DEF WriterInv, WorkFits
  <1>4. ASSUME UNCHANGED <<store, minted>>,
               volume'.lease = volume.lease
                 \/ \E i \in DOMAIN work : work[i].op = "PutVolumeLease" /\ work[i].holder = volume'.lease,
               WorkFits',
               \A i \in DOMAIN work' : work'[i].op = "PutVolumeLease" => \E j \in DOMAIN work : work'[i] = work[j]
        PROVE  WriterInv'
    <2>1. /\ UNCHANGED <<env, release, deployment, node, assignment, minted>>
          /\ UNCHANGED <<requests, lastRelease, lastDeployment, pass, todo>>
          /\ UNCHANGED <<frame, containers, failCount, reported>>
      BY <1>1, <1>4 DEF store, orch, api, agent
    <2>2. \A a \in AssignmentId : Untouched(a) => Untouched(a)'
      BY <1>4, <2>1 DEF Untouched
    <2>3. \A a \in AssignmentId : SameInstance(a) /\ (Pristine(a) => Pristine(a)')
      BY <2>1, <2>2 DEF SameInstance, Pristine, Stored
    <2>4. \A d \in Live, a \in AssignmentId : Stored(a) /\ Started(d, a) =>
              Started(d, a)' /\ (a \in containers => a \in containers')
      BY <2>1 DEF Started, Wanted, Stored
    <2>5. LowestTouched' /\ FrameSafe' /\ OneContainer'
      BY <2>1, <2>2 DEF WriterInv, LowestTouched, FrameSafe, OneContainer, Wanted
    <2> QED
      BY <1>2, <1>4, <2>1, <2>3, <2>4, <2>5, QuietStep
  <1>5. ASSUME work # <<>>, Expand(<<>>), UNCHANGED <<minted, volume>> PROVE WriterInv'
    <2>1. PICK steps : steps = <<>>
      OBVIOUS
    <2>2. steps \in Seq(EvalStep) /\ DOMAIN steps = {} /\ Expand(steps)
      BY <1>5, <2>1
    <2> QED
      BY <1>1, <1>5, <2>2, ExpandWriter
  <1>6. CASE statefulEvaluate
    <2>1. /\ UNCHANGED <<store, minted, volume>> /\ view' = env
          /\ work' = <<CheckOwner, RenewLease>>
      BY <1>6 DEF statefulEvaluate
    <2>2. /\ DOMAIN work' = {1, 2} /\ work'[1].op = "CheckOwner" /\ work'[2].op = "RenewLease"
      BY <2>1 DEF CheckOwner, RenewLease
    <2>3. view' = env'
      BY <2>1 DEF store
    <2>4. WorkFits'
      BY <2>2, <2>3 DEF WorkFits, EvalFits
    <2> QED
      BY <1>4, <2>1, <2>2, <2>4
  <1>7. CASE evaluateEnv /\ UNCHANGED volume
    <2>1. work # <<>> /\ Head(work).op = "CheckOwner"
      BY <1>7 DEF evaluateEnv, AtStep
    <2>2. view = env
      BY <1>3, <2>1 DEF EvalFits
    <2>3. CASE deploymentOwnsEnv \/ (view.active # NoId /\ release[view.active] = "ABSENT")
      BY <1>7, <1>5, <2>1, <2>3 DEF evaluateEnv
    <2>4. CASE ~deploymentOwnsEnv /\ Expand(<<Converge>>)
      <3>1. Live = {} /\ UNCHANGED minted
        BY <1>7, <2>4 DEF Live, deploymentOwnsEnv, evaluateEnv
      <3>2. <<Converge>> \in Seq(EvalStep)
        BY EvalStepTypes, EvalSeq
      <3>3. EvalFits(1, Converge) /\ Converge.op # "PutVolumeLease"
        BY <2>2, <3>1 DEF EvalFits, Converge
      <3>4. \A i \in DOMAIN <<Converge>> : i = 1 /\ <<Converge>>[i] = Converge
        OBVIOUS
      <3> QED
        BY <1>1, <1>7, <2>1, <2>4, <3>1, <3>2, <3>3, <3>4, ExpandWriter
    <2> QED
      BY <1>7, <2>3, <2>4 DEF evaluateEnv
  <1>8. CASE ConvergeEnv /\ UNCHANGED volume
    BY <1>1, <1>8, ConvergeWriter
  <1>9. CASE reconcileLeases
    <2>1. work # <<>> /\ UNCHANGED <<minted, volume>>
      BY <1>9 DEF reconcileLeases, AtStep
    <2>2. CASE Expand(<<>>)
      BY <1>5, <2>1, <2>2
    <2>3. ASSUME NEW a \in statefulHolder, Expand(<<PutVolumeLease(a)>>)
          PROVE  WriterInv'
      <3>1. <<PutVolumeLease(a)>> \in Seq(EvalStep)
        BY EvalStepTypes, EvalSeq DEF statefulHolder, Running
      <3>2. EvalFits(1, PutVolumeLease(a)) /\ PutVolumeLease(a).holder = a
        BY DEF EvalFits, PutVolumeLease
      <3>3. \A i \in DOMAIN <<PutVolumeLease(a)>> : i = 1 /\ <<PutVolumeLease(a)>>[i] = PutVolumeLease(a)
        OBVIOUS
      <3> QED
        BY <1>1, <2>1, <2>3, <3>1, <3>2, <3>3, ExpandWriter
    <2> QED
      BY <1>9, <2>2, <2>3 DEF reconcileLeases
  <1>10. CASE applyBatch /\ UNCHANGED volume
    <2> DEFINE flip == {a \in Head(work).stop : assignment[a].desired = "RUN"}
               puts == [a \in AssignmentId |->
                      IF a \in flip THEN FlipTo(flip, "STOP")[a] ELSE Head(work).puts[a]]
    <2>1. /\ work # <<>> /\ Head(work).op = "Batch"
          /\ UNCHANGED minted /\ Expand(IF puts = NoPuts THEN <<>> ELSE <<PutAssignments(puts)>>)
      BY <1>10 DEF applyBatch, AtStep
    <2>2. /\ Head(work).stop \in SUBSET AssignmentId /\ Head(work).puts = NoPuts
          /\ Live = {} /\ \A a \in Head(work).stop : ScaleToZero \/ ~Serves(a)
      BY <1>3, <2>1 DEF EvalStep, EvalFits
    <2>3. ASSUME NEW a \in AssignmentId, puts[a] # NoAssignment
          PROVE  Rewrites(a, puts[a], "STOP") /\ (ScaleToZero \/ ~Serves(a))
      <3>1. a \in flip /\ puts[a] = [assignment[a] EXCEPT !.desired = "STOP"]
        BY <2>2, <2>3 DEF NoPuts, FlipTo
      <3>2. assignment[a] \in Assignment /\ Stored(a)
        BY <1>2, <3>1 DEF Stored
      <3>3. PICK r : r = [assignment[a] EXCEPT !.desired = "STOP"]
        OBVIOUS
      <3>4. r.desired = "STOP" /\ r.rel = assignment[a].rel /\ r.dep = assignment[a].dep
            /\ r.node = assignment[a].node
        BY <3>2, <3>3 DEF Assignment
      <3>5. puts[a] = r
        BY <3>1, <3>3
      <3> QED
        BY <2>2, <3>1, <3>2, <3>4, <3>5 DEF Rewrites
    <2>4. FlipTo(flip, "STOP") \in Puts
      BY <1>2, <2>2, FlipPuts DEF Puts
    <2>5. puts \in Puts
      BY <2>2, <2>4, NoPutsType DEF Puts
    <2> HIDE DEF puts
    <2>6. <<PutAssignments(puts)>> \in Seq(EvalStep)
      BY <2>5, EvalStepTypes, EvalSeq
    <2>7. EvalFits(1, PutAssignments(puts)) /\ PutAssignments(puts).op # "PutVolumeLease"
      BY <2>2, <2>3 DEF EvalFits, PutAssignments
    <2>8. \A i \in DOMAIN <<PutAssignments(puts)>> : i = 1 /\ <<PutAssignments(puts)>>[i] = PutAssignments(puts)
      OBVIOUS
    <2>9. CASE Expand(<<>>)
      BY <1>10, <1>5, <2>1, <2>9
    <2>10. CASE Expand(<<PutAssignments(puts)>>)
      BY <1>1, <1>10, <2>1, <2>6, <2>7, <2>8, <2>10, ExpandWriter
    <2> QED
      BY <2>1, <2>9, <2>10
  <1>11. CASE SchedApply /\ UNCHANGED volume
    <2>1. /\ work # <<>> /\ Head(work).op # "SetDrained" /\ UNCHANGED <<minted, view>>
          /\ work' = Tail(work)
      BY <1>3, <1>11 DEF SchedApply, EvalStep
    <2>2. CASE Head(work).op = "PutAssignments" /\ applyPutAssignments(Head(work).puts)
      <3>1. /\ UNCHANGED <<env, release, deployment, node>> /\ Live = {}
            /\ \A a \in AssignmentId : Head(work).puts[a] # NoAssignment =>
                  Rewrites(a, Head(work).puts[a], "STOP") /\ (ScaleToZero \/ ~Serves(a))
            /\ \A a \in AssignmentId :
                  assignment'[a] = IF Head(work).puts[a] # NoAssignment THEN Head(work).puts[a]
                                   ELSE assignment[a]
        BY <1>3, <2>1, <2>2 DEF applyPutAssignments, EvalFits
      <3>2. \A a \in AssignmentId :
              SameInstance(a) \/ (Rewrites(a, assignment'[a], "STOP") /\ (ScaleToZero \/ ~Serves(a)))
        BY <3>1 DEF SameInstance
      <3> QED
        BY <1>1, <1>11, <2>1, <3>1, <3>2, ReapWriter
    <2>3. CASE Head(work).op = "DeleteAssignments" /\ applyDeleteAssignments(Head(work).ids)
      <3>1. /\ UNCHANGED <<env, release, deployment, node>> /\ Live = {}
            /\ \A a \in Head(work).ids : ~Wanted(a)
            /\ \A a \in AssignmentId :
                  assignment'[a] = IF a \in Head(work).ids THEN NoAssignment ELSE assignment[a]
        BY <1>3, <2>1, <2>3 DEF applyDeleteAssignments, EvalFits
      <3>2. \A a \in AssignmentId : SameInstance(a) \/ (assignment'[a] = NoAssignment /\ ~Wanted(a))
        BY <3>1 DEF SameInstance
      <3> QED
        BY <1>1, <1>11, <2>1, <3>1, <3>2, ReapWriter
    <2> QED
      BY <1>11, <2>1, <2>2, <2>3 DEF SchedApply, AtStep
  <1>12. CASE applyPutVolumeLease
    <2>1. /\ work # <<>> /\ Head(work).op = "PutVolumeLease" /\ UNCHANGED <<store, minted, view>>
          /\ work' = Tail(work) /\ volume' = [volume EXCEPT !.lease = Head(work).holder]
      BY <1>12 DEF applyPutVolumeLease, AtStep
    <2>2. volume'.lease = Head(work).holder
      BY <1>2, <2>1 DEF Volume
    <2>3. \A i \in DOMAIN work' : \E j \in DOMAIN work : j # 1 /\ work'[i] = work[j]
      <3>1. <<>> \in Seq(EvalStep)
        OBVIOUS
      <3> QED
        BY <1>2, <2>1, <3>1, ExpandedAt
    <2>4. \A i, w : EvalFits(i, w)' <=> EvalFits(i, w)
      BY <2>1 DEF EvalFits, Live, isTerminalPhase, Serves, Stored, Wanted, Rewrites, store
    <2>5. WorkFits'
      BY <2>3, <2>4, RestFits DEF WorkFits
    <2> QED
      BY <1>3, <1>4, <2>1, <2>2, <2>3, <2>5
  <1> QED
    BY <1>6, <1>7, <1>8, <1>9, <1>10, <1>11, <1>12 DEF StatefulSched

\* A request that has moved on.
Moved(q, r, stage) ==
    r.stage = stage /\ r.kind = q.kind /\ r.dep = q.dep /\ r.rel = q.rel /\ r.prev = q.prev

\* What a step of a request leaves behind: at most one request.
LEMMA RequestLeft ==
    ASSUME OneWriterSetting, Shape, WriterInv, ApiStep
    PROVE  /\ UNCHANGED <<env, assignment, node, minted>>
           /\ \/ \E r : /\ requests' = {r} /\ r.stage = "read" /\ r.kind \in Inputs
                        /\ r.prev = env.active
                        /\ UNCHANGED <<release, deployment, lastRelease, lastDeployment>>
              \/ \E r : /\ requests' = {r} /\ r.stage \in {"build", "release"} /\ r.kind \in Inputs
                        /\ r.dep = lastDeployment + 1 /\ r.rel = lastRelease + 1
                        /\ r.prev \in {NoId, env.active}
                        /\ lastRelease + 1 \in ReleaseId /\ lastDeployment + 1 \in DeploymentId
                        /\ lastRelease' = lastRelease + 1 /\ lastDeployment' = lastDeployment + 1
                        /\ UNCHANGED <<release, deployment>>
              \/ /\ UNCHANGED <<lastRelease, lastDeployment>>
                 /\ \E q \in requests :
                      \/ requests' = {} /\ UNCHANGED <<release, deployment>>
                      \/ \E r : /\ requests' = {r} /\ q.stage = "read" /\ Moved(q, r, "checked")
                                /\ UNCHANGED <<release, deployment>>
                      \/ \E r : /\ requests' = {r} /\ q.stage = "build" /\ Moved(q, r, "release")
                                /\ UNCHANGED <<release, deployment>>
                      \/ \E r : /\ requests' = {r} /\ q.stage = "release" /\ Moved(q, r, "deployment")
                                /\ UNCHANGED deployment
                                /\ \E s \in {"IMAGE", "SOURCE"} : release' = [release EXCEPT ![q.rel] = s]
                      \/ /\ q.stage = "deployment" /\ requests' = {} /\ UNCHANGED release
                         /\ \E b : deployment' = [deployment EXCEPT ![q.dep] =
                               [rel |-> q.rel, prev |-> q.prev, phase |-> "PENDING", rollback |-> b]]
  <1>1. UNCHANGED <<env, assignment, node, minted>>
    BY RequestTypes DEF Shape, StatefulTypeOK
  <1>2. /\ \A p, q \in requests : p = q
        /\ \A q \in requests : q.kind \in Inputs /\ q.prev \in {NoId, env.active}
        /\ Inputs \cap {"rollback", "rollbackToActive"} = {} /\ MaxInFlight = 1
        /\ lastRelease \in Nat /\ lastDeployment \in Nat /\ requests \subseteq Request
    BY Typed DEF WriterInv, OneAtATime, RequestsFit, OneWriterSetting, OneByOne
  <1>3. Cardinality(requests) < MaxInFlight => requests = {}
    <2>1. ASSUME NEW q \in requests PROVE requests = {q}
      BY <1>2
    <2>2. \A q \in requests : Cardinality(requests) = 1
      BY <2>1, FS_Singleton
    <2> QED
      BY <1>2, <2>2
  <1>4. \A q \in requests : requests \ {q} = {} /\ q \in Request
    BY <1>2
  <1>5. ASSUME CanMint(TRUE) PROVE lastRelease + 1 \in ReleaseId /\ lastDeployment + 1 \in DeploymentId
    BY <1>2, <1>5, StoreAssumption DEF CanMint, ReleaseId, DeploymentId
  <1>6. CASE DeployGit
    <2>1. PICK r : r = [stage |-> "build", kind |-> "git", dep |-> lastDeployment + 1,
                        rel |-> lastRelease + 1, prev |-> NoId]
      OBVIOUS
    <2>2. /\ r.stage = "build" /\ r.kind = "git" /\ r.dep = lastDeployment + 1
          /\ r.rel = lastRelease + 1 /\ r.prev = NoId
      BY <2>1
    <2>3. /\ requests' = {r} /\ "git" \in Inputs /\ CanMint(TRUE) /\ UNCHANGED <<release, deployment>>
          /\ lastRelease' = lastRelease + 1 /\ lastDeployment' = lastDeployment + 1
      BY <1>3, <1>6, <2>1 DEF DeployGit, store
    <2> QED
      BY <1>1, <1>5, <2>2, <2>3
  <1>7. ASSUME NEW kind \in Inputs, resolveEnv(kind)
        PROVE  \E r : /\ requests' = {r} /\ r.stage = "read" /\ r.kind \in Inputs /\ r.prev = env.active
                      /\ UNCHANGED <<release, deployment, lastRelease, lastDeployment>>
    <2>1. PICK r : r = [stage |-> "read", kind |-> kind, dep |-> NoId, rel |-> NoId, prev |-> env.active]
      OBVIOUS
    <2>2. requests' = {r} /\ UNCHANGED <<release, deployment, lastRelease, lastDeployment>>
      BY <1>3, <1>7, <2>1 DEF resolveEnv, store
    <2>3. r.stage = "read" /\ r.kind = kind /\ r.prev = env.active
      BY <2>1
    <2> QED
      BY <2>2, <2>3
  <1>8. ASSUME NEW q \in requests, NEW stage
        PROVE  \E r : r = [q EXCEPT !.stage = stage] /\ Moved(q, r, stage)
    <2>1. PICK r : r = [q EXCEPT !.stage = stage]
      OBVIOUS
    <2>2. /\ r.stage = stage /\ r.kind = q.kind /\ r.dep = q.dep
          /\ r.rel = q.rel /\ r.prev = q.prev
      BY <1>4, <2>1 DEF Request
    <2> QED
      BY <2>1, <2>2 DEF Moved
  <1>9. ASSUME NEW q \in requests, Refuse(q)
        PROVE  requests' = {} /\ UNCHANGED <<release, deployment, lastRelease, lastDeployment>>
    BY <1>4, <1>9 DEF Refuse, store
  <1>10. ASSUME NEW q \in requests, Check(q)
         PROVE  /\ UNCHANGED <<release, deployment, lastRelease, lastDeployment>>
                /\ \E r : requests' = {r} /\ q.stage = "read" /\ Moved(q, r, "checked")
    BY <1>4, <1>8, <1>10 DEF Check, store
  <1>11. ASSUME NEW q \in requests, CommitBuild(q)
         PROVE  /\ UNCHANGED <<release, deployment, lastRelease, lastDeployment>>
                /\ \E r : requests' = {r} /\ q.stage = "build" /\ Moved(q, r, "release")
    BY <1>4, <1>8, <1>11 DEF CommitBuild
  <1>12. ASSUME NEW q \in requests, CommitRelease(q)
         PROVE  /\ UNCHANGED <<deployment, lastRelease, lastDeployment>>
                /\ \E r : requests' = {r} /\ q.stage = "release" /\ Moved(q, r, "deployment")
                /\ \E s \in {"IMAGE", "SOURCE"} : release' = [release EXCEPT ![q.rel] = s]
    BY <1>4, <1>8, <1>12 DEF CommitRelease
  <1>13. ASSUME NEW q \in requests, CommitDeployment(q)
         PROVE  /\ UNCHANGED <<release, lastRelease, lastDeployment>>
                /\ q.stage = "deployment" /\ requests' = {}
                /\ \E b : deployment' = [deployment EXCEPT ![q.dep] =
                       [rel |-> q.rel, prev |-> q.prev, phase |-> "PENDING", rollback |-> b]]
    <2>1. /\ UNCHANGED <<release, lastRelease, lastDeployment>> /\ q.stage = "deployment" /\ requests' = {}
      BY <1>4, <1>13 DEF CommitDeployment
    <2>2. \E b : deployment' = [deployment EXCEPT ![q.dep] =
                       [rel |-> q.rel, prev |-> q.prev, phase |-> "PENDING", rollback |-> b]]
      BY <1>13, Zenon DEF CommitDeployment
    <2> QED
      BY <2>1, <2>2
  <1>14. ASSUME NEW q \in requests, buildDeployment(q)
         PROVE  \E r : /\ requests' = {r} /\ r.stage \in {"build", "release"} /\ r.kind \in Inputs
                       /\ r.dep = lastDeployment + 1 /\ r.rel = lastRelease + 1
                       /\ r.prev \in {NoId, env.active}
                       /\ lastRelease + 1 \in ReleaseId /\ lastDeployment + 1 \in DeploymentId
                       /\ lastRelease' = lastRelease + 1 /\ lastDeployment' = lastDeployment + 1
                       /\ UNCHANGED <<release, deployment>>
    <2>1. PICK stage : stage = IF q.kind = "upload" THEN "build" ELSE "release"
      OBVIOUS
    <2>2. PICK r : r = [q EXCEPT !.stage = stage, !.rel = lastRelease + 1, !.dep = lastDeployment + 1]
      OBVIOUS
    <2>3. /\ r.stage = stage /\ r.kind = q.kind /\ r.dep = lastDeployment + 1
          /\ r.rel = lastRelease + 1 /\ r.prev = q.prev
      BY <1>4, <2>2 DEF Request
    <2>4. requests' = {r} /\ CanMint(TRUE) /\ UNCHANGED <<release, deployment>>
          /\ lastRelease' = lastRelease + 1 /\ lastDeployment' = lastDeployment + 1
      BY <1>4, <1>14, <2>1, <2>2 DEF buildDeployment, store
    <2> QED
      BY <1>2, <1>5, <2>1, <2>3, <2>4
  <1>15. \A q \in requests, r \in ReleaseId : ~Rollback(q, r)
    BY <1>2 DEF Rollback
  <1> QED
    BY <1>1, <1>6, <1>7, <1>9, <1>10, <1>11, <1>12, <1>13, <1>14, <1>15 DEF ApiStep

LEMMA ApiWriter ==
    ASSUME OneWriterSetting, Shape, WriterInv, StatefulApi, RequestWaits
    PROVE  WriterInv'
  <1>1. ApiStep /\ Undisturbed /\ UNCHANGED <<orch, sched, volume, agent>>
    BY DEF StatefulApi
  <1>2. /\ UNCHANGED <<pass, todo, view, work, volume, frame, containers, reported>>
        /\ UNCHANGED <<env, assignment, node, minted>>
    BY <1>1, RequestLeft DEF orch, sched, agent
  <1>3. /\ deployment \in [DeploymentId -> Deployment] /\ assignment \in [AssignmentId -> Assignment]
        /\ release \in [ReleaseId -> {"ABSENT", "SOURCE", "IMAGE"}] /\ requests \subseteq Request
        /\ lastRelease \in Nat /\ lastDeployment \in Nat /\ env.active \in Nat
        /\ ReleaseId \subseteq Nat \ {0} /\ DeploymentId \subseteq Nat \ {0} /\ NoId = 0
    BY Typed
  <1>4. Live = {}
    <2> SUFFICES ASSUME Live # {} PROVE FALSE
      OBVIOUS
    <2>1. deploymentOwnsEnv /\ requests = {}
      BY DEF Live, deploymentOwnsEnv, WriterInv, OneAtATime
    <2>2. requests' = {}
      BY <2>1 DEF RequestWaits
    <2> QED
      BY <1>1, <2>1, <2>2, RequestLeft
  <1>5. Idle /\ Idle' /\ pass = {} /\ pass' = {}
    BY <1>2, <1>4 DEF WriterInv, OneAtATime, Idle
  <1>6. \A a \in AssignmentId : /\ Stored(a)' <=> Stored(a)
                                /\ Wanted(a)' <=> Wanted(a)
                                /\ Serves(a)' <=> Serves(a)
                                /\ Untouched(a)' <=> Untouched(a)
                                /\ Pristine(a)' <=> Pristine(a)
    BY <1>2 DEF Stored, Wanted, Serves, Untouched, Pristine
  <1>7. WorkFits'
    <2>1. \A i \in DOMAIN work' : work'[i].op \in {"RenewLease", "PutVolumeLease"}
      BY <1>1, <1>2 DEF Undisturbed, OneWriterSetting
    <2> QED
      BY <2>1 DEF WorkFits, EvalFits
  <1>8. LowestTouched' /\ FrameSafe' /\ OneContainer' /\ ArmsFit'
    BY <1>2, <1>5, <1>6 DEF WriterInv, LowestTouched, FrameSafe, OneContainer, ArmsFit
  <1>9. /\ env.effective = 0 /\ env.active <= lastRelease
        /\ \A n \in Node : node[n].status = "ALIVE"
        /\ \A a \in AssignmentId : a > minted => Pristine(a)
        /\ \A a \in AssignmentId : Stored(a) =>
              /\ assignment[a].node \in Node /\ assignment[a].rel # NoId
              /\ assignment[a].rel <= lastRelease /\ assignment[a].dep <= lastDeployment
        /\ \A a, b \in AssignmentId : Serves(a) /\ Serves(b) => a = b
        /\ \A a \in AssignmentId : Wanted(a) => Serves(a)
        /\ ~ScaleToZero => /\ env.active # NoId => \E a \in AssignmentId : Serves(a)
                           /\ \A a \in AssignmentId : Serves(a) => Wanted(a)
    BY <1>4 DEF WriterInv, DeploymentsFit, InstancesFit, ServesKept
  <1>10. \A a \in AssignmentId : assignment[a].rel \in Nat /\ assignment[a].dep \in Nat
    <2>1. \A a \in AssignmentId : /\ assignment[a].rel \in {NoId} \cup ReleaseId
                                  /\ assignment[a].dep \in {NoId} \cup DeploymentId
      BY <1>3 DEF Assignment
    <2>2. NoId \in Nat /\ ReleaseId \subseteq Nat /\ DeploymentId \subseteq Nat
      BY <1>3
    <2> QED
      BY <2>1, <2>2
  <1>11. ASSUME lastRelease' \in Nat, lastDeployment' \in Nat,
                lastRelease <= lastRelease', lastDeployment <= lastDeployment'
         PROVE  /\ env'.effective = 0 /\ env'.active <= lastRelease'
                /\ \A n \in Node : node'[n].status = "ALIVE"
                /\ \A a \in AssignmentId : a > minted' => Pristine(a)'
                /\ \A a \in AssignmentId : Stored(a)' =>
                      /\ assignment'[a].node \in Node /\ assignment'[a].rel # NoId
                      /\ assignment'[a].rel <= lastRelease' /\ assignment'[a].dep <= lastDeployment'
                /\ \A a, b \in AssignmentId : Serves(a)' /\ Serves(b)' => a = b
                /\ \A a \in AssignmentId : Wanted(a)' => Serves(a)'
                /\ ServesKept'
    <2>1. \A a \in AssignmentId : Stored(a)' =>
             /\ assignment'[a].node \in Node /\ assignment'[a].rel # NoId
             /\ assignment'[a].rel <= lastRelease' /\ assignment'[a].dep <= lastDeployment'
      BY <1>2, <1>3, <1>6, <1>9, <1>10, <1>11
    <2>2. ServesKept'
      BY <1>2, <1>6, <1>9 DEF ServesKept
    <2>3. env'.effective = 0 /\ env'.active <= lastRelease'
      BY <1>2, <1>3, <1>9, <1>11
    <2> QED
      BY <1>2, <1>6, <1>9, <2>1, <2>2, <2>3
  <1>12. ASSUME UNCHANGED deployment, lastRelease' \in Nat, lastDeployment' \in Nat,
                lastRelease <= lastRelease', lastDeployment <= lastDeployment',
                RequestsFit', \A p, q \in requests' : p = q
         PROVE  WriterInv'
    <2>1. Live' = {}
      BY <1>4, <1>12 DEF Live, isTerminalPhase
    <2>2. OneAtATime' /\ PromotesRunning'
      BY <1>5, <1>12, <2>1 DEF OneAtATime, PromotesRunning
    <2>3. DeploymentsFit' /\ InstancesFit' /\ ServesKept'
      BY <1>11, <1>12, <2>1 DEF DeploymentsFit, InstancesFit
    <2> QED
      BY <1>7, <1>8, <1>12, <2>2, <2>3 DEF WriterInv
  <1>13. \A q \in requests :
            /\ q.kind \in Inputs /\ q.prev \in {NoId, env.active}
            /\ q.stage = "deployment" => release[q.rel] # "ABSENT"
            /\ Numbered(q) =>
                  /\ q.rel \in ReleaseId /\ q.rel = lastRelease /\ q.rel # env.active
                  /\ q.dep \in DeploymentId /\ q.dep = lastDeployment
                  /\ \A a \in AssignmentId :
                        Stored(a) => assignment[a].rel # q.rel /\ assignment[a].dep # q.dep
    BY DEF WriterInv, RequestsFit
  <1>14. ASSUME NEW r, requests' = {r}, r.stage = "read", r.kind \in Inputs, r.prev = env.active,
                UNCHANGED <<release, deployment, lastRelease, lastDeployment>>
         PROVE  WriterInv'
    <2>1. RequestsFit'
      BY <1>2, <1>14 DEF RequestsFit, Numbered
    <2> QED
      BY <1>3, <1>12, <1>14, <2>1
  <1>15. ASSUME NEW r, requests' = {r}, r.stage \in {"build", "release"}, r.kind \in Inputs,
                r.dep = lastDeployment + 1, r.rel = lastRelease + 1, r.prev \in {NoId, env.active},
                lastRelease + 1 \in ReleaseId, lastDeployment + 1 \in DeploymentId,
                lastRelease' = lastRelease + 1, lastDeployment' = lastDeployment + 1,
                UNCHANGED <<release, deployment>>
         PROVE  WriterInv'
    <2>1. r.rel # env.active
      BY <1>3, <1>9, <1>15
    <2>2. \A a \in AssignmentId : Stored(a)' => assignment'[a].rel # r.rel /\ assignment'[a].dep # r.dep
      BY <1>2, <1>3, <1>6, <1>9, <1>10, <1>15
    <2>3. RequestsFit'
      BY <1>2, <1>15, <2>1, <2>2 DEF RequestsFit, Numbered
    <2>4. /\ lastRelease' \in Nat /\ lastDeployment' \in Nat
          /\ lastRelease <= lastRelease' /\ lastDeployment <= lastDeployment'
      BY <1>3, <1>15
    <2> QED
      BY <1>12, <1>15, <2>3, <2>4
  <1>16. ASSUME NEW q \in requests, NEW r, NEW stage, requests' = {r}, Moved(q, r, stage),
                stage = "checked" \/ Numbered(q), stage = "deployment" => release'[q.rel] # "ABSENT",
                UNCHANGED <<deployment, lastRelease, lastDeployment>>
         PROVE  WriterInv'
    <2>1. RequestsFit'
      BY <1>2, <1>6, <1>13, <1>16 DEF RequestsFit, Numbered, Moved
    <2> QED
      BY <1>3, <1>12, <1>16, <2>1
  <1>17. ASSUME requests' = {}, UNCHANGED <<release, deployment, lastRelease, lastDeployment>>
         PROVE  WriterInv'
    <2>1. RequestsFit'
      BY <1>17 DEF RequestsFit
    <2> QED
      BY <1>3, <1>12, <1>17, <2>1
  <1>18. ASSUME NEW q \in requests, q.stage = "release", NEW s \in {"IMAGE", "SOURCE"},
                release' = [release EXCEPT ![q.rel] = s]
         PROVE  release'[q.rel] # "ABSENT"
    BY <1>3, <1>13, <1>18 DEF Numbered
  <1>19. ASSUME NEW q \in requests, q.stage = "deployment", requests' = {}, NEW b,
                deployment' = [deployment EXCEPT ![q.dep] =
                   [rel |-> q.rel, prev |-> q.prev, phase |-> "PENDING", rollback |-> b]],
                UNCHANGED <<release, lastRelease, lastDeployment>>
         PROVE  WriterInv'
    <2>1. /\ q.rel \in ReleaseId /\ q.rel = lastRelease /\ q.rel # env.active
          /\ q.dep \in DeploymentId /\ q.dep = lastDeployment /\ release[q.rel] # "ABSENT"
          /\ q.prev \in {NoId, env.active}
          /\ \A a \in AssignmentId :
                Stored(a) => assignment[a].rel # q.rel /\ assignment[a].dep # q.dep
      BY <1>13, <1>19 DEF Numbered
    <2>2. PICK rec : rec = [rel |-> q.rel, prev |-> q.prev, phase |-> "PENDING", rollback |-> b]
      OBVIOUS
    <2>3. rec.rel = q.rel /\ rec.prev = q.prev /\ rec.phase = "PENDING"
      BY <2>2
    <2>4. deployment'[q.dep] = rec /\ \A d \in DeploymentId : d # q.dep => deployment'[d] = deployment[d]
      BY <1>3, <1>19, <2>1, <2>2
    <2>5. Live' = {q.dep}
      BY <1>4, <2>1, <2>3, <2>4 DEF Live, isTerminalPhase, LivePhase
    <2>6. OneAtATime' /\ PromotesRunning' /\ RequestsFit'
      BY <1>5, <1>19, <2>3, <2>4, <2>5 DEF OneAtATime, PromotesRunning, RequestsFit
    <2>7. DeploymentsFit'
      BY <1>2, <1>3, <1>11, <1>19, <2>1, <2>3, <2>4, <2>5 DEF DeploymentsFit
    <2>8. InstancesFit'
      BY <1>2, <1>3, <1>6, <1>11, <1>19, <2>1, <2>3, <2>4, <2>5 DEF InstancesFit
    <2> QED
      BY <1>3, <1>7, <1>8, <1>11, <1>19, <2>6, <2>7, <2>8 DEF WriterInv
  <1> QED
    BY <1>1, <1>14, <1>15, <1>16, <1>17, <1>18, <1>19, RequestLeft DEF Numbered

(***************************************************************************)
(* The orchestrator.                                                       *)
(***************************************************************************)
LEMMA PhaseFits ==
    ASSUME NEW d \in DeploymentId, NEW p, Moves(d, p)
    PROVE  ArmFits(d, setPhase(d, p))
  <1>1. setPhase(d, p)[1].op = "SetDeploymentPhase" /\ setPhase(d, p)[1].phase = p
    BY DEF setPhase, SetDeploymentPhase
  <1> QED
    BY <1>1 DEF ArmFits

\* The instances a deployment has stored are the ones it counts.
LEMMA OwnInstances ==
    ASSUME WriterInv, NEW d \in Live
    PROVE  /\ \A a \in AssignmentId : a \in greenAssignments(d) <=> Stored(a) /\ assignment[a].dep = d
           /\ greenAssignments(d) = {} <=> NoOwn(d)
           /\ deployment[d].phase \notin {"STARTING", "HEALTHCHECKING", "PROMOTING"} => NoOwn(d)
           /\ \A a \in greenAssignments(d) : a \in AssignmentId /\ Wanted(a) /\ Started(d, a)
  <1>1. \A a \in AssignmentId : Stored(a) /\ assignment[a].dep = d => Started(d, a) /\ Wanted(a)
    BY DEF WriterInv, InstancesFit, Started
  <1>2. \A a \in AssignmentId : a \in greenAssignments(d) <=> Stored(a) /\ assignment[a].dep = d
    BY <1>1 DEF greenAssignments, Wanted, Stored
  <1>3. \A a \in greenAssignments(d) : a \in AssignmentId
    BY DEF greenAssignments
  <1>4. deployment[d].phase \notin {"STARTING", "HEALTHCHECKING", "PROMOTING"} => NoOwn(d)
    BY <1>1 DEF NoOwn, Started
  <1> QED
    BY <1>1, <1>2, <1>3, <1>4 DEF NoOwn

LEMMA FailFits ==
    ASSUME WriterInv, NEW d \in Live, Failing(d)
    PROVE  ArmFits(d, statefulFail(d))
  <1>1. d \in DeploymentId /\ "FAILED" \in Phase
    BY DEF Live, Phase, TerminalPhase
  <1>2. statefulFail(d) = IF greenAssignments(d) = {} THEN <<RestartOld(d)>>
                          ELSE <<DeleteAssignments(greenAssignments(d)), RestartOld(d)>>
    BY <1>1, ReapSteps
  <1>3. CASE greenAssignments(d) = {}
    <2>1. NoOwn(d)
      BY <1>3, OwnInstances
    <2>2. <<RestartOld(d)>>[1].op = "RestartOld"
      BY DEF RestartOld
    <2> QED
      BY <1>2, <1>3, <2>1, <2>2 DEF ArmFits
  <1>4. CASE greenAssignments(d) # {}
    <2>1. PICK g : g = greenAssignments(d)
      OBVIOUS
    <2>2. PICK steps : steps = <<DeleteAssignments(g), RestartOld(d)>>
      OBVIOUS
    <2>3. steps[1].op = "DeleteAssignments" /\ steps[1].ids = g
      BY <2>2 DEF DeleteAssignments
    <2>4. /\ \A a \in AssignmentId : Stored(a) /\ assignment[a].dep = d => a \in g
          /\ \A a \in g : assignment[a].dep = d
      BY <2>1, OwnInstances
    <2>5. ArmFits(d, steps)
      BY <2>2, <2>3, <2>4 DEF ArmFits
    <2> QED
      BY <1>2, <1>4, <2>1, <2>2, <2>5
  <1> QED
    BY <1>3, <1>4

\* A deployment that is given up before it stopped anything.
LEMMA AbortFits ==
    ASSUME WriterInv, NEW d \in Live, deployment[d].phase \in {"PENDING", "BUILDING"}
    PROVE  ArmFits(d, abort(d))
  <1>1. NoOwn(d) /\ greenAssignments(d) = {} /\ d \in DeploymentId
    BY OwnInstances DEF Live
  <1>2. ~ScaleToZero => \A a \in AssignmentId : Serves(a) => Wanted(a)
    BY DEF WriterInv, ServesKept, OneAtATime
  <1>3. Moves(d, "FAILED")
    BY <1>1, <1>2 DEF Moves
  <1> QED
    BY <1>1, <1>3, PhaseFits DEF abort, reapGreen

LEMMA VisitWriter ==
    ASSUME OneWriterSetting, Shape, WriterInv, Undisturbed, NEW d \in DeploymentId, Turn(d),
           NEW steps, Visit(d, steps), minted' \in Nat, minted <= minted',
           steps = <<>> \/ ArmFits(d, steps)',
           UNCHANGED <<sched, api, volume, agent>>
    PROVE  WriterInv'
  <1>1. /\ UNCHANGED <<env, release, deployment, assignment, node, requests, lastRelease, lastDeployment>>
        /\ UNCHANGED <<view, work, volume, frame, containers, reported>>
        /\ todo' = steps /\ pass' = pass \ {d} /\ Idle /\ d \in pass
    BY DEF Visit, Turn, store, sched, api, agent
  <1>2. Live = {d} /\ Live' = {d} /\ pass = {d} /\ pass' = {} /\ requests = {} /\ minted \in Nat
        /\ AssignmentId \subseteq Nat \ {0}
    <2>1. Live' = Live
      BY <1>1 DEF Live, isTerminalPhase
    <2> QED
      BY <1>1, <2>1, Typed DEF WriterInv, OneAtATime
  <1>3. \A a \in AssignmentId : /\ Stored(a)' <=> Stored(a)
                                /\ Wanted(a)' <=> Wanted(a)
                                /\ Serves(a)' <=> Serves(a)
                                /\ Untouched(a)' <=> Untouched(a)
                                /\ Pristine(a)' <=> Pristine(a)
                                /\ Started(d, a)' <=> Started(d, a)
    BY <1>1 DEF Stored, Wanted, Serves, Untouched, Pristine, Started
  <1>4. WorkFits'
    <2>1. \A i \in DOMAIN work' : work'[i].op \in {"RenewLease", "PutVolumeLease"}
      BY <1>1 DEF Undisturbed, OneWriterSetting
    <2> QED
      BY <2>1 DEF WorkFits, EvalFits
  <1>5. OneAtATime' /\ RequestsFit' /\ DeploymentsFit' /\ ServesKept'
    BY <1>1, <1>2, <1>3 DEF WriterInv, OneAtATime, RequestsFit, DeploymentsFit, ServesKept
  <1>6. LowestTouched' /\ FrameSafe' /\ OneContainer'
    BY <1>1, <1>3 DEF WriterInv, LowestTouched, FrameSafe, OneContainer
  <1>7. PromotesRunning'
    BY <1>1, <1>2 DEF WriterInv, PromotesRunning, RunningOwn, Wanted
  <1>8. InstancesFit'
    <2>1. \A a \in AssignmentId : a > minted' => Pristine(a)'
      BY <1>2, <1>3 DEF WriterInv, InstancesFit
    <2>2. \A a \in AssignmentId : Wanted(a)' => Serves(a)' \/ assignment'[a].dep \in Live'
      BY <1>1, <1>2, <1>3 DEF WriterInv, InstancesFit
    <2>3. \A a \in AssignmentId :
             Stored(a)' /\ (assignment'[a].dep = d \/ assignment'[a].rel = deployment'[d].rel)
                => Started(d, a)'
      BY <1>1, <1>2, <1>3 DEF WriterInv, InstancesFit
    <2>4. \A a \in AssignmentId : Stored(a)' =>
             /\ assignment'[a].node \in Node /\ assignment'[a].rel # NoId
             /\ assignment'[a].rel <= lastRelease' /\ assignment'[a].dep <= lastDeployment'
      BY <1>1, <1>3 DEF WriterInv, InstancesFit
    <2>5. /\ \A n \in Node : node'[n].status = "ALIVE"
          /\ \A a, b \in AssignmentId : Serves(a)' /\ Serves(b)' => a = b
      BY <1>1, <1>3 DEF WriterInv, InstancesFit
    <2> QED
      BY <1>2, <2>1, <2>2, <2>3, <2>4, <2>5 DEF InstancesFit
  <1>9. ArmsFit'
    <2> SUFFICES ASSUME ~Idle' PROVE ArmFits(d, todo)'
      BY <1>2 DEF ArmsFit
    <2>1. ArmFits(d, steps)'
      BY <1>1 DEF Idle
    <2> QED
      BY <1>1, <2>1
  <1> QED
    BY <1>4, <1>5, <1>6, <1>7, <1>8, <1>9 DEF WriterInv

\* An instance as a put changes it.
LEMMA Flipped ==
    ASSUME assignment \in [AssignmentId -> Assignment], NEW as \in SUBSET AssignmentId,
           NEW want \in {"RUN", "STOP"}, \A a \in as : Stored(a)
    PROVE  \A a \in AssignmentId :
              /\ FlipTo(as, want)[a] # NoAssignment <=> a \in as
              /\ a \in as => Rewrites(a, FlipTo(as, want)[a], want)
  <1> SUFFICES ASSUME NEW a \in AssignmentId
               PROVE  /\ FlipTo(as, want)[a] # NoAssignment <=> a \in as
                      /\ a \in as => Rewrites(a, FlipTo(as, want)[a], want)
    OBVIOUS
  <1>1. CASE a \notin as
    BY <1>1 DEF FlipTo
  <1>2. CASE a \in as
    <2>1. PICK r : r = [assignment[a] EXCEPT !.desired = want]
      OBVIOUS
    <2>2. FlipTo(as, want)[a] = r
      BY <1>2, <2>1 DEF FlipTo
    <2>3. assignment[a] \in Assignment
      OBVIOUS
    <2>4. r.desired = want /\ r.rel = assignment[a].rel /\ r.dep = assignment[a].dep
          /\ r.node = assignment[a].node
      BY <2>1, <2>3 DEF Assignment
    <2>5. NoAssignment.desired = "ABSENT"
      BY DEF NoAssignment
    <2>6. r # NoAssignment
      BY <2>4, <2>5
    <2> QED
      BY <1>2, <2>2, <2>4, <2>6 DEF Rewrites
  <1> QED
    BY <1>1, <1>2

\* Whether the steps of an arm fit depends on the instances, the deployment and the agent.
LEMMA SameArm ==
    ASSUME NEW d \in DeploymentId, NEW steps,
           UNCHANGED <<env, deployment, assignment, minted>>,
           UNCHANGED <<work, volume, frame, containers, reported>>
    PROVE  ArmFits(d, steps)' <=> ArmFits(d, steps)
  BY DEF ArmFits, Moves, Starts, Stops, Restarts, Rewrites, RunningOwn, NoOwn, Failing,
     Pristine, Untouched, Stored, Wanted, Serves

LEMMA ReconcileWriter ==
    ASSUME OneWriterSetting, Shape, WriterInv, Undisturbed, NEW d \in DeploymentId,
           reconcileStateful(d), UNCHANGED <<sched, agent>>
    PROVE  WriterInv'
  <1>1. Turn(d) /\ UNCHANGED <<api, volume>> /\ d \in Live /\ minted \in Nat
        /\ assignment \in [AssignmentId -> Assignment] /\ volume \in Volume
    BY Typed DEF reconcileStateful, Turn, WriterInv, OneAtATime
  <1>2. ASSUME NEW steps, Visit(d, steps), UNCHANGED minted, steps = <<>> \/ ArmFits(d, steps)
        PROVE  WriterInv'
    <2>1. /\ UNCHANGED <<env, deployment, assignment, minted>>
          /\ UNCHANGED <<work, volume, frame, containers, reported>>
      BY <1>1, <1>2 DEF Visit, store, sched, agent
    <2>2. ArmFits(d, steps)' <=> ArmFits(d, steps)
      BY <2>1, SameArm
    <2> QED
      BY <1>1, <1>2, <2>2, VisitWriter
  <1>3. deployment[d].phase # "PROMOTING" =>
           deployment[d].prev \in {NoId, env.active} /\ deployment[d].rel # env.active
    BY <1>1 DEF WriterInv, DeploymentsFit
  <1>4. CASE statefulPending(d)
    <2>1. deployment[d].phase = "PENDING" /\ UNCHANGED minted
      BY <1>4 DEF statefulPending, Current
    <2>2. ArmFits(d, setPhase(d, "STOPPING_OLD")) /\ ArmFits(d, setPhase(d, "BUILDING"))
      BY <2>1, PhaseFits DEF Moves
    <2>3. ArmFits(d, abort(d))
      BY <1>1, <2>1, AbortFits
    <2>4. Visit(d, setPhase(d, "STOPPING_OLD")) \/ Visit(d, setPhase(d, "BUILDING")) \/ Visit(d, abort(d))
      BY <1>4 DEF statefulPending
    <2> QED
      BY <1>2, <2>1, <2>2, <2>3, <2>4
  <1>5. CASE stopOld(d)
    <2>1. deployment[d].phase = "STOPPING_OLD" /\ UNCHANGED minted
      BY <1>5 DEF stopOld, Current
    <2>2. CASE Visit(d, setPhase(d, "STARTING"))
      <3>1. ArmFits(d, setPhase(d, "STARTING"))
        BY <2>1, PhaseFits DEF Moves
      <3> QED
        BY <1>2, <2>1, <2>2, <3>1
    <2>3. CASE Visit(d, <<PutAssignments(FlipTo(Running(oldInstances(d)), "STOP"))>>)
      <3>1. PICK as : as = Running(oldInstances(d))
        OBVIOUS
      <3>2. /\ as \in SUBSET AssignmentId /\ \A a \in as : Stored(a)
            /\ \A a \in as : assignment[a].dep # d /\ deployment[d].prev # NoId
        BY <3>1 DEF Running, oldInstances
      <3>3. PICK puts : puts = FlipTo(as, "STOP")
        OBVIOUS
      <3>4. Stops(d, puts)
        BY <1>1, <1>3, <2>1, <3>2, <3>3, Flipped DEF Stops
      <3>5. PICK steps : steps = <<PutAssignments(puts)>>
        OBVIOUS
      <3>6. steps[1].op = "PutAssignments" /\ steps[1].puts = puts
        BY <3>5 DEF PutAssignments
      <3>7. ArmFits(d, steps)
        BY <2>1, <3>4, <3>5, <3>6 DEF ArmFits
      <3> QED
        BY <1>2, <2>1, <2>3, <3>1, <3>3, <3>5, <3>7
    <2> QED
      BY <1>5, <2>2, <2>3 DEF stopOld
  <1>6. CASE statefulStart(d)
    <2>1. deployment[d].phase = "STARTING" /\ Failing(d)
      BY <1>6 DEF statefulStart, Current, Failing
    <2>2. ArmFits(d, setPhase(d, "HEALTHCHECKING")) /\ ArmFits(d, statefulFail(d))
      BY <1>1, <2>1, PhaseFits, FailFits DEF Moves
    <2>3. CASE (Visit(d, statefulFail(d)) \/ Visit(d, setPhase(d, "HEALTHCHECKING"))) /\ UNCHANGED minted
      BY <1>2, <2>2, <2>3
    <2>4. ASSUME NEW picks \in Place(1, {}), minted + Len(picks) <= MaxAssignment,
                 minted' = minted + Len(picks), greenAssignments(d) = {},
                 Visit(d, IF picks = <<>> THEN statefulFail(d) ELSE StartSteps(d, picks))
          PROVE  WriterInv'
      <3>1. PICK k \in 0..1 : picks \in [1..k -> Node] /\ Len(picks) = k
        BY PlacedOn
      <3>2. CASE picks = <<>>
        BY <1>1, <1>2, <2>2, <2>4, <3>2
      <3>3. CASE picks # <<>>
        <4>1. k = 1 /\ picks[1] \in Node
          BY <3>1, <3>3
        <4>2. minted' = minted + 1 /\ minted' \in Nat /\ minted' \in AssignmentId /\ minted <= minted'
          BY <1>1, <2>4, <3>1, <4>1, StoreAssumption DEF AssignmentId
        <4>3. PICK puts : puts = NewAssignments(picks, deployment[d].rel, d)
          OBVIOUS
        <4>4. \A a \in AssignmentId : puts[a] # NoAssignment =>
                 a = minted' /\ puts[a] = newAssignment(picks[1], deployment[d].rel, d)
          <5> SUFFICES ASSUME NEW a \in AssignmentId, puts[a] # NoAssignment
                       PROVE  a = minted' /\ puts[a] = newAssignment(picks[1], deployment[d].rel, d)
            OBVIOUS
          <5>1. a \in FreshIds(picks) /\ puts[a] = newAssignment(picks[a - minted], deployment[d].rel, d)
            BY <4>3 DEF NewAssignments
          <5>2. a = minted + 1
            BY <1>1, <3>1, <4>1, <5>1 DEF FreshIds
          <5>3. a - minted = 1
            BY <1>1, <5>2
          <5> QED
            BY <4>2, <5>1, <5>2, <5>3
        <4>5. /\ UNCHANGED <<env, deployment, assignment>>
              /\ UNCHANGED <<work, volume, frame, containers, reported>>
          BY <1>1, <2>4 DEF Visit, store, sched, agent
        <4>6. NoOwn(d) /\ Pristine(minted')
          BY <1>1, <2>4, <4>2, OwnInstances DEF WriterInv, InstancesFit
        <4>7. NoOwn(d)' /\ \A a \in AssignmentId : a = minted' => Pristine(a)'
          BY <4>5, <4>6 DEF NoOwn, Stored, Pristine, Untouched
        <4>8. Starts(d, puts)'
          BY <2>1, <4>1, <4>4, <4>5, <4>7 DEF Starts
        <4>9. PICK steps : steps = StartSteps(d, picks)
          OBVIOUS
        <4>10. steps = <<PutAssignments(puts)>> \/ steps = <<PutVolume, PutAssignments(puts)>>
          <5>1. NewAssignments(picks, deployment[d].rel, d) \in Puts
            <6>1. deployment[d].rel \in AnyRelease
              BY Typed DEF Deployment, AnyRelease
            <6> QED
              BY <1>1, <3>1, <6>1, MintPuts
          <5> QED
            BY <1>1, <4>3, <4>9, <5>1, StartTypes
        <4>11. ArmFits(d, steps)'
          <5>1. CASE steps = <<PutAssignments(puts)>>
            <6>1. steps[1].op = "PutAssignments" /\ steps[1].puts = puts
              BY <5>1 DEF PutAssignments
            <6> QED
              BY <4>8, <5>1, <6>1 DEF ArmFits
          <5>2. CASE steps = <<PutVolume, PutAssignments(puts)>>
            <6>1. steps[1].op = "PutVolume" /\ steps[2].puts = puts
              BY <5>2 DEF PutAssignments, PutVolume
            <6> QED
              BY <4>8, <5>2, <6>1 DEF ArmFits
          <5> QED
            BY <4>10, <5>1, <5>2
        <4> QED
          BY <1>1, <2>4, <3>3, <4>2, <4>9, <4>11, VisitWriter
      <3> QED
        BY <3>2, <3>3
    <2> QED
      BY <1>6, <2>3, <2>4 DEF statefulStart, StartSteps
  <1>7. CASE Current(d, TRUE, "BUILDING") /\ checkBuild(d, "STOPPING_OLD")
    <2>1. deployment[d].phase = "BUILDING" /\ UNCHANGED minted
      BY <1>7 DEF checkBuild, Current
    <2>2. ArmFits(d, setPhase(d, "STOPPING_OLD"))
      BY <2>1, PhaseFits DEF Moves
    <2>3. ArmFits(d, abort(d))
      BY <1>1, <2>1, AbortFits
    <2>4. PICK steps : steps = <<PutRelease(deployment[d].rel), SetDeploymentPhase(d, "STOPPING_OLD")>>
      OBVIOUS
    <2>5. steps[1].op = "PutRelease"
      BY <2>4 DEF PutRelease
    <2>6. ArmFits(d, steps)
      BY <2>1, <2>4, <2>5 DEF ArmFits
    <2>7. Visit(d, setPhase(d, "STOPPING_OLD")) \/ Visit(d, abort(d)) \/ Visit(d, steps)
      BY <1>7, <2>4 DEF checkBuild
    <2> QED
      BY <1>2, <2>1, <2>2, <2>3, <2>6, <2>7
  <1>8. CASE statefulHealth(d)
    <2>1. deployment[d].phase = "HEALTHCHECKING" /\ UNCHANGED minted
      BY <1>8 DEF statefulHealth, Current
    <2>2. CASE Visit(d, statefulFail(d))
      <3>1. ArmFits(d, statefulFail(d))
        BY <1>1, <2>1, FailFits DEF Failing
      <3> QED
        BY <1>2, <2>1, <2>2, <3>1
    <2>3. CASE greenAssignments(d) # {} /\ (\A a \in greenAssignments(d) : assignment[a].obs = "HEALTHY")
                 /\ Visit(d, setPhase(d, "PROMOTING"))
      <3>1. PICK a \in greenAssignments(d) : assignment[a].obs = "HEALTHY"
        BY <2>3
      <3>2. a \in containers /\ assignment[a].dep = d /\ Wanted(a)
        BY <1>1, <3>1, OwnInstances DEF Started
      <3>3. RunningOwn(d)
        BY <3>2 DEF RunningOwn
      <3>4. ArmFits(d, setPhase(d, "PROMOTING"))
        BY <2>1, <3>3, PhaseFits DEF Moves
      <3> QED
        BY <1>2, <2>1, <2>3, <3>4
    <2> QED
      BY <1>8, <2>2, <2>3 DEF statefulHealth
  <1>9. CASE statefulPromote(d)
    <2>1. PICK steps : steps = <<PromoteRelease(deployment[d].rel), SetDeploymentPhase(d, "SUCCEEDED")>>
      OBVIOUS
    <2>2. steps[1].op = "PromoteRelease"
      BY <2>1 DEF PromoteRelease
    <2>3. deployment[d].phase = "PROMOTING" /\ UNCHANGED minted /\ Visit(d, steps)
      BY <1>9, <2>1 DEF statefulPromote, Current
    <2>4. ArmFits(d, steps)
      BY <2>1, <2>2, <2>3 DEF ArmFits
    <2> QED
      BY <1>2, <2>3, <2>4
  <1>10. CASE statefulWait(d)
    BY <1>2, <1>10 DEF statefulWait
  <1> QED
    BY <1>4, <1>5, <1>6, <1>7, <1>8, <1>9, <1>10 DEF reconcileStateful

\* An arm is under way for the one deployment there is.
LEMMA ArmContext ==
    ASSUME OneWriterSetting, Shape, WriterInv, ~Idle
    PROVE  \E d \in DeploymentId :
              /\ Live = {d} /\ pass = {} /\ requests = {} /\ ArmFits(d, todo)
              /\ deployment[d].phase \in LivePhase
  <1>1. Live # {} /\ pass = {} /\ Live \subseteq DeploymentId
    BY DEF WriterInv, OneAtATime, Live
  <1>2. PICK d \in DeploymentId : d \in Live
    BY <1>1
  <1>3. Live = {d} /\ requests = {}
    BY <1>1, <1>2 DEF WriterInv, OneAtATime
  <1>4. ArmFits(d, todo) /\ deployment[d].phase \in LivePhase
    BY <1>2 DEF WriterInv, ArmsFit, Live, isTerminalPhase
  <1> QED
    BY <1>1, <1>3, <1>4

\* What a command of the arm leaves as it is.
LEMMA ArmRest ==
    ASSUME OneWriterSetting, WriterInv, Undisturbed, NEW d \in DeploymentId,
           Live = {d}, pass = {}, requests = {}, Live' \subseteq {d}, todo' = <<>> \/ Live' = {d},
           UNCHANGED <<requests, pass, work, frame, containers>>
    PROVE  OneAtATime' /\ RequestsFit' /\ FrameSafe' /\ OneContainer' /\ WorkFits'
  <1>1. OneAtATime' /\ RequestsFit'
    BY DEF OneAtATime, RequestsFit, Idle
  <1>2. FrameSafe' /\ OneContainer'
    BY DEF WriterInv, FrameSafe, OneContainer
  <1>3. \A i \in DOMAIN work' : work'[i].op \in {"RenewLease", "PutVolumeLease"}
    BY DEF Undisturbed, OneWriterSetting
  <1>4. WorkFits'
    BY <1>3 DEF WorkFits, EvalFits
  <1> QED
    BY <1>1, <1>2, <1>4

\* What an arm that stores no new instance does to one that is stored.
Rewritten(d, a) ==
    /\ Stored(a)' => /\ Stored(a) /\ assignment'[a].rel = assignment[a].rel
                     /\ assignment'[a].dep = assignment[a].dep
                     /\ assignment'[a].node = assignment[a].node
                     /\ assignment[a].dep = d => assignment'[a] = assignment[a]
    /\ Serves(a) => Stored(a)'
    /\ Wanted(a)' /\ ~Wanted(a) => Serves(a) /\ NoOwn(d)
    /\ Serves(a) /\ Wanted(a) /\ ~Wanted(a)' =>
          /\ deployment[d].phase \notin {"PENDING", "BUILDING"}
          /\ deployment[d].prev = env.active

\* A put or a delete that stores no new instance.
LEMMA RewriteWriter ==
    ASSUME OneWriterSetting, Shape, WriterInv, Undisturbed, NEW d \in DeploymentId,
           Live = {d}, pass = {}, requests = {}, ArmsFit',
           UNCHANGED <<env, release, deployment, node, minted, requests, lastRelease, lastDeployment>>,
           UNCHANGED <<pass, work, volume, frame, containers, reported>>,
           deployment[d].phase # "PROMOTING",
           \A a \in AssignmentId : Rewritten(d, a)
    PROVE  WriterInv'
  <1> USE DEF Rewritten
  <1>1. Live' = {d}
    BY DEF Live, isTerminalPhase
  <1>2. OneAtATime' /\ RequestsFit' /\ FrameSafe' /\ OneContainer' /\ WorkFits'
    BY <1>1, ArmRest
  <1>3. DeploymentsFit' /\ PromotesRunning'
    BY <1>1 DEF WriterInv, DeploymentsFit, PromotesRunning
  <1>4. \A a \in AssignmentId : /\ Serves(a)' <=> Serves(a)
                                /\ Untouched(a)' <=> Untouched(a)
                                /\ Wanted(a)' => Stored(a)'
                                /\ Wanted(a) => Stored(a)
    BY DEF Serves, Untouched, Wanted, Stored
  <1>5. \A a \in AssignmentId : Pristine(a) => Pristine(a)'
    BY <1>4 DEF Pristine
  <1>6. \A a \in AssignmentId : /\ Wanted(a) => Serves(a) \/ assignment[a].dep = d
                                /\ Wanted(a)' => Serves(a) \/ assignment[a].dep = d
    BY <1>4 DEF WriterInv, InstancesFit
  <1>7. InstancesFit'
    <2>1. \A a \in AssignmentId : a > minted' => Pristine(a)'
      BY <1>5 DEF WriterInv, InstancesFit
    <2>2. \A a \in AssignmentId : Stored(a)' =>
             /\ assignment'[a].node \in Node /\ assignment'[a].rel # NoId
             /\ assignment'[a].rel <= lastRelease' /\ assignment'[a].dep <= lastDeployment'
      BY DEF WriterInv, InstancesFit
    <2>3. /\ \A n \in Node : node'[n].status = "ALIVE"
          /\ \A a, b \in AssignmentId : Serves(a)' /\ Serves(b)' => a = b
      BY <1>4 DEF WriterInv, InstancesFit
    <2>4. \A a \in AssignmentId : Wanted(a)' => Serves(a)' \/ assignment'[a].dep \in Live'
      BY <1>1, <1>4, <1>6
    <2>5. ASSUME NEW a \in AssignmentId, Stored(a)',
                 assignment'[a].dep = d \/ assignment'[a].rel = deployment'[d].rel
          PROVE  Started(d, a)'
      <3>1. Stored(a) /\ Started(d, a)
        BY <2>5 DEF WriterInv, InstancesFit
      <3>2. assignment'[a] = assignment[a]
        BY <2>5, <3>1 DEF Started
      <3> QED
        BY <3>1, <3>2 DEF Started, Wanted
    <2> QED
      BY <1>1, <2>1, <2>2, <2>3, <2>4, <2>5 DEF InstancesFit
  <1>8. ServesKept'
    <2> SUFFICES ASSUME ~ScaleToZero PROVE ServesKept'
      BY DEF ServesKept
    <2>1. env'.active # NoId => \E a \in AssignmentId : Serves(a)'
      BY <1>4 DEF WriterInv, ServesKept
    <2>2. deployment[d].rel # env.active
      BY DEF WriterInv, DeploymentsFit
    <2>3. ASSUME NEW a \in AssignmentId, Serves(a), ~Wanted(a)'
          PROVE  deployment[d].phase \notin {"PENDING", "BUILDING"} /\ deployment[d].prev = env.active
      <3>1. CASE Wanted(a)
        BY <2>3, <3>1
      <3>2. CASE ~Wanted(a)
        BY <2>3, <3>2 DEF WriterInv, ServesKept
      <3> QED
        BY <3>1, <3>2
    <2> QED
      BY <1>1, <1>4, <2>1, <2>2, <2>3 DEF ServesKept
  <1>9. LowestTouched'
    <2> SUFFICES ASSUME NEW a \in AssignmentId, NEW b \in AssignmentId, Wanted(a)', Wanted(b)', b < a
                 PROVE  Untouched(a)
      BY <1>4 DEF LowestTouched
    <2>1. CASE Wanted(a) /\ Wanted(b)
      BY <2>1 DEF WriterInv, LowestTouched
    <2>2. CASE ~(Wanted(a) /\ Wanted(b))
      <3>1. NoOwn(d)
        BY <2>2
      <3>2. Stored(a) /\ Stored(b)
        BY <1>4
      <3>3. Serves(a) /\ Serves(b)
        BY <1>6, <3>1, <3>2 DEF NoOwn
      <3>4. a = b /\ a \in Nat
        BY <3>3, Typed DEF WriterInv, InstancesFit
      <3> QED
        BY <3>4
    <2> QED
      BY <2>1, <2>2
  <1> QED
    BY <1>2, <1>3, <1>7, <1>8, <1>9 DEF WriterInv

\* The put that starts an instance.
LEMMA StartWriter ==
    ASSUME OneWriterSetting, Shape, WriterInv, Undisturbed, NEW d \in DeploymentId,
           Live = {d}, pass = {}, requests = {}, todo' = <<>>, NEW puts, Starts(d, puts),
           applyPutAssignments(puts),
           UNCHANGED <<minted, requests, lastRelease, lastDeployment>>,
           UNCHANGED <<pass, work, volume, frame, containers, reported>>
    PROVE  WriterInv'
  <1>0. /\ UNCHANGED <<env, release, deployment, node>>
        /\ \A a \in AssignmentId :
              assignment'[a] = IF puts[a] # NoAssignment THEN puts[a] ELSE assignment[a]
        /\ AssignmentId \subseteq Nat \ {0} /\ minted \in Nat
    BY Typed DEF applyPutAssignments
  <1>1. Live' = {d}
    BY <1>0 DEF Live, isTerminalPhase
  <1>2. OneAtATime' /\ RequestsFit' /\ FrameSafe' /\ OneContainer' /\ WorkFits'
    BY <1>1, ArmRest
  <1>3. NoOwn(d) /\ deployment[d].phase = "STARTING"
    BY DEF Starts
  <1>4. DeploymentsFit' /\ PromotesRunning' /\ ArmsFit'
    BY <1>0, <1>1, <1>3 DEF WriterInv, DeploymentsFit, PromotesRunning, ArmsFit, Idle
  <1>5. /\ d <= lastDeployment /\ deployment[d].rel <= lastRelease
        /\ deployment[d].rel \in ReleaseId /\ deployment[d].rel # env.active /\ deployment[d].rel # NoId
    BY <1>3, Typed DEF WriterInv, DeploymentsFit
  <1>6. ASSUME NEW a \in AssignmentId
        PROVE  \/ puts[a] = NoAssignment /\ assignment'[a] = assignment[a]
               \/ /\ a = minted /\ Pristine(a)
                  /\ assignment'[a].node \in Node /\ assignment'[a].rel = deployment[d].rel
                  /\ assignment'[a].dep = d /\ assignment'[a].desired = "RUN"
                  /\ assignment'[a].obs = "UNSPECIFIED"
    <2>1. CASE puts[a] = NoAssignment
      BY <1>0, <2>1
    <2>2. CASE puts[a] # NoAssignment
      <3>1. a = minted /\ Pristine(a) /\ assignment'[a] = puts[a]
        BY <1>0, <2>2 DEF Starts
      <3>2. PICK n \in Node : puts[a] = newAssignment(n, deployment[d].rel, d)
        BY <2>2 DEF Starts
      <3> QED
        BY <3>1, <3>2 DEF newAssignment
    <2> QED
      BY <2>1, <2>2
  <1>7. \A a \in AssignmentId : /\ Untouched(a)' <=> Untouched(a)
                                /\ Wanted(a) => Stored(a)
                                /\ Pristine(a) => Untouched(a) /\ ~Stored(a)
    BY DEF Untouched, Wanted, Stored, Pristine
  <1>8. \A a \in AssignmentId : Serves(a)' <=> Serves(a)
    BY <1>0, <1>5, <1>6, <1>7 DEF Serves, Stored
  <1>9. \A a \in AssignmentId : Stored(a) => a <= minted /\ assignment'[a] = assignment[a] /\ Stored(a)'
    <2>1. \A a \in AssignmentId : Stored(a) => assignment'[a] = assignment[a]
      BY <1>6, <1>7
    <2>2. \A a \in AssignmentId : a > minted => ~Stored(a)
      BY <1>7 DEF WriterInv, InstancesFit
    <2>3. \A a \in AssignmentId : a \in Nat /\ (a > minted \/ a <= minted)
      <3>1. \A x \in Nat : x > minted \/ x <= minted
        BY <1>0
      <3> QED
        BY <1>0, <3>1
    <2>4. \A a \in AssignmentId : Stored(a) => Stored(a)'
      BY <2>1 DEF Stored
    <2> QED
      BY <2>1, <2>2, <2>3, <2>4
  <1>10. \A a \in AssignmentId : Stored(a)' => a <= minted
    <2>1. minted <= minted
      BY <1>0
    <2>2. \A a \in AssignmentId : Stored(a)' => Stored(a) \/ a = minted
      BY <1>6 DEF Stored
    <2> QED
      BY <1>9, <2>1, <2>2
  <1>11. InstancesFit'
    <2>1. \A a \in AssignmentId : a > minted' => Pristine(a)'
      <3> SUFFICES ASSUME NEW a \in AssignmentId, a > minted PROVE Pristine(a)'
        OBVIOUS
      <3>1. Pristine(a) /\ a # minted
        BY <1>0 DEF WriterInv, InstancesFit
      <3> QED
        BY <1>6, <1>7, <3>1 DEF Pristine, Stored
    <2>2. \A a \in AssignmentId : Stored(a)' =>
             /\ assignment'[a].node \in Node /\ assignment'[a].rel # NoId
             /\ assignment'[a].rel <= lastRelease' /\ assignment'[a].dep <= lastDeployment'
      BY <1>5, <1>6 DEF WriterInv, InstancesFit, Stored
    <2>3. /\ \A n \in Node : node'[n].status = "ALIVE"
          /\ \A a, b \in AssignmentId : Serves(a)' /\ Serves(b)' => a = b
      BY <1>0, <1>8 DEF WriterInv, InstancesFit
    <2>4. \A a \in AssignmentId : Wanted(a)' => Serves(a)' \/ assignment'[a].dep \in Live'
      BY <1>1, <1>6, <1>8 DEF WriterInv, InstancesFit, Wanted
    <2>5. ASSUME NEW a \in AssignmentId, Stored(a)',
                 assignment'[a].dep = d \/ assignment'[a].rel = deployment'[d].rel
          PROVE  Started(d, a)'
      <3>1. CASE puts[a] = NoAssignment /\ assignment'[a] = assignment[a]
        <4>1. Stored(a) /\ Started(d, a)
          BY <1>0, <2>5, <3>1 DEF WriterInv, InstancesFit, Stored
        <4> QED
          BY <1>3, <4>1 DEF NoOwn, Started
      <3>2. CASE /\ a = minted /\ Pristine(a)
                 /\ assignment'[a].node \in Node /\ assignment'[a].rel = deployment[d].rel
                 /\ assignment'[a].dep = d /\ assignment'[a].desired = "RUN"
                 /\ assignment'[a].obs = "UNSPECIFIED"
        <4>1. a \notin containers' /\ frame'.desired[a] = "ABSENT" /\ reported'[a] = "NONE"
          BY <3>2 DEF Pristine, Untouched
        <4> QED
          BY <1>0, <1>3, <1>10, <3>2, <4>1 DEF Started, Wanted
      <3> QED
        BY <1>6, <3>1, <3>2
    <2> QED
      BY <1>1, <2>1, <2>2, <2>3, <2>4, <2>5 DEF InstancesFit
  <1>12. ServesKept'
    <2>1. \A a \in AssignmentId : Serves(a) => (Wanted(a)' <=> Wanted(a))
      BY <1>9 DEF Serves, Wanted
    <2> QED
      BY <1>0, <1>1, <1>8, <2>1 DEF WriterInv, ServesKept
  <1>13. LowestTouched'
    <2> SUFFICES ASSUME NEW a \in AssignmentId, NEW b \in AssignmentId, Wanted(a)', Wanted(b)', b < a
                 PROVE  Untouched(a)
      BY <1>7 DEF LowestTouched
    <2>1. CASE Pristine(a)
      BY <1>7, <2>1
    <2>2. CASE assignment'[a] = assignment[a]
      <3>1. Wanted(a) /\ a <= minted
        BY <1>7, <1>9, <2>2 DEF Wanted
      <3>2. b # minted
        BY <1>0, <3>1
      <3>3. Wanted(b)
        BY <1>6, <3>2 DEF Wanted
      <3> QED
        BY <3>1, <3>3 DEF WriterInv, LowestTouched
    <2> QED
      BY <1>6, <2>1, <2>2
  <1> QED
    BY <1>2, <1>4, <1>11, <1>12, <1>13 DEF WriterInv

\* The command that moves the deployment on to a phase.
LEMMA PhaseWriter ==
    ASSUME OneWriterSetting, Shape, WriterInv, Undisturbed, NEW d \in DeploymentId,
           Live = {d}, pass = {}, requests = {}, todo' = <<>>, NEW p, Moves(d, p),
           applySetDeploymentPhase(d, p),
           UNCHANGED <<minted, requests, lastRelease, lastDeployment>>,
           UNCHANGED <<pass, work, volume, frame, containers, reported>>
    PROVE  WriterInv'
  <1>0. UNCHANGED <<env, release, assignment, node>>
    BY DEF applySetDeploymentPhase
  <1>1. /\ deployment'[d].phase = p /\ deployment'[d].rel = deployment[d].rel
        /\ deployment'[d].prev = deployment[d].prev
        /\ \A e \in DeploymentId : e # d => deployment'[e] = deployment[e]
    <2>1. deployment \in [DeploymentId -> Deployment] /\ deployment[d] \in Deployment
      BY Typed
    <2>2. PICK r : r = [deployment[d] EXCEPT !.phase = p]
      OBVIOUS
    <2>3. r.phase = p /\ r.rel = deployment[d].rel /\ r.prev = deployment[d].prev
      BY <2>1, <2>2 DEF Deployment
    <2>4. deployment' = [deployment EXCEPT ![d] = r]
      BY <2>2 DEF applySetDeploymentPhase
    <2>5. deployment'[d] = r /\ \A e \in DeploymentId : e # d => deployment'[e] = deployment[e]
      BY <2>1, <2>4
    <2> QED
      BY <2>3, <2>5
  <1>2. Live' = IF p \in {"SUCCEEDED", "FAILED"} THEN {} ELSE {d}
    <2>1. p \in LivePhase <=> p \notin {"SUCCEEDED", "FAILED"}
      BY DEF Moves, LivePhase, RolloutPhase
    <2>2. \A e \in DeploymentId : e # d => (isTerminalPhase(e)' <=> isTerminalPhase(e))
      BY <1>1 DEF isTerminalPhase
    <2>3. \A e \in DeploymentId : isTerminalPhase(e) <=> e # d
      BY DEF Live
    <2>4. isTerminalPhase(d)' <=> p \in {"SUCCEEDED", "FAILED"}
      BY <1>1, <2>1 DEF isTerminalPhase
    <2> QED
      BY <2>2, <2>3, <2>4 DEF Live
  <1>3. OneAtATime' /\ RequestsFit' /\ FrameSafe' /\ OneContainer' /\ WorkFits'
    BY <1>2, ArmRest
  <1>4. \A a \in AssignmentId : /\ Stored(a)' <=> Stored(a)
                                /\ Wanted(a)' <=> Wanted(a)
                                /\ Serves(a)' <=> Serves(a)
                                /\ Untouched(a)' <=> Untouched(a)
                                /\ Pristine(a)' <=> Pristine(a)
                                /\ Wanted(a) => Stored(a)
    BY <1>0 DEF Stored, Wanted, Serves, Untouched, Pristine
  <1>5. /\ env.effective = 0 /\ env.active <= lastRelease
        /\ deployment[d].rel \in ReleaseId /\ release[deployment[d].rel] # "ABSENT"
        /\ d <= lastDeployment /\ deployment[d].rel <= lastRelease
        /\ deployment[d].phase # "PROMOTING" =>
              deployment[d].prev \in {NoId, env.active} /\ deployment[d].rel # env.active
    BY DEF WriterInv, DeploymentsFit
  <1>6. DeploymentsFit'
    <2>1. CASE p \in {"SUCCEEDED", "FAILED"}
      BY <1>0, <1>2, <1>5, <2>1 DEF DeploymentsFit
    <2>2. CASE p \notin {"SUCCEEDED", "FAILED"}
      <3>1. /\ p \in {"PENDING", "BUILDING", "STOPPING_OLD", "STARTING", "HEALTHCHECKING", "PROMOTING"}
            /\ deployment[d].phase # "PROMOTING"
        BY <2>2 DEF Moves
      <3> QED
        BY <1>0, <1>1, <1>2, <1>5, <3>1 DEF DeploymentsFit
    <2> QED
      BY <2>1, <2>2
  <1>7. \A a \in AssignmentId :
           Stored(a) /\ (assignment[a].dep = d \/ assignment[a].rel = deployment[d].rel) => Started(d, a)
    BY DEF WriterInv, InstancesFit
  <1>8. InstancesFit'
    <2>1. \A a \in AssignmentId : a > minted' => Pristine(a)'
      BY <1>4 DEF WriterInv, InstancesFit
    <2>2. \A a \in AssignmentId : Stored(a)' =>
             /\ assignment'[a].node \in Node /\ assignment'[a].rel # NoId
             /\ assignment'[a].rel <= lastRelease' /\ assignment'[a].dep <= lastDeployment'
      BY <1>0, <1>4 DEF WriterInv, InstancesFit
    <2>3. /\ \A n \in Node : node'[n].status = "ALIVE"
          /\ \A a, b \in AssignmentId : Serves(a)' /\ Serves(b)' => a = b
      BY <1>0, <1>4 DEF WriterInv, InstancesFit
    <2>4. ASSUME NEW a \in AssignmentId, Wanted(a)
          PROVE  Serves(a) \/ assignment[a].dep \in Live'
      <3>1. Serves(a) \/ assignment[a].dep = d
        BY <2>4 DEF WriterInv, InstancesFit
      <3>2. CASE assignment[a].dep = d /\ p = "SUCCEEDED"
        <4>1. Started(d, a) /\ env.active = deployment[d].rel
          BY <1>4, <1>7, <2>4, <3>2 DEF Moves
        <4> QED
          BY <1>4, <2>4, <4>1 DEF Started, Serves
      <3>3. CASE assignment[a].dep = d /\ p = "FAILED"
        BY <1>4, <2>4, <3>3 DEF Moves, NoOwn
      <3> QED
        BY <1>2, <3>1, <3>2, <3>3
    <2>5. \A a \in AssignmentId : Wanted(a)' => Serves(a)' \/ assignment'[a].dep \in Live'
      BY <1>0, <1>4, <2>4
    <2>6. ASSUME p \notin {"SUCCEEDED", "FAILED"}, NEW a \in AssignmentId, Stored(a),
                 assignment[a].dep = d \/ assignment[a].rel = deployment[d].rel
          PROVE  Started(d, a)'
      <3>1. Started(d, a)
        BY <1>7, <2>6
      <3>2. p \in {"STARTING", "HEALTHCHECKING", "PROMOTING"}
        BY <2>6, <3>1 DEF Started, Moves
      <3> QED
        BY <1>0, <1>1, <3>1, <3>2 DEF Started, Wanted, Stored
    <2>7. \A e \in Live', a \in AssignmentId :
             Stored(a)' /\ (assignment'[a].dep = e \/ assignment'[a].rel = deployment'[e].rel)
                => Started(e, a)'
      BY <1>0, <1>1, <1>2, <1>4, <2>6
    <2> QED
      BY <2>1, <2>2, <2>3, <2>5, <2>7 DEF InstancesFit
  <1>9. ServesKept'
    <2> SUFFICES ASSUME ~ScaleToZero PROVE ServesKept'
      BY DEF ServesKept
    <2>1. env'.active # NoId => \E a \in AssignmentId : Serves(a)'
      BY <1>0, <1>4 DEF WriterInv, ServesKept
    <2>2. ASSUME NEW a \in AssignmentId, Serves(a), ~Wanted(a)
          PROVE  /\ d \in Live' /\ p \notin {"PENDING", "BUILDING"}
                 /\ deployment[d].prev = env.active /\ deployment[d].rel # env.active
      <3>1. /\ deployment[d].phase \notin {"PENDING", "BUILDING"}
            /\ deployment[d].prev = env.active /\ deployment[d].rel # env.active
        BY <2>2 DEF WriterInv, ServesKept
      <3>2. p \notin {"PENDING", "BUILDING", "SUCCEEDED", "FAILED"}
        BY <2>2, <3>1 DEF Moves
      <3> QED
        BY <1>2, <3>1, <3>2
    <2> QED
      BY <1>0, <1>1, <1>4, <2>1, <2>2 DEF ServesKept
  <1>10. LowestTouched'
    BY <1>4 DEF WriterInv, LowestTouched
  <1>11. PromotesRunning'
    <2>1. p = "PROMOTING" => RunningOwn(d)
      BY DEF Moves
    <2>2. RunningOwn(d)' <=> RunningOwn(d)
      BY <1>0 DEF RunningOwn, Wanted
    <2> QED
      BY <1>1, <1>2, <2>1, <2>2 DEF PromotesRunning
  <1>12. ArmsFit'
    BY DEF ArmsFit, Idle
  <1> QED
    BY <1>3, <1>6, <1>8, <1>9, <1>10, <1>11, <1>12 DEF WriterInv

\* The instance that is about to be promoted is the only one that runs or is wanted.
LEMMA Alone ==
    ASSUME Shape, WriterInv, NEW d \in Live, RunningOwn(d)
    PROVE  \E g \in containers :
              /\ g \in AssignmentId /\ containers = {g} /\ Wanted(g) /\ Stored(g) /\ Started(d, g)
              /\ \A a \in AssignmentId : Wanted(a) => a = g
  <1>1. PICK g \in containers : assignment[g].dep = d /\ Wanted(g)
    BY DEF RunningOwn
  <1>2. g \in AssignmentId /\ Stored(g) /\ AssignmentId \subseteq Nat \ {0}
    BY <1>1, Typed DEF Wanted, Stored
  <1>3. Started(d, g)
    BY <1>1, <1>2 DEF WriterInv, InstancesFit
  <1>4. containers = {g}
    BY <1>1 DEF WriterInv, OneContainer
  <1>5. ASSUME NEW a \in AssignmentId, Wanted(a) PROVE a = g
    <2>1. a <= g
      BY <1>3, <1>5 DEF Started, Wanted, Stored
    <2>2. ~(a < g)
      BY <1>1, <1>2, <1>5 DEF WriterInv, LowestTouched, Untouched
    <2>3. a \in Nat /\ g \in Nat
      BY <1>2
    <2> QED
      BY <2>1, <2>2, <2>3
  <1> QED
    BY <1>1, <1>2, <1>3, <1>4, <1>5

\* The command that switches the traffic.
LEMMA PromoteWriter ==
    ASSUME OneWriterSetting, Shape, WriterInv, Undisturbed, NEW d \in DeploymentId,
           Live = {d}, pass = {}, requests = {}, deployment[d].phase = "PROMOTING",
           todo' = setPhase(d, "SUCCEEDED"), applyPromoteRelease(deployment[d].rel),
           UNCHANGED <<minted, requests, lastRelease, lastDeployment>>,
           UNCHANGED <<pass, work, volume, frame, containers, reported>>
    PROVE  WriterInv'
  <1>0. /\ UNCHANGED <<release, deployment, assignment, node>>
        /\ deployment[d].rel \in ReleaseId /\ release[deployment[d].rel] # "ABSENT"
        /\ d <= lastDeployment /\ deployment[d].rel <= lastRelease
        /\ env \in Environment /\ env.effective = 0
    BY Typed DEF applyPromoteRelease, WriterInv, DeploymentsFit
  <1>1. env'.active = deployment[d].rel /\ env'.effective = 0 /\ env'.active # NoId
    <2>1. env' = [env EXCEPT !.active = deployment[d].rel]
      BY <1>0 DEF applyPromoteRelease
    <2>2. env'.active = deployment[d].rel /\ env'.effective = env.effective
      BY <1>0, <2>1 DEF Environment
    <2> QED
      BY <1>0, <2>2, Typed
  <1>2. Live' = {d}
    BY <1>0 DEF Live, isTerminalPhase
  <1>3. OneAtATime' /\ RequestsFit' /\ FrameSafe' /\ OneContainer' /\ WorkFits'
    BY <1>2, ArmRest
  <1>4. RunningOwn(d)
    BY DEF WriterInv, PromotesRunning
  <1>5. PICK g \in containers :
              /\ g \in AssignmentId /\ containers = {g} /\ Wanted(g) /\ Stored(g) /\ Started(d, g)
              /\ \A a \in AssignmentId : Wanted(a) => a = g
    BY <1>4, Alone
  <1>6. \A a \in AssignmentId : /\ Stored(a)' <=> Stored(a)
                                /\ Wanted(a)' <=> Wanted(a)
                                /\ Untouched(a)' <=> Untouched(a)
                                /\ Pristine(a)' <=> Pristine(a)
                                /\ Started(d, a)' <=> Started(d, a)
    BY <1>0 DEF Stored, Wanted, Untouched, Pristine, Started
  <1>7. \A a \in AssignmentId :
           Stored(a) /\ (assignment[a].dep = d \/ assignment[a].rel = deployment[d].rel) => Started(d, a)
    BY DEF WriterInv, InstancesFit
  <1>8. \A a \in AssignmentId : Serves(a)' <=> a = g
    <2>1. Serves(g)'
      BY <1>0, <1>1, <1>5, <1>6 DEF Serves, Started
    <2>2. ASSUME NEW a \in AssignmentId, Serves(a)' PROVE a = g
      <3>1. Stored(a) /\ assignment[a].rel = deployment[d].rel
        BY <1>0, <1>1, <1>6, <2>2 DEF Serves
      <3>2. Wanted(a)
        BY <1>7, <3>1 DEF Started
      <3> QED
        BY <1>5, <3>2
    <2> QED
      BY <2>1, <2>2
  <1>9. DeploymentsFit' /\ PromotesRunning'
    <2>1. RunningOwn(d)'
      BY <1>0, <1>4 DEF RunningOwn, Wanted
    <2>2. PromotesRunning'
      BY <1>2, <2>1 DEF PromotesRunning
    <2>3. DeploymentsFit'
      BY <1>0, <1>1, <1>2 DEF DeploymentsFit
    <2> QED
      BY <2>2, <2>3
  <1>10. InstancesFit'
    <2>1. \A a \in AssignmentId : a > minted' => Pristine(a)'
      BY <1>6 DEF WriterInv, InstancesFit
    <2>2. \A a \in AssignmentId : Stored(a)' =>
             /\ assignment'[a].node \in Node /\ assignment'[a].rel # NoId
             /\ assignment'[a].rel <= lastRelease' /\ assignment'[a].dep <= lastDeployment'
      BY <1>0, <1>6 DEF WriterInv, InstancesFit
    <2>3. /\ \A n \in Node : node'[n].status = "ALIVE"
          /\ \A a, b \in AssignmentId : Serves(a)' /\ Serves(b)' => a = b
      BY <1>0, <1>8 DEF WriterInv, InstancesFit
    <2>4. \A a \in AssignmentId : Wanted(a)' => Serves(a)' \/ assignment'[a].dep \in Live'
      BY <1>5, <1>6, <1>8
    <2>5. \A e \in Live', a \in AssignmentId :
             Stored(a)' /\ (assignment'[a].dep = e \/ assignment'[a].rel = deployment'[e].rel)
                => Started(e, a)'
      BY <1>0, <1>2, <1>6, <1>7
    <2> QED
      BY <2>1, <2>2, <2>3, <2>4, <2>5 DEF InstancesFit
  <1>11. ServesKept'
    BY <1>5, <1>6, <1>8 DEF ServesKept
  <1>12. LowestTouched'
    <2>1. g \in Nat
      BY <1>5, Typed
    <2> QED
      BY <1>5, <1>6, <2>1 DEF LowestTouched
  <1>13. ArmsFit'
    <2>1. Moves(d, "SUCCEEDED")'
      BY <1>0, <1>1 DEF Moves
    <2>2. ArmFits(d, setPhase(d, "SUCCEEDED"))'
      <3>1. setPhase(d, "SUCCEEDED")[1].op = "SetDeploymentPhase" /\ setPhase(d, "SUCCEEDED")[1].phase = "SUCCEEDED"
        BY DEF setPhase, SetDeploymentPhase
      <3> QED
        BY <2>1, <3>1 DEF ArmFits
    <2> QED
      BY <1>2, <2>2 DEF ArmsFit
  <1> QED
    BY <1>3, <1>9, <1>10, <1>11, <1>12, <1>13 DEF WriterInv

\* A step of the arm that changes neither the instances nor the deployment.
LEMMA ArmQuiet ==
    ASSUME OneWriterSetting, Shape, WriterInv, Undisturbed, ~Idle, ArmsFit',
           UNCHANGED <<env, deployment, assignment, node, minted, requests, lastRelease, lastDeployment>>,
           \A r \in ReleaseId : release[r] # "ABSENT" => release'[r] # "ABSENT",
           UNCHANGED <<pass, work, frame, containers, reported>>,
           volume'.lease \in {volume.lease, NoId}
    PROVE  WriterInv'
  <1>1. \A a \in AssignmentId : SameInstance(a) /\ (Wanted(a)' <=> Wanted(a))
    BY DEF SameInstance, Wanted
  <1>2. \A a \in AssignmentId : /\ Untouched(a) => Untouched(a)'
                                /\ Pristine(a) => Pristine(a)'
    <2>1. \A a \in AssignmentId : a # NoId
      BY Typed
    <2>2. \A a \in AssignmentId : Untouched(a) => Untouched(a)'
      BY <2>1 DEF Untouched
    <2> QED
      BY <2>2 DEF Pristine, Stored
  <1>3. \A d \in Live, a \in AssignmentId : Stored(a) /\ Started(d, a) =>
              Started(d, a)' /\ (a \in containers => a \in containers')
    BY DEF Started, Wanted, Stored
  <1>4. LowestTouched'
    BY <1>1, <1>2 DEF WriterInv, LowestTouched
  <1>5. FrameSafe' /\ OneContainer'
    BY DEF WriterInv, FrameSafe, OneContainer
  <1>6. WorkFits'
    <2>1. \A i \in DOMAIN work' : work'[i].op \in {"RenewLease", "PutVolumeLease"}
      BY DEF Undisturbed, OneWriterSetting
    <2> QED
      BY <2>1 DEF WorkFits, EvalFits
  <1>7. containers \subseteq AssignmentId /\ todo \in Seq(ArmStep)
    BY Typed
  <1> QED
    BY <1>1, <1>2, <1>3, <1>4, <1>5, <1>6, <1>7, QuietStep

LEMMA Tails ==
    ASSUME NEW s, NEW t
    PROVE  Tail(<<s>>) = <<>> /\ Tail(<<s, t>>) = <<t>>
  OBVIOUS

LEMMA ApplyWriter ==
    ASSUME OneWriterSetting, Shape, WriterInv, Undisturbed, ApplyNext,
           UNCHANGED <<api, volume, sched, agent>>
    PROVE  WriterInv'
  <1>1. ~Idle
    BY DEF ApplyNext
  <1>2. PICK d \in DeploymentId :
              /\ Live = {d} /\ pass = {} /\ requests = {} /\ ArmFits(d, todo)
              /\ deployment[d].phase \in LivePhase
    BY <1>1, ArmContext
  <1>3. PICK c : c = todo[1]
    OBVIOUS
  <1>4. /\ Apply(c) /\ c.op \in CommandOps /\ todo' = Tail(todo)
        /\ UNCHANGED <<minted, requests, lastRelease, lastDeployment>>
        /\ UNCHANGED <<pass, work, volume, frame, containers, reported>>
    <2>1. Head(todo) = c
      BY <1>1, <1>3, Typed DEF Idle
    <2> QED
      BY <2>1 DEF ApplyNext, api, sched, agent
  <1>5. assignment \in [AssignmentId -> Assignment] /\ release \in [ReleaseId -> {"ABSENT", "SOURCE", "IMAGE"}]
    BY Typed
  <1>6. CASE /\ c.op = "SetDeploymentPhase"
             /\ todo = setPhase(d, c.phase) /\ Moves(d, c.phase)
    <2>1. c.dep = d /\ todo' = <<>>
      <3>1. todo = <<SetDeploymentPhase(d, c.phase)>>
        BY <1>6 DEF setPhase
      <3>2. c = SetDeploymentPhase(d, c.phase)
        BY <1>3, <3>1
      <3> QED
        BY <1>4, <3>1, <3>2, Tails DEF SetDeploymentPhase
    <2>2. applySetDeploymentPhase(d, c.phase)
      BY <1>4, <1>6, <2>1 DEF Apply
    <2> QED
      BY <1>2, <1>4, <1>6, <2>1, <2>2, PhaseWriter
  <1>7. CASE /\ c.op = "PutRelease" /\ deployment[d].phase = "BUILDING"
             /\ todo = <<PutRelease(deployment[d].rel), SetDeploymentPhase(d, "STOPPING_OLD")>>
    <2>1. c.rel = deployment[d].rel /\ todo' = setPhase(d, "STOPPING_OLD")
      BY <1>3, <1>4, <1>7, Tails DEF PutRelease, setPhase
    <2>2. applyPutRelease(deployment[d].rel)
      BY <1>4, <1>7, <2>1 DEF Apply
    <2>3. /\ UNCHANGED <<env, deployment, assignment, node>>
          /\ \A r \in ReleaseId : release[r] # "ABSENT" => release'[r] # "ABSENT"
      BY <1>5, <2>2 DEF applyPutRelease
    <2>4. ArmFits(d, setPhase(d, "STOPPING_OLD"))'
      <3>1. Moves(d, "STOPPING_OLD")'
        BY <1>7, <2>3 DEF Moves
      <3>2. /\ setPhase(d, "STOPPING_OLD")[1].op = "SetDeploymentPhase"
            /\ setPhase(d, "STOPPING_OLD")[1].phase = "STOPPING_OLD"
        BY DEF setPhase, SetDeploymentPhase
      <3> QED
        BY <3>1, <3>2 DEF ArmFits
    <2>5. ArmsFit'
      <3>1. Live' = {d}
        BY <1>2, <2>3 DEF Live, isTerminalPhase
      <3> QED
        BY <2>1, <2>4, <3>1 DEF ArmsFit
    <2> QED
      BY <1>1, <1>4, <2>3, <2>5, ArmQuiet
  <1>8. CASE c.op = "PutAssignments" /\ todo = <<PutAssignments(c.puts)>> /\ Starts(d, c.puts)
    <2>1. applyPutAssignments(c.puts) /\ todo' = <<>>
      BY <1>4, <1>8, Tails DEF Apply
    <2> QED
      BY <1>2, <1>4, <1>8, <2>1, StartWriter
  <1>9. CASE /\ c.op = "PutAssignments" /\ todo = <<PutAssignments(c.puts)>>
             /\ deployment[d].phase = "STOPPING_OLD" /\ Stops(d, c.puts)
    <2>1. applyPutAssignments(c.puts) /\ todo' = <<>>
      BY <1>4, <1>9, Tails DEF Apply
    <2>2. /\ UNCHANGED <<env, release, deployment, node>> /\ ArmsFit'
          /\ \A a \in AssignmentId :
                assignment'[a] = IF c.puts[a] # NoAssignment THEN c.puts[a] ELSE assignment[a]
      BY <2>1 DEF applyPutAssignments, ArmsFit, Idle
    <2>3. \A a \in AssignmentId : Rewritten(d, a)
      BY <1>9, <2>2 DEF Rewritten, Stops, Rewrites, Stored, Wanted, Serves
    <2> QED
      BY <1>2, <1>4, <1>9, <2>2, <2>3, RewriteWriter
  <1>10. CASE /\ c.op = "DeleteAssignments" /\ Failing(d)
              /\ todo = <<DeleteAssignments(c.ids), RestartOld(d)>>
              /\ \A a \in AssignmentId : Stored(a) /\ assignment[a].dep = d => a \in c.ids
              /\ \A a \in c.ids : assignment[a].dep = d
    <2>1. applyDeleteAssignments(c.ids) /\ todo' = <<RestartOld(d)>>
      BY <1>4, <1>10, Tails DEF Apply
    <2>2. /\ UNCHANGED <<env, release, deployment, node>>
          /\ \A a \in AssignmentId :
                assignment'[a] = IF a \in c.ids THEN NoAssignment ELSE assignment[a]
      BY <2>1 DEF applyDeleteAssignments
    <2>3. deployment[d].phase # "PROMOTING" /\ deployment[d].rel # env.active
      BY <1>2, <1>10 DEF Failing, WriterInv, DeploymentsFit
    <2>4. \A a \in AssignmentId : Stored(a) /\ assignment[a].dep = d => ~Serves(a)
      BY <1>2, <2>3 DEF WriterInv, InstancesFit, Started, Serves
    <2>5. \A a \in AssignmentId : Rewritten(d, a)
      <3> SUFFICES ASSUME NEW a \in AssignmentId PROVE Rewritten(d, a)
        OBVIOUS
      <3>1. CASE a \in c.ids
        <4>1. assignment'[a].desired = "ABSENT"
          BY <2>2, <3>1 DEF NoAssignment
        <4>2. ~Serves(a)
          BY <1>10, <2>4, <3>1 DEF Serves
        <4> QED
          BY <4>1, <4>2 DEF Rewritten, Stored, Wanted
      <3>2. CASE a \notin c.ids
        BY <2>2, <3>2 DEF Rewritten, Stored, Wanted, Serves
      <3> QED
        BY <3>1, <3>2
    <2>6. NoOwn(d)'
      <3>1. \A a \in AssignmentId : Stored(a)' => a \notin c.ids /\ Stored(a) /\ assignment'[a] = assignment[a]
        BY <2>2 DEF Stored, NoAssignment
      <3> QED
        BY <1>10, <3>1 DEF NoOwn
    <2>7. ArmsFit'
      <3>1. Live' = {d} /\ Failing(d)'
        BY <1>2, <1>10, <2>2 DEF Live, isTerminalPhase, Failing
      <3>2. <<RestartOld(d)>>[1].op = "RestartOld"
        BY DEF RestartOld
      <3>3. ArmFits(d, <<RestartOld(d)>>)'
        BY <2>6, <3>1, <3>2 DEF ArmFits
      <3> QED
        BY <2>1, <3>1, <3>3 DEF ArmsFit
    <2> QED
      BY <1>2, <1>4, <2>2, <2>3, <2>5, <2>7, RewriteWriter
  <1>11. CASE /\ c.op = "PutAssignments" /\ Failing(d) /\ NoOwn(d)
              /\ todo = <<PutAssignments(c.puts), SetDeploymentPhase(d, "FAILED")>>
              /\ Restarts(c.puts)
    <2>1. applyPutAssignments(c.puts) /\ todo' = setPhase(d, "FAILED")
      BY <1>4, <1>11, Tails DEF Apply, setPhase
    <2>2. /\ UNCHANGED <<env, release, deployment, node>>
          /\ \A a \in AssignmentId :
                assignment'[a] = IF c.puts[a] # NoAssignment THEN c.puts[a] ELSE assignment[a]
      BY <2>1 DEF applyPutAssignments
    <2>3. deployment[d].phase # "PROMOTING"
      BY <1>11 DEF Failing
    <2>4. \A a \in AssignmentId : Rewritten(d, a)
      <3> SUFFICES ASSUME NEW a \in AssignmentId PROVE Rewritten(d, a)
        OBVIOUS
      <3>1. CASE c.puts[a] # NoAssignment
        <4>1. Rewrites(a, c.puts[a], "RUN") /\ Serves(a) /\ assignment'[a] = c.puts[a]
          BY <1>11, <2>2, <3>1 DEF Restarts
        <4>2. assignment[a].dep # d
          BY <1>11, <4>1 DEF NoOwn, Serves
        <4> QED
          BY <1>11, <4>1, <4>2 DEF Rewritten, Rewrites, Stored, Wanted
      <3>2. CASE c.puts[a] = NoAssignment
        BY <2>2, <3>2 DEF Rewritten, Stored, Wanted, Serves
      <3> QED
        BY <3>1, <3>2
    <2>5. ArmsFit'
      <3>1. Live' = {d}
        BY <1>2, <2>2 DEF Live, isTerminalPhase
      <3>2. NoOwn(d)'
        BY <1>11, <2>4 DEF NoOwn, Rewritten
      <3>3. ASSUME ~ScaleToZero, NEW a \in AssignmentId, Serves(a)' PROVE Wanted(a)'
        <4>1. Serves(a)
          BY <2>2, <2>4, <3>3 DEF Serves, Rewritten
        <4>2. CASE c.puts[a] # NoAssignment
          BY <1>11, <2>2, <4>2 DEF Restarts, Rewrites, Wanted
        <4>3. CASE c.puts[a] = NoAssignment
          BY <1>11, <2>2, <3>3, <4>1, <4>3 DEF Restarts, Wanted
        <4> QED
          BY <4>2, <4>3
      <3>4. Moves(d, "FAILED")'
        BY <2>2, <2>3, <3>2, <3>3 DEF Moves
      <3>5. /\ setPhase(d, "FAILED")[1].op = "SetDeploymentPhase"
            /\ setPhase(d, "FAILED")[1].phase = "FAILED"
        BY DEF setPhase, SetDeploymentPhase
      <3>6. ArmFits(d, setPhase(d, "FAILED"))'
        BY <3>4, <3>5 DEF ArmFits
      <3> QED
        BY <2>1, <3>1, <3>6 DEF ArmsFit
    <2> QED
      BY <1>2, <1>4, <2>2, <2>3, <2>4, <2>5, RewriteWriter
  <1>12. CASE /\ c.op = "PromoteRelease" /\ deployment[d].phase = "PROMOTING"
              /\ todo = <<PromoteRelease(deployment[d].rel), SetDeploymentPhase(d, "SUCCEEDED")>>
    <2>1. c.rel = deployment[d].rel /\ todo' = setPhase(d, "SUCCEEDED")
      BY <1>3, <1>4, <1>12, Tails DEF PromoteRelease, setPhase
    <2>2. applyPromoteRelease(deployment[d].rel)
      BY <1>4, <1>12, <2>1 DEF Apply
    <2> QED
      BY <1>2, <1>4, <1>12, <2>1, <2>2, PromoteWriter
  <1>13. c.op # "PutVolume" /\ c.op # "RestartOld"
    BY <1>4 DEF CommandOps
  <1> QED
    BY <1>2, <1>3, <1>6, <1>7, <1>8, <1>9, <1>10, <1>11, <1>12, <1>13 DEF ArmFits

\* The old instances that are put back are the one that serves.
LEMMA RestartFits ==
    ASSUME WriterInv, Shape, NEW d \in DeploymentId, Live = {d}, Failing(d), NoOwn(d),
           NEW stopped, stopped = oldInstances(d) \ Running(oldInstances(d))
    PROVE  /\ stopped \in SUBSET AssignmentId /\ \A a \in stopped : Stored(a) /\ Serves(a)
           /\ ~ScaleToZero => \A a \in AssignmentId : Serves(a) /\ ~Wanted(a) => a \in stopped
  <1>1. deployment[d].phase # "PROMOTING" /\ deployment[d].prev \in {NoId, env.active}
    BY DEF WriterInv, DeploymentsFit, Failing
  <1>2. stopped \in SUBSET AssignmentId /\ \A a \in stopped : Stored(a) /\ Serves(a)
    BY <1>1 DEF oldInstances, Serves
  <1>3. ASSUME ~ScaleToZero, NEW a \in AssignmentId, Serves(a), ~Wanted(a) PROVE a \in stopped
    <2>1. deployment[d].prev = env.active
      BY <1>3 DEF WriterInv, ServesKept
    <2>2. Stored(a) /\ assignment[a].rel = env.active /\ assignment[a].rel # NoId
      BY <1>3 DEF Serves, WriterInv, InstancesFit
    <2>3. assignment[a].dep # d
      BY <2>2 DEF NoOwn
    <2> QED
      BY <1>3, <2>1, <2>2, <2>3 DEF oldInstances, Running, Wanted
  <1> QED
    BY <1>2, <1>3

LEMMA RestartWriter ==
    ASSUME OneWriterSetting, Shape, WriterInv, Undisturbed, RestartOldStep, UNCHANGED <<sched, agent>>
    PROVE  WriterInv'
  <1>1. ~Idle
    BY DEF RestartOldStep
  <1>2. PICK d \in DeploymentId :
              /\ Live = {d} /\ pass = {} /\ requests = {} /\ ArmFits(d, todo)
              /\ deployment[d].phase \in LivePhase
    BY <1>1, ArmContext
  <1>3. /\ Head(todo) = todo[1] /\ todo[1].op = "RestartOld"
    BY <1>1, Typed DEF RestartOldStep, Idle
  <1>4. todo = <<RestartOld(d)>> /\ Failing(d) /\ NoOwn(d)
    BY <1>2, <1>3 DEF ArmFits
  <1>5. Head(todo).dep = d
    BY <1>3, <1>4 DEF RestartOld
  <1>6. /\ UNCHANGED <<env, deployment, assignment, node, minted, requests, lastRelease, lastDeployment>>
        /\ UNCHANGED <<release, pass, work, frame, containers, reported, volume>>
    BY DEF RestartOldStep, store, api, sched, agent
  <1>7. PICK stopped : stopped = oldInstances(d) \ Running(oldInstances(d))
    OBVIOUS
  <1>8. /\ stopped \in SUBSET AssignmentId /\ \A a \in stopped : Stored(a) /\ Serves(a)
        /\ ~ScaleToZero => \A a \in AssignmentId : Serves(a) /\ ~Wanted(a) => a \in stopped
    BY <1>2, <1>4, <1>7, RestartFits
  <1>9. PICK puts : puts = FlipTo(stopped, "RUN")
    OBVIOUS
  <1>10. PICK s : s = SetDeploymentPhase(d, "FAILED")
    OBVIOUS
  <1>11. todo' = IF stopped = {} THEN <<s>> ELSE <<PutAssignments(puts), s>>
    <2>1. todo' = (IF stopped = {} THEN <<>> ELSE <<PutAssignments(puts)>>) \o <<s>>
      BY <1>5, <1>7, <1>9, <1>10 DEF RestartOldStep, setPhase
    <2> QED
      BY <2>1, Joined
  <1>12. PICK steps : steps = todo'
    OBVIOUS
  <1>13. ArmFits(d, steps)
    <2>1. CASE stopped = {}
      <3>1. Moves(d, "FAILED")
        BY <1>4, <1>8, <2>1 DEF Moves, Failing
      <3>2. ArmFits(d, setPhase(d, "FAILED"))
        BY <3>1, PhaseFits
      <3> QED
        BY <1>10, <1>11, <1>12, <2>1, <3>2 DEF setPhase
    <2>2. CASE stopped # {}
      <3>1. \A a \in AssignmentId :
               /\ puts[a] # NoAssignment <=> a \in stopped
               /\ a \in stopped => Rewrites(a, puts[a], "RUN")
        BY <1>8, <1>9, Typed, Flipped
      <3>2. Restarts(puts)
        BY <1>8, <3>1 DEF Restarts
      <3>3. steps = <<PutAssignments(puts), SetDeploymentPhase(d, "FAILED")>>
        BY <1>10, <1>11, <1>12, <2>2
      <3>4. steps[1].op = "PutAssignments" /\ steps[1].puts = puts
        BY <3>3 DEF PutAssignments
      <3> QED
        BY <1>4, <3>2, <3>3, <3>4 DEF ArmFits
    <2> QED
      BY <2>1, <2>2
  <1>14. ArmFits(d, steps)'
    <2>1. UNCHANGED <<env, deployment, assignment, minted>> /\ UNCHANGED <<work, volume, frame, containers, reported>>
      BY <1>6
    <2> QED
      BY <1>13, <2>1, SameArm
  <1>15. ArmsFit'
    <2>1. Live' = {d}
      BY <1>2, <1>6 DEF Live, isTerminalPhase
    <2> QED
      BY <1>12, <1>14, <2>1 DEF ArmsFit
  <1> QED
    BY <1>1, <1>6, <1>15, ArmQuiet

LEMMA VolumeWriter ==
    ASSUME OneWriterSetting, Shape, WriterInv, Undisturbed, applyPutVolume, UNCHANGED <<sched, agent>>
    PROVE  WriterInv'
  <1>1. ~Idle
    BY DEF applyPutVolume
  <1>2. PICK d \in DeploymentId :
              /\ Live = {d} /\ pass = {} /\ requests = {} /\ ArmFits(d, todo)
              /\ deployment[d].phase \in LivePhase
    BY <1>1, ArmContext
  <1>3. /\ Head(todo) = todo[1] /\ todo[1].op = "PutVolume"
    BY <1>1, Typed DEF applyPutVolume, Idle
  <1>4. PICK puts : todo = <<PutVolume, PutAssignments(puts)>> /\ Starts(d, puts)
    BY <1>2, <1>3 DEF ArmFits
  <1>5. /\ UNCHANGED <<env, deployment, assignment, node, minted, requests, lastRelease, lastDeployment>>
        /\ UNCHANGED <<release, pass, work, frame, containers, reported>>
        /\ volume'.lease = NoId /\ todo' = Tail(todo)
    BY DEF applyPutVolume, store, api, sched, agent
  <1>6. PICK steps : steps = <<PutAssignments(puts)>>
    OBVIOUS
  <1>7. todo' = steps /\ steps[1].op = "PutAssignments" /\ steps[1].puts = puts
    BY <1>4, <1>5, <1>6, Tails DEF PutAssignments
  <1>8. NoOwn(d)' /\ \A a \in AssignmentId : Pristine(a) => Pristine(a)'
    <2>1. \A a \in AssignmentId : a # NoId
      BY Typed
    <2> QED
      BY <1>4, <1>5, <2>1 DEF Starts, NoOwn, Stored, Pristine, Untouched
  <1>9. Starts(d, puts)'
    BY <1>4, <1>5, <1>8 DEF Starts
  <1>10. ArmFits(d, steps)'
    BY <1>6, <1>7, <1>9 DEF ArmFits
  <1>11. ArmsFit'
    <2>1. Live' = {d}
      BY <1>2, <1>5 DEF Live, isTerminalPhase
    <2> QED
      BY <1>7, <1>10, <2>1 DEF ArmsFit
  <1> QED
    BY <1>1, <1>5, <1>11, ArmQuiet

\* Of the steps of the orchestrator those that are not the stateful arms' never come.
LEMMA NotTaken ==
    ASSUME OneWriterSetting, Shape, WriterInv
    PROVE  /\ ~RecheckPlacement /\ ~Timeout
           /\ \A d \in DeploymentId : ~reconcile(d)
  <1>1. ~RecheckPlacement
    <2> SUFFICES ASSUME RecheckPlacement PROVE FALSE
      OBVIOUS
    <2>1. ~Idle /\ Head(todo) = todo[1] /\ todo[1].op = "RecheckGreen"
      BY Typed DEF RecheckPlacement, Idle
    <2>2. PICK d \in DeploymentId : ArmFits(d, todo)
      BY <2>1, ArmContext
    <2> QED
      BY <2>1, <2>2 DEF ArmFits
  <1>2. ~Timeout
    BY DEF Timeout, OneWriterSetting
  <1>3. ASSUME NEW d \in DeploymentId, reconcile(d) PROVE FALSE
    <2>1. d \in Live /\ (ReleaseGone(d) \/ Supersede(d))
      BY <1>3, StatefulTakes DEF Turn, WriterInv, OneAtATime
    <2>2. release[deployment[d].rel] # "ABSENT"
      BY <2>1 DEF WriterInv, DeploymentsFit
    <2>3. PICK e \in DeploymentId : e > d /\ ~isTerminalPhase(e)
      BY <2>1, <2>2 DEF ReleaseGone, Supersede, superseded
    <2>4. e = d /\ d \in Nat
      BY <2>1, <2>3, Typed DEF WriterInv, OneAtATime, Live
    <2> QED
      BY <2>3, <2>4
  <1> QED
    BY <1>1, <1>2, <1>3

LEMMA BeginWriter ==
    ASSUME OneWriterSetting, Shape, WriterInv, Undisturbed, BeginPass, UNCHANGED <<api, volume, sched, agent>>
    PROVE  WriterInv'
  <1>1. /\ UNCHANGED <<env, deployment, assignment, node, minted, requests, lastRelease, lastDeployment>>
        /\ UNCHANGED <<release, todo, view, work, frame, containers, reported, volume>>
        /\ todo' = <<>> /\ pass' = Live
    BY DEF BeginPass, store, api, sched, agent, Idle, Live
  <1>2. Live' = Live
    BY <1>1 DEF Live, isTerminalPhase
  <1>3. \A a \in AssignmentId : /\ Stored(a)' <=> Stored(a)
                                /\ Wanted(a)' <=> Wanted(a)
                                /\ Serves(a)' <=> Serves(a)
                                /\ Untouched(a)' <=> Untouched(a)
                                /\ Pristine(a)' <=> Pristine(a)
                                /\ \A d \in Live : Started(d, a)' <=> Started(d, a)
    BY <1>1 DEF Stored, Wanted, Serves, Untouched, Pristine, Started
  <1>4. OneAtATime' /\ RequestsFit' /\ DeploymentsFit' /\ ServesKept'
    BY <1>1, <1>2, <1>3 DEF WriterInv, OneAtATime, RequestsFit, DeploymentsFit, ServesKept, Idle, Numbered
  <1>5. LowestTouched' /\ FrameSafe' /\ OneContainer'
    BY <1>1, <1>3 DEF WriterInv, LowestTouched, FrameSafe, OneContainer
  <1>6. PromotesRunning'
    BY <1>1, <1>2 DEF WriterInv, PromotesRunning, RunningOwn, Wanted
  <1>7. InstancesFit'
    <2>1. \A a \in AssignmentId : a > minted' => Pristine(a)'
      BY <1>1, <1>3 DEF WriterInv, InstancesFit
    <2>2. \A a \in AssignmentId : Wanted(a)' => Serves(a)' \/ assignment'[a].dep \in Live'
      BY <1>1, <1>2, <1>3 DEF WriterInv, InstancesFit
    <2>3. \A d \in Live', a \in AssignmentId :
             Stored(a)' /\ (assignment'[a].dep = d \/ assignment'[a].rel = deployment'[d].rel)
                => Started(d, a)'
      BY <1>1, <1>2, <1>3 DEF WriterInv, InstancesFit
    <2>4. \A a \in AssignmentId : Stored(a)' =>
             /\ assignment'[a].node \in Node /\ assignment'[a].rel # NoId
             /\ assignment'[a].rel <= lastRelease' /\ assignment'[a].dep <= lastDeployment'
      BY <1>1, <1>3 DEF WriterInv, InstancesFit
    <2>5. /\ \A n \in Node : node'[n].status = "ALIVE"
          /\ \A a, b \in AssignmentId : Serves(a)' /\ Serves(b)' => a = b
      BY <1>1, <1>3 DEF WriterInv, InstancesFit
    <2> QED
      BY <2>1, <2>2, <2>3, <2>4, <2>5 DEF InstancesFit
  <1>8. ArmsFit'
    BY <1>1 DEF ArmsFit, Idle
  <1>9. WorkFits'
    <2>1. \A i \in DOMAIN work' : work'[i].op \in {"RenewLease", "PutVolumeLease"}
      BY <1>1 DEF Undisturbed, OneWriterSetting
    <2> QED
      BY <2>1 DEF WorkFits, EvalFits
  <1> QED
    BY <1>4, <1>5, <1>6, <1>7, <1>8, <1>9 DEF WriterInv

LEMMA OrchWriter ==
    ASSUME OneWriterSetting, Shape, WriterInv, StatefulOrch
    PROVE  WriterInv'
  <1>1. Undisturbed /\ UNCHANGED <<sched, agent>>
    BY DEF StatefulOrch
  <1>2. CASE BeginPass /\ UNCHANGED <<api, doomed, volume>>
    BY <1>1, <1>2, BeginWriter
  <1>3. CASE ApplyNext /\ UNCHANGED <<api, doomed, volume>>
    BY <1>1, <1>3, ApplyWriter
  <1>4. CASE RestartOldStep
    BY <1>1, <1>4, RestartWriter
  <1>5. CASE applyPutVolume
    BY <1>1, <1>5, VolumeWriter
  <1>6. ASSUME NEW d \in DeploymentId, reconcileStateful(d) PROVE WriterInv'
    BY <1>1, <1>6, ReconcileWriter
  <1>7. /\ ~RecheckPlacement /\ ~Timeout
        /\ \A d \in DeploymentId : ~reconcile(d)
    BY NotTaken
  <1> QED
    BY <1>2, <1>3, <1>4, <1>5, <1>6, <1>7 DEF StatefulOrch, OrchStep

\* Nothing happens, or the loops forget where they were.
LEMMA RestWriter ==
    ASSUME Shape, WriterInv,
           UNCHANGED <<env, release, deployment, assignment, node, minted>>,
           UNCHANGED <<requests, lastRelease, lastDeployment, view>>,
           UNCHANGED <<volume, frame, containers, reported>>,
           \/ UNCHANGED <<pass, todo, work>>
           \/ pass' = {} /\ todo' = <<>> /\ work' = <<>>
    PROVE  WriterInv'
  <1>1. Live' = Live
    BY DEF Live, isTerminalPhase
  <1>2. \A a \in AssignmentId : /\ SameInstance(a)
                                /\ Stored(a)' <=> Stored(a)
                                /\ Wanted(a)' <=> Wanted(a)
                                /\ Serves(a)' <=> Serves(a)
                                /\ Untouched(a) => Untouched(a)'
    BY DEF SameInstance, Stored, Wanted, Serves, Untouched
  <1>3. \A a \in AssignmentId : Pristine(a) => Pristine(a)'
    BY <1>2 DEF Pristine
  <1>4. \A d \in Live, a \in AssignmentId : Stored(a) /\ Started(d, a) =>
              Started(d, a)' /\ (a \in containers => a \in containers')
    BY DEF Started, Wanted, Stored
  <1>5. LowestTouched'
    BY <1>2 DEF WriterInv, LowestTouched
  <1>6. FrameSafe' /\ OneContainer'
    BY DEF WriterInv, FrameSafe, OneContainer
  <1>7. WorkFits'
    <2>1. CASE work' = <<>>
      BY <2>1 DEF WorkFits
    <2>2. CASE work' = work
      <3>1. \A i, w : EvalFits(i, w) => EvalFits(i, w)'
        <4> SUFFICES ASSUME NEW i, NEW w, EvalFits(i, w) PROVE EvalFits(i, w)'
          OBVIOUS
        <4> QED
          BY <1>1 DEF EvalFits, Rewrites, Stored, Wanted, Serves
      <3> QED
        BY <2>2, <3>1 DEF WriterInv, WorkFits
    <2> QED
      BY <2>1, <2>2
  <1>8. containers \subseteq AssignmentId /\ todo \in Seq(ArmStep)
    BY Typed
  <1> QED
    BY <1>2, <1>3, <1>4, <1>5, <1>6, <1>7, <1>8, QuietStep

LEMMA NextWriter ==
    ASSUME OneWriterSetting, Shape, WriterInv, [StatefulNext]_statefulVars, [RequestWaits]_statefulVars
    PROVE  WriterInv'
  <1>1. CASE UNCHANGED statefulVars
    BY <1>1, RestWriter DEF statefulVars, vars, store, orch, api, sched, agent
  <1>2. CASE StatefulApi /\ RequestWaits
    BY <1>2, ApiWriter
  <1>3. CASE StatefulOrch
    BY <1>3, OrchWriter
  <1>4. CASE StatefulSched
    BY <1>4, SchedWriter
  <1>5. CASE AgentStep /\ UNCHANGED <<orch, api, doomed, sched>>
    BY <1>5, AgentWriter
  <1>6. CASE (\E d \in DeploymentId : FinishBuild(d)) /\ UNCHANGED <<sched, volume, agent>>
    BY <1>6, RestWriter DEF FinishBuild, orch, api, sched, agent
  <1>7. CASE StatefulLeaderMoves
    BY <1>7, RestWriter DEF StatefulLeaderMoves, store, api, agent
  <1> QED
    BY <1>1, <1>2, <1>3, <1>4, <1>5, <1>6, <1>7 DEF StatefulNext

LEMMA InitWriter ==
    ASSUME OneWriterSetting, StatefulInit
    PROVE  WriterInv
  <1>1. /\ Live = {} /\ requests = {} /\ pass = {} /\ todo = <<>> /\ work = <<>>
        /\ lastDeployment = 0 /\ NoId = 0 /\ MinReplicas = 1
        /\ \A n \in Node : node[n].status = "ALIVE"
        /\ reported = NoReports /\ frame = CurrentFrame
    BY DEF StatefulInit, Init, Live, isTerminalPhase, NoDeployment, LivePhase, RolloutPhase, NoId,
       OneWriterSetting
  <1>2. /\ NoAssignment.desired = "ABSENT" /\ AssignmentId \subseteq Nat \ {0}
        /\ \A a \in AssignmentId : frame.desired[a] = assignment[a].desired /\ reported[a] = "NONE"
        /\ frame.lease = volume.lease
    BY <1>1, StoreAssumption DEF NoAssignment, CurrentFrame, NoReports, AssignmentId
  <1>3. \/ /\ env.active = 0 /\ env.effective = 0 /\ lastRelease = 0 /\ minted = 0
           /\ volume.lease = 0 /\ containers = {}
           /\ \A a \in AssignmentId : assignment[a].desired = "ABSENT"
        \/ /\ env.active = 1 /\ env.effective = 0 /\ lastRelease = 1 /\ minted = 1
           /\ volume.lease = 1 /\ containers = {1} /\ 1 \in AssignmentId
           /\ assignment[1].node \in Node /\ assignment[1].rel = 1 /\ assignment[1].dep = 0
           /\ assignment[1].desired = "RUN"
           /\ \A a \in AssignmentId : a # 1 => assignment[a].desired = "ABSENT"
    <2>1. CASE /\ env = [active |-> NoId, effective |-> 0]
               /\ assignment = [a \in AssignmentId |-> NoAssignment]
               /\ minted = 0 /\ lastRelease = NoId
      <3>1. env.active = 0 /\ env.effective = 0
        BY <1>1, <2>1
      <3>2. volume.lease = 0 /\ containers = {}
        BY <1>1, <3>1 DEF StatefulInit
      <3> QED
        BY <1>1, <1>2, <2>1, <3>1, <3>2
    <2>2. ASSUME NEW home \in Node, env = [active |-> 1, effective |-> 0], MinReplicas <= MaxAssignment,
                 assignment = [a \in AssignmentId |-> SteadyAssignment(a, home)],
                 minted = MinReplicas, lastRelease = 1
          PROVE  /\ env.active = 1 /\ env.effective = 0 /\ lastRelease = 1 /\ minted = 1
                 /\ volume.lease = 1 /\ containers = {1} /\ 1 \in AssignmentId
                 /\ assignment[1].node \in Node /\ assignment[1].rel = 1 /\ assignment[1].dep = 0
                 /\ assignment[1].desired = "RUN"
                 /\ \A a \in AssignmentId : a # 1 => assignment[a].desired = "ABSENT"
      <3>1. env.active = 1 /\ env.effective = 0 /\ minted = 1
        BY <1>1, <2>2
      <3>2. volume.lease = 1 /\ containers = {1}
        BY <1>1, <3>1 DEF StatefulInit
      <3>3. 1 \in AssignmentId
        BY StoreAssumption DEF AssignmentId
      <3>4. assignment[1] = [newAssignment(home, 1, NoId) EXCEPT !.obs = "HEALTHY"]
        BY <1>1, <2>2, <3>3 DEF SteadyAssignment
      <3>5. /\ assignment[1].node = home /\ assignment[1].rel = 1 /\ assignment[1].dep = 0
            /\ assignment[1].desired = "RUN"
        BY <1>1, <3>4 DEF newAssignment
      <3>6. ASSUME NEW a \in AssignmentId, a # 1 PROVE assignment[a].desired = "ABSENT"
        <4>1. ~(a <= MinReplicas)
          BY <1>1, <1>2, <3>6
        <4> QED
          BY <1>2, <2>2, <3>6, <4>1 DEF SteadyAssignment
      <3> QED
        BY <2>2, <3>1, <3>2, <3>3, <3>5, <3>6
    <2>3. Init
      BY DEF StatefulInit
    <2> QED
      BY <2>1, <2>2, <2>3 DEF Init
  <1>4. OneAtATime /\ RequestsFit /\ PromotesRunning /\ ArmsFit /\ WorkFits
    BY <1>1 DEF OneAtATime, RequestsFit, PromotesRunning, ArmsFit, WorkFits, Idle
  <1>5. DeploymentsFit
    BY <1>1, <1>3 DEF DeploymentsFit
  <1>6. ServesKept
    BY <1>1, <1>3 DEF ServesKept, Serves, Wanted, Stored
  <1>7. LowestTouched /\ FrameSafe /\ OneContainer
    <2>1. \A a \in AssignmentId : Wanted(a) => a = 1
      BY <1>3 DEF Wanted
    <2>2. LowestTouched
      BY <2>1 DEF LowestTouched
    <2>3. OneContainer
      BY <1>3 DEF OneContainer
    <2>4. FrameSafe
      BY <1>2, <1>3 DEF FrameSafe
    <2> QED
      BY <2>2, <2>3, <2>4
  <1>8. InstancesFit
    <2>1. ASSUME NEW a \in AssignmentId, a > minted PROVE Pristine(a)
      <3>1. a # 0 /\ a # minted /\ a \in Nat
        BY <1>2, <1>3, <2>1
      <3>2. a \notin containers /\ assignment[a].desired = "ABSENT" /\ volume.lease # a
        BY <1>3, <3>1
      <3> QED
        BY <1>1, <1>2, <3>2 DEF Pristine, Untouched, Stored
    <2> QED
      BY <1>1, <1>3, <2>1 DEF InstancesFit, Serves, Wanted, Stored
  <1> QED
    BY <1>4, <1>5, <1>6, <1>7, <1>8 DEF WriterInv

\* The traffic moves only by the command of a deployment that is promoted.
LEMMA SwitchStep ==
    ASSUME OneWriterSetting, Shape, WriterInv, [StatefulNext]_statefulVars, env'.active # env.active
    PROVE  \E c \in containers : containers = {c} /\ assignment[c].rel = env'.active
  <1>1. env' # env
    OBVIOUS
  <1>2. StatefulOrch
    <2>1. ~UNCHANGED statefulVars
      BY <1>1 DEF statefulVars, vars, store
    <2>2. ~StatefulApi
      BY <1>1, RequestTypes DEF StatefulApi, Shape, StatefulTypeOK
    <2>3. ~StatefulSched
      BY <1>1 DEF StatefulSched, statefulEvaluate, reconcileLeases, applyPutVolumeLease, evaluateEnv,
         ConvergeEnv, applyBatch, SchedApply, Expand, applyPutAssignments, applyDeleteAssignments, store
    <2>4. ~AgentStep
      BY <1>1 DEF AgentStep, sendAssignments, reconcileExecutor, flushStatus, dropStatus, pollLiveness, store
    <2>5. ~StatefulLeaderMoves /\ \A d \in DeploymentId : ~FinishBuild(d)
      BY <1>1 DEF StatefulLeaderMoves, FinishBuild, store
    <2> QED
      BY <2>1, <2>2, <2>3, <2>4, <2>5 DEF StatefulNext
  <1>3. ApplyNext
    <2>1. /\ ~RecheckPlacement /\ ~Timeout
          /\ \A d \in DeploymentId : ~reconcile(d)
      BY NotTaken
    <2>2. ~BeginPass /\ ~RestartOldStep /\ ~applyPutVolume
      BY <1>1 DEF BeginPass, RestartOldStep, applyPutVolume, store
    <2>3. \A d \in DeploymentId : ~reconcileStateful(d)
      BY <1>1, StatefulArms DEF Visit, store
    <2> QED
      BY <1>2, <2>1, <2>2, <2>3 DEF StatefulOrch, OrchStep
  <1>4. ~Idle
    BY <1>3 DEF ApplyNext
  <1>5. PICK d \in DeploymentId :
              /\ Live = {d} /\ pass = {} /\ requests = {} /\ ArmFits(d, todo)
              /\ deployment[d].phase \in LivePhase
    BY <1>4, ArmContext
  <1>6. PICK c : c = todo[1]
    OBVIOUS
  <1>7. Head(todo) = c
    BY <1>4, <1>6, Typed DEF Idle
  <1>8. c.op = "PromoteRelease" /\ applyPromoteRelease(c.rel)
    BY <1>1, <1>3, <1>7 DEF ApplyNext, Apply, applyPutAssignments, applyDeleteAssignments,
       applySetDeploymentPhase, applyPutRelease
  <1>9. /\ deployment[d].phase = "PROMOTING"
        /\ todo = <<PromoteRelease(deployment[d].rel), SetDeploymentPhase(d, "SUCCEEDED")>>
    BY <1>5, <1>6, <1>8 DEF ArmFits
  <1>10. c.rel = deployment[d].rel
    BY <1>6, <1>9 DEF PromoteRelease
  <1>11. env'.active = deployment[d].rel
    <2>1. env' = [env EXCEPT !.active = deployment[d].rel] /\ env \in Environment
      BY <1>1, <1>8, <1>10, Typed DEF applyPromoteRelease
    <2> QED
      BY <2>1 DEF Environment
  <1>12. RunningOwn(d) /\ d \in Live
    BY <1>5, <1>9 DEF WriterInv, PromotesRunning
  <1>13. PICK g \in containers : containers = {g} /\ Started(d, g)
    BY <1>12, Alone
  <1> QED
    BY <1>11, <1>13 DEF Started

LEMMA WriterSafe == WriterInv => SingleWriter
  <1> SUFFICES ASSUME WriterInv PROVE SingleWriter
    OBVIOUS
  <1>1. CASE containers = {}
    BY <1>1, FS_EmptySet DEF SingleWriter
  <1>2. ASSUME NEW c \in containers PROVE SingleWriter
    <2>1. containers = {c}
      BY <1>2 DEF WriterInv, OneContainer
    <2>2. Cardinality(containers) = 1
      BY <2>1, FS_Singleton
    <2> QED
      BY <2>2 DEF SingleWriter
  <1> QED
    BY <1>1, <1>2

\* In the setting above, whatever fails, is lost, is late or changes leader: while no
\* request overlaps a deployment the node never runs two containers of the service.
THEOREM OneWriter ==
    ASSUME OneWriterSetting
    PROVE  StatefulSpec /\ [][RequestWaits]_statefulVars => []SingleWriter
  <1>1. StatefulInit => Shape /\ WriterInv
    BY StatefulInitTypes, InitWriter
  <1>2. /\ Shape /\ WriterInv /\ [StatefulNext]_statefulVars /\ [RequestWaits]_statefulVars
          => Shape' /\ WriterInv'
    BY StatefulNextTypes, NextWriter
  <1>3. WriterInv => SingleWriter
    BY WriterSafe
  <1> QED
    BY <1>1, <1>2, <1>3, PTL DEF StatefulSpec

\* In the same setting the traffic moves to a release only when its instance runs and
\* nothing else does: HEALTHY is believed only of a container that is there, and the
\* lease kept every other from starting.
THEOREM SwitchRunning ==
    ASSUME OneWriterSetting
    PROVE  StatefulSpec /\ [][RequestWaits]_statefulVars => SwitchedToRunning
  <1>1. StatefulInit => Shape /\ WriterInv
    BY StatefulInitTypes, InitWriter
  <1>2. /\ Shape /\ WriterInv /\ [StatefulNext]_statefulVars /\ [RequestWaits]_statefulVars
          => Shape' /\ WriterInv'
    BY StatefulNextTypes, NextWriter
  <1>3. Shape /\ WriterInv /\ [StatefulNext]_statefulVars =>
           [env'.active # env.active =>
              \E c \in containers : containers = {c} /\ assignment[c].rel = env'.active]_statefulVars
    BY SwitchStep
  <1> QED
    BY <1>1, <1>2, <1>3, PTL DEF StatefulSpec, SwitchedToRunning

\* Deploys and uploads wait by themselves: none is read while a deployment is under way
\* (Check would refuse it), and the deployment starts when its request is over.
LEMMA DeploysWait ==
    ASSUME OneWriterSetting, ~StaleRequests, "git" \notin Inputs, Shape, WriterInv,
           [StatefulNext]_statefulVars
    PROVE  [RequestWaits]_statefulVars
  <1>1. CASE UNCHANGED requests
    BY <1>1 DEF RequestWaits
  <1>2. CASE StatefulApi
    <2> SUFFICES ASSUME deploymentOwnsEnv PROVE FALSE
      BY DEF RequestWaits
    <2>1. requests = {}
      BY DEF deploymentOwnsEnv, WriterInv, OneAtATime, Live
    <2>2. PICK kind \in Inputs : resolveEnv(kind)
      BY <1>2, <2>1 DEF StatefulApi, ApiStep, DeployGit
    <2>3. PICK r : requests' = requests \cup {r} /\ r.stage = "read"
      <3>1. PICK r : r = [stage |-> "read", kind |-> kind, dep |-> NoId, rel |-> NoId, prev |-> env.active]
        OBVIOUS
      <3>2. requests' = requests \cup {r} /\ r.stage = "read"
        BY <2>2, <3>1 DEF resolveEnv
      <3> QED
        BY <3>2
    <2> QED
      BY <1>2, <2>1, <2>3 DEF StatefulApi
  <1>3. StatefulApi \/ UNCHANGED requests
    <2>1. StatefulOrch => UNCHANGED requests
      BY DEF StatefulOrch, OrchStep, Timeout, RestartOldStep, applyPutVolume, reconcileStateful, api
    <2>2. \A d \in DeploymentId : FinishBuild(d) => UNCHANGED requests
      BY DEF FinishBuild, api
    <2>3. UNCHANGED statefulVars => UNCHANGED requests
      BY DEF statefulVars, vars, api
    <2>4. StatefulSched \/ StatefulLeaderMoves => UNCHANGED requests
      BY DEF StatefulSched, StatefulLeaderMoves, api
    <2> QED
      BY <2>1, <2>2, <2>3, <2>4 DEF StatefulNext, api
  <1> QED
    BY <1>1, <1>2, <1>3

\* Without pushes nothing is left to assume of the requests: a service that is deployed
\* and uploaded by one caller at a time, each reading the environment while no
\* deployment runs, has one writer.
THEOREM OneWriterDeploys ==
    ASSUME OneWriterSetting, ~StaleRequests, "git" \notin Inputs
    PROVE  StatefulSpec => []SingleWriter
  <1>1. StatefulInit => Shape /\ WriterInv
    BY StatefulInitTypes, InitWriter
  <1>2. Shape /\ WriterInv /\ [StatefulNext]_statefulVars => Shape' /\ WriterInv'
    BY StatefulNextTypes, NextWriter, DeploysWait
  <1>3. WriterInv => SingleWriter
    BY WriterSafe
  <1> QED
    BY <1>1, <1>2, <1>3, PTL DEF StatefulSpec
===============================================================================

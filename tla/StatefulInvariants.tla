------------------------- MODULE StatefulInvariants -------------------------
(***************************************************************************)
(* Why the volume has one writer.  While no request overlaps a deployment, *)
(* an environment has at most one instance of the release that serves and  *)
(* one of the release being rolled out, and of the instances that are RUN  *)
(* only the lowest ever held the lease.  The parts below are inductive     *)
(* together (StatefulProofs).                                              *)
(***************************************************************************)
EXTENDS Stateful, RolloutInvariants

\* The setting: one replica, requests one at a time and none of them a rollback, no
\* swallowed apply error, evaluations not overtaken, and stops that succeed.
OneWriterSetting ==
    /\ MinReplicas = 1 /\ OneByOne
    /\ "timeout" \notin Faults /\ "stopFails" \notin AgentFaults
    /\ ~StaleEvaluation

\* No request comes while a deployment is under way.
RequestWaits == deploymentOwnsEnv => requests' \subseteq requests

Live == {d \in DeploymentId : ~isTerminalPhase(d)}
Wanted(a) == assignment[a].desired = "RUN"
Serves(a) == Stored(a) /\ assignment[a].rel = env.active

\* The lease was never given to the instance and it never had a container.
Untouched(a) ==
    /\ volume.lease # a /\ frame.lease # a /\ a \notin containers
    /\ \A i \in DOMAIN work : work[i].op = "PutVolumeLease" => work[i].holder # a

\* Nor has anybody heard of it.
Pristine(a) ==
    Untouched(a) /\ ~Stored(a) /\ frame.desired[a] = "ABSENT" /\ reported[a] = "NONE"

\* Deployments and requests come one after the other.
OneAtATime ==
    /\ \A d, e \in Live : d = e
    /\ \A p, q \in requests : p = q
    /\ requests # {} => Live = {}
    /\ pass \subseteq Live
    /\ ~Idle => Live # {} /\ pass = {}

\* A request replaces what serves, and its ids are new.
RequestsFit ==
    \A q \in requests :
        /\ q.kind \in Inputs /\ q.prev \in {NoId, env.active}
        /\ q.stage = "deployment" => release[q.rel] # "ABSENT"
        /\ Numbered(q) =>
              /\ q.rel \in ReleaseId /\ q.rel = lastRelease /\ q.rel # env.active
              /\ q.dep \in DeploymentId /\ q.dep = lastDeployment
              /\ \A a \in AssignmentId :
                    Stored(a) => assignment[a].rel # q.rel /\ assignment[a].dep # q.dep

\* So does a deployment, until it has switched the traffic.
DeploymentsFit ==
    /\ env.effective = 0 /\ env.active <= lastRelease
    /\ \A d \in Live :
          LET dep == deployment[d]
          IN  /\ dep.phase \in {"PENDING", "BUILDING", "STOPPING_OLD", "STARTING",
                                "HEALTHCHECKING", "PROMOTING"}
              /\ dep.rel \in ReleaseId /\ release[dep.rel] # "ABSENT"
              /\ d <= lastDeployment /\ dep.rel <= lastRelease
              /\ \/ dep.prev \in {NoId, env.active} /\ dep.rel # env.active
                 \/ dep.phase = "PROMOTING" /\ dep.rel = env.active

\* The instance a deployment has started is the newest there is and has been RUN
\* since it was created; it is HEALTHY only if it runs.
Started(d, a) ==
    /\ assignment[a].dep = d /\ assignment[a].rel = deployment[d].rel /\ Wanted(a)
    /\ \A b \in AssignmentId : Stored(b) => b <= a
    /\ deployment[d].phase \in {"STARTING", "HEALTHCHECKING", "PROMOTING"}
    /\ frame.desired[a] # "STOP" /\ (a \in containers => frame.desired[a] = "RUN")
    /\ "HEALTHY" \in {assignment[a].obs, reported[a]} => a \in containers

InstancesFit ==
    /\ \A n \in Node : node[n].status = "ALIVE"
    /\ \A a \in AssignmentId : a > minted => Pristine(a)
    /\ \A a \in AssignmentId : Stored(a) =>
          /\ assignment[a].node \in Node /\ assignment[a].rel # NoId
          /\ assignment[a].rel <= lastRelease /\ assignment[a].dep <= lastDeployment
    /\ \A a, b \in AssignmentId : Serves(a) /\ Serves(b) => a = b
    /\ \A a \in AssignmentId : Wanted(a) => Serves(a) \/ assignment[a].dep \in Live
    /\ \A d \in Live, a \in AssignmentId :
          Stored(a) /\ (assignment[a].dep = d \/ assignment[a].rel = deployment[d].rel)
             => Started(d, a)

\* The instance that serves is there and wanted, unless a deployment that replaces it
\* has stopped it.
ServesKept ==
    ~ScaleToZero =>
      /\ env.active # NoId => \E a \in AssignmentId : Serves(a)
      /\ \A a \in AssignmentId : Serves(a) /\ ~Wanted(a) =>
            \E d \in Live : /\ deployment[d].phase \notin {"PENDING", "BUILDING"}
                            /\ deployment[d].prev = env.active
                            /\ deployment[d].rel # env.active

\* Of the instances that are RUN only the lowest was ever touched.
LowestTouched ==
    \A a, b \in AssignmentId : Wanted(a) /\ Wanted(b) /\ b < a => Untouched(a)

\* The agent's set never gives the lease to another instance than the one that runs.
FrameSafe ==
    \A c \in containers, a \in AssignmentId :
        frame.desired[c] = "RUN" /\ frame.desired[a] = "RUN" /\ frame.lease = a => c = a

OneContainer == \A c, a \in containers : c = a

RunningOwn(d) == \E a \in containers : assignment[a].dep = d /\ Wanted(a)
NoOwn(d) == \A a \in AssignmentId : Stored(a) => assignment[a].dep # d

PromotesRunning == \A d \in Live : deployment[d].phase = "PROMOTING" => RunningOwn(d)

\* A put rewrites a stored instance.
Rewrites(a, put, want) ==
    /\ Stored(a) /\ put.desired = want
    /\ put.node = assignment[a].node /\ put.rel = assignment[a].rel /\ put.dep = assignment[a].dep

Stops(d, puts) ==
    \A a \in AssignmentId : puts[a] # NoAssignment =>
        Rewrites(a, puts[a], "STOP") /\ assignment[a].dep # d /\ deployment[d].prev = env.active

Starts(d, puts) ==
    /\ NoOwn(d) /\ deployment[d].phase = "STARTING"
    /\ \A a \in AssignmentId : puts[a] # NoAssignment =>
          /\ a = minted /\ Pristine(a)
          /\ \E n \in Node : puts[a] = newAssignment(n, deployment[d].rel, d)

Restarts(puts) ==
    \A a \in AssignmentId :
        /\ puts[a] # NoAssignment => Rewrites(a, puts[a], "RUN") /\ Serves(a)
        /\ Serves(a) /\ ~Wanted(a) /\ ~ScaleToZero => puts[a] # NoAssignment

\* What the phase a deployment is moved to presupposes.
Moves(d, p) ==
    LET phase == deployment[d].phase
    IN  \/ p = "BUILDING" /\ phase = "PENDING"
        \/ p = "STOPPING_OLD" /\ phase \in {"PENDING", "BUILDING"}
        \/ p = "STARTING" /\ phase = "STOPPING_OLD"
        \/ p = "HEALTHCHECKING" /\ phase = "STARTING"
        \/ p = "PROMOTING" /\ phase = "HEALTHCHECKING" /\ RunningOwn(d)
        \/ p = "SUCCEEDED" /\ phase = "PROMOTING" /\ env.active = deployment[d].rel
        \/ /\ p = "FAILED" /\ phase # "PROMOTING" /\ NoOwn(d)
           /\ ~ScaleToZero => \A a \in AssignmentId : Serves(a) => Wanted(a)

Failing(d) == deployment[d].phase \in {"STARTING", "HEALTHCHECKING"}

\* The steps of an arm of the deployment.
ArmFits(d, steps) ==
    LET c == steps[1]
    IN  \/ /\ c.op = "SetDeploymentPhase"
           /\ steps = setPhase(d, c.phase) /\ Moves(d, c.phase)
        \/ /\ c.op = "PutRelease" /\ deployment[d].phase = "BUILDING"
           /\ steps = <<PutRelease(deployment[d].rel), SetDeploymentPhase(d, "STOPPING_OLD")>>
        \/ /\ c.op = "PutAssignments" /\ steps = <<PutAssignments(c.puts)>>
           /\ Starts(d, c.puts) \/ (deployment[d].phase = "STOPPING_OLD" /\ Stops(d, c.puts))
        \/ /\ c.op = "PutVolume" /\ steps = <<PutVolume, PutAssignments(steps[2].puts)>>
           /\ Starts(d, steps[2].puts)
        \/ /\ c.op = "DeleteAssignments" /\ Failing(d)
           /\ steps = <<DeleteAssignments(c.ids), RestartOld(d)>>
           /\ \A a \in AssignmentId : Stored(a) /\ assignment[a].dep = d => a \in c.ids
           /\ \A a \in c.ids : assignment[a].dep = d
        \/ /\ c.op = "RestartOld" /\ steps = <<RestartOld(d)>> /\ Failing(d) /\ NoOwn(d)
        \/ /\ c.op = "PutAssignments" /\ Failing(d) /\ NoOwn(d)
           /\ steps = <<PutAssignments(c.puts), SetDeploymentPhase(d, "FAILED")>>
           /\ Restarts(c.puts)
        \/ /\ c.op = "PromoteRelease" /\ deployment[d].phase = "PROMOTING"
           /\ steps = <<PromoteRelease(deployment[d].rel), SetDeploymentPhase(d, "SUCCEEDED")>>

ArmsFit == ~Idle => \A d \in Live : ArmFits(d, todo)

\* A step of an evaluation, the i-th: it stores no new instance, and stops or deletes
\* none that serves.
EvalFits(i, w) ==
    /\ w.op \in {"CheckOwner", "Converge", "Batch", "PutAssignments",
                 "DeleteAssignments", "RenewLease", "PutVolumeLease"}
    /\ w.op \in {"Batch", "PutAssignments"} => i = 1
    /\ w.op \in {"CheckOwner", "Converge"} => view = env
    /\ w.op \in {"Converge", "Batch", "PutAssignments", "DeleteAssignments"} => Live = {}
    /\ w.op = "Batch" => w.puts = NoPuts /\ \A a \in w.stop : ScaleToZero \/ ~Serves(a)
    /\ w.op = "PutAssignments" => \A a \in AssignmentId : w.puts[a] # NoAssignment =>
          Rewrites(a, w.puts[a], "STOP") /\ (ScaleToZero \/ ~Serves(a))
    /\ w.op = "DeleteAssignments" => \A a \in w.ids : ~Wanted(a)

WorkFits == \A i \in DOMAIN work : EvalFits(i, work[i])

WriterInv ==
    /\ OneAtATime /\ RequestsFit /\ DeploymentsFit /\ InstancesFit /\ ServesKept
    /\ LowestTouched /\ FrameSafe /\ OneContainer /\ PromotesRunning /\ ArmsFit /\ WorkFits
=============================================================================

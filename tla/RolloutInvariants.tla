-------------------------- MODULE RolloutInvariants --------------------------
(***************************************************************************)
(* Why the invariants hold.  An arm ends in a step that names the          *)
(* deployment it was decided for, its goal; what the arm may still do is   *)
(* related to the state by the goal.  The parts below are inductive        *)
(* together (RolloutProofs).                                               *)
(***************************************************************************)
EXTENDS Rollout

Goal == todo[Len(todo)]
GoalPhase(phases) == Goal.op = "SetDeploymentPhase" /\ Goal.phase \in phases

\* The arm moves its deployment on to a phase of a rollout.
Advances == Goal.op = "RecheckGreen" \/ GoalPhase(RolloutPhase)

\* A request that has been given its ids.
Numbered(q) == q.stage \in {"build", "release", "deployment"}

\* What has been created, and what is being handled, names a release.
NamesRelease ==
    /\ \A d \in DeploymentId :
          deployment[d].phase # "ABSENT" => deployment[d].rel \in ReleaseId
    /\ \A q \in requests : Numbered(q) =>
          q.rel \in ReleaseId /\ q.dep \in DeploymentId

\* The deployments the pass has to visit, and the one it is visiting, are unfinished.
PassLive ==
    /\ \A d \in pass : deployment[d].phase \in LivePhase
    /\ ~Idle =>
          /\ Len(todo) \in 1..2
          /\ Len(todo) = 2 => todo[1].op \in CommandOps \ {"SetDeploymentPhase"}
          /\ Goal.op \in {"SetDeploymentPhase", "RecheckGreen"}
          /\ Goal.op = "SetDeploymentPhase" => Goal.phase \in RolloutPhase \cup TerminalPhase
          /\ Goal.dep \notin pass /\ deployment[Goal.dep].phase \in LivePhase

\* Whatever is older than a deployment the pass has still to visit is no longer
\* being rolled out, unless the pass visits it first; and nothing else is rolled
\* out next to a deployment that is about to be moved on.
PassOrder ==
    /\ \A e \in pass : \A d \in DeploymentId :
          d < e => \/ d \in pass
                   \/ ~Idle /\ Goal.dep = d
                   \/ deployment[d].phase \notin RolloutPhase
    /\ ~Idle /\ Advances =>
          /\ \A e \in pass : e < Goal.dep
          /\ \A d \in DeploymentId : d # Goal.dep => deployment[d].phase \notin RolloutPhase

\* A deployment is about to fail or be superseded only with its green set gone or
\* the command that deletes it in front, and only new replicas of the deployment
\* being placed are ever stored as wanted.
ReapedFirst ==
    ~Idle =>
      /\ GoalPhase({"FAILED", "SUPERSEDED"}) =>
            IF Len(todo) = 1 THEN greenAssignments(Goal.dep) = {}
            ELSE /\ todo[1].op = "DeleteAssignments"
                 /\ greenAssignments(Goal.dep) \subseteq todo[1].ids
      /\ todo[1].op = "PutAssignments" =>
            \A a \in AssignmentId :
               todo[1].puts[a].desired = "RUN" => todo[1].puts[a].dep = Goal.dep

\* An id handed to a request is not in use yet, and belongs to that request alone.
FreshDeployments ==
    /\ \A d \in DeploymentId : d > lastDeployment => deployment[d].phase = "ABSENT"
    /\ \A q \in requests : Numbered(q) =>
          /\ q.dep <= lastDeployment /\ deployment[q.dep].phase = "ABSENT"
          /\ \A p \in requests : Numbered(p) /\ p.dep = q.dep => p = q

\* DRAINING_OLD is set only right after the traffic was switched.
SwitchedFirst ==
    ~Idle =>
      /\ GoalPhase({"DRAINING_OLD"}) =>
            IF Len(todo) = 1 THEN env.active = deployment[Goal.dep].rel
            ELSE todo[1].op = "PromoteRelease" /\ todo[1].rel = deployment[Goal.dep].rel
      /\ todo[1].op = "PromoteRelease" => GoalPhase({"DRAINING_OLD"})

\* The parts that hold whatever happens, and the ones that a swallowed apply
\* error would break.
StepsInv == NamesRelease /\ PassLive
OrderInv == PassOrder /\ ExclusiveRollout
ReapInv == ReapedFirst /\ NoLeakedGreen

(***************************************************************************)
(* Why retention leaves alone what is served or being rolled out.          *)
(***************************************************************************)
\* Releases are numbered in order: whatever names one, names one handed out, and
\* an arm only ever stores or promotes the release of the deployment it is about.
Versions ==
    /\ \A r \in ReleaseId : release[r] # "ABSENT" => r <= lastRelease
    /\ env.active <= lastRelease
    /\ \A q \in requests : q.prev <= lastRelease /\ q.rel <= lastRelease
    /\ \A d \in DeploymentId : deployment[d].rel <= lastRelease
    /\ ~Idle /\ todo[1].op \in {"PromoteRelease", "PutRelease"} =>
          todo[1].rel = deployment[Goal.dep].rel

\* Requests come one at a time and none of them is a rollback: only then is the
\* release of a request the newest there is, until its deployment is stored.
OneByOne ==
    /\ MaxInFlight = 1
    /\ Inputs \cap {"rollback", "rollbackToActive"} = {}

\* What a sweep of retention has decided to delete is neither served, nor being
\* rolled out, nor about to be.
Unpruned ==
    /\ \A p, q \in requests : p = q
    /\ \A q \in requests :
          /\ q.kind \in Inputs
          /\ Numbered(q) => q.rel = lastRelease /\ q.rel \notin doomed
          /\ q.stage = "deployment" => release[q.rel] # "ABSENT"
    /\ \A r \in doomed : r <= lastRelease
    /\ env.active # NoId => env.active \notin doomed
    /\ \A d \in DeploymentId : ~isTerminalPhase(d) => deployment[d].rel \notin doomed
    /\ DeployedReleaseKept

(***************************************************************************)
(* Why the release that serves keeps its replicas, as long as a leader     *)
(* finishes the arm it has begun.                                          *)
(***************************************************************************)
\* Instances do not regress once they are healthy.
Steady == Reports \subseteq {"RUNNING", "HEALTHY"}

Up(a) == assignment[a].desired = "RUN" /\ (Steady => assignment[a].obs = "HEALTHY")
UpOf(r) == {a \in AssignmentId : assignment[a].rel = r /\ Up(a)}
Full(as) == Cardinality(as) >= MinReplicas

\* The arm under way gives the deployment up.
Condemned(d) == ~Idle /\ Goal.dep = d /\ GoalPhase({"FAILED", "SUPERSEDED"})

\* No arm deletes the replica any more: the deployment it came from has switched
\* the traffic, or is about to.
Kept(a) ==
    LET d == assignment[a].dep
    IN  \/ d = NoId
        \/ deployment[d].phase \in {"SUCCEEDED", "DRAINING_OLD"}
        \/ ~Idle /\ Goal.dep = d /\ GoalPhase({"DRAINING_OLD"})
KeptOf(r) == {a \in UpOf(r) : Kept(a)}

\* No deployment goes from a release to itself.
Forward ==
    /\ \A q \in requests : q.kind \in Inputs /\ (Numbered(q) => q.rel # q.prev)
    /\ \A d \in DeploymentId :
          deployment[d].phase # "ABSENT" => deployment[d].rel # deployment[d].prev

\* A replica that is wanted belongs to a deployment that got past PENDING and is
\* of its release; ids that have not been handed out are not in use.
Replicated ==
    /\ env.effective = 0
    /\ \A a \in AssignmentId : a > minted => assignment[a] = NoAssignment
    /\ \A a \in AssignmentId :
          assignment[a].desired = "RUN" /\ assignment[a].dep # NoId =>
             /\ deployment[assignment[a].dep].phase \in RolloutPhase \cup TerminalPhase
             /\ assignment[a].rel = deployment[assignment[a].dep].rel

\* The arm under way fits the phase it was decided in.
PhaseOfGoal ==
    ~Idle => LET phase == deployment[Goal.dep].phase
             IN  /\ Goal.op = "RecheckGreen" => phase = "PLACING"
                 /\ GoalPhase({"HEALTHCHECKING"}) => phase = "STARTING"
                 /\ GoalPhase({"DRAINING_OLD"}) => phase = "PROMOTING"
                 /\ GoalPhase({"SUCCEEDED"}) <=> phase = "DRAINING_OLD"
                 /\ GoalPhase({"STARTING", "HEALTHCHECKING", "PROMOTING"}) => Len(todo) = 1

\* It deletes only replicas of a deployment it gives up, stores only new ones, and
\* stops only those of the release its deployment has replaced.
ReplicasOfGoal ==
    ~Idle =>
      /\ todo[1].op = "DeleteAssignments" =>
            /\ GoalPhase({"FAILED", "SUPERSEDED"})
            /\ \A a \in todo[1].ids : assignment[a].dep = Goal.dep
      /\ todo[1].op = "PutAssignments" =>
            \A a \in AssignmentId : todo[1].puts[a] # NoAssignment =>
               LET put == todo[1].puts[a]
               IN  /\ a <= minted
                   /\ \/ /\ Goal.op = "RecheckGreen" /\ assignment[a] = NoAssignment
                         /\ put.dep = Goal.dep /\ put.rel = deployment[Goal.dep].rel
                      \/ /\ GoalPhase({"SUCCEEDED"}) /\ put.desired = "STOP"
                         /\ assignment[a].rel = deployment[Goal.dep].prev

\* Enough replicas are there from STARTING on, they are up from PROMOTING on, and
\* the release that serves has enough that no arm deletes.
Staffed ==
    /\ \A d \in DeploymentId : ~Condemned(d) =>
          /\ deployment[d].phase \in {"STARTING", "HEALTHCHECKING"} => Full(greenAssignments(d))
          /\ deployment[d].phase = "PROMOTING" => Full(UpOf(deployment[d].rel))
    /\ ~Idle =>
          /\ GoalPhase({"STARTING"}) => Full(greenAssignments(Goal.dep))
          /\ GoalPhase({"PROMOTING"}) => Full(UpOf(deployment[Goal.dep].rel))
    /\ env.active # NoId => Full(KeptOf(env.active))

StaffInv == Replicated /\ PhaseOfGoal /\ ReplicasOfGoal /\ Staffed
==============================================================================

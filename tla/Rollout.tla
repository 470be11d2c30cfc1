------------------------------- MODULE Rollout -------------------------------
(***************************************************************************)
(* A red/green rollout from request to completion: the API handlers, the   *)
(* orchestrator on a leader that may change at any step, release retention *)
(* and the agents that report what became of the instances.                *)
(***************************************************************************)
EXTENDS Orchestrator, DeployApi, Retention

CONSTANTS
    Faults,   \* what goes wrong in the control plane: a subset of FaultKind
    Reports   \* the instance states the agents report

FaultKind == {"failover", "timeout"}

ASSUME RolloutAssumption == Faults \subseteq FaultKind /\ Reports \subseteq InstanceState

vars == <<store, minted, orch, api, doomed>>

(***************************************************************************)
(* A fresh environment, or one whose first release was deployed long ago.  *)
(***************************************************************************)
SteadyAssignment(a, home) ==
    IF a <= MinReplicas THEN [newAssignment(home, 1, NoId) EXCEPT !.obs = "HEALTHY"]
    ELSE NoAssignment

Init ==
    /\ deployment = [d \in DeploymentId |-> NoDeployment]
    /\ build = [d \in DeploymentId |-> "NONE"]
    /\ node = [n \in Node |-> [status |-> "ALIVE", schedulable |-> TRUE]]
    /\ pass = {} /\ todo = <<>> /\ requests = {} /\ doomed = {}
    /\ lastDeployment = NoId
    /\ \/ /\ env = [active |-> NoId, effective |-> 0]
          /\ release = [r \in ReleaseId |-> "ABSENT"]
          /\ assignment = [a \in AssignmentId |-> NoAssignment]
          /\ minted = 0 /\ lastRelease = NoId
       \/ /\ env = [active |-> 1, effective |-> 0]
          /\ release = [r \in ReleaseId |-> IF r = 1 THEN "IMAGE" ELSE "ABSENT"]
          /\ MinReplicas <= MaxAssignment
          /\ \E home \in Node :
                assignment = [a \in AssignmentId |-> SteadyAssignment(a, home)]
          /\ minted = MinReplicas /\ lastRelease = 1

\* The builder finishes the build of a source deployment.
FinishBuild(d) ==
    /\ build[d] = "QUEUED"
    /\ \E s \in {"SUCCEEDED", "FAILED"} : build' = [build EXCEPT ![d] = s]
    /\ UNCHANGED <<env, release, deployment, assignment, node, minted, orch, api, doomed>>

\* An agent's report commits; reports may be late, so any state may follow any.
Report(a) ==
    /\ \E s \in Reports : assignment[a].obs # s /\ SetAssignmentObserved(a, s)
    /\ UNCHANGED <<orch, api, doomed>>

OrchStep ==
    /\ BeginPass \/ ApplyNext \/ RecheckPlacement \/ \E d \in DeploymentId : reconcile(d)
    /\ UNCHANGED <<api, doomed>>

LeaderChange ==
    /\ "failover" \in Faults
    /\ Failover
    /\ doomed' = {}
    /\ UNCHANGED api

Timeout == "timeout" \in Faults /\ ApplyTimesOut /\ UNCHANGED <<api, doomed>>

Sweep == (sweepEnv \/ \E r \in ReleaseId : DeleteRelease(r)) /\ UNCHANGED <<orch, api>>

Abandon == \E q \in requests : AbandonRequest(q) /\ UNCHANGED <<orch, doomed>>

Next ==
    \/ ApiStep /\ UNCHANGED <<orch, doomed>>
    \/ OrchStep
    \/ LeaderChange
    \/ Timeout
    \/ Sweep
    \/ "failover" \in Faults /\ Abandon
    \/ \E d \in DeploymentId : FinishBuild(d)
    \/ \E a \in AssignmentId : Report(a)

Spec == Init /\ [][Next]_vars

(***************************************************************************)
(* Properties                                                              *)
(***************************************************************************)
Step ==
    [op : {"PutAssignments"}, puts : [AssignmentId -> Assignment]]
      \cup [op : {"DeleteAssignments"}, ids : SUBSET AssignmentId]
      \cup [op : {"SetDeploymentPhase"}, dep : DeploymentId, phase : Phase]
      \cup [op : {"PromoteRelease", "PutRelease"}, rel : ReleaseId]
      \cup [op : {"RecheckGreen"}, dep : DeploymentId]

\* The shape of the state, the commands still to be sent included.
TypeOK ==
    /\ StoreTypeOK /\ ApiTypeOK
    /\ pass \subseteq DeploymentId /\ todo \in Seq(Step)
    /\ doomed \subseteq ReleaseId

\* Two rollouts never run at once: however requests race and wherever the
\* leader changes, at most one deployment of the environment is past PENDING
\* (reconcile supersedes the older ones before it moves a newer one).
ExclusiveRollout ==
    \A d, e \in DeploymentId :
        deployment[d].phase \in RolloutPhase /\ deployment[e].phase \in RolloutPhase => d = e

\* A rollout that failed or was superseded leaves none of its replicas desired:
\* abort and reapGreen delete them before the phase is set, also when the leader
\* changes between the two commands.
NoLeakedGreen ==
    \A d \in DeploymentId :
        deployment[d].phase \in {"FAILED", "SUPERSEDED"} => greenAssignments(d) = {}

Replicas(r) == {a \in AssignmentId : assignment[a].rel = r /\ assignment[a].desired = "RUN"}
HealthyReplicas(r) == {a \in Replicas(r) : assignment[a].obs = "HEALTHY"}

\* Once an environment serves a release, the release that serves always has its
\* full set of desired replicas: promotion waits for them, and neither abort,
\* reapGreen nor completeDrain takes one away while it serves.
ServingStaffed == env.active # NoId => Cardinality(Replicas(env.active)) >= MinReplicas

\* With instances that do not regress once healthy, the serving release always
\* has its full set of healthy replicas: traffic is never switched to instances
\* that have not passed their health check.
ServingHealthy == env.active # NoId => Cardinality(HealthyReplicas(env.active)) >= MinReplicas

\* A deployment in its drain window is the one that serves: promote switches the
\* traffic before it sets DRAINING_OLD, a new leader repeats both, and a newer
\* deployment may only switch it again once this one is finished.  (completeDrain
\* and Supersede rely on it.)
DrainingHasSwitched ==
    \A d \in DeploymentId :
        deployment[d].phase = "DRAINING_OLD" => env.active = deployment[d].rel

\* Retention never deletes a release that an unfinished deployment rolls out.
RolloutReleaseKept ==
    \A d \in DeploymentId : ~isTerminalPhase(d) => release[deployment[d].rel] # "ABSENT"

\* Without rollbacks, the release that serves and those being rolled out stay.
DeployedReleaseKept ==
    /\ env.active # NoId => release[env.active] # "ABSENT"
    /\ RolloutReleaseKept

Abs == INSTANCE Serving WITH
         Release <- ReleaseId, None <- NoId, active <- env.active,
         ready <- {r \in ReleaseId : Cardinality(Replicas(r)) >= MinReplicas}

\* The rollout implements Serving: the orchestrator's commands switch traffic to
\* ready releases only and keep the one that serves ready.
ServingRefined == Abs!Spec

(***************************************************************************)
(* Fairness: the orchestrator's loop keeps running (it ticks every 15s),   *)
(* agents report on what they were told to run, builds end, the clock      *)
(* passes every deadline and capacity is found in the end.                 *)
(***************************************************************************)
FirstReport(a) == assignment[a].obs = "UNSPECIFIED" /\ Report(a)
DeadlinePasses(d) == Turn(d) /\ (checkHealth(d) \/ drain(d) \/ place(d)) /\ UNCHANGED <<api, doomed>>

Fairness ==
    /\ WF_vars(OrchStep)
    /\ WF_vars(ApiStep /\ UNCHANGED <<orch, doomed>>)
    /\ \A d \in DeploymentId : WF_vars(FinishBuild(d)) /\ SF_vars(DeadlinePasses(d))
    /\ \A a \in AssignmentId : WF_vars(FirstReport(a))


\* Every deployment ends: it succeeds, fails or is superseded.
DeploymentsEnd ==
    \A d \in DeploymentId :
        deployment[d].phase \in LivePhase ~> deployment[d].phase \in TerminalPhase
==============================================================================

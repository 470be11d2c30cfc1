------------------------------ MODULE MCCluster ------------------------------
(***************************************************************************)
(* Four instances in one run: racing requests while the leader changes     *)
(* (Rollout alone); retention that keeps one release while commands time   *)
(* out; rollouts next to the scheduler and a drain; and drains of several  *)
(* nodes under a release with two replicas while the leader changes.  A    *)
(* behaviour is about one of them (focus).                                 *)
(***************************************************************************)
EXTENDS Naturals, TLC

CONSTANTS Node, Fleet, Lone

VARIABLES focus, env, release, deployment, build, assignment, node, minted, pass, todo, requests,
          lastRelease, lastDeployment, doomed, view, work, removal, nodeOps

clusterVars == <<env, release, deployment, build, assignment, node, minted, pass, todo, requests,
                 lastRelease, lastDeployment, doomed, view, work, removal, nodeOps>>

Rollouts == INSTANCE Cluster WITH
    MaxRelease <- 2, MaxDeployment <- 2, MaxAssignment <- 2, MinReplicas <- 1,
    ScaleToZero <- FALSE, Stateful <- FALSE, RetentionKeep <- 1, MaxInFlight <- 1,
    Inputs <- {"deploy"}, Faults <- {}, Reports <- {"HEALTHY", "FAILED"},
    NodeOps <- {"drain"}, MaxNodeOps <- 1

Drains == INSTANCE Cluster WITH
    Node <- Fleet, MaxRelease <- 1, MaxDeployment <- 1, MaxAssignment <- 6, MinReplicas <- 2,
    ScaleToZero <- FALSE, Stateful <- FALSE, RetentionKeep <- 1, MaxInFlight <- 1,
    Inputs <- {}, Faults <- {"failover"}, Reports <- {"RUNNING", "HEALTHY"},
    NodeOps <- {"drain"}, MaxNodeOps <- 3

Failovers == INSTANCE Rollout WITH
    Node <- Lone, MaxRelease <- 3, MaxDeployment <- 2, MaxAssignment <- 3, MinReplicas <- 1,
    ScaleToZero <- FALSE, Stateful <- FALSE, RetentionKeep <- 3, MaxInFlight <- 2,
    Inputs <- {"deploy", "upload", "rollback"}, Faults <- {"failover"},
    Reports <- {"HEALTHY", "FAILED"}

Retained == INSTANCE Rollout WITH
    Node <- Lone, MaxRelease <- 3, MaxDeployment <- 2, MaxAssignment <- 3, MinReplicas <- 1,
    ScaleToZero <- FALSE, Stateful <- FALSE, RetentionKeep <- 1, MaxInFlight <- 1,
    Inputs <- {"deploy", "upload"}, Faults <- {"failover", "timeout"},
    Reports <- {"HEALTHY", "FAILED"}

resting == <<view, work, removal, nodeOps>>
Rests == view = env /\ work = <<>> /\ removal = Drains!NoRemoval /\ nodeOps = 0

ClustersInit ==
    \/ focus = "rollouts" /\ Rollouts!ClusterInit
    \/ focus = "drains" /\ Drains!ClusterInit
    \/ focus = "failovers" /\ Failovers!Init /\ Rests
    \/ focus = "retention" /\ Retained!Init /\ Rests

ClustersNext ==
    \/ focus = "rollouts" /\ Rollouts!ClusterNext /\ UNCHANGED focus
    \/ focus = "drains" /\ Drains!ClusterNext /\ UNCHANGED focus
    \/ focus = "failovers" /\ Failovers!Next /\ UNCHANGED <<resting, focus>>
    \/ focus = "retention" /\ Retained!Next /\ UNCHANGED <<resting, focus>>

ClustersSpec == ClustersInit /\ [][ClustersNext]_<<clusterVars, focus>>

\* Each instance treats all its nodes alike.
ClusterSymmetry == Permutations(Fleet)

\* Whatever disturbs them, a rollout and a drain keep what they promise.  In
\* "failovers" requests race and the leader changes between any two commands, in
\* "rollouts" the scheduler and a drain write the same assignments: one rollout at a
\* time, nothing left of a failed one, a drain window only for the release that
\* serves (reconcile, abort, promote).  In "drains" three nodes are drained under two
\* replicas: a drained node is empty and two replicas are always up (reconcileDrains).
Undisturbed ==
    /\ focus = "failovers" => /\ Failovers!ExclusiveRollout
                              /\ Failovers!NoLeakedGreen
                              /\ Failovers!DrainingHasSwitched
    /\ focus = "rollouts" => Rollouts!NoLeakedGreen /\ Rollouts!DrainingHasSwitched
    /\ focus = "drains" => Drains!DrainedEmpty /\ Drains!KeptUp

\* Retention that works from a list it read before a deployment began deletes
\* neither the release that serves nor one that is being rolled out (sweepEnv).
DeployedReleaseKept == focus = "retention" => Retained!DeployedReleaseKept
==============================================================================

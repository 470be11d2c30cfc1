------------------------------- MODULE Cluster -------------------------------
(***************************************************************************)
(* One environment on a small cluster: rollouts (Rollout), the scheduler's *)
(* loop (Scheduler) and what operators and the liveness monitor do to the  *)
(* nodes, all writing the same replicated state.  The scheduler and the    *)
(* orchestrator are separate goroutines of the leader.                     *)
(***************************************************************************)
EXTENDS Rollout, Scheduler

CONSTANTS
    NodeOps,    \* what happens to nodes: a subset of NodeOpKind
    MaxNodeOps  \* bound: how often

NodeOpKind == {"drain", "uncordon", "down", "up", "remove"}

ASSUME ClusterAssumption == IsFiniteSet(Node) /\ NodeOps \subseteq NodeOpKind /\ MaxNodeOps \in Nat

VARIABLES
    removal,  \* the RemoveNode request being handled
    nodeOps   \* node events so far

nodes == <<removal, nodeOps>>
clusterVars == <<vars, sched, nodes>>

rollout == <<orch, api, doomed>>
tables == <<env, release, deployment, build>>
NoRemoval == [node |-> "none", stage |-> "none"]

ClusterInit ==
    /\ Init
    /\ view = env /\ work = <<>>
    /\ removal = NoRemoval /\ nodeOps = 0

(***************************************************************************)
(* Nodes                                                                   *)
(***************************************************************************)
NodeOp(op) ==
    /\ op \in NodeOps /\ nodeOps < MaxNodeOps
    /\ nodeOps' = nodeOps + 1

NodeCommand == UNCHANGED <<tables, assignment, minted, rollout, sched, removal>>

DrainNode(n) ==
    /\ NodeOp("drain") /\ Known(n)
    /\ applySetNodeSchedulable(n, "DRAINING", FALSE)
    /\ NodeCommand

\* A node that is DOWN is liveness's to bring back.
UncordonNode(n) ==
    /\ NodeOp("uncordon") /\ Known(n) /\ node[n].status # "DOWN"
    /\ applySetNodeSchedulable(n, "ALIVE", TRUE)
    /\ NodeCommand

\* The liveness monitor's two verdicts.
MarkDown(n) ==
    /\ NodeOp("down") /\ node[n].status = "ALIVE"
    /\ applySetNodeStatus(n, "DOWN")
    /\ NodeCommand

MarkAlive(n) ==
    /\ NodeOp("up") /\ node[n].status = "DOWN"
    /\ applySetNodeStatus(n, "ALIVE")
    /\ NodeCommand

\* RemoveNode takes a drained node, or any node with force.  It deletes the
\* replicas that are still recorded on it and then the node: two commands.
BeginRemove(n) ==
    /\ NodeOp("remove") /\ removal = NoRemoval
    /\ Known(n)
    /\ removal' = [node |-> n, stage |-> "reap"]
    /\ UNCHANGED <<store, minted, rollout, sched>>

RemoveNode ==
    \/ /\ removal.stage = "reap"
       /\ applyDeleteAssignments({a \in AssignmentId : assignment[a].node = removal.node})
       /\ removal' = [removal EXCEPT !.stage = "delete"]
       /\ UNCHANGED <<minted, rollout, sched, nodeOps>>
    \/ /\ removal.stage = "delete"
       /\ applyDeleteNode(removal.node)
       /\ removal' = NoRemoval
       /\ UNCHANGED <<tables, assignment, minted, rollout, sched, nodeOps>>

\* Agents report on what they run and confirm what they stopped.
AgentReport(a) ==
    /\ \E s \in (IF assignment[a].desired = "STOP" THEN {"STOPPED"} ELSE Reports) :
          assignment[a].obs # s /\ SetAssignmentObserved(a, s)
    /\ UNCHANGED <<rollout, sched, nodes>>

\* Leadership moves: both loops stop where they are.
LeaderMoves ==
    /\ "failover" \in Faults
    /\ pass # {} \/ ~Idle \/ work # <<>>
    /\ pass' = {} /\ todo' = <<>> /\ doomed' = {} /\ work' = <<>>
    /\ UNCHANGED <<store, minted, api, view, nodes>>

\* (Builds are left to Rollout: the requests made here deploy images.)
RolloutStep ==
    /\ \/ ApiStep /\ UNCHANGED <<orch, doomed>>
       \/ OrchStep
       \/ Sweep
    /\ UNCHANGED <<sched, nodes>>

ScheduleStep == SchedStep /\ UNCHANGED <<rollout, nodes>>

ClusterNext ==
    \/ RolloutStep \/ ScheduleStep \/ LeaderMoves \/ RemoveNode
    \/ \E a \in AssignmentId : AgentReport(a)
    \/ \E n \in Node : DrainNode(n) \/ UncordonNode(n) \/ MarkDown(n) \/ MarkAlive(n) \/ BeginRemove(n)

ClusterSpec == ClusterInit /\ [][ClusterNext]_clusterVars

(***************************************************************************)
(* Properties                                                              *)
(***************************************************************************)
\* The replicas traffic is routed to.
endpoints ==
    {a \in AssignmentId : /\ assignment[a].rel = env.active /\ assignment[a].desired = "RUN"
                          /\ assignment[a].obs = "HEALTHY"
                          /\ node[assignment[a].node].status \notin {"ABSENT", "DOWN", "DRAINED"}}

\* A drain is a zero-downtime migration: stateless replicas are "stopped only after
\* a healthy replacement exists elsewhere", so the release that serves always has an
\* endpoint for every replica it needs (reconcileDrains, replacementReady).
Served == env.active # NoId => Cardinality(endpoints) >= MinReplicas

\* The replicas of the serving release that run, their health check passed or not.
upReplicas ==
    {a \in AssignmentId : /\ assignment[a].rel = env.active /\ assignment[a].desired = "RUN"
                          /\ assignment[a].obs \in {"RUNNING", "HEALTHY"}
                          /\ node[assignment[a].node].status \notin {"ABSENT", "DOWN", "DRAINED"}}

\* What replacementReady waits for: as many replicas as the release needs are up.
KeptUp == env.active # NoId => Cardinality(upReplicas) >= MinReplicas

\* What operators and the monitor do to nodes is to drain them.
OnlyDrains == nodeOps' # nodeOps => \E n \in Node : DrainNode(n)

\* A node is marked DRAINED only when its instances are gone (reconcileDrains).
DrainedEmpty ==
    \A n \in Node : node[n].status = "DRAINED" =>
        \A a \in AssignmentId : assignment[a].node = n => assignment[a].desired # "RUN"

(***************************************************************************)
(* Fairness: the scheduler's loop ticks and its commands commit, agents    *)
(* start what they are told to run and stop what they are told to stop,    *)
(* removals finish.                                                        *)
(***************************************************************************)
Capacity == \E n \in Node : node[n].status = "ALIVE" /\ node[n].schedulable
PlacesAll ==
    /\ ConvergeEnv
    /\ minted' - minted >= desiredReplicas(view) - Cardinality(Good)
    /\ UNCHANGED <<rollout, nodes>>

ClusterFairness ==
    /\ WF_clusterVars(ScheduleStep) /\ WF_clusterVars(RemoveNode) /\ SF_clusterVars(PlacesAll)
    /\ \A a \in AssignmentId : WF_clusterVars(AgentReport(a))

ClusterFairSpec == ClusterSpec /\ ClusterFairness

\* Where there is another node to go to, a drain comes to an end: the node is
\* DRAINED, or taken out of the drain.
DrainsEnd ==
    <>[](minted < MaxAssignment /\ Capacity) =>
        \A n \in Node : node[n].status = "DRAINING" ~> node[n].status # "DRAINING"

\* The scheduler heals: after nodes go down, drain or leave, the serving release
\* has exactly its number of replicas on live nodes again, for good.
Converges ==
    <>[](minted < MaxAssignment /\ Capacity) =>
        <>[](Cardinality({a \in Replicas(env.active) : ~nodeDown(assignment[a].node)})
              = desiredReplicas(env))
==============================================================================

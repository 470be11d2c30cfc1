------------------------------ MODULE Scheduler ------------------------------
(***************************************************************************)
(* The scheduler's evaluation loop (scheduler/scheduler.go, drain.go and   *)
(* teardown.go): on the leader, bring the environment to its replica       *)
(* count, stop what no longer belongs to anything and empty the nodes that *)
(* are being drained.  It works from the environment it listed when the    *)
(* evaluation began; what it reads and what it sends afterwards are        *)
(* separate steps, and the orchestrator, the operators and the agents run  *)
(* in between.                                                             *)
(***************************************************************************)
EXTENDS Store

VARIABLES
    view,  \* the environment as this evaluation listed it
    work   \* what is left of the evaluation, in order

sched == <<view, work>>

CheckOwner == [op |-> "CheckOwner"]
Converge == [op |-> "Converge"]
ReapOrphans == [op |-> "ReapOrphans"]
ListDraining == [op |-> "ListDraining"]
DrainStep(n) == [op |-> "Drain", node |-> n]
Batch(puts, stop) == [op |-> "Batch", puts |-> puts, stop |-> stop]
SetDrained(n) == [op |-> "SetDrained", node |-> n]

NoPuts == [a \in AssignmentId |-> NoAssignment]

isStopped(a) == assignment[a].obs = "STOPPED"
Running(as) == {a \in as : assignment[a].desired = "RUN"}
Reapable(as) == {a \in as : assignment[a].desired = "STOP" /\ isStopped(a)}

\* evaluate: environments are listed once, then come the per-environment pass,
\* the orphans and the draining nodes.
evaluate ==
    /\ work = <<>>
    /\ view' = env
    /\ work' = <<CheckOwner, ReapOrphans, ListDraining>>
    /\ UNCHANGED <<store, minted>>

\* The step at the head of the evaluation is replaced by the given ones.
AtStep(op) == work # <<>> /\ Head(work).op = op
Expand(steps) ==
    /\ work' = steps \o Tail(work)
    /\ UNCHANGED <<store, view>>

deploymentOwnsEnv == \E d \in DeploymentId : ~isTerminalPhase(d)

\* The environment is left alone while a deployment runs or when its release is gone.
evaluateEnv ==
    /\ AtStep("CheckOwner")
    /\ Expand(IF deploymentOwnsEnv \/ (view.active # NoId /\ release[view.active] = "ABSENT")
              THEN <<>> ELSE <<Converge>>)
    /\ UNCHANGED minted

\* A batch that changes nothing sends nothing.
BatchSteps(puts, stop, delete) ==
    (IF puts = NoPuts /\ stop = {} THEN <<>> ELSE <<Batch(puts, stop)>>)
      \o (IF delete = {} THEN <<>> ELSE <<DeleteAssignments(delete)>>)

\* The partition of the environment's replicas.
StaleRelease == {a \in Running(AssignmentId) : assignment[a].rel # view.active}
CurrentReplicas == Running(AssignmentId) \ StaleRelease
Lost == {a \in CurrentReplicas : /\ ~Stateful
                         /\ nodeDown(assignment[a].node) /\ ~nodeDraining(assignment[a].node)}

\* Mutant: a replica counts wherever it is.
GoodAnywhere == CurrentReplicas

Good == {a \in CurrentReplicas : ~nodeDown(assignment[a].node)
                           \/ (Stateful /\ ~nodeDraining(assignment[a].node))}
NewestOf(as, n) == {a \in as : Cardinality({b \in as : b > a}) < n}

ConvergeEnv ==
    LET desired == desiredReplicas(view)
        good == Good
        have == Cardinality(good)
        excess == IF have > desired THEN NewestOf(good, have - desired) ELSE {}
    IN  /\ AtStep("Converge")
        /\ \E picks \in Place(IF desired > have THEN desired - have ELSE 0, {}) :
              /\ minted + Len(picks) <= MaxAssignment
              /\ minted' = minted + Len(picks)
              /\ Expand(BatchSteps(IF picks = <<>> THEN NoPuts
                              ELSE NewAssignments(picks, view.active, NoId),
                              StaleRelease \cup excess,
                              Reapable(AssignmentId) \cup Lost))

\* Replicas of a release that is no longer stored.
reconcileOrphans ==
    LET orphans == {a \in AssignmentId : Stored(a) /\ release[assignment[a].rel] = "ABSENT"}
    IN  /\ AtStep("ReapOrphans")
        /\ Expand(BatchSteps(NoPuts, Running(orphans), Reapable(orphans)))
        /\ UNCHANGED minted

\* Mutant: one replica elsewhere is enough, whatever its state.
replacementReadyPlaced(a) ==
    \E b \in Running(AssignmentId) :
        assignment[b].node # assignment[a].node /\ assignment[b].rel = assignment[a].rel

\* Enough replicas of the same release are up on other nodes.
replacementReady(a) ==
    Cardinality({b \in Running(AssignmentId) :
                   /\ assignment[b].node # assignment[a].node
                   /\ assignment[b].rel = assignment[a].rel
                   /\ assignment[b].obs \in {"RUNNING", "HEALTHY"}}) >= desiredReplicas(env)

\* The ways to list a set once, element by element.
Orders(S) ==
    {f \in [1..Cardinality(S) -> S] : \A i, j \in DOMAIN f : f[i] = f[j] => i = j}

\* reconcileDrains lists the draining nodes once ...
ListDrainingNodes ==
    /\ AtStep("ListDraining")
    /\ \E order \in Orders({n \in Node : nodeDraining(n)}) :
          Expand([i \in DOMAIN order |-> DrainStep(order[i])])
    /\ UNCHANGED minted

\* Mutant: the node is marked when every replica has a replacement, before they stop.
reconcileDrainEager ==
    LET n == Head(work).node
        hosted == {a \in AssignmentId : Stored(a) /\ assignment[a].node = n}
        stop == {a \in Running(hosted) : replacementReady(a)}
    IN  /\ AtStep("Drain")
        /\ Expand((IF stop = Running(hosted) THEN <<SetDrained(n)>> ELSE <<>>)
                    \o BatchSteps(NoPuts, stop, Reapable(hosted)))
        /\ UNCHANGED minted

\* ... and then reads the replicas of each: it stops those that have a replacement
\* (stateful ones anyway) and marks the node DRAINED when it held none at all.
reconcileDrain ==
    LET n == Head(work).node
        hosted == {a \in AssignmentId : Stored(a) /\ assignment[a].node = n}
        stop == {a \in Running(hosted) : (Stateful /\ release[assignment[a].rel] # "ABSENT")
                                           \/ replacementReady(a)}
    IN  /\ AtStep("Drain")
        /\ Expand(BatchSteps(NoPuts, stop, Reapable(hosted))
                    \o (IF hosted = Reapable(hosted) THEN <<SetDrained(n)>> ELSE <<>>))
        /\ UNCHANGED minted

\* applyBatch reads the replicas to stop again and puts them back with desired STOP.
applyBatch ==
    /\ AtStep("Batch")
    /\ LET flip == {a \in Head(work).stop : assignment[a].desired = "RUN"}
           puts == [a \in AssignmentId |->
                      IF a \in flip THEN FlipTo(flip, "STOP")[a] ELSE Head(work).puts[a]]
       IN  Expand(IF puts = NoPuts THEN <<>> ELSE <<PutAssignments(puts)>>)
    /\ UNCHANGED minted

SchedApply ==
    /\ work # <<>>
    /\ \/ AtStep("PutAssignments") /\ applyPutAssignments(Head(work).puts)
       \/ AtStep("DeleteAssignments") /\ applyDeleteAssignments(Head(work).ids)
       \/ /\ AtStep("SetDrained") /\ applySetNodeStatus(Head(work).node, "DRAINED")
          /\ UNCHANGED <<env, release, deployment, build, assignment>>
    /\ work' = Tail(work)
    /\ UNCHANGED <<minted, view>>

SchedStep ==
    \/ evaluate \/ evaluateEnv \/ ConvergeEnv \/ reconcileOrphans
    \/ ListDrainingNodes \/ reconcileDrain \/ applyBatch \/ SchedApply
==============================================================================

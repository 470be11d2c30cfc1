-------------------------------- MODULE Store --------------------------------
(***************************************************************************)
(* The replicated cluster state of one environment and the raft commands   *)
(* that change it (internal/state and internal/daemon/raftstore).  Every   *)
(* control loop reads this state freely and writes it only through an FSM  *)
(* command, so each command is one atomic step here and whatever a loop    *)
(* read before its command may be out of date when the command commits.    *)
(*                                                                         *)
(* Ids are ULIDs in the code, hence ordered by creation: they are numbers  *)
(* handed out in order here, and 0 stands for the empty id.                *)
(***************************************************************************)
EXTENDS NodeTable, Naturals, FiniteSets, Sequences

CONSTANTS
    MaxRelease,     \* bound: releases ever created
    MaxDeployment,  \* bound: deployments ever created
    MaxAssignment,  \* bound: assignments ever created
    MinReplicas,    \* replicas.min of the service spec
    ScaleToZero,    \* scale_to_zero of the service spec
    Stateful        \* the service owns a volume: it is stopped before it is started again

NoId == 0
ReleaseId == 1..MaxRelease
DeploymentId == 1..MaxDeployment
AssignmentId == 1..MaxAssignment

ASSUME StoreAssumption ==
    /\ MaxRelease \in Nat \ {0}
    /\ MaxDeployment \in Nat \ {0}
    /\ MaxAssignment \in Nat \ {0}
    /\ MinReplicas \in Nat \ {0}
    /\ ScaleToZero \in BOOLEAN
    /\ Stateful \in BOOLEAN
    /\ NoId \notin Node

VARIABLES
    env,         \* the Environment: active release and effective replicas
    release,     \* per release id: not stored, waiting for its build, or with an image
    deployment,  \* per deployment id: the Deployment record
    build,       \* per deployment id: the status of the Build it references
    assignment,  \* per assignment id: desired and observed state of one replica
    minted       \* assignment ids handed out so far

store == <<env, release, deployment, build, assignment, node>>

(***************************************************************************)
(* Vocabulary                                                              *)
(***************************************************************************)
TerminalPhase == {"SUCCEEDED", "FAILED", "SUPERSEDED"}
RolloutPhase == {"BUILDING", "PLACING", "STARTING", "HEALTHCHECKING",
                 "PROMOTING", "DRAINING_OLD", "STOPPING_OLD"}
LivePhase == {"PENDING"} \cup RolloutPhase
Phase == {"ABSENT"} \cup LivePhase \cup TerminalPhase

InstanceState == {"UNSPECIFIED", "STARTING", "RUNNING", "HEALTHY",
                  "UNHEALTHY", "FAILED", "STOPPED"}

Environment == [active : {NoId} \cup ReleaseId, effective : Nat]
Deployment == [rel : {NoId} \cup ReleaseId, prev : {NoId} \cup ReleaseId,
               rollback : BOOLEAN, phase : Phase]
Assignment == [node : {NoId} \cup Node, rel : {NoId} \cup ReleaseId,
               dep : {NoId} \cup DeploymentId,
               desired : {"ABSENT", "RUN", "STOP"}, obs : InstanceState]

NoDeployment == [rel |-> NoId, prev |-> NoId, rollback |-> FALSE, phase |-> "ABSENT"]
NoAssignment == [node |-> NoId, rel |-> NoId, dep |-> NoId,
                 desired |-> "ABSENT", obs |-> "UNSPECIFIED"]

isTerminalPhase(d) == deployment[d].phase \notin LivePhase
Stored(a) == assignment[a].desired # "ABSENT"

StoreTypeOK ==
    /\ env \in Environment
    /\ release \in [ReleaseId -> {"ABSENT", "SOURCE", "IMAGE"}]
    /\ deployment \in [DeploymentId -> Deployment]
    /\ build \in [DeploymentId -> {"NONE", "QUEUED", "SUCCEEDED", "FAILED"}]
    /\ assignment \in [AssignmentId -> Assignment]
    /\ minted \in 0..MaxAssignment
    /\ node \in [Node -> NodeRecord]

(***************************************************************************)
(* Commands.  A command carries the whole records its author wants stored; *)
(* PutAssignments in particular overwrites the observed state with the one *)
(* the author read.  Its batch maps every id that is not in the batch to   *)
(* NoAssignment.                                                           *)
(***************************************************************************)
PutAssignments(puts) == [op |-> "PutAssignments", puts |-> puts]
DeleteAssignments(ids) == [op |-> "DeleteAssignments", ids |-> ids]
SetDeploymentPhase(d, p) == [op |-> "SetDeploymentPhase", dep |-> d, phase |-> p]
PromoteRelease(r) == [op |-> "PromoteRelease", rel |-> r]
PutRelease(r) == [op |-> "PutRelease", rel |-> r]

applyPutAssignments(puts) ==
    /\ assignment' = [a \in AssignmentId |->
                        IF puts[a] # NoAssignment THEN puts[a] ELSE assignment[a]]
    /\ UNCHANGED <<env, release, deployment, build, node>>

applyDeleteAssignments(ids) ==
    /\ assignment' = [a \in AssignmentId |->
                        IF a \in ids THEN NoAssignment ELSE assignment[a]]
    /\ UNCHANGED <<env, release, deployment, build, node>>

\* The handler does not look at the phase it replaces.
applySetDeploymentPhase(d, p) ==
    /\ deployment' = [deployment EXCEPT ![d].phase = p]
    /\ UNCHANGED <<env, release, build, assignment, node>>

\* Promoting a release that is no longer stored is an error that changes nothing.
applyPromoteRelease(r) ==
    /\ env' = IF release[r] = "ABSENT" THEN env ELSE [env EXCEPT !.active = r]
    /\ UNCHANGED <<release, deployment, build, assignment, node>>

\* The orchestrator stores a release again to stamp the built image onto it.
applyPutRelease(r) ==
    /\ release' = [release EXCEPT ![r] = "IMAGE"]
    /\ UNCHANGED <<env, deployment, build, assignment, node>>

\* One raft log entry reaching the state machine.
Apply(c) ==
    \/ c.op = "PutAssignments" /\ applyPutAssignments(c.puts)
    \/ c.op = "DeleteAssignments" /\ applyDeleteAssignments(c.ids)
    \/ c.op = "SetDeploymentPhase" /\ applySetDeploymentPhase(c.dep, c.phase)
    \/ c.op = "PromoteRelease" /\ applyPromoteRelease(c.rel)
    \/ c.op = "PutRelease" /\ applyPutRelease(c.rel)

(***************************************************************************)
(* What the agents report reaches the state through one more command.  A   *)
(* RUNNING report does not replace the finer state the health monitor      *)
(* owns; an id that is no longer stored is skipped.                        *)
(***************************************************************************)
MergeObserved(cur, reported) ==
    IF reported = "RUNNING" /\ cur \in {"HEALTHY", "UNHEALTHY"} THEN cur ELSE reported

SetAssignmentObserved(a, s) ==
    /\ Stored(a)
    /\ assignment' = [assignment EXCEPT ![a].obs = MergeObserved(@, s)]
    /\ UNCHANGED <<env, release, deployment, build, node, minted>>

(***************************************************************************)
(* Queries the control loops share (scheduler/helpers.go).                 *)
(***************************************************************************)
greenAssignments(d) ==
    {a \in AssignmentId : assignment[a].dep = d /\ assignment[a].desired = "RUN"}

blueAssignments(d) ==
    {a \in AssignmentId : /\ deployment[d].prev # NoId
                          /\ assignment[a].rel = deployment[d].prev
                          /\ assignment[a].dep # d
                          /\ assignment[a].desired = "RUN"}

\* A deployment follows the effective count when one is set, else replicas.min.
deployReplicas == IF env.effective > 0 THEN env.effective ELSE MinReplicas

\* The scheduler's target: nothing without an active release; a scale-to-zero
\* environment takes its effective count literally, zero included.
desiredReplicas(e) ==
    CASE e.active = NoId -> 0
      [] e.active # NoId /\ (ScaleToZero \/ e.effective > 0) -> e.effective
      [] OTHER -> MinReplicas

anyFailed(as) == \E a \in as : assignment[a].obs = "FAILED"

(***************************************************************************)
(* Placement.  Which eligible nodes win depends on labels, reservations    *)
(* and scores that no property here tells apart, so Place is any choice of *)
(* up to n eligible nodes; fewer than n means capacity ran out.            *)
(***************************************************************************)
Eligible(exclude) ==
    {n \in Node \ exclude : node[n].status = "ALIVE" /\ node[n].schedulable}

Place(n, exclude) == UNION {[1..k -> Eligible(exclude)] : k \in 0..n}

newAssignment(n, r, d) ==
    [node |-> n, rel |-> r, dep |-> d, desired |-> "RUN", obs |-> "UNSPECIFIED"]

\* Fresh ids for the picked nodes, in creation order.
FreshIds(picks) == (minted + 1)..(minted + Len(picks))
NewAssignments(picks, r, d) ==
    [a \in AssignmentId |-> IF a \in FreshIds(picks)
                             THEN newAssignment(picks[a - minted], r, d) ELSE NoAssignment]

\* The stored records of as with their desired state changed.
FlipTo(as, want) ==
    [a \in AssignmentId |-> IF a \in as THEN [assignment[a] EXCEPT !.desired = want]
                             ELSE NoAssignment]
==============================================================================

-------------------------------- MODULE Agent --------------------------------
(***************************************************************************)
(* The agent of the node a stateful service is pinned to: the assignment   *)
(* sets pushed to it (api/agentsync.go), its executor (agent/executor.go)  *)
(* and the way its reports travel back.  The executor is one goroutine     *)
(* that works from the last set it was sent, so a reconcile is one step on *)
(* that set while the replicated state moves on; reports wait in a buffer  *)
(* that keeps the last one per assignment.                                 *)
(***************************************************************************)
EXTENDS Store

CONSTANTS
    MaxAttempts,  \* maxAttempts: failed starts before an assignment is parked
    Health,       \* what is reported of a container: a subset of InstanceState
    AgentFaults   \* a subset of AgentFaultKind

AgentFaultKind == {"startFails", "stopFails", "lostStatus"}

ASSUME AgentAssumption ==
    /\ MaxAttempts \in Nat \ {0}
    /\ Health \subseteq InstanceState
    /\ AgentFaults \subseteq AgentFaultKind

VARIABLES
    volume,      \* the Volume: whether it is stored, and the assignment its lease names
    frame,       \* the assignment set the executor works from
    containers,  \* the assignments that have a container on the node
    failCount,   \* failed starts per assignment
    reported     \* the report waiting per assignment, "NONE" when there is none

agent == <<frame, containers, failCount, reported>>

Volume == [exists : BOOLEAN, lease : {NoId} \cup AssignmentId]
Frame == [desired : [AssignmentId -> {"ABSENT", "RUN", "STOP"}],
          lease : {NoId} \cup AssignmentId]

NoReports == [a \in AssignmentId |-> "NONE"]

AgentTypeOK ==
    /\ volume \in Volume
    /\ frame \in Frame
    /\ containers \subseteq AssignmentId
    /\ failCount \in [AssignmentId -> 0..MaxAttempts]
    /\ reported \in [AssignmentId -> InstanceState \cup {"NONE"}]

\* The full set for the node, each assignment with the lease of its volume.  It is
\* pushed when an assignment changes, and a report that is repeated is a change:
\* an instance that waits for its lease is sent the lease sooner or later.
CurrentFrame == [desired |-> [a \in AssignmentId |-> assignment[a].desired],
                 lease |-> volume.lease]

sendAssignments ==
    /\ frame # CurrentFrame
    /\ frame' = CurrentFrame
    /\ UNCHANGED <<store, minted, volume, containers, failCount, reported>>

\* Mutant: the lease is not looked at.
leaseWithholdsNever(a) == FALSE

leaseWithholds(a) == frame.lease # a

\* Mutant: an assignment that failed too often is tried again all the same.
MissingUnparked == {a \in AssignmentId : frame.desired[a] = "RUN" /\ a \notin containers}

\* What the set wants and the node does not have, unless it is parked.
Missing == {a \in AssignmentId : /\ frame.desired[a] = "RUN" /\ a \notin containers
                                 /\ failCount[a] < MaxAttempts}

\* Containers without a RUN assignment are stopped and removed, then the missing
\* ones are brought up.  STOPPED is reported before the container is touched and
\* whatever becomes of it; a container that was never there is not reported.
\* (STARTING stands for PENDING and PULLING too, which nothing here tells apart.)
reconcileExecutor ==
    LET gone == {c \in containers : frame.desired[c] # "RUN"}
        withheld == {a \in Missing : leaseWithholds(a)}
    IN  \E failed \in (IF "startFails" \in AgentFaults THEN SUBSET (Missing \ withheld) ELSE {{}}),
           stuck \in (IF "stopFails" \in AgentFaults THEN SUBSET gone ELSE {{}}) :
           LET started == Missing \ (withheld \cup failed)
           IN  /\ containers' = (containers \ (gone \ stuck)) \cup started
               /\ failCount' = [a \in AssignmentId |->
                     CASE a \in failed -> failCount[a] + 1
                       [] a \in started -> 0
                       [] OTHER -> failCount[a]]
               /\ reported' = [a \in AssignmentId |->
                     CASE a \in gone /\ frame.desired[a] = "STOP" -> "STOPPED"
                       [] a \in withheld -> "STARTING"
                       [] a \in failed -> "FAILED"
                       [] a \in started -> "RUNNING"
                       [] OTHER -> reported[a]]
               /\ UNCHANGED <<store, minted, volume, frame>>

\* pollLiveness and the health monitor report on the containers there are.
pollLiveness(c) ==
    /\ c \in containers
    /\ \E s \in Health :
          /\ s \notin {reported[c], assignment[c].obs}
          /\ reported' = [reported EXCEPT ![c] = s]
    /\ UNCHANGED <<store, minted, volume, frame, containers, failCount>>

\* The buffered reports commit as one command ...
flushStatus ==
    /\ reported # NoReports
    /\ assignment' = [a \in AssignmentId |->
          IF Stored(a) /\ reported[a] # "NONE"
          THEN [assignment[a] EXCEPT !.obs = MergeObserved(@, reported[a])] ELSE assignment[a]]
    /\ reported' = NoReports
    /\ UNCHANGED <<env, release, deployment, build, node, minted, volume, frame, containers, failCount>>

\* ... or are dropped: the agent's queue is full, the stream breaks, or the
\* control node is not the leader any more.
dropStatus ==
    /\ "lostStatus" \in AgentFaults
    /\ reported # NoReports
    /\ reported' = NoReports
    /\ UNCHANGED <<store, minted, volume, frame, containers, failCount>>

AgentStep ==
    \/ sendAssignments \/ reconcileExecutor \/ flushStatus \/ dropStatus
    \/ \E c \in AssignmentId : pollLiveness(c)
==============================================================================

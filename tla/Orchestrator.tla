----------------------------- MODULE Orchestrator -----------------------------
(***************************************************************************)
(* The red/green deployment orchestrator (scheduler/deployment.go): a      *)
(* leader-only loop that walks the unfinished deployments, oldest first,   *)
(* and moves each by at most one phase.  An arm first reads the state and  *)
(* decides, then sends its commands one after the other; every other actor *)
(* may run between any two of them.  Deadlines are read from the clock, so *)
(* whether one has passed is a free choice of the step that asks.          *)
(***************************************************************************)
EXTENDS Store

VARIABLES
    pass,  \* deployments this pass of reconcileAll has still to visit
    todo   \* what is left of the arm being carried out, in order

orch == <<pass, todo>>

\* Besides raft commands an arm may re-read the state half way (place does).
RecheckGreen(d) == [op |-> "RecheckGreen", dep |-> d]

Idle == todo = <<>>

\* reconcileAll: on the leader, list the deployments that are not finished.
BeginPass ==
    /\ pass = {} /\ Idle
    /\ pass' = {d \in DeploymentId : ~isTerminalPhase(d)}
    /\ pass' # {}
    /\ UNCHANGED <<store, minted, todo>>

superseded(d) == \E e \in DeploymentId : e > d /\ ~isTerminalPhase(e)

\* Mutant: the newest deployment is visited first.
TurnNewestFirst(d) == Idle /\ d \in pass /\ \A e \in pass : d >= e

\* d is the deployment the pass visits next.
Turn(d) == Idle /\ d \in pass /\ \A e \in pass : d <= e

\* Carry out the given steps for d.
Visit(d, steps) ==
    /\ todo' = steps
    /\ pass' = pass \ {d}
    /\ UNCHANGED store

setPhase(d, p) == <<SetDeploymentPhase(d, p)>>

\* reapGreen, skipped when there is nothing to delete, and then the phase.
reapGreen(d, p) ==
    IF greenAssignments(d) = {} THEN setPhase(d, p)
    ELSE <<DeleteAssignments(greenAssignments(d)), SetDeploymentPhase(d, p)>>

\* Mutant: the failure is recorded before the green set is deleted.
abortPhaseFirst(d) ==
    <<SetDeploymentPhase(d, "FAILED"), DeleteAssignments(greenAssignments(d))>>

abort(d) == reapGreen(d, "FAILED")

(***************************************************************************)
(* The arms of reconcile, in the order it tries them.                      *)
(***************************************************************************)
ReleaseGone(d) ==
    /\ release[deployment[d].rel] = "ABSENT"
    /\ Visit(d, abort(d))
    /\ UNCHANGED minted

Supersede(d) ==
    /\ release[deployment[d].rel] # "ABSENT"
    /\ superseded(d)
    /\ Visit(d, IF deployment[d].phase = "DRAINING_OLD" THEN setPhase(d, "SUCCEEDED")
                ELSE reapGreen(d, "SUPERSEDED"))
    /\ UNCHANGED minted

\* reconcile reached the phase switch for a deployment of this kind.
Current(d, stateful, phase) ==
    /\ release[deployment[d].rel] # "ABSENT"
    /\ ~superseded(d)
    /\ Stateful = stateful
    /\ deployment[d].phase = phase

warmEnough(d) ==
    Cardinality({a \in AssignmentId : /\ assignment[a].rel = deployment[d].rel
                                      /\ assignment[a].desired = "RUN"
                                      /\ assignment[a].obs = "HEALTHY"}) >= deployReplicas

\* Mutant: a rollback is promoted without looking for warm instances.
PendingBlindRollback(d) ==
    /\ Current(d, FALSE, "PENDING")
    /\ Visit(d, IF deployment[d].rollback THEN setPhase(d, "PROMOTING") ELSE setPhase(d, "PLACING"))
    /\ UNCHANGED minted

Pending(d) ==
    /\ Current(d, FALSE, "PENDING")
    /\ Visit(d, CASE release[deployment[d].rel] = "SOURCE" ->
                       IF build[d] # "NONE" THEN setPhase(d, "BUILDING") ELSE abort(d)
                  [] OTHER ->
                       IF deployment[d].rollback /\ warmEnough(d)
                       THEN setPhase(d, "PROMOTING") ELSE setPhase(d, "PLACING"))
    /\ UNCHANGED minted

checkBuild(d, next) ==
    /\ build[d] # "QUEUED"
    /\ Visit(d, IF build[d] # "SUCCEEDED" THEN abort(d)
                ELSE IF release[deployment[d].rel] = "IMAGE" THEN setPhase(d, next)
                ELSE <<PutRelease(deployment[d].rel), SetDeploymentPhase(d, next)>>)
    /\ UNCHANGED minted

Building(d) == Current(d, FALSE, "BUILDING") /\ checkBuild(d, "PLACING")

\* The nodes that already host a green replica are excluded.
place(d) ==
    LET green == greenAssignments(d)
        missing == deployReplicas - Cardinality(green)
        hosts == {assignment[a].node : a \in green}
    IN  /\ Current(d, FALSE, "PLACING")
        /\ \/ /\ Cardinality(green) >= deployReplicas
              /\ Visit(d, setPhase(d, "STARTING"))
              /\ UNCHANGED minted
           \/ /\ Cardinality(green) < deployReplicas
              /\ \E picks \in Place(missing, hosts) :
                    /\ picks # <<>> /\ minted + Len(picks) <= MaxAssignment
                    /\ minted' = minted + Len(picks)
                    /\ Visit(d, <<PutAssignments(NewAssignments(picks, deployment[d].rel, d)),
                                  RecheckGreen(d)>>)

checkStarting(d) ==
    LET green == greenAssignments(d)
    IN  /\ Current(d, FALSE, "STARTING")
        /\ \/ anyFailed(green) /\ Visit(d, abort(d))
           \/ /\ \A a \in green : assignment[a].obs \in {"RUNNING", "HEALTHY"}
              /\ Visit(d, setPhase(d, "HEALTHCHECKING"))
        /\ UNCHANGED minted

\* Mutant: running is good enough to be promoted.
checkHealthRunning(d) ==
    /\ Current(d, FALSE, "HEALTHCHECKING")
    /\ ~anyFailed(greenAssignments(d))
    /\ Visit(d, setPhase(d, "PROMOTING"))
    /\ UNCHANGED minted

\* Mutant: only a failed instance ends the wait, the deadline is not looked at.
checkHealthNoDeadline(d) ==
    LET green == greenAssignments(d)
    IN  /\ Current(d, FALSE, "HEALTHCHECKING")
        /\ \/ /\ \A a \in green : assignment[a].obs = "HEALTHY"
              /\ Visit(d, setPhase(d, "PROMOTING"))
           \/ anyFailed(green) /\ Visit(d, abort(d))
        /\ UNCHANGED minted

\* Note that an empty green set counts as healthy.
checkHealth(d) ==
    LET green == greenAssignments(d)
        healthy == \A a \in green : assignment[a].obs = "HEALTHY"
    IN  /\ Current(d, FALSE, "HEALTHCHECKING")
        /\ \/ healthy /\ Visit(d, setPhase(d, "PROMOTING"))
           \/ ~healthy /\ Visit(d, abort(d))   \* one failed, or the deadline has passed
        /\ UNCHANGED minted

\* Mutant: the drain window starts before the traffic switch.
promotePhaseFirst(d) ==
    /\ Current(d, FALSE, "PROMOTING")
    /\ Visit(d, <<SetDeploymentPhase(d, "DRAINING_OLD"), PromoteRelease(deployment[d].rel)>>)
    /\ UNCHANGED minted

\* Two commands: the traffic switch, then the phase that starts the drain window.
promote(d) ==
    /\ Current(d, FALSE, "PROMOTING")
    /\ Visit(d, <<PromoteRelease(deployment[d].rel), SetDeploymentPhase(d, "DRAINING_OLD")>>)
    /\ UNCHANGED minted

\* Mutant: the node status is stored where the deployment phase belongs.
drainWrongEnum(d) ==
    /\ Current(d, FALSE, "DRAINING_OLD")
    /\ Visit(d, setPhase(d, "DRAINED"))
    /\ UNCHANGED minted

\* The drain window has passed: completeDrain.
drain(d) ==
    LET blue == blueAssignments(d)
    IN  /\ Current(d, FALSE, "DRAINING_OLD")
        /\ Visit(d, IF blue = {} THEN setPhase(d, "SUCCEEDED")
                    ELSE <<PutAssignments(FlipTo(blue, "STOP")),
                           SetDeploymentPhase(d, "SUCCEEDED")>>)
        /\ UNCHANGED minted

\* A deployment that is not ready to move on is left for the next pass: a build
\* still queued, no capacity, instances coming up, a deadline not yet reached.
Wait(d) ==
    /\ \/ Current(d, FALSE, "BUILDING") /\ build[d] = "QUEUED"
       \/ /\ Current(d, FALSE, "PLACING")
          /\ Cardinality(greenAssignments(d)) < deployReplicas
       \/ /\ Current(d, FALSE, "STARTING") /\ ~anyFailed(greenAssignments(d))
          /\ \E a \in greenAssignments(d) : assignment[a].obs \notin {"RUNNING", "HEALTHY"}
       \/ /\ Current(d, FALSE, "HEALTHCHECKING") /\ ~anyFailed(greenAssignments(d))
          /\ \E a \in greenAssignments(d) : assignment[a].obs # "HEALTHY"
       \/ Current(d, FALSE, "DRAINING_OLD")
    /\ Visit(d, <<>>)
    /\ UNCHANGED minted

reconcile(d) ==
    /\ Turn(d)
    /\ \/ ReleaseGone(d) \/ Supersede(d) \/ Pending(d) \/ Building(d) \/ place(d)
       \/ checkStarting(d) \/ checkHealth(d) \/ promote(d) \/ drain(d) \/ Wait(d)

(***************************************************************************)
(* Carrying out the steps of an arm.                                       *)
(***************************************************************************)
CommandOps == {"PutAssignments", "DeleteAssignments", "SetDeploymentPhase",
               "PromoteRelease", "PutRelease"}

ApplyNext ==
    /\ ~Idle /\ Head(todo).op \in CommandOps
    /\ Apply(Head(todo))
    /\ todo' = Tail(todo)
    /\ UNCHANGED <<minted, pass>>

\* place counts the green set again after its command.
RecheckPlacement ==
    /\ ~Idle /\ Head(todo).op = "RecheckGreen"
    /\ LET d == Head(todo).dep
       IN  todo' = IF Cardinality(greenAssignments(d)) >= deployReplicas
                   THEN setPhase(d, "STARTING") ELSE <<>>
    /\ UNCHANGED <<store, minted, pass>>

\* Apply returned an error other than ErrNotLeader (a timeout): it is logged and
\* the arm goes on as if the command had been applied.
ApplyTimesOut ==
    /\ ~Idle /\ Head(todo).op \in CommandOps
    /\ todo' = Tail(todo)
    /\ UNCHANGED <<store, minted, pass>>

\* Leadership moves: the rest of the pass is dropped and the new leader starts
\* a pass of its own from the replicated state.
Failover ==
    /\ pass # {} \/ ~Idle
    /\ pass' = {} /\ todo' = <<>>
    /\ UNCHANGED <<store, minted>>
==============================================================================

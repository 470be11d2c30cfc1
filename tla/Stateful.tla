------------------------------ MODULE Stateful ------------------------------
(***************************************************************************)
(* The update of a stateful service (scheduler/stateful.go): its instances *)
(* share one volume, so the old one is stopped before the new one starts.  *)
(* The orchestrator's arms for it, the fencing lease the scheduler keeps   *)
(* on the volume (scheduler/volumes.go) and the agent that obeys both.     *)
(* Place pins every instance to the node of the volume, so that node is    *)
(* the only one here.                                                      *)
(***************************************************************************)
EXTENDS Rollout, Scheduler, Agent

CONSTANTS
    StaleEvaluation,  \* deployments move while the scheduler evaluates the environment
    StaleRequests     \* a request may read the environment while a deployment runs

ASSUME StatefulAssumption ==
    /\ Stateful /\ \E n \in Node : Node = {n}
    /\ StaleEvaluation \in BOOLEAN /\ StaleRequests \in BOOLEAN

statefulVars == <<vars, sched, volume, agent>>

PutVolume == [op |-> "PutVolume"]
RestartOld(d) == [op |-> "RestartOld", dep |-> d]
RenewLease == [op |-> "RenewLease"]
PutVolumeLease(a) == [op |-> "PutVolumeLease", holder |-> a]

(***************************************************************************)
(* The arms of reconcileStateful                                           *)
(***************************************************************************)
statefulPending(d) ==
    /\ Current(d, TRUE, "PENDING")
    /\ Visit(d, CASE release[deployment[d].rel] = "IMAGE" -> setPhase(d, "STOPPING_OLD")
                  [] OTHER -> IF build[d] # "NONE" THEN setPhase(d, "BUILDING") ELSE abort(d))
    /\ UNCHANGED minted

\* The instances of the previous release, whatever their desired state.
oldInstances(d) ==
    {a \in AssignmentId : /\ deployment[d].prev # NoId /\ Stored(a)
                          /\ assignment[a].rel = deployment[d].prev
                          /\ assignment[a].dep # d}

stillRunning(as) == \E a \in as : assignment[a].obs \notin {"STOPPED", "FAILED", "UNSPECIFIED"}

stopOld(d) ==
    LET old == oldInstances(d)
    IN  /\ Current(d, TRUE, "STOPPING_OLD")
        /\ \/ /\ Running(old) # {}
              /\ Visit(d, <<PutAssignments(FlipTo(Running(old), "STOP"))>>)
           \/ /\ Running(old) = {} /\ ~stillRunning(old)
              /\ Visit(d, setPhase(d, "STARTING"))
        /\ UNCHANGED minted

\* reapGreen, then the old instances are read again.
statefulFail(d) ==
    (IF greenAssignments(d) = {} THEN <<>> ELSE <<DeleteAssignments(greenAssignments(d))>>)
      \o <<RestartOld(d)>>

\* One instance, and the volume for it on a first deployment (ensureDeployVolumes).
statefulStart(d) ==
    LET green == greenAssignments(d)
    IN  /\ Current(d, TRUE, "STARTING")
        /\ \/ /\ green = {}
              /\ \E picks \in Place(1, {}) :
                    /\ minted + Len(picks) <= MaxAssignment
                    /\ minted' = minted + Len(picks)
                    /\ Visit(d, IF picks = <<>> THEN statefulFail(d)
                                ELSE (IF volume.exists THEN <<>> ELSE <<PutVolume>>)
                                  \o <<PutAssignments(NewAssignments(picks, deployment[d].rel, d))>>)
           \/ /\ anyFailed(green)
              /\ Visit(d, statefulFail(d)) /\ UNCHANGED minted
           \/ /\ green # {} /\ \A a \in green : assignment[a].obs \in {"RUNNING", "HEALTHY"}
              /\ Visit(d, setPhase(d, "HEALTHCHECKING")) /\ UNCHANGED minted

\* Mutant: no instance at all counts as healthy, as it does in red/green.
statefulHealthVacuous(d) ==
    LET healthy == \A a \in greenAssignments(d) : assignment[a].obs = "HEALTHY"
    IN  /\ Current(d, TRUE, "HEALTHCHECKING")
        /\ \/ healthy /\ Visit(d, setPhase(d, "PROMOTING"))
           \/ ~healthy /\ Visit(d, statefulFail(d))
        /\ UNCHANGED minted

statefulHealth(d) ==
    LET green == greenAssignments(d)
        healthy == green # {} /\ \A a \in green : assignment[a].obs = "HEALTHY"
    IN  /\ Current(d, TRUE, "HEALTHCHECKING")
        /\ \/ healthy /\ Visit(d, setPhase(d, "PROMOTING"))
           \/ ~healthy /\ Visit(d, statefulFail(d))   \* one failed, or the deadline has passed
        /\ UNCHANGED minted

statefulPromote(d) ==
    /\ Current(d, TRUE, "PROMOTING")
    /\ Visit(d, <<PromoteRelease(deployment[d].rel), SetDeploymentPhase(d, "SUCCEEDED")>>)
    /\ UNCHANGED minted

\* A deployment that is not ready to move on is left for the next pass.
statefulWait(d) ==
    LET green == greenAssignments(d)
    IN  /\ \/ Current(d, TRUE, "BUILDING") /\ build[d] = "QUEUED"
           \/ /\ Current(d, TRUE, "STOPPING_OLD")
              /\ Running(oldInstances(d)) = {} /\ stillRunning(oldInstances(d))
           \/ /\ Current(d, TRUE, "STARTING") /\ green # {} /\ ~anyFailed(green)
              /\ \E a \in green : assignment[a].obs \notin {"RUNNING", "HEALTHY"}
           \/ /\ Current(d, TRUE, "HEALTHCHECKING") /\ ~anyFailed(green)
              /\ green = {} \/ \E a \in green : assignment[a].obs # "HEALTHY"
        /\ Visit(d, <<>>)
        /\ UNCHANGED minted

reconcileStateful(d) ==
    /\ Turn(d)
    /\ \/ statefulPending(d) \/ stopOld(d) \/ statefulStart(d)
       \/ Current(d, TRUE, "BUILDING") /\ checkBuild(d, "STOPPING_OLD")
       \/ statefulHealth(d) \/ statefulPromote(d) \/ statefulWait(d)
    /\ UNCHANGED <<api, doomed, volume>>

\* The old instances that are not RUN are put back to RUN, then the deployment fails.
RestartOldStep ==
    /\ ~Idle /\ Head(todo).op = "RestartOld"
    /\ LET d == Head(todo).dep
           stopped == oldInstances(d) \ Running(oldInstances(d))
       IN  todo' = (IF stopped = {} THEN <<>> ELSE <<PutAssignments(FlipTo(stopped, "RUN"))>>)
                     \o setPhase(d, "FAILED")
    /\ UNCHANGED <<store, minted, pass, api, doomed, volume>>

applyPutVolume ==
    /\ ~Idle /\ Head(todo).op = "PutVolume"
    /\ volume' = [exists |-> TRUE, lease |-> NoId]
    /\ todo' = Tail(todo)
    /\ UNCHANGED <<store, minted, pass, api, doomed>>

\* Without StaleEvaluation the scheduler's evaluation of the environment, from the
\* listing to its commands, falls between two steps of requests and orchestrator.
Undisturbed ==
    StaleEvaluation \/ \A i \in DOMAIN work : work[i].op \in {"RenewLease", "PutVolumeLease"}

StatefulOrch ==
    /\ Undisturbed
    /\ \/ (OrchStep \/ Timeout) /\ UNCHANGED volume
       \/ RestartOldStep \/ applyPutVolume \/ \E d \in DeploymentId : reconcileStateful(d)
    /\ UNCHANGED <<sched, agent>>

(***************************************************************************)
(* The scheduler: an evaluation of the environment, then the lease.  (The  *)
(* volume is there once a release is active and its node stays up, so      *)
(* ensureVolumes has nothing to do; no release is deleted, no node drains.)*)
(***************************************************************************)
statefulEvaluate ==
    /\ work = <<>>
    /\ view' = env
    /\ work' = <<CheckOwner, RenewLease>>
    /\ UNCHANGED <<store, minted, volume>>

\* The lowest id that is RUN holds the lease.
statefulHolder == {a \in Running(AssignmentId) : \A b \in Running(AssignmentId) : a <= b}

\* The lease names no other node here, so it is never withheld from the holder;
\* its expiry is renewed with it and read by nobody else.
reconcileLeases ==
    /\ AtStep("RenewLease")
    /\ \/ /\ ~volume.exists \/ statefulHolder = {}
          /\ Expand(<<>>)
       \/ /\ volume.exists
          /\ \E a \in statefulHolder : Expand(<<PutVolumeLease(a)>>)
    /\ UNCHANGED <<minted, volume>>

applyPutVolumeLease ==
    /\ AtStep("PutVolumeLease")
    /\ volume' = [volume EXCEPT !.lease = Head(work).holder]
    /\ work' = Tail(work)
    /\ UNCHANGED <<store, minted, view>>

StatefulSched ==
    /\ \/ statefulEvaluate \/ reconcileLeases \/ applyPutVolumeLease
       \/ (evaluateEnv \/ ConvergeEnv \/ applyBatch \/ SchedApply) /\ UNCHANGED volume
    /\ UNCHANGED <<orch, api, doomed, agent>>

(***************************************************************************)
(* The whole                                                               *)
(***************************************************************************)
StatefulInit ==
    /\ Init
    /\ view = env /\ work = <<>>
    /\ volume = [exists |-> env.active # NoId, lease |-> IF env.active # NoId THEN 1 ELSE NoId]
    /\ containers = IF env.active # NoId THEN {1} ELSE {}
    /\ frame = CurrentFrame
    /\ failCount = [a \in AssignmentId |-> 0]
    /\ reported = NoReports

\* Leadership moves: both loops stop where they are.
StatefulLeaderMoves ==
    /\ "failover" \in Faults
    /\ pass # {} \/ ~Idle \/ work # <<>>
    /\ pass' = {} /\ todo' = <<>> /\ work' = <<>>
    /\ UNCHANGED <<store, minted, view, api, doomed, volume, agent>>

\* Without StaleRequests the active release a request reads is the one it replaces.
StatefulApi ==
    /\ Undisturbed
    /\ ApiStep
    /\ ~StaleRequests /\ deploymentOwnsEnv => \A q \in requests' \ requests : q.stage # "read"
    /\ UNCHANGED <<orch, doomed, sched, volume, agent>>

StatefulNext ==
    \/ StatefulApi
    \/ StatefulOrch
    \/ StatefulSched
    \/ AgentStep /\ UNCHANGED <<orch, api, doomed, sched>>
    \/ (\E d \in DeploymentId : FinishBuild(d)) /\ UNCHANGED <<sched, volume, agent>>
    \/ StatefulLeaderMoves

StatefulSpec == StatefulInit /\ [][StatefulNext]_statefulVars

(***************************************************************************)
(* Properties                                                              *)
(***************************************************************************)
\* The shape of the state; in particular no instance is started more than
\* maxAttempts times in a row.
StatefulTypeOK ==
    /\ StoreTypeOK /\ ApiTypeOK /\ AgentTypeOK
    /\ pass \subseteq DeploymentId /\ view \in Environment

\* The volume has one writer: however deployments, failures, leases, stale sets and
\* leader changes interleave, the node never runs two containers of the service.
SingleWriter == Cardinality(containers) <= 1

\* Traffic moves to a release only when nothing but its instance runs: the old
\* container is gone and the new one there, although the orchestrator only sees
\* reports that may be late (stopOld, statefulHealth, statefulPromote).
SwitchedToRunning ==
    [][env'.active # env.active =>
         \E c \in containers : containers = {c} /\ assignment[c].rel = env'.active]_statefulVars
==============================================================================

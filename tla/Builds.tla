------------------------------- MODULE Builds -------------------------------
(***************************************************************************)
(* The build dispatcher (scheduler/builds.go).  On every control node that *)
(* leads, a loop lists the queued builds and starts a goroutine for each   *)
(* that is not in flight on this control node; the goroutine picks a       *)
(* builder, marks the build RUNNING, follows the builder's events and      *)
(* records the outcome.  The in-flight map is memory of one control node   *)
(* and a goroutine outlives the leadership it was started under, so all    *)
(* that keeps two control nodes from running the same build is the status  *)
(* in the replicated state.                                                *)
(***************************************************************************)
EXTENDS Naturals, FiniteSets

CONSTANTS
    Dispatcher,        \* the control nodes
    Build,             \* build ids
    Builder,           \* the builder nodes, numbers: ties go to the lowest id
    MaxLeaderChanges,  \* bound: elections
    MaxCordons,        \* bound: how often a builder is cordoned
    MaxRefused,        \* bound: writes that fail on the leader
    StaleListing       \* a dispatch may end between a listing and the claim made from it

ASSUME BuildsAssumption ==
    /\ Builder \subseteq Nat
    /\ MaxLeaderChanges \in Nat /\ MaxCordons \in Nat /\ MaxRefused \in Nat
    /\ StaleListing \in BOOLEAN

VARIABLES
    dispatchLeader,  \* the control node that leads
    elections,  \* leader changes so far
    status,     \* replicated: status and builder of each build
    usable,     \* the builders that are alive and schedulable
    cordons,    \* cordons so far
    queue,      \* per control node: builds its pass listed and has still to visit
    stage,      \* per control node and build: how far its dispatch is
    picked,     \* per control node and build: the builder its dispatch chose
    refused,    \* writes that failed on the leader so far
    unrecorded  \* history: the builds with an outcome that could not be written

writes == <<refused, unrecorded>>
buildsVars == <<dispatchLeader, elections, status, usable, cordons, queue, stage, picked, writes>>

NoBuilder == 0
BuildStatus == {"QUEUED", "RUNNING", "SUCCEEDED", "FAILED"}
DispatchStage == {"idle", "claimed", "picked", "streaming"}

BuildsTypeOK ==
    /\ dispatchLeader \in Dispatcher /\ elections \in 0..MaxLeaderChanges
    /\ status \in [Build -> [is : BuildStatus, node : Builder \cup {NoBuilder}]]
    /\ usable \subseteq Builder /\ cordons \in 0..MaxCordons
    /\ queue \in [Dispatcher -> SUBSET Build]
    /\ stage \in [Dispatcher -> [Build -> DispatchStage]]
    /\ picked \in [Dispatcher -> [Build -> Builder \cup {NoBuilder}]]
    /\ refused \in 0..MaxRefused /\ unrecorded \subseteq Build

BuildsInit ==
    /\ dispatchLeader \in Dispatcher /\ elections = 0
    /\ status = [b \in Build |-> [is |-> "QUEUED", node |-> NoBuilder]]
    /\ usable = Builder /\ cordons = 0
    /\ queue = [c \in Dispatcher |-> {}]
    /\ stage = [c \in Dispatcher |-> [b \in Build |-> "idle"]]
    /\ picked = [c \in Dispatcher |-> [b \in Build |-> NoBuilder]]
    /\ refused = 0 /\ unrecorded = {}

(***************************************************************************)
(* The loop of the leader                                                  *)
(***************************************************************************)
Queued == {b \in Build : status[b].is = "QUEUED"}

reconcile(c) ==
    /\ c = dispatchLeader /\ queue[c] = {} /\ Queued # {}
    /\ queue' = [queue EXCEPT ![c] = Queued]
    /\ UNCHANGED <<dispatchLeader, elections, status, usable, cordons, stage, picked, writes>>

\* A build is in flight from the claim to the end of its dispatch.
claim(c, b) == stage[c][b] = "idle"

ClaimNext(c, b) ==
    /\ b \in queue[c]
    /\ queue' = [queue EXCEPT ![c] = @ \ {b}]
    /\ stage' = [stage EXCEPT ![c][b] = IF claim(c, b) THEN "claimed" ELSE @]
    /\ UNCHANGED <<dispatchLeader, elections, status, usable, cordons, picked, writes>>

(***************************************************************************)
(* One dispatch                                                            *)
(***************************************************************************)
runningBuilds(n) == Cardinality({b \in Build : status[b] = [is |-> "RUNNING", node |-> n]})

\* Fewest running builds first, then the lowest id.
Before(m, n) ==
    \/ runningBuilds(m) < runningBuilds(n)
    \/ runningBuilds(m) = runningBuilds(n) /\ m <= n

\* Without a builder the build stays queued for a later pass.
pickBuilder(c, b) ==
    /\ stage[c][b] = "claimed"
    /\ \/ /\ usable = {}
          /\ stage' = [stage EXCEPT ![c][b] = "idle"]
          /\ UNCHANGED picked
       \/ \E n \in usable :
             /\ \A m \in usable : Before(n, m)
             /\ stage' = [stage EXCEPT ![c][b] = "picked"]
             /\ picked' = [picked EXCEPT ![c][b] = n]
    /\ UNCHANGED <<dispatchLeader, elections, status, usable, cordons, queue, writes>>

\* Mutant: a write off the leader is forwarded instead of refused.
putBuildForwarded(c, b, s) ==
    /\ status' = [status EXCEPT ![b] = [is |-> s, node |-> picked[c][b]]]
    /\ UNCHANGED refused

\* putBuild stores the whole record, whatever the stored status.
putBuild(c, b, s) ==
    /\ c = dispatchLeader
    /\ status' = [status EXCEPT ![b] = [is |-> s, node |-> picked[c][b]]]
    /\ UNCHANGED refused

\* It stores nothing off the leader (ErrNotLeader), nor when the leader's log does not
\* take the entry in time.
putBuildFails(c) ==
    /\ \/ c # dispatchLeader /\ UNCHANGED refused
       \/ c = dispatchLeader /\ refused < MaxRefused /\ refused' = refused + 1
    /\ UNCHANGED status

\* RUNNING is stored before the builder is called; if it cannot be, the dispatch ends.
markRunning(c, b) ==
    /\ stage[c][b] = "picked"
    /\ \/ putBuild(c, b, "RUNNING") /\ stage' = [stage EXCEPT ![c][b] = "streaming"]
       \/ putBuildFails(c) /\ stage' = [stage EXCEPT ![c][b] = "idle"]
    /\ UNCHANGED <<dispatchLeader, elections, usable, cordons, queue, picked, unrecorded>>

\* Mutant: a stream that breaks ends the dispatch without recording a failure.
finishDropsFailure(c, b, s) ==
    /\ stage[c][b] = "streaming"
    /\ s \in {"SUCCEEDED", "FAILED"}
    /\ StaleListing \/ b \notin queue[c]
    /\ IF s = "SUCCEEDED" THEN putBuild(c, b, s) ELSE UNCHANGED <<status, refused>>
    /\ stage' = [stage EXCEPT ![c][b] = "idle"]
    /\ UNCHANGED <<dispatchLeader, elections, usable, cordons, queue, picked, unrecorded>>

\* The stream ends: an image, or no connection, a failed build, a broken stream or
\* a builder that has been silent too long.  succeed and fail ignore an error of
\* putBuild: the dispatch ends and the build stays RUNNING.
finish(c, b, s) ==
    /\ stage[c][b] = "streaming"
    /\ s \in {"SUCCEEDED", "FAILED"}
    /\ StaleListing \/ b \notin queue[c]
    /\ \/ putBuild(c, b, s) /\ UNCHANGED unrecorded
       \/ putBuildFails(c) /\ unrecorded' = unrecorded \cup {b}
    /\ stage' = [stage EXCEPT ![c][b] = "idle"]
    /\ UNCHANGED <<dispatchLeader, elections, usable, cordons, queue, picked>>

(***************************************************************************)
(* What happens around it                                                  *)
(***************************************************************************)
\* The old leader leaves its loop; its dispatches go on.
LeaderChange(c) ==
    /\ elections < MaxLeaderChanges /\ c # dispatchLeader
    /\ dispatchLeader' = c /\ elections' = elections + 1
    /\ queue' = [queue EXCEPT ![dispatchLeader] = {}]
    /\ UNCHANGED <<status, usable, cordons, stage, picked, writes>>

\* The leader's process dies and takes its dispatches with it.
LeaderCrash(c) ==
    /\ elections < MaxLeaderChanges /\ c # dispatchLeader
    /\ dispatchLeader' = c /\ elections' = elections + 1
    /\ queue' = [queue EXCEPT ![dispatchLeader] = {}]
    /\ stage' = [stage EXCEPT ![dispatchLeader] = [b \in Build |-> "idle"]]
    /\ UNCHANGED <<status, usable, cordons, picked, writes>>

CordonBuilder(n) ==
    /\ cordons < MaxCordons /\ n \in usable
    /\ usable' = usable \ {n} /\ cordons' = cordons + 1
    /\ UNCHANGED <<dispatchLeader, elections, status, queue, stage, picked, writes>>

UncordonBuilder(n) ==
    /\ n \in Builder \ usable
    /\ usable' = usable \cup {n}
    /\ UNCHANGED <<dispatchLeader, elections, status, cordons, queue, stage, picked, writes>>

Dispatch(c, b) ==
    \/ pickBuilder(c, b) \/ markRunning(c, b)
    \/ \E s \in {"SUCCEEDED", "FAILED"} : finish(c, b, s)

BuildsNext ==
    \/ \E c \in Dispatcher :
          \/ reconcile(c) \/ LeaderChange(c) \/ LeaderCrash(c)
          \/ \E b \in Build : ClaimNext(c, b) \/ Dispatch(c, b)
    \/ \E n \in Builder : CordonBuilder(n) \/ UncordonBuilder(n)

\* The leader's loop ticks every 15s, goroutines run, a silent builder is given up.
BuildsFairness ==
    /\ \A c \in Dispatcher : WF_buildsVars(reconcile(c))
    /\ \A c \in Dispatcher, b \in Build : WF_buildsVars(ClaimNext(c, b)) /\ WF_buildsVars(Dispatch(c, b))

BuildsSpec == BuildsInit /\ [][BuildsNext]_buildsVars /\ BuildsFairness

(***************************************************************************)
(* Properties                                                              *)
(***************************************************************************)
\* Others wait for a build alike whether it is queued or running.
Outcome == [b \in Build |-> IF status[b].is = "RUNNING" THEN "QUEUED" ELSE status[b].is]

Abs == INSTANCE BuildOutcome WITH outcome <- Outcome

\* A build has one outcome and keeps it: neither a pass that lists it while it is
\* being claimed nor a leader change makes it run again or changes the result a
\* deployment may already have acted on.
OutcomeFinal == Abs!Spec

\* As long as the leader stays, every queued build comes to an end, also when there
\* is no builder for a while or RUNNING cannot be stored: the claim is released and a
\* later pass retries (dispatch).  The exception is a build whose outcome could not
\* be written: succeed and fail drop that error and nothing looks at the build again.
BuildsEnd ==
    <>[](usable # {}) => \A b \in Build :
        status[b].is = "QUEUED" ~> \/ status[b].is \in {"SUCCEEDED", "FAILED"}
                                   \/ b \in unrecorded \/ elections > 0
==============================================================================

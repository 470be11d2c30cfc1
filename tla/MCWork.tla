-------------------------------- MODULE MCWork --------------------------------
(***************************************************************************)
(* Two loops of the leader in one run: the build dispatcher, and jobs and  *)
(* cron.  They share no state, so a behaviour is about one of them (focus) *)
(* and the other rests in a state in which it has nothing to do.           *)
(***************************************************************************)
EXTENDS Builds, Jobs

VARIABLE focus

workVars == <<buildsVars, jobsVars, focus>>

S(policy, retries, life, jobs, ticks, cancellations, faults) ==
    [policy |-> policy, retries |-> retries, life |-> life, jobs |-> jobs, ticks |-> ticks,
     cancels |-> cancellations, mishaps |-> faults]

WorkScenes ==
    {S("FORBID", 1, "kept", 2, 3, 0, 0), S("FORBID", 0, "kept", 2, 3, 0, 1),
     S("REPLACE", 0, "kept", 2, 3, 0, 1), S("REPLACE", 0, "kept", 2, 3, 1, 0),
     S("ALLOW", 0, "kept", 2, 3, 0, 0),
     S("FORBID", 1, "kept", 1, 0, 1, 1), S("FORBID", 1, "kept", 1, 0, 0, 2),
     S("FORBID", 0, "new", 2, 4, 0, 0), S("REPLACE", 1, "deleted", 1, 2, 0, 1)}

\* No build is queued.
BuildsRest ==
    /\ dispatchLeader = (CHOOSE c \in Dispatcher : TRUE) /\ elections = 0
    /\ status = [b \in Build |-> [is |-> "SUCCEEDED", node |-> NoBuilder]]
    /\ usable = Builder /\ cordons = 0
    /\ queue = [c \in Dispatcher |-> {}]
    /\ stage = [c \in Dispatcher |-> [b \in Build |-> "idle"]]
    /\ picked = [c \in Dispatcher |-> [b \in Build |-> NoBuilder]]
    /\ refused = 0 /\ unrecorded = {}

\* There is no job and no cron slot is due.
JobsRest == JobsInit /\ scene = CHOOSE s \in Scenes : TRUE

WorkInit ==
    \/ focus = "builds" /\ BuildsInit /\ JobsRest
    \/ focus = "jobs" /\ JobsInit /\ BuildsRest

WorkNext ==
    \/ focus = "builds" /\ BuildsNext /\ UNCHANGED <<jobsVars, focus>>
    \/ focus = "jobs" /\ JobsNext /\ UNCHANGED <<buildsVars, focus>>

WorkSpec == WorkInit /\ [][WorkNext]_workVars /\ BuildsFairness /\ JobsFairness

\* The shape of both parts: what the loops store, and the commands they have still
\* to send (putBuild, enqueueCronJob).
WorkTypeOK == BuildsTypeOK /\ JobsTypeOK
===============================================================================

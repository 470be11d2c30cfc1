-------------------------------- MODULE Jobs --------------------------------
(***************************************************************************)
(* One-shot jobs and cron (scheduler/jobs.go, scheduler/cron.go,           *)
(* api/jobs.go).  The leader's evaluation first fires the cron slots that  *)
(* are due, where REPLACE first cancels the listed active runs one by one, *)
(* then lists the jobs once and drives each listed copy: it reads the      *)
(* assignments when the job's turn comes and sends one or two commands     *)
(* that carry whole records.  RunJob and CancelJob requests, the agents    *)
(* and a change of leader come between any two of these steps.  Cron's     *)
(* memory (cronLast, cronEpoch) is the leader's and starts afresh with     *)
(* every term; the job and assignment tables are replicated.               *)
(***************************************************************************)
EXTENDS Naturals, FiniteSets, Sequences

CONSTANTS
    Scenes,   \* the scenes considered: see Scene
    Period,   \* ticks between two slots of the schedule
    Jitter,   \* cronJitter of the spec, in ticks
    MaxJobs,  \* bound: jobs ever created in any scene
    MaxRuns   \* bound: job assignments ever created

PolicyKind == {"FORBID", "REPLACE", "ALLOW"}
MishapKind == {"failover", "swallowed", "capacity"}

\* What becomes of the environment: it has an active release throughout, starts without
\* one, or is deleted with its app or project.
LifeKind == {"kept", "new", "deleted"}

\* What a behaviour is about: the spec's concurrency policy and max_retries, the
\* environment's life, and how many jobs, clock ticks, CancelJob requests and mishaps
\* there are.  TLC checks each scene on its own, so that no scene has to be large in
\* every respect.
Scene == [policy : PolicyKind, retries : Nat, life : LifeKind,
          jobs : Nat, ticks : Nat, cancels : Nat, mishaps : Nat]

ASSUME JobsAssumption ==
    /\ Scenes \subseteq Scene
    /\ Period \in Nat \ {0} /\ Jitter \in Nat
    /\ MaxJobs \in Nat /\ MaxRuns \in Nat
    /\ \A s \in Scenes : s.jobs <= MaxJobs

JobId == 1..MaxJobs
RunId == 1..MaxRuns

VARIABLES
    job,        \* replicated: the Job records
    run,        \* replicated: the assignments that carry a job id
    ids,        \* the ids handed out to jobs and to assignments
    scene,      \* the spec and the bounds of this behaviour
    jobEnv,     \* replicated: the environment, with or without an active release, or gone
    capacity,   \* whether placement finds a node
    now,        \* the clock, the same on every control node
    elapsed,    \* the RETRYING jobs whose backoff has passed
    cronEpoch,  \* when this leader's term began
    cronLast,   \* the last slot fired in this term, 0 for none
    jobPass,    \* where the evaluation stands
    listing,    \* the jobs still to be canceled or driven, as they were listed
    plan,       \* the commands of the current turn still to be sent
    canceling,  \* the commands a CancelJob request has still to send
    cancels,    \* CancelJob requests so far
    mishaps     \* the kinds of fault so far, in order

jobTables == <<job, run, ids, scene>>
jobWorld == <<jobEnv, capacity, now, elapsed>>
jobLeader == <<cronEpoch, cronLast, jobPass, listing, plan>>
jobClient == <<canceling, cancels>>
jobsVars == <<jobTables, jobWorld, jobLeader, jobClient, mishaps>>

(***************************************************************************)
(* Records and commands                                                    *)
(***************************************************************************)
Ended == {"SUCCEEDED", "FAILED", "CANCELED"}
jobTerminal(s) == s \in Ended

\* slot is the cron slot a job was fired for, 0 for a job a user ran.
Job == [status : {"ABSENT", "QUEUED", "RUNNING", "RETRYING"} \cup Ended,
        attempt : Nat, slot : Nat]
NoJob == [status |-> "ABSENT", attempt |-> 0, slot |-> 0]
Run == [job : JobId \cup {0}, desired : {"ABSENT", "RUN", "STOP"},
        obs : {"UNSPECIFIED", "STOPPED", "FAILED"}]
NoRun == [job |-> 0, desired |-> "ABSENT", obs |-> "UNSPECIFIED"]

NoListing == [j \in JobId |-> NoJob]
RunsOf(j) == {a \in RunId : run[a].job = j}

putJob(j, record) == [op |-> "PutJob", id |-> j, record |-> record]
putRun(a, record) == [op |-> "PutAssignments", id |-> a, record |-> record]
deleteAssignment(a) == [op |-> "DeleteAssignments", id |-> a, record |-> NoRun]

JobCommand ==
    [op : {"PutJob"}, id : JobId, record : Job]
      \cup [op : {"PutAssignments", "DeleteAssignments"}, id : RunId, record : Run]

applyJobCommand(c) ==
    /\ job' = IF c.op = "PutJob" THEN [job EXCEPT ![c.id] = c.record] ELSE job
    /\ run' = IF c.op # "PutJob" THEN [run EXCEPT ![c.id] = c.record] ELSE run

JobsTypeOK ==
    /\ job \in [JobId -> Job] /\ run \in [RunId -> Run]
    /\ ids \in [job : {0} \cup JobId, run : {0} \cup RunId] /\ scene \in Scenes
    /\ jobEnv \in {"new", "released", "gone"}
    /\ capacity \in BOOLEAN /\ now \in 0..scene.ticks /\ elapsed \subseteq JobId
    /\ cronEpoch \in 0..scene.ticks /\ cronLast \in 0..scene.ticks
    /\ jobPass \in {"cancel", "cron", "jobs"} /\ listing \in [JobId -> Job]
    /\ plan \in Seq(JobCommand) /\ canceling \in Seq(JobCommand)
    /\ cancels \in 0..scene.cancels /\ mishaps \in Seq(MishapKind)

JobsInit ==
    /\ job = NoListing /\ run = [a \in RunId |-> NoRun]
    /\ ids = [job |-> 0, run |-> 0] /\ scene \in Scenes
    /\ jobEnv = (IF scene.life = "new" THEN "new" ELSE "released")
    /\ capacity = TRUE /\ now = 0 /\ elapsed = {}
    /\ cronEpoch = 0 /\ cronLast = 0
    /\ jobPass = "jobs" /\ listing = NoListing /\ plan = <<>>
    /\ canceling = <<>> /\ cancels = 0 /\ mishaps = <<>>

Mishap(kind) == Len(mishaps) < scene.mishaps /\ mishaps' = Append(mishaps, kind)

\* The assignment with the lowest id that carries the job's, as a set.
jobAssignment(j) == {a \in RunsOf(j) : \A b \in RunsOf(j) : a <= b}

\* CancelJob and the REPLACE policy put the assignment back as it is read, with
\* desired STOP, and then their copy of the job as CANCELED.
CancelCommands(j, copy) ==
    LET live == {a \in jobAssignment(j) : run[a].desired # "STOP"}
        flip == {putRun(a, [run[a] EXCEPT !.desired = "STOP"]) : a \in live}
    IN  (IF flip = {} THEN <<>> ELSE <<CHOOSE c \in flip : TRUE>>)
          \o <<putJob(j, [copy EXCEPT !.status = "CANCELED"])>>

(***************************************************************************)
(* Cron: the first part of an evaluation                                   *)
(***************************************************************************)
\* Before cron, an evaluation stops the assignments of an environment that is gone and
\* deletes the ones that have stopped.  (With the environment its schedule is gone.)
reconcileOrphans ==
    /\ jobPass = "jobs" /\ listing = NoListing /\ plan = <<>> /\ jobEnv = "gone"
    /\ \/ /\ run' = [a \in RunId |-> CASE run[a].desired = "RUN" -> [run[a] EXCEPT !.desired = "STOP"]
                                       [] run[a].desired = "STOP" /\ run[a].obs = "STOPPED" -> NoRun
                                       [] OTHER -> run[a]]
          /\ UNCHANGED mishaps
       \/ Mishap("swallowed") /\ UNCHANGED run
    /\ jobPass' = "cron"
    /\ UNCHANGED <<job, ids, scene, jobWorld, cronEpoch, cronLast, listing, plan, jobClient>>

\* The first slot after t, from the cron library.
NextSlot(t) == ((t \div Period) + 1) * Period

\* Mutant: only a run that has been placed counts.
activeCronJobsPlaced == {j \in JobId : job[j].slot # 0 /\ job[j].status = "RUNNING"}

activeCronJobs == {j \in JobId : job[j].slot # 0 /\ job[j] # NoJob /\ ~jobTerminal(job[j].status)}

\* Mutant: the new run takes the id handed out last.
enqueueCronJobOldId(slot) ==
    /\ plan' = <<putJob(ids.job, [status |-> "QUEUED", attempt |-> 0, slot |-> slot])>>
    /\ ids' = [ids EXCEPT !.job = @ + 1] /\ jobPass' = "cron"

enqueueCronJob(slot) ==
    /\ plan' = <<putJob(ids.job + 1, [status |-> "QUEUED", attempt |-> 0, slot |-> slot])>>
    /\ ids' = [ids EXCEPT !.job = @ + 1] /\ jobPass' = "cron"

\* Firing a slot, under the spec's concurrency policy.  Where the environment has no
\* active release, or a run is active that must not be overlapped, the slot is skipped.
fireCron(slot) ==
    \/ /\ jobEnv = "released" /\ scene.policy = "REPLACE"
       /\ jobPass' = "cancel" /\ listing' = [j \in JobId |-> IF j \in activeCronJobs THEN job[j] ELSE NoJob]
       /\ UNCHANGED <<plan, ids>>
    \/ /\ jobEnv = "released"
       /\ scene.policy = "ALLOW" \/ (scene.policy = "FORBID" /\ activeCronJobs = {})
       /\ enqueueCronJob(slot) /\ UNCHANGED listing
    \/ /\ jobEnv = "new" \/ (scene.policy = "FORBID" /\ activeCronJobs # {})
       /\ jobPass' = "cron" /\ UNCHANGED <<plan, ids, listing>>

\* Mutant: a new leader computes the next slot from the beginning of time.
DueFromZero == NextSlot(cronLast)

\* The slot after the last one fired in this term, or after the term began.
Due == NextSlot(IF cronLast > cronEpoch THEN cronLast ELSE cronEpoch)

ListJobs == jobPass' = "jobs" /\ listing' = job

\* The slot is taken before anything is sent.  Where none is due, the evaluation goes
\* straight on to the jobs.
reconcileCron ==
    /\ jobPass = "jobs" /\ listing = NoListing /\ plan = <<>> /\ jobEnv # "gone"
    /\ IF Due + Jitter > now \/ ids.job = scene.jobs
       THEN ListJobs /\ UNCHANGED <<cronLast, plan, ids>>
       ELSE cronLast' = Due /\ fireCron(Due)
    /\ UNCHANGED <<job, run, scene, jobWorld, cronEpoch, jobClient, mishaps>>

\* The listed jobs take their turns by id.
Turn(j) ==
    /\ listing[j] # NoJob /\ \A i \in JobId : listing[i] # NoJob => j <= i
    /\ listing' = [listing EXCEPT ![j] = NoJob]

\* REPLACE: the active runs are canceled in turn, then the new one is queued.
replaceCron ==
    /\ jobPass = "cancel" /\ plan = <<>>
    /\ \/ \E j \in JobId : /\ Turn(j) /\ plan' = CancelCommands(j, listing[j])
                            /\ UNCHANGED <<ids, jobPass>>
       \/ listing = NoListing /\ enqueueCronJob(cronLast) /\ UNCHANGED listing
    /\ UNCHANGED <<job, run, scene, jobWorld, cronEpoch, cronLast, jobClient, mishaps>>

(***************************************************************************)
(* Jobs: the second part                                                   *)
(***************************************************************************)
reconcileJobs ==
    /\ jobPass = "cron" /\ plan = <<>>
    /\ ListJobs
    /\ UNCHANGED <<jobTables, jobWorld, cronEpoch, cronLast, plan, jobClient, mishaps>>

\* Mutant: a failed attempt is always worth another.
jobAttemptFailedAgain(j, listed) == <<putJob(j, [listed EXCEPT !.status = "RETRYING"])>>

\* attempt counts the attempts made: max_retries + 1 are allowed in all.
jobAttemptFailed(j, listed) ==
    <<putJob(j, [listed EXCEPT !.status =
                   IF listed.attempt <= scene.retries THEN "RETRYING" ELSE "FAILED"])>>

BackingOff(j, listed) == listed.status = "RETRYING" /\ j \notin elapsed

\* Place a queued job: first the assignment, then the job as RUNNING.  It fails for good
\* where the environment is gone and stays as it is where no node is found for it.
placeJob(j, listed) ==
    \/ /\ BackingOff(j, listed) \/ (jobEnv # "gone" /\ ~capacity)
       /\ plan' = <<>> /\ UNCHANGED ids
    \/ /\ ~BackingOff(j, listed) /\ jobEnv = "gone"
       /\ plan' = <<putJob(j, [listed EXCEPT !.status = "FAILED"])>> /\ UNCHANGED ids
    \/ /\ ~BackingOff(j, listed) /\ jobEnv # "gone" /\ capacity
       /\ ids.run < MaxRuns
       /\ ids' = [ids EXCEPT !.run = @ + 1]
       /\ plan' = <<putRun(ids.run + 1, [job |-> j, desired |-> "RUN", obs |-> "UNSPECIFIED"]),
                    putJob(j, [listed EXCEPT !.status = "RUNNING", !.attempt = @ + 1])>>

\* Look at a running job's assignment; without one the attempt has failed.
observeJob(j, listed) ==
    plan' = IF jobAssignment(j) = {} THEN jobAttemptFailed(j, listed)
            ELSE LET a == CHOOSE x \in jobAssignment(j) : TRUE
                 IN  CASE run[a].obs = "STOPPED" ->
                            <<deleteAssignment(a), putJob(j, [listed EXCEPT !.status = "SUCCEEDED"])>>
                       [] run[a].obs = "FAILED" ->
                            <<deleteAssignment(a)>> \o jobAttemptFailed(j, listed)
                       [] OTHER -> <<>>

\* Mutant: the assignments of finished jobs are left to their agents.
reapJobAssignmentNever(j) == plan' = <<>>

reapJobAssignment(j) ==
    plan' = IF jobAssignment(j) = {} THEN <<>>
            ELSE <<deleteAssignment(CHOOSE a \in jobAssignment(j) : TRUE)>>

reconcileJob(j) ==
    LET listed == listing[j]
    IN  /\ jobPass = "jobs" /\ plan = <<>> /\ Turn(j)
        /\ \/ listed.status \in {"QUEUED", "RETRYING"} /\ placeJob(j, listed)
           \/ listed.status = "RUNNING" /\ observeJob(j, listed) /\ UNCHANGED ids
           \/ jobTerminal(listed.status) /\ reapJobAssignment(j) /\ UNCHANGED ids
        /\ UNCHANGED <<job, run, scene, jobWorld, cronEpoch, cronLast, jobPass, jobClient, mishaps>>

\* A job put back to RETRYING waits for its backoff.
Backoff(c) ==
    elapsed' = IF c.op = "PutJob" /\ c.record.status = "RETRYING" THEN elapsed \ {c.id} ELSE elapsed

SendCommand ==
    /\ plan # <<>>
    /\ applyJobCommand(Head(plan)) /\ Backoff(Head(plan))
    /\ plan' = Tail(plan)
    /\ UNCHANGED <<ids, scene, jobEnv, capacity, now, cronEpoch, cronLast, jobPass, listing, jobClient, mishaps>>

(***************************************************************************)
(* Requests                                                                *)
(***************************************************************************)
\* RunJob needs an environment with an active release.  (The bound leaves room for the
\* run that a REPLACE under way will queue.)
RunJob ==
    /\ jobEnv = "released"
    /\ ids.job + (IF jobPass = "cancel" THEN 1 ELSE 0) < scene.jobs
    /\ ids' = [ids EXCEPT !.job = @ + 1]
    /\ job' = [job EXCEPT ![ids.job + 1] = [status |-> "QUEUED", attempt |-> 0, slot |-> 0]]
    /\ UNCHANGED <<run, scene, jobWorld, jobLeader, jobClient, mishaps>>

\* CancelJob reads the job and its assignment and refuses to touch a finished job.
CancelJob(j) ==
    /\ cancels < scene.cancels /\ canceling = <<>>
    /\ job[j] # NoJob /\ ~jobTerminal(job[j].status)
    /\ canceling' = CancelCommands(j, job[j]) /\ cancels' = cancels + 1
    /\ UNCHANGED <<jobTables, jobWorld, jobLeader, mishaps>>

SendCancel ==
    /\ canceling # <<>>
    /\ applyJobCommand(Head(canceling))
    /\ canceling' = Tail(canceling)
    /\ UNCHANGED <<ids, scene, jobWorld, jobLeader, cancels, mishaps>>

\* The environment's first release is promoted.
FirstRelease ==
    /\ jobEnv = "new" /\ jobEnv' = "released"
    /\ UNCHANGED <<jobTables, capacity, now, elapsed, jobLeader, jobClient, mishaps>>

\* DeleteApp and DeleteProject delete the environment; its jobs and assignments stay.
DeleteEnvironment ==
    /\ scene.life = "deleted" /\ jobEnv = "released" /\ jobEnv' = "gone"
    /\ UNCHANGED <<jobTables, capacity, now, elapsed, jobLeader, jobClient, mishaps>>

(***************************************************************************)
(* Agents                                                                  *)
(***************************************************************************)
\* The container of an assignment with desired RUN exits, or cannot be started, and
\* that is reported: exit code 0 as STOPPED, everything else as FAILED.
FinishRun(a) ==
    /\ run[a].desired = "RUN" /\ run[a].obs = "UNSPECIFIED"
    /\ \E s \in {"STOPPED", "FAILED"} : run' = [run EXCEPT ![a].obs = s]
    /\ UNCHANGED <<job, ids, scene, jobWorld, jobLeader, jobClient, mishaps>>

\* A container that is told to stop is removed and reported STOPPED, without an exit
\* code.  One that had not been started yet is never reported, hence no fairness.
StopRun(a) ==
    /\ run[a].desired = "STOP" /\ run[a].obs # "STOPPED"
    /\ run' = [run EXCEPT ![a].obs = "STOPPED"]
    /\ UNCHANGED <<job, ids, scene, jobWorld, jobLeader, jobClient, mishaps>>

(***************************************************************************)
(* Time, capacity and faults                                               *)
(***************************************************************************)
JobsTick ==
    /\ now < scene.ticks
    /\ now' = now + 1
    /\ UNCHANGED <<jobTables, jobEnv, capacity, elapsed, jobLeader, jobClient, mishaps>>

BackoffPasses(j) ==
    /\ job[j].status = "RETRYING" /\ j \notin elapsed
    /\ elapsed' = elapsed \cup {j}
    /\ UNCHANGED <<jobTables, jobEnv, capacity, now, jobLeader, jobClient, mishaps>>

LoseCapacity ==
    /\ Mishap("capacity") /\ capacity /\ capacity' = FALSE
    /\ UNCHANGED <<jobTables, jobEnv, now, elapsed, jobLeader, jobClient>>

RegainCapacity ==
    /\ ~capacity /\ capacity' = TRUE
    /\ UNCHANGED <<jobTables, jobEnv, now, elapsed, jobLeader, jobClient, mishaps>>

\* An apply error other than the loss of leadership is logged and swallowed.
SwallowedError ==
    /\ Mishap("swallowed") /\ plan # <<>>
    /\ plan' = Tail(plan)
    /\ UNCHANGED <<jobTables, jobWorld, cronEpoch, cronLast, jobPass, listing, jobClient>>

resetCron == cronLast' = 0 /\ cronEpoch' = now

\* Leadership moves: the pass stops where it is, a request may fail half way.
JobsFailover ==
    /\ Mishap("failover")
    /\ resetCron
    /\ jobPass' = "jobs" /\ listing' = NoListing /\ plan' = <<>>
    /\ canceling' \in {canceling, <<>>}
    /\ UNCHANGED <<jobTables, jobWorld, cancels>>

JobsEvaluate ==
    \/ reconcileOrphans \/ reconcileCron \/ replaceCron \/ reconcileJobs \/ SendCommand
    \/ \E j \in JobId : reconcileJob(j)

JobsNext ==
    \/ JobsEvaluate \/ RunJob \/ SendCancel \/ FirstRelease \/ DeleteEnvironment
    \/ \E j \in JobId : CancelJob(j) \/ BackoffPasses(j)
    \/ \E a \in RunId : FinishRun(a) \/ StopRun(a)
    \/ JobsTick \/ LoseCapacity \/ RegainCapacity \/ SwallowedError \/ JobsFailover

\* The leader's loop ticks, agents work, commands run to their end, time passes.
JobsFairness ==
    /\ WF_jobsVars(JobsEvaluate) /\ WF_jobsVars(SendCancel) /\ WF_jobsVars(RegainCapacity)
    /\ WF_jobsVars(\E j \in JobId : BackoffPasses(j)) /\ WF_jobsVars(\E a \in RunId : FinishRun(a))

JobsSpec == JobsInit /\ [][JobsNext]_jobsVars /\ JobsFairness

(***************************************************************************)
(* Properties                                                              *)
(***************************************************************************)
\* A slot of the schedule is fired at most once, also when leadership moves around
\* the slot and its jitter: a new leader never replays a slot before its term.
SlotFiredOnce ==
    \A i, j \in JobId : job[i].slot # 0 /\ job[i].slot = job[j].slot => i = j

\* Unless overlap is allowed, a cron never has two unfinished runs: not while one
\* is queued or waits for a retry, not when the leader changes between the commands
\* that replace a run, and not when a cancel request fails half way or is overtaken
\* by the scheduler's copy of the job.  (REPLACE goes on when the command that
\* cancels the old run is lost.)
CronExclusive ==
    scene.policy = "FORBID" \/ (scene.policy = "REPLACE" /\ \A i \in DOMAIN mishaps : mishaps[i] # "swallowed")
        => \A i, j \in JobId :
              /\ job[i].slot # 0 /\ job[i].status \in {"QUEUED", "RUNNING", "RETRYING"}
              /\ job[j].slot # 0 /\ job[j].status \in {"QUEUED", "RUNNING", "RETRYING"}
              => i = j

\* A job is executed at most max_retries + 1 times; only a leader change or a lost
\* command may cost an execution that no attempt accounts for.
ExecutionsBounded == ids.run <= (scene.retries + 1) * ids.job + Len(mishaps)

Settled(j) == jobTerminal(job[j].status) /\ RunsOf(j) = {}
Stranded(j) ==
    /\ canceling = <<>> /\ plan = <<>> /\ ~jobTerminal(job[j].status)
    /\ \E a \in RunsOf(j) : run[a].desired = "STOP"

\* Every job comes to an end and what it started goes away, whatever command is lost
\* and wherever the leader changes: also the second assignment of a job that was
\* placed twice because the leader changed between the two commands of placeJob, and a
\* job whose environment is deleted at any moment of its life.  Only a cancel that died
\* between its two commands, or the deletion of the environment under a run that was not
\* started yet, may leave a job waiting for a report.
JobsSettle == \A j \in JobId : job[j] # NoJob ~> (Settled(j) \/ Stranded(j))
=============================================================================

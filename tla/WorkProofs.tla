------------------------------ MODULE WorkProofs ------------------------------
(***************************************************************************)
(* Theorems about the two loops that hand out work.  Builds keep their     *)
(* outcome: only the leader's writes are stored, so all that matters is    *)
(* what the leader's own queue and dispatches know of a build; a former    *)
(* leader's may be as stale as they like until it leads again.  And a cron *)
(* slot is fired once, a cron has one unfinished run and a job is executed *)
(* a bounded number of times, for every number of jobs, ticks, retries,    *)
(* cancel requests and faults.                                             *)
(***************************************************************************)
EXTENDS MCWork, FiniteSetTheorems, TLAPS

(***************************************************************************)
(* Builds                                                                  *)
(***************************************************************************)

\* What the leader has still to do with a build agrees with the stored status: no
\* dispatch stores RUNNING over an outcome, and one that ends finds its own RUNNING.
InStep(c) ==
    \A b \in Build :
        /\ b \in queue[c] /\ stage[c][b] = "idle" => status[b].is = "QUEUED"
        /\ stage[c][b] \in {"claimed", "picked"} => status[b].is = "QUEUED"
        /\ stage[c][b] = "streaming" => status[b].is = "RUNNING"

OutcomeInv ==
    /\ BuildsTypeOK
    /\ InStep(dispatchLeader)
    /\ \A c \in Dispatcher \ {dispatchLeader} : queue[c] = {}

\* Nobody leads again while a dispatch of an earlier leadership is under way.
LeadsAfresh ==
    dispatchLeader' # dispatchLeader => \A b \in Build : stage[dispatchLeader'][b] = "idle"

LEMMA BuildsInitInv == BuildsInit => OutcomeInv
  BY BuildsAssumption
  DEF BuildsInit, OutcomeInv, InStep, BuildsTypeOK, BuildStatus, DispatchStage, NoBuilder

\* Every action keeps the shape of the state.
LEMMA BuildsTypeNext == BuildsTypeOK /\ [BuildsNext]_buildsVars => BuildsTypeOK'
  <1> SUFFICES ASSUME BuildsTypeOK, [BuildsNext]_buildsVars PROVE BuildsTypeOK'
    OBVIOUS
  <1> USE BuildsAssumption DEF writes
  <1>1. ASSUME NEW c \in Dispatcher, reconcile(c) PROVE BuildsTypeOK'
    BY <1>1 DEF BuildsTypeOK, reconcile, Queued
  <1>2. ASSUME NEW c \in Dispatcher, LeaderChange(c) \/ LeaderCrash(c) PROVE BuildsTypeOK'
    <2>1. dispatchLeader' \in Dispatcher /\ elections' \in 0..MaxLeaderChanges
      BY <1>2 DEF BuildsTypeOK, LeaderChange, LeaderCrash
    <2>2. stage' \in [Dispatcher -> [Build -> DispatchStage]]
      <3>1. [b \in Build |-> "idle"] \in [Build -> DispatchStage]
        BY DEF DispatchStage
      <3>2. stage' \in {stage, [stage EXCEPT ![dispatchLeader] = [b \in Build |-> "idle"]]}
        BY <1>2 DEF LeaderChange, LeaderCrash
      <3> QED BY <3>1, <3>2 DEF BuildsTypeOK
    <2> QED BY <1>2, <2>1, <2>2 DEF BuildsTypeOK, LeaderChange, LeaderCrash
  <1>3. ASSUME NEW c \in Dispatcher, NEW b \in Build, ClaimNext(c, b) PROVE BuildsTypeOK'
    <2>1. queue' \in [Dispatcher -> SUBSET Build]
      BY <1>3 DEF BuildsTypeOK, ClaimNext
    <2>2. stage' \in [Dispatcher -> [Build -> DispatchStage]]
      BY <1>3 DEF BuildsTypeOK, ClaimNext, DispatchStage
    <2> QED BY <1>3, <2>1, <2>2 DEF BuildsTypeOK, ClaimNext
  <1>4. ASSUME NEW c \in Dispatcher, NEW b \in Build, pickBuilder(c, b) PROVE BuildsTypeOK'
    <2>1. PICK n \in usable \cup {picked[c][b]}, s \in DispatchStage :
             stage' = [stage EXCEPT ![c][b] = s] /\ picked' \in {picked, [picked EXCEPT ![c][b] = n]}
      BY <1>4 DEF pickBuilder, DispatchStage
    <2>2. stage' \in [Dispatcher -> [Build -> DispatchStage]]
      BY <2>1 DEF BuildsTypeOK
    <2>3. picked' \in [Dispatcher -> [Build -> Builder \cup {NoBuilder}]]
      <3>1. n \in Builder \cup {NoBuilder}
        BY DEF BuildsTypeOK
      <3>2. CASE picked' = [picked EXCEPT ![c][b] = n]
        BY <3>1, <3>2 DEF BuildsTypeOK
      <3> QED BY <2>1, <3>2 DEF BuildsTypeOK
    <2> QED BY <1>4, <2>2, <2>3 DEF BuildsTypeOK, pickBuilder
  <1>5. ASSUME NEW c \in Dispatcher, NEW b \in Build, markRunning(c, b) PROVE BuildsTypeOK'
    <2>1. refused' \in 0..MaxRefused /\ UNCHANGED unrecorded
      BY <1>5 DEF BuildsTypeOK, markRunning, putBuild, putBuildFails
    <2>2. PICK r \in DispatchStage : stage' = [stage EXCEPT ![c][b] = r]
      BY <1>5 DEF markRunning, DispatchStage
    <2>3. stage' \in [Dispatcher -> [Build -> DispatchStage]]
      BY <2>2 DEF BuildsTypeOK
    <2>4. status' \in [Build -> [is : BuildStatus, node : Builder \cup {NoBuilder}]]
      BY <1>5 DEF BuildsTypeOK, markRunning, putBuild, putBuildFails, BuildStatus
    <2> QED
      BY <1>5, <2>1, <2>3, <2>4 DEF BuildsTypeOK, markRunning
  <1>6. ASSUME NEW c \in Dispatcher, NEW b \in Build, NEW s \in {"SUCCEEDED", "FAILED"}, finish(c, b, s)
        PROVE BuildsTypeOK'
    <2>1. refused' \in 0..MaxRefused /\ unrecorded' \subseteq Build
      BY <1>6 DEF BuildsTypeOK, finish, putBuild, putBuildFails
    <2> QED
      BY <1>6, <2>1 DEF BuildsTypeOK, finish, putBuild, putBuildFails, BuildStatus, DispatchStage
  <1>7. ASSUME NEW n \in Builder, CordonBuilder(n) \/ UncordonBuilder(n) PROVE BuildsTypeOK'
    <2>1. usable' \subseteq Builder
      BY <1>7 DEF BuildsTypeOK, CordonBuilder, UncordonBuilder
    <2>2. cordons' \in 0..MaxCordons
      <3>1. cordons' = cordons \/ (cordons < MaxCordons /\ cordons' = cordons + 1)
        BY <1>7 DEF CordonBuilder, UncordonBuilder
      <3> QED BY <3>1 DEF BuildsTypeOK
    <2> QED BY <1>7, <2>1, <2>2 DEF BuildsTypeOK, CordonBuilder, UncordonBuilder
  <1>8. CASE UNCHANGED buildsVars
    BY <1>8 DEF BuildsTypeOK, buildsVars
  <1> QED BY <1>1, <1>2, <1>3, <1>4, <1>5, <1>6, <1>7, <1>8 DEF BuildsNext, Dispatch

\* One step keeps the leader in step with the store and changes the outcomes at most
\* as BuildOutcome allows.
LEMMA OutcomeStep ==
    ASSUME ~StaleListing, OutcomeInv, [BuildsNext]_buildsVars, LeadsAfresh
    PROVE  OutcomeInv' /\ [\E b \in Build : Abs!Finish(b)]_Outcome
  <1> DEFINE Goal == OutcomeInv' /\ [\E b \in Build : Abs!Finish(b)]_Outcome
  <1> SUFFICES Goal
    OBVIOUS
  <1>t. BuildsTypeOK /\ BuildsTypeOK'
    BY BuildsTypeNext DEF OutcomeInv
  <1>1. ASSUME NEW c \in Dispatcher, reconcile(c) PROVE Goal
    BY <1>1, <1>t DEF reconcile, Queued, OutcomeInv, InStep, BuildsTypeOK, Outcome
  <1>2. ASSUME NEW c \in Dispatcher, LeaderChange(c) \/ LeaderCrash(c) PROVE Goal
    <2>1. /\ dispatchLeader' = c /\ c # dispatchLeader /\ stage'[c] = stage[c]
          /\ queue' = [queue EXCEPT ![dispatchLeader] = {}] /\ UNCHANGED status
      BY <1>2, <1>t DEF LeaderChange, LeaderCrash, BuildsTypeOK
    <2>2. queue'[c] = {} /\ \A b \in Build : stage'[c][b] = "idle"
      BY <2>1, <1>t DEF OutcomeInv, LeadsAfresh, BuildsTypeOK
    <2> QED BY <2>1, <2>2, <1>t DEF OutcomeInv, InStep, BuildsTypeOK, Outcome
  <1>3. ASSUME NEW c \in Dispatcher, NEW b \in Build, ClaimNext(c, b) PROVE Goal
    BY <1>3, <1>t DEF ClaimNext, claim, OutcomeInv, InStep, BuildsTypeOK, DispatchStage, Outcome
  <1>4. ASSUME NEW c \in Dispatcher, NEW b \in Build, pickBuilder(c, b) PROVE Goal
    <2>1. /\ stage[c][b] = "claimed" /\ UNCHANGED <<dispatchLeader, status, queue>>
          /\ stage' \in {[stage EXCEPT ![c][b] = "idle"], [stage EXCEPT ![c][b] = "picked"]}
      BY <1>4 DEF pickBuilder
    <2>2. CASE stage' = [stage EXCEPT ![c][b] = "idle"]
      BY <2>1, <2>2, <1>t DEF OutcomeInv, InStep, BuildsTypeOK, Outcome
    <2>3. CASE stage' = [stage EXCEPT ![c][b] = "picked"]
      BY <2>1, <2>3, <1>t DEF OutcomeInv, InStep, BuildsTypeOK, Outcome
    <2> QED BY <2>1, <2>2, <2>3
  <1>5. ASSUME NEW c \in Dispatcher, NEW b \in Build, markRunning(c, b) PROVE Goal
    <2>1. CASE putBuild(c, b, "RUNNING") /\ stage' = [stage EXCEPT ![c][b] = "streaming"]
      <3>1. status[b].is = "QUEUED" /\ status' = [status EXCEPT ![b] = [is |-> "RUNNING", node |-> picked[c][b]]]
        BY <1>5, <2>1 DEF markRunning, putBuild, OutcomeInv, InStep
      <3>2. UNCHANGED Outcome
        BY <3>1, <1>t DEF Outcome, BuildsTypeOK
      <3>3. OutcomeInv'
        BY <1>5, <2>1, <3>1, <1>t DEF markRunning, putBuild, OutcomeInv, InStep, BuildsTypeOK
      <3> QED BY <3>2, <3>3
    <2>2. CASE putBuildFails(c) /\ stage' = [stage EXCEPT ![c][b] = "idle"]
      BY <1>5, <2>2, <1>t DEF markRunning, putBuildFails, OutcomeInv, InStep, BuildsTypeOK, Outcome
    <2> QED BY <1>5, <2>1, <2>2 DEF markRunning
  <1>6. ASSUME NEW c \in Dispatcher, NEW b \in Build, NEW s \in {"SUCCEEDED", "FAILED"}, finish(c, b, s)
        PROVE Goal
    <2>1. CASE putBuild(c, b, s)
      <3>1. /\ status[b].is = "RUNNING" /\ b \notin queue[c]
            /\ status' = [status EXCEPT ![b] = [is |-> s, node |-> picked[c][b]]]
        BY <1>6, <2>1 DEF finish, putBuild, OutcomeInv, InStep
      <3>2. Outcome[b] = "QUEUED" /\ Outcome' = [Outcome EXCEPT ![b] = s]
        BY <3>1, <1>t DEF Outcome, BuildsTypeOK
      <3>3. Abs!Finish(b)
        BY <3>2 DEF Abs!Finish
      <3>4. OutcomeInv'
        BY <1>6, <2>1, <3>1, <1>t DEF finish, putBuild, OutcomeInv, InStep, BuildsTypeOK
      <3> QED BY <3>3, <3>4
    <2>2. CASE putBuildFails(c)
      BY <1>6, <2>2, <1>t DEF finish, putBuildFails, OutcomeInv, InStep, BuildsTypeOK, Outcome
    <2> QED BY <1>6, <2>1, <2>2 DEF finish
  <1>7. ASSUME NEW n \in Builder, CordonBuilder(n) \/ UncordonBuilder(n) PROVE Goal
    BY <1>7, <1>t DEF CordonBuilder, UncordonBuilder, OutcomeInv, InStep, Outcome
  <1>8. CASE UNCHANGED buildsVars
    BY <1>8, <1>t DEF buildsVars, OutcomeInv, InStep, Outcome
  <1> QED BY <1>1, <1>2, <1>3, <1>4, <1>5, <1>6, <1>7, <1>8 DEF BuildsNext, Dispatch

LEMMA OutcomeStart == BuildsInit => Abs!Init
  BY DEF BuildsInit, Abs!Init, Outcome

\* A build keeps its outcome through any number of elections and crashes, for every
\* number of control nodes, builds and builders and whatever writes are refused, as
\* long as no control node leads again before the dispatches of its earlier leadership have ended.
THEOREM OutcomeKept ==
    ASSUME ~StaleListing
    PROVE  BuildsSpec /\ [][LeadsAfresh]_buildsVars => OutcomeFinal
  <1>1. LeadsAfresh \/ UNCHANGED buildsVars => LeadsAfresh
    BY DEF LeadsAfresh, buildsVars
  <1>2. OutcomeInv /\ [BuildsNext]_buildsVars /\ [LeadsAfresh]_buildsVars
           => OutcomeInv' /\ [\E b \in Build : Abs!Finish(b)]_Outcome
    BY <1>1, OutcomeStep
  <1> QED
    BY <1>2, BuildsInitInv, OutcomeStart, PTL DEF BuildsSpec, OutcomeFinal, Abs!Spec

\* Before the first election only the leader has dispatched anything.
FirstLeader ==
    /\ elections \in Nat
    /\ elections = 0 => \A c \in Dispatcher \ {dispatchLeader}, b \in Build : queue[c] = {} /\ stage[c][b] = "idle"

LEMMA FirstLeaderNext ==
    ASSUME MaxLeaderChanges <= 1, BuildsTypeOK, FirstLeader, [BuildsNext]_buildsVars
    PROVE  FirstLeader' /\ LeadsAfresh
  <1> DEFINE Goal == FirstLeader' /\ LeadsAfresh
  <1> SUFFICES Goal
    OBVIOUS
  <1>1. ASSUME NEW c \in Dispatcher, LeaderChange(c) \/ LeaderCrash(c) PROVE Goal
    <2>1. elections = 0 /\ elections' = 1 /\ dispatchLeader' = c /\ c # dispatchLeader
      <3>1. elections < MaxLeaderChanges /\ elections' = elections + 1 /\ dispatchLeader' = c /\ c # dispatchLeader
        BY <1>1 DEF LeaderChange, LeaderCrash
      <3> QED BY <3>1, BuildsAssumption DEF FirstLeader
    <2> QED BY <2>1 DEF FirstLeader, LeadsAfresh
  <1>2. ASSUME NEW c \in Dispatcher, reconcile(c) PROVE Goal
    BY <1>2 DEF reconcile, FirstLeader, LeadsAfresh, BuildsTypeOK
  <1>3. ASSUME NEW c \in Dispatcher, NEW b \in Build, ClaimNext(c, b) PROVE Goal
    <2>1. elections = 0 => c = dispatchLeader
      BY <1>3 DEF ClaimNext, FirstLeader
    <2> QED BY <1>3, <2>1 DEF ClaimNext, FirstLeader, LeadsAfresh, BuildsTypeOK
  <1>4. ASSUME NEW c \in Dispatcher, NEW b \in Build, Dispatch(c, b) PROVE Goal
    <2>1. /\ stage[c][b] # "idle" /\ UNCHANGED <<dispatchLeader, elections, queue>>
          /\ \E s : stage' = [stage EXCEPT ![c][b] = s]
      BY <1>4 DEF Dispatch, pickBuilder, markRunning, finish
    <2>2. elections = 0 => c = dispatchLeader
      BY <2>1 DEF FirstLeader
    <2> QED BY <2>1, <2>2 DEF FirstLeader, LeadsAfresh, BuildsTypeOK
  <1>5. ASSUME NEW n \in Builder, CordonBuilder(n) \/ UncordonBuilder(n) PROVE Goal
    BY <1>5 DEF CordonBuilder, UncordonBuilder, FirstLeader, LeadsAfresh
  <1>6. CASE UNCHANGED buildsVars
    BY <1>6 DEF buildsVars, FirstLeader, LeadsAfresh
  <1> QED BY <1>1, <1>2, <1>3, <1>4, <1>5, <1>6 DEF BuildsNext

\* In particular through one election, whatever the former leader is still doing.
THEOREM OutcomeKeptOnce ==
    ASSUME ~StaleListing, MaxLeaderChanges <= 1
    PROVE  BuildsSpec => OutcomeFinal
  <1>1. BuildsInit => BuildsTypeOK /\ FirstLeader
    BY BuildsInitInv DEF BuildsInit, FirstLeader, OutcomeInv
  <1>2. BuildsTypeOK /\ FirstLeader /\ [BuildsNext]_buildsVars
           => (BuildsTypeOK /\ FirstLeader)' /\ [LeadsAfresh]_buildsVars
    BY BuildsTypeNext, FirstLeaderNext
  <1> QED BY <1>1, <1>2, OutcomeKept, PTL DEF BuildsSpec

(***************************************************************************)
(* Jobs and cron                                                           *)
(***************************************************************************)

Unfinished == {"QUEUED", "RUNNING", "RETRYING"}

Commands(s) == {s[i] : i \in DOMAIN s}
Puts(s) == {c \in Commands(s) : c.op = "PutJob"}

\* What the current leader counts slots from.
Horizon == IF cronLast > cronEpoch THEN cronLast ELSE cronEpoch

(***************************************************************************)
(* Records: a job keeps the slot it was created for, whoever holds a copy. *)
(***************************************************************************)
\* A command for a job that exists.
Rewrites(c) ==
    /\ c.id <= ids.job /\ job[c.id].status # "ABSENT"
    /\ c.record.status # "ABSENT" /\ c.record.slot = job[c.id].slot

\* The command that creates the run of the slot taken last.
Creates(c) ==
    /\ c = putJob(c.id, [status |-> "QUEUED", attempt |-> 0, slot |-> cronLast])
    /\ c.id <= ids.job /\ job[c.id] = NoJob

\* Nothing has been created for the slot yet.
SlotFree == cronLast > cronEpoch /\ \A j \in JobId : job[j].slot # cronLast

RecordsInv ==
    /\ \A j \in JobId : /\ job[j].status = "ABSENT" => job[j] = NoJob
                        /\ j > ids.job => job[j] = NoJob
                        /\ listing[j] # NoJob => /\ job[j].status # "ABSENT" /\ listing[j].status # "ABSENT"
                                                 /\ listing[j].slot = job[j].slot
    /\ \A c \in Puts(canceling) : Rewrites(c) /\ c.record.status = "CANCELED"

\* A turn sends one PutJob at most.
PlanInv ==
    /\ \A c, d \in Puts(plan) : c = d
    /\ \A c \in Puts(plan) : Rewrites(c) \/ (Creates(c) /\ SlotFree /\ jobPass = "cron")
    /\ jobPass = "cancel" =>
          /\ scene.policy = "REPLACE" /\ SlotFree /\ ids.job < scene.jobs
          /\ \A c \in Puts(plan) : c.record.status = "CANCELED" /\ Rewrites(c)

SlotsInv ==
    /\ cronLast <= now /\ cronEpoch <= now
    /\ \A j \in JobId : job[j].slot <= Horizon

JobsInv == JobsTypeOK /\ ids.job <= scene.jobs /\ RecordsInv /\ PlanInv /\ SlotsInv /\ SlotFiredOnce

(***************************************************************************)
(* Exclusion: a run that any copy still to be written shows as unfinished. *)
(***************************************************************************)
Live(j) ==
    \/ job[j].slot # 0 /\ job[j].status \in Unfinished
    \/ listing[j].slot # 0 /\ listing[j].status \in Unfinished
    \/ \E c \in Puts(plan) : c.id = j /\ c.record.slot # 0 /\ c.record.status \in Unfinished

NoneLost == \A i \in DOMAIN mishaps : mishaps[i] # "swallowed"

ExclusiveInv ==
    /\ scene.policy = "FORBID" \/ (scene.policy = "REPLACE" /\ NoneLost)
          => \A i, j \in JobId : Live(i) /\ Live(j) => i = j
    /\ jobPass = "cancel" /\ NoneLost =>
          \A j \in JobId : job[j].slot # 0 /\ job[j].status \in Unfinished =>
             listing[j] # NoJob \/ \E c \in Puts(plan) : c.id = j

(***************************************************************************)
(* Executions: every assignment is charged to an attempt of its job or to  *)
(* a mishap.                                                               *)
(***************************************************************************)
Attempts == (1..ids.job) \X (1..(scene.retries + 1))
Faults == {0} \X (1..Len(mishaps))

\* A queued job has not been attempted, one that waits for a retry has retries left.
WithinRetries(r) ==
    /\ r.status = "QUEUED" => r.attempt = 0
    /\ r.status = "RETRYING" => r.attempt <= scene.retries

AttemptInv ==
    /\ \A j \in JobId : WithinRetries(job[j]) /\ WithinRetries(listing[j])
    /\ \A c \in Puts(plan) : WithinRetries(c.record)

\* Charge k of job j is covered by what the copies of the job that matter say.
Charged(j, k) ==
    /\ job[j].status \in Unfinished =>
          \/ k <= job[j].attempt
          \/ \E c \in Puts(plan) : c.id = j /\ c.record.status = "RUNNING" /\ c.record.attempt = k
    /\ listing[j].status \in Unfinished => k <= listing[j].attempt
    /\ \A c \in Puts(plan) : c.id = j /\ c.record.status \in Unfinished => k <= c.record.attempt

Account(f) ==
    /\ f \in [1..ids.run -> Attempts \cup Faults]
    /\ \A a, b \in 1..ids.run : f[a] = f[b] => a = b
    /\ \A a \in 1..ids.run : f[a][1] # 0 => Charged(f[a][1], f[a][2])

ExecutionsInv == AttemptInv /\ \E f : Account(f)

(***************************************************************************)
(* Sequences of commands                                                   *)
(***************************************************************************)
LEMMA CommandShape ==
    ASSUME NEW c \in JobCommand
    PROVE  /\ c.op = "PutJob" => c.id \in JobId /\ c.record \in Job
           /\ c.op # "PutJob" => c.id \in RunId /\ c.record \in Run
  BY DEF JobCommand

LEMMA PutJobShape ==
    ASSUME NEW j \in JobId, NEW r \in Job
    PROVE  /\ putJob(j, r) \in JobCommand /\ putJob(j, r).op = "PutJob"
           /\ putJob(j, r).id = j /\ putJob(j, r).record = r
  BY DEF putJob, JobCommand

LEMMA RunCommandShape ==
    ASSUME NEW a \in RunId, NEW r \in Run
    PROVE  /\ putRun(a, r) \in JobCommand /\ putRun(a, r).op # "PutJob"
           /\ deleteAssignment(a) \in JobCommand /\ deleteAssignment(a).op # "PutJob"
  BY DEF putRun, deleteAssignment, JobCommand, Run, NoRun

LEMMA NoCommands == <<>> \in Seq(JobCommand) /\ Puts(<<>>) = {}
  BY DEF Puts, Commands

LEMMA OneCommand ==
    ASSUME NEW c \in JobCommand
    PROVE  /\ <<c>> \in Seq(JobCommand)
           /\ Puts(<<c>>) = IF c.op = "PutJob" THEN {c} ELSE {}
  <1>1. Commands(<<c>>) = {c}
    BY DEF Commands
  <1> QED BY <1>1 DEF Puts

LEMMA TwoCommands ==
    ASSUME NEW c \in JobCommand, NEW d \in JobCommand, c.op # "PutJob", d.op = "PutJob"
    PROVE  /\ <<c, d>> \in Seq(JobCommand) /\ Puts(<<c, d>>) = {d}
           /\ <<c>> \o <<d>> \in Seq(JobCommand) /\ Puts(<<c>> \o <<d>>) = {d}
  <1>1. Commands(<<c, d>>) = {c, d}
    BY DEF Commands
  <1>2. Puts(<<c, d>>) = {d}
    BY <1>1 DEF Puts
  <1>3. <<c, d>> \in Seq(JobCommand)
    OBVIOUS
  <1>4. /\ <<c>> \o <<d>> \in Seq(JobCommand) /\ DOMAIN (<<c>> \o <<d>>) = 1..2
        /\ (<<c>> \o <<d>>)[1] = c /\ (<<c>> \o <<d>>)[2] = d
    OBVIOUS
  <1>5. Commands(<<c>> \o <<d>>) = {c, d}
    BY <1>4 DEF Commands
  <1>6. Puts(<<c>> \o <<d>>) = {d}
    BY <1>5 DEF Puts
  <1> QED BY <1>2, <1>3, <1>4, <1>6

\* Sending the first command leaves the others.
LEMMA SendsOne ==
    ASSUME NEW s \in Seq(JobCommand), s # <<>>
    PROVE  /\ Head(s) \in JobCommand /\ Tail(s) \in Seq(JobCommand)
           /\ Puts(Tail(s)) \subseteq Puts(s)
           /\ Head(s).op = "PutJob" => Head(s) \in Puts(s)
           /\ Puts(s) \subseteq Puts(Tail(s)) \cup {Head(s)}
  <1>1. Head(s) = s[1] /\ 1 \in DOMAIN s /\ Tail(s) \in Seq(JobCommand) /\ Head(s) \in JobCommand
    OBVIOUS
  <1>2. \A i \in DOMAIN Tail(s) : i + 1 \in DOMAIN s /\ Tail(s)[i] = s[i + 1]
    OBVIOUS
  <1>3. \A i \in DOMAIN s : i # 1 => i - 1 \in DOMAIN Tail(s) /\ s[i] = Tail(s)[i - 1]
    OBVIOUS
  <1>4. Commands(Tail(s)) \subseteq Commands(s) /\ Head(s) \in Commands(s)
    BY <1>1, <1>2 DEF Commands
  <1>5. Commands(s) \subseteq Commands(Tail(s)) \cup {Head(s)}
    BY <1>1, <1>3 DEF Commands
  <1> QED BY <1>1, <1>4, <1>5 DEF Puts

LEMMA PutsTyped ==
    ASSUME NEW s \in Seq(JobCommand), NEW c \in Puts(s)
    PROVE  c \in JobCommand /\ c.op = "PutJob" /\ c.id \in JobId /\ c.record \in Job
  BY CommandShape DEF Puts, Commands

LEMMA CanceledCopy ==
    ASSUME NEW copy \in Job
    PROVE  LET r == [copy EXCEPT !.status = "CANCELED"]
           IN  r \in Job /\ r.status = "CANCELED" /\ r.slot = copy.slot /\ r.attempt = copy.attempt
  BY DEF Job, Ended

\* A cancellation ends with the copy of the job as CANCELED.
LEMMA CancelShape ==
    ASSUME run \in [RunId -> Run], NEW j \in JobId, NEW copy \in Job
    PROVE  /\ CancelCommands(j, copy) \in Seq(JobCommand)
           /\ Puts(CancelCommands(j, copy)) = {putJob(j, [copy EXCEPT !.status = "CANCELED"])}
  <1> DEFINE put == putJob(j, [copy EXCEPT !.status = "CANCELED"])
             live == {a \in jobAssignment(j) : run[a].desired # "STOP"}
             flip == {putRun(a, [run[a] EXCEPT !.desired = "STOP"]) : a \in live}
  <1>1. put \in JobCommand /\ put.op = "PutJob"
    <2>1. [copy EXCEPT !.status = "CANCELED"] \in Job
      BY DEF Job, Ended
    <2> QED BY <2>1, PutJobShape
  <1>2. ASSUME NEW a \in live
        PROVE  /\ putRun(a, [run[a] EXCEPT !.desired = "STOP"]) \in JobCommand
               /\ putRun(a, [run[a] EXCEPT !.desired = "STOP"]).op # "PutJob"
    <2>1. a \in RunId
      BY DEF jobAssignment, RunsOf
    <2>2. [run[a] EXCEPT !.desired = "STOP"] \in Run
      BY <2>1 DEF Run
    <2> QED BY <2>1, <2>2, RunCommandShape
  <1>3. \A c \in flip : c \in JobCommand /\ c.op # "PutJob"
    BY <1>2
  <1>4. CancelCommands(j, copy) = (IF flip = {} THEN <<>> ELSE <<CHOOSE c \in flip : TRUE>>) \o <<put>>
    BY DEF CancelCommands
  <1> HIDE DEF put, flip
  <1>5. CASE flip = {}
    <2>1. CancelCommands(j, copy) = <<put>>
      BY <1>1, <1>4, <1>5
    <2> QED BY <1>1, <2>1, OneCommand DEF put
  <1>6. CASE flip # {}
    <2>1. PICK c \in flip : c = CHOOSE x \in flip : TRUE
      BY <1>6
    <2>2. c \in JobCommand /\ c.op # "PutJob"
      BY <1>3
    <2>3. CancelCommands(j, copy) = <<c>> \o <<put>>
      BY <1>4, <1>6, <2>1
    <2>4. <<c>> \o <<put>> \in Seq(JobCommand) /\ Puts(<<c>> \o <<put>>) = {put}
      BY <1>1, <2>2, TwoCommands
    <2> QED BY <2>3, <2>4 DEF put
  <1> QED BY <1>5, <1>6

(***************************************************************************)
(* Slots and turns                                                         *)
(***************************************************************************)
LEMMA SlotAfter ==
    ASSUME NEW t \in Nat
    PROVE  NextSlot(t) \in Nat /\ NextSlot(t) > t
  <1>1. Period \in Nat /\ Period > 0
    BY JobsAssumption
  <1>2. PICK q \in Nat : q = t \div Period /\ t < (q + 1) * Period
    <2>1. t \div Period \in Nat /\ t = Period * (t \div Period) + (t % Period) /\ t % Period \in 0..(Period - 1)
      BY <1>1
    <2> QED BY <1>1, <2>1
  <1> QED BY <1>1, <1>2 DEF NextSlot

LEMMA SceneShape ==
    ASSUME scene \in Scenes
    PROVE  /\ scene \in Scene /\ scene.jobs \in Nat /\ scene.jobs <= MaxJobs /\ MaxJobs \in Nat /\ MaxRuns \in Nat
           /\ scene.ticks \in Nat /\ scene.retries \in Nat /\ scene.cancels \in Nat /\ scene.mishaps \in Nat
           /\ scene.policy \in PolicyKind
  BY JobsAssumption DEF Scene

LEMMA NoJobShape == NoJob \in Job /\ NoJob.status = "ABSENT" /\ NoJob.slot = 0 /\ NoJob.attempt = 0
  BY DEF NoJob, Job

\* What driving a listed copy sends.
Follows(c, j) ==
    /\ c.id = j /\ c.record \in Job /\ c.record.slot = listing[j].slot
    /\ c.record.status \in {"RUNNING", "RETRYING"} \cup Ended
    /\ c.record.status \in Unfinished => listing[j].status \in Unfinished
    /\ c.record.status = "RETRYING" => c.record.attempt <= scene.retries

LEMMA DriveFacts ==
    ASSUME JobsTypeOK, NEW j \in JobId, reconcileJob(j), listing[j].status # "ABSENT"
    PROVE  /\ plan' \in Seq(JobCommand)
           /\ \A c \in Puts(plan') : Follows(c, j)
           /\ \A c, d \in Puts(plan') : c = d
           /\ \/ /\ UNCHANGED ids
                 /\ \A c \in Puts(plan') : c.record.attempt = listing[j].attempt
              \/ /\ ids.run < MaxRuns /\ ids' = [ids EXCEPT !.run = @ + 1]
                 /\ listing[j].status \in {"QUEUED", "RETRYING"}
                 /\ \E c \in Puts(plan') : c.record.status = "RUNNING" /\ c.record.attempt = listing[j].attempt + 1
                 /\ \A c \in Puts(plan') : c.record.status = "RUNNING" /\ c.record.attempt = listing[j].attempt + 1
  <1>0. PICK listed \in Job : listed = listing[j]
    BY DEF JobsTypeOK
  <1>1. /\ listed.status \in {"QUEUED", "RUNNING", "RETRYING"} \cup Ended
        /\ listed.attempt \in Nat /\ listed.slot \in Nat /\ scene.retries \in Nat
    BY <1>0, SceneShape DEF Job, JobsTypeOK
  <1>2. \/ listed.status \in {"QUEUED", "RETRYING"} /\ placeJob(j, listed)
        \/ listed.status = "RUNNING" /\ observeJob(j, listed) /\ UNCHANGED ids
        \/ jobTerminal(listed.status) /\ reapJobAssignment(j) /\ UNCHANGED ids
    BY <1>0 DEF reconcileJob
  \* A new status for the listed copy.
  <1>3. ASSUME NEW r \in Job, r.slot = listed.slot, r.status \in {"RUNNING", "RETRYING"} \cup Ended,
               listed.status \in Unfinished, r.status = "RETRYING" => r.attempt <= scene.retries
        PROVE  /\ putJob(j, r) \in JobCommand /\ putJob(j, r).op = "PutJob"
               /\ Follows(putJob(j, r), j) /\ putJob(j, r).record = r
    BY <1>0, <1>3, PutJobShape DEF Follows
  <1>4. ASSUME NEW a \in jobAssignment(j)
        PROVE  deleteAssignment(a) \in JobCommand /\ deleteAssignment(a).op # "PutJob" /\ a \in RunId
    BY RunCommandShape DEF jobAssignment, RunsOf, JobsTypeOK
  <1>5. CASE plan' = <<>> /\ UNCHANGED ids
    BY <1>5, NoCommands
  <1>6. CASE listed.status \in {"QUEUED", "RETRYING"} /\ placeJob(j, listed)
    <2>1. CASE plan' = <<>> /\ UNCHANGED ids
      BY <1>5, <2>1
    <2>3. CASE plan' = <<putJob(j, [listed EXCEPT !.status = "FAILED"])>> /\ UNCHANGED ids
      <3>0. PICK r : r = [listed EXCEPT !.status = "FAILED"]
        OBVIOUS
      <3>1. r \in Job /\ r.slot = listed.slot /\ r.attempt = listed.attempt /\ r.status = "FAILED"
        BY <1>1, <3>0 DEF Job, Ended
      <3>2. /\ putJob(j, r) \in JobCommand /\ putJob(j, r).op = "PutJob"
            /\ Follows(putJob(j, r), j) /\ putJob(j, r).record = r
        BY <1>3, <1>6, <3>1 DEF Unfinished, Ended
      <3>3. plan' \in Seq(JobCommand) /\ Puts(plan') = {putJob(j, r)}
        BY <2>3, <3>0, <3>2, OneCommand
      <3> QED BY <1>0, <2>3, <3>1, <3>2, <3>3
    <2>2. CASE /\ ids.run < MaxRuns /\ ids' = [ids EXCEPT !.run = @ + 1]
               /\ plan' = <<putRun(ids.run + 1, [job |-> j, desired |-> "RUN", obs |-> "UNSPECIFIED"]),
                            putJob(j, [listed EXCEPT !.status = "RUNNING", !.attempt = @ + 1])>>
      <3> DEFINE new == [listed EXCEPT !.status = "RUNNING", !.attempt = @ + 1]
                 placed == [job |-> j, desired |-> "RUN", obs |-> "UNSPECIFIED"]
      <3>1. /\ ids.run < MaxRuns /\ ids' = [ids EXCEPT !.run = @ + 1]
            /\ plan' = <<putRun(ids.run + 1, placed), putJob(j, new)>>
        BY <2>2
      <3>2. new \in Job /\ new.slot = listed.slot /\ new.status = "RUNNING" /\ new.attempt = listed.attempt + 1
        <4>1. PICK n \in Nat : n = listed.attempt + 1
          BY <1>1
        <4>2. new = [listed EXCEPT !.status = "RUNNING", !.attempt = n]
          BY <4>1
        <4> HIDE DEF new
        <4> QED BY <4>1, <4>2 DEF Job
      <3>3. putRun(ids.run + 1, placed) \in JobCommand /\ putRun(ids.run + 1, placed).op # "PutJob"
        <4>1. placed \in Run
          BY DEF Run
        <4>2. ids.run + 1 \in RunId
          <5>1. ids.run \in {0} \cup RunId /\ MaxRuns \in Nat
            BY SceneShape DEF JobsTypeOK
          <5> QED BY <3>1, <5>1 DEF RunId
        <4> QED BY <4>1, <4>2, RunCommandShape
      <3> HIDE DEF new, placed
      <3>4. /\ putJob(j, new) \in JobCommand /\ putJob(j, new).op = "PutJob"
            /\ Follows(putJob(j, new), j) /\ putJob(j, new).record = new
        BY <1>3, <1>6, <3>2 DEF Unfinished
      <3>5. plan' \in Seq(JobCommand) /\ Puts(plan') = {putJob(j, new)}
        BY <3>1, <3>3, <3>4, TwoCommands
      <3> QED BY <1>0, <1>6, <3>1, <3>2, <3>4, <3>5
    <2> QED BY <1>6, <2>1, <2>2, <2>3 DEF placeJob
  <1>7. CASE listed.status = "RUNNING" /\ observeJob(j, listed) /\ UNCHANGED ids
    <2> DEFINE failed == [listed EXCEPT !.status = IF listed.attempt <= scene.retries THEN "RETRYING" ELSE "FAILED"]
               done == [listed EXCEPT !.status = "SUCCEEDED"]
    <2>1. /\ failed \in Job /\ failed.slot = listed.slot /\ failed.attempt = listed.attempt
          /\ failed.status \in {"RETRYING", "FAILED"}
          /\ failed.status = "RETRYING" => failed.attempt <= scene.retries
      BY <1>1 DEF Job, Ended
    <2>2. done \in Job /\ done.slot = listed.slot /\ done.attempt = listed.attempt /\ done.status = "SUCCEEDED"
      BY <1>1 DEF Job, Ended
    <2>3. jobAttemptFailed(j, listed) = <<putJob(j, failed)>>
      BY DEF jobAttemptFailed
    <2> HIDE DEF failed, done
    <2>4. /\ putJob(j, failed) \in JobCommand /\ putJob(j, failed).op = "PutJob"
          /\ Follows(putJob(j, failed), j) /\ putJob(j, failed).record = failed
      BY <1>3, <1>7, <2>1 DEF Unfinished, Ended
    <2>5. /\ putJob(j, done) \in JobCommand /\ putJob(j, done).op = "PutJob"
          /\ Follows(putJob(j, done), j) /\ putJob(j, done).record = done
      BY <1>3, <1>7, <2>2 DEF Unfinished, Ended
    <2>6. CASE jobAssignment(j) = {}
      <3>1. plan' = <<putJob(j, failed)>>
        BY <1>7, <2>3, <2>6 DEF observeJob
      <3>2. plan' \in Seq(JobCommand) /\ Puts(plan') = {putJob(j, failed)}
        BY <2>4, <3>1, OneCommand
      <3> QED BY <1>0, <1>7, <2>1, <2>4, <3>2
    <2>7. CASE jobAssignment(j) # {}
      <3>1. PICK a \in jobAssignment(j) : a = CHOOSE x \in jobAssignment(j) : TRUE
        BY <2>7
      <3>2. CASE run[a].obs = "STOPPED"
        <4>1. plan' = <<deleteAssignment(a), putJob(j, done)>>
          BY <1>7, <2>7, <3>1, <3>2 DEF observeJob, done
        <4>2. plan' \in Seq(JobCommand) /\ Puts(plan') = {putJob(j, done)}
          BY <1>4, <2>5, <4>1, TwoCommands
        <4> QED BY <1>0, <1>7, <2>2, <2>5, <4>2
      <3>3. CASE run[a].obs = "FAILED"
        <4>1. plan' = <<deleteAssignment(a)>> \o <<putJob(j, failed)>>
          BY <1>7, <2>3, <2>7, <3>1, <3>3 DEF observeJob
        <4>2. plan' \in Seq(JobCommand) /\ Puts(plan') = {putJob(j, failed)}
          BY <1>4, <2>4, <4>1, TwoCommands
        <4> QED BY <1>0, <1>7, <2>1, <2>4, <4>2
      <3>4. CASE run[a].obs \notin {"STOPPED", "FAILED"}
        BY <1>5, <1>7, <2>7, <3>1, <3>4 DEF observeJob
      <3> QED BY <3>2, <3>3, <3>4
    <2> QED BY <2>6, <2>7
  <1>8. CASE reapJobAssignment(j) /\ UNCHANGED ids
    <2>1. CASE jobAssignment(j) = {}
      BY <1>5, <1>8, <2>1 DEF reapJobAssignment
    <2>2. CASE jobAssignment(j) # {}
      <3>1. PICK a \in jobAssignment(j) : a = CHOOSE x \in jobAssignment(j) : TRUE
        BY <2>2
      <3>2. plan' = <<deleteAssignment(a)>>
        BY <1>8, <2>2, <3>1 DEF reapJobAssignment
      <3>3. plan' \in Seq(JobCommand) /\ Puts(plan') = {}
        BY <1>4, <3>2, OneCommand
      <3> QED BY <1>8, <3>3
    <2> QED BY <2>1, <2>2
  <1> QED BY <1>2, <1>6, <1>7, <1>8

(***************************************************************************)
(* Types                                                                   *)
(***************************************************************************)
Ids == [job : {0} \cup JobId, run : {0} \cup RunId]

LEMMA IdsShape ==
    ASSUME JobsTypeOK
    PROVE  /\ ids \in Ids /\ ids.job \in Nat /\ ids.run \in Nat /\ ids.job <= MaxJobs /\ ids.run <= MaxRuns
  <1>1. MaxJobs \in Nat /\ MaxRuns \in Nat
    BY SceneShape DEF JobsTypeOK
  <1>2. ids \in Ids
    BY DEF JobsTypeOK, Ids
  <1>3. ids.job \in {0} \cup JobId /\ ids.run \in {0} \cup RunId
    BY <1>2 DEF Ids
  <1> QED BY <1>1, <1>2, <1>3 DEF JobId, RunId

LEMMA NewJobId ==
    ASSUME JobsTypeOK, ids.job < scene.jobs, ids' = [ids EXCEPT !.job = @ + 1]
    PROVE  /\ ids' \in Ids /\ ids.job + 1 \in JobId /\ ids'.job = ids.job + 1 /\ ids'.run = ids.run
  <1>1. ids \in Ids /\ ids.job \in Nat /\ scene.jobs \in Nat /\ scene.jobs <= MaxJobs /\ MaxJobs \in Nat
    BY IdsShape, SceneShape DEF JobsTypeOK
  <1>2. PICK n \in JobId : n = ids.job + 1
    BY <1>1 DEF JobId
  <1>3. ids' = [ids EXCEPT !.job = n]
    BY <1>2
  <1> QED BY <1>1, <1>2, <1>3 DEF Ids

LEMMA NewRunId ==
    ASSUME JobsTypeOK, ids.run < MaxRuns, ids' = [ids EXCEPT !.run = @ + 1]
    PROVE  ids' \in Ids /\ ids'.run = ids.run + 1 /\ ids'.job = ids.job
  <1>1. ids \in Ids /\ ids.run \in Nat /\ MaxRuns \in Nat
    BY IdsShape, SceneShape DEF JobsTypeOK
  <1>2. PICK n \in RunId : n = ids.run + 1
    BY <1>1 DEF RunId
  <1>3. ids' = [ids EXCEPT !.run = n]
    BY <1>2
  <1> QED BY <1>1, <1>2, <1>3 DEF Ids

\* The run of a slot is enqueued.
LEMMA Enqueues ==
    ASSUME JobsTypeOK, NEW slot \in Nat, ids.job < scene.jobs, enqueueCronJob(slot)
    PROVE  /\ ids' \in Ids /\ ids'.job = ids.job + 1 /\ ids'.run = ids.run /\ ids.job + 1 \in JobId
           /\ plan' \in Seq(JobCommand)
           /\ Puts(plan') = {putJob(ids.job + 1, [status |-> "QUEUED", attempt |-> 0, slot |-> slot])}
           /\ jobPass' = "cron"
  <1> DEFINE r == [status |-> "QUEUED", attempt |-> 0, slot |-> slot]
  <1>1. r \in Job
    BY DEF Job
  <1>2. ids' = [ids EXCEPT !.job = @ + 1] /\ plan' = <<putJob(ids.job + 1, r)>> /\ jobPass' = "cron"
    BY DEF enqueueCronJob
  <1> HIDE DEF r
  <1>3. ids' \in Ids /\ ids.job + 1 \in JobId /\ ids'.job = ids.job + 1 /\ ids'.run = ids.run
    BY <1>2, NewJobId
  <1>4. putJob(ids.job + 1, r) \in JobCommand /\ putJob(ids.job + 1, r).op = "PutJob"
    BY <1>1, <1>3, PutJobShape
  <1>5. plan' \in Seq(JobCommand) /\ Puts(plan') = {putJob(ids.job + 1, r)}
    BY <1>2, <1>4, OneCommand
  <1> QED BY <1>2, <1>3, <1>5 DEF r

\* The first command of a sequence is applied.
LEMMA Applies ==
    ASSUME JobsTypeOK, NEW s \in Seq(JobCommand), s # <<>>, applyJobCommand(Head(s))
    PROVE  /\ job' \in [JobId -> Job] /\ run' \in [RunId -> Run] /\ Tail(s) \in Seq(JobCommand)
           /\ job' # job => Head(s) \in Puts(s)
           /\ Head(s) \in Puts(s) => job' = [job EXCEPT ![Head(s).id] = Head(s).record]
  <1>1. Head(s) \in JobCommand /\ Tail(s) \in Seq(JobCommand)
    BY SendsOne
  <1>2. CASE Head(s).op = "PutJob"
    <2>1. Head(s).id \in JobId /\ Head(s).record \in Job
      BY <1>1, <1>2, CommandShape
    <2>2. job' = [job EXCEPT ![Head(s).id] = Head(s).record] /\ run' = run
      BY <1>2 DEF applyJobCommand
    <2> QED BY <1>1, <1>2, <2>1, <2>2, SendsOne DEF JobsTypeOK
  <1>3. CASE Head(s).op # "PutJob"
    <2>1. Head(s).id \in RunId /\ Head(s).record \in Run
      BY <1>1, <1>3, CommandShape
    <2>2. run' = [run EXCEPT ![Head(s).id] = Head(s).record] /\ job' = job
      BY <1>3 DEF applyJobCommand
    <2> QED BY <1>1, <1>3, <2>1, <2>2 DEF JobsTypeOK, Puts
  <1> QED BY <1>2, <1>3

LEMMA Mishaps ==
    ASSUME JobsTypeOK, NEW kind \in MishapKind, Mishap(kind)
    PROVE  /\ mishaps' \in Seq(MishapKind) /\ Len(mishaps') = Len(mishaps) + 1 /\ Len(mishaps) \in Nat
           /\ \A i \in 1..Len(mishaps) : mishaps'[i] = mishaps[i]
           /\ mishaps'[Len(mishaps) + 1] = kind
  BY DEF Mishap, JobsTypeOK

LEMMA OrphanRuns ==
    ASSUME run \in [RunId -> Run], reconcileOrphans
    PROVE  run' \in [RunId -> Run]
  <1>1. ASSUME NEW a \in RunId
        PROVE  {run[a], NoRun, [run[a] EXCEPT !.desired = "STOP"]} \subseteq Run
    <2>1. run[a] \in Run
      OBVIOUS
    <2> QED BY <2>1 DEF Run, NoRun
  <1> QED BY <1>1 DEF reconcileOrphans

LEMMA DueLater ==
    ASSUME JobsTypeOK
    PROVE  Due \in Nat /\ Due > Horizon /\ Horizon \in Nat
  <1>1. Horizon \in Nat
    BY SceneShape DEF Horizon, JobsTypeOK
  <1>2. Due = NextSlot(Horizon)
    BY DEF Due, Horizon
  <1> QED BY <1>1, <1>2, SlotAfter

LEMMA TypeNext ==
    ASSUME JobsInv, [JobsNext]_jobsVars
    PROVE  JobsTypeOK'
  <1>0. JobsTypeOK /\ ids.job <= scene.jobs
    BY DEF JobsInv
  <1>t. /\ job \in [JobId -> Job] /\ run \in [RunId -> Run] /\ ids \in Ids /\ scene \in Scenes
        /\ jobEnv \in {"new", "released", "gone"}
        /\ capacity \in BOOLEAN /\ now \in 0..scene.ticks /\ elapsed \subseteq JobId
        /\ cronEpoch \in 0..scene.ticks /\ cronLast \in 0..scene.ticks
        /\ jobPass \in {"cancel", "cron", "jobs"} /\ listing \in [JobId -> Job]
        /\ plan \in Seq(JobCommand) /\ canceling \in Seq(JobCommand)
        /\ cancels \in 0..scene.cancels /\ mishaps \in Seq(MishapKind)
    BY <1>0 DEF JobsTypeOK, Ids
  <1>s. /\ scene.ticks \in Nat /\ scene.cancels \in Nat /\ ids.job \in Nat /\ scene.jobs \in Nat
    BY <1>0, IdsShape, SceneShape DEF JobsTypeOK
  <1>n. NoListing \in [JobId -> Job] /\ <<>> \in Seq(JobCommand)
    BY NoJobShape, NoCommands DEF NoListing
  <1> USE DEF JobsTypeOK, Ids, jobsVars, jobTables, jobWorld, jobLeader, jobClient
  <1>1. CASE reconcileCron
    <2>1. CASE Due + Jitter > now \/ ids.job = scene.jobs
      BY <1>1, <1>t, <2>1 DEF reconcileCron, ListJobs
    <2>2. CASE ~(Due + Jitter > now \/ ids.job = scene.jobs)
      <3>1. cronLast' = Due /\ fireCron(Due) /\ UNCHANGED <<job, run, scene, jobEnv, capacity, now, elapsed, cronEpoch, canceling, cancels, mishaps>>
        BY <1>1, <2>2 DEF reconcileCron
      <3>2. Due \in 0..scene.ticks /\ ids.job < scene.jobs
        <4>1. Due \in Nat /\ Jitter \in Nat /\ now \in 0..scene.ticks
          BY <1>0, <1>t, DueLater, JobsAssumption
        <4>2. ~(Due + Jitter > now) /\ ids.job # scene.jobs
          BY <2>2
        <4> QED BY <1>0, <1>s, <4>1, <4>2
      <3>3. /\ ids' \in Ids /\ plan' \in Seq(JobCommand) /\ jobPass' \in {"cancel", "cron", "jobs"}
            /\ listing' \in [JobId -> Job]
        <4>1. CASE enqueueCronJob(Due) /\ UNCHANGED listing
          <5>1. Due \in Nat
            BY <1>0, DueLater
          <5> QED BY <1>0, <1>t, <3>2, <4>1, <5>1, Enqueues
        <4>2. CASE /\ jobPass' \in {"cancel", "cron"} /\ UNCHANGED <<plan, ids>>
                   /\ \/ UNCHANGED listing
                      \/ listing' = [j \in JobId |-> IF j \in activeCronJobs THEN job[j] ELSE NoJob]
          BY <1>t, <4>2, NoJobShape
        <4> QED BY <3>1, <4>1, <4>2 DEF fireCron
      <3> QED BY <1>t, <3>1, <3>2, <3>3
    <2> QED BY <2>1, <2>2
  <1>2. CASE replaceCron
    <2>1. UNCHANGED <<job, run, scene, jobEnv, capacity, now, elapsed, cronEpoch, cronLast, canceling, cancels, mishaps>>
      BY <1>2 DEF replaceCron
    <2>2. CASE listing = NoListing /\ enqueueCronJob(cronLast) /\ UNCHANGED listing
      <3>1. ids.job < scene.jobs /\ cronLast \in Nat
        BY <1>2, <1>t, <1>s DEF JobsInv, PlanInv, replaceCron
      <3> QED BY <1>0, <1>t, <2>1, <2>2, <3>1, Enqueues
    <2>3. ASSUME NEW j \in JobId, Turn(j), plan' = CancelCommands(j, listing[j]), UNCHANGED <<ids, jobPass>>
          PROVE  JobsTypeOK'
      <3>1. plan' \in Seq(JobCommand)
        BY <1>t, <2>3, CancelShape
      <3>2. listing' \in [JobId -> Job]
        BY <1>t, <2>3, NoJobShape DEF Turn
      <3> QED BY <1>t, <2>1, <2>3, <3>1, <3>2
    <2> QED BY <1>2, <2>2, <2>3 DEF replaceCron
  <1>3. CASE reconcileJobs
    BY <1>3, <1>t DEF reconcileJobs, ListJobs
  <1>4. CASE SendCommand
    <2>1. job' \in [JobId -> Job] /\ run' \in [RunId -> Run] /\ plan' \in Seq(JobCommand)
      BY <1>4, <1>0, <1>t, Applies DEF SendCommand
    <2>2. elapsed' \subseteq JobId
      BY <1>4, <1>t DEF SendCommand, Backoff
    <2> QED BY <1>4, <1>t, <2>1, <2>2 DEF SendCommand
  <1>5. ASSUME NEW j \in JobId, reconcileJob(j) PROVE JobsTypeOK'
    <2>1. listing[j].status # "ABSENT"
      BY <1>5 DEF reconcileJob, Turn, JobsInv, RecordsInv
    <2>2. plan' \in Seq(JobCommand) /\ ids' \in Ids
      BY <1>0, <1>5, <1>t, <2>1, DriveFacts, NewRunId
    <2>3. listing' \in [JobId -> Job]
      BY <1>5, <1>t, NoJobShape DEF reconcileJob, Turn
    <2> QED BY <1>5, <1>t, <2>2, <2>3 DEF reconcileJob
  <1>6. CASE RunJob
    <2> DEFINE r == [status |-> "QUEUED", attempt |-> 0, slot |-> 0]
    <2>1. r \in Job
      BY DEF Job
    <2>2. /\ ids.job < scene.jobs /\ ids' = [ids EXCEPT !.job = @ + 1] /\ job' = [job EXCEPT ![ids.job + 1] = r]
          /\ UNCHANGED <<run, scene, jobEnv, capacity, now, elapsed, cronEpoch, cronLast, jobPass, listing, plan,
                         canceling, cancels, mishaps>>
      BY <1>6, <1>s DEF RunJob
    <2> HIDE DEF r
    <2>3. ids' \in Ids /\ job' \in [JobId -> Job]
      BY <1>0, <1>t, <2>1, <2>2, NewJobId
    <2> QED BY <1>t, <2>2, <2>3
  <1>7. CASE SendCancel
    <2>1. job' \in [JobId -> Job] /\ run' \in [RunId -> Run] /\ canceling' \in Seq(JobCommand)
      BY <1>7, <1>0, <1>t, Applies DEF SendCancel
    <2> QED BY <1>7, <1>t, <2>1 DEF SendCancel
  <1>8. ASSUME NEW j \in JobId, CancelJob(j) PROVE JobsTypeOK'
    <2>1. canceling' \in Seq(JobCommand)
      BY <1>8, <1>t, CancelShape DEF CancelJob
    <2>2. cancels' \in 0..scene.cancels
      BY <1>8, <1>t, <1>s DEF CancelJob
    <2> QED BY <1>8, <1>t, <2>1, <2>2 DEF CancelJob
  <1>9. ASSUME NEW j \in JobId, BackoffPasses(j) PROVE JobsTypeOK'
    BY <1>9, <1>t DEF BackoffPasses
  <1>10. ASSUME NEW a \in RunId, FinishRun(a) \/ StopRun(a) PROVE JobsTypeOK'
    <2>1. PICK s \in {"STOPPED", "FAILED"} : run' = [run EXCEPT ![a].obs = s]
      BY <1>10 DEF FinishRun, StopRun
    <2>2. run' \in [RunId -> Run]
      <3>1. run[a] \in Run
        BY <1>t
      <3>2. [run[a] EXCEPT !.obs = s] \in Run
        BY <3>1 DEF Run
      <3>3. run' = [run EXCEPT ![a] = [run[a] EXCEPT !.obs = s]]
        BY <2>1
      <3> QED BY <1>t, <3>2, <3>3
    <2> QED BY <1>10, <1>t, <2>2 DEF FinishRun, StopRun
  <1>11. CASE JobsTick
    <2>1. now' \in 0..scene.ticks
      BY <1>11, <1>t, <1>s DEF JobsTick
    <2> QED BY <1>11, <1>t, <2>1 DEF JobsTick
  <1>12. CASE LoseCapacity \/ RegainCapacity
    <2>1. mishaps' \in Seq(MishapKind)
      BY <1>12, <1>0, <1>t, Mishaps DEF LoseCapacity, RegainCapacity, MishapKind
    <2>2. capacity' \in BOOLEAN
      <3>1. capacity' = TRUE \/ capacity' = FALSE
        BY <1>12 DEF LoseCapacity, RegainCapacity
      <3> QED BY <3>1, Zenon
    <2>3. UNCHANGED <<job, run, ids, scene, jobEnv, now, elapsed, cronEpoch, cronLast, jobPass, listing, plan, canceling, cancels>>
      BY <1>12 DEF LoseCapacity, RegainCapacity
    <2> QED BY <1>t, <2>1, <2>2, <2>3
  <1>13. CASE SwallowedError
    <2>1. mishaps' \in Seq(MishapKind) /\ plan' \in Seq(JobCommand)
      BY <1>13, <1>0, <1>t, Mishaps, SendsOne DEF SwallowedError, MishapKind
    <2> QED BY <1>13, <1>t, <2>1 DEF SwallowedError
  <1>14. CASE JobsFailover
    <2>1. mishaps' \in Seq(MishapKind)
      BY <1>14, <1>0, Mishaps DEF JobsFailover, MishapKind
    <2>2. cronLast' \in 0..scene.ticks /\ cronEpoch' \in 0..scene.ticks
      BY <1>14, <1>t, <1>s DEF JobsFailover, resetCron
    <2>3. canceling' \in Seq(JobCommand)
      BY <1>14, <1>t, <1>n DEF JobsFailover
    <2> QED BY <1>14, <1>t, <1>n, <2>1, <2>2, <2>3 DEF JobsFailover
  <1>15. CASE UNCHANGED jobsVars
    BY <1>15, <1>t
  <1>16. CASE reconcileOrphans
    <2>1. mishaps' \in Seq(MishapKind)
      BY <1>16, <1>0, <1>t, Mishaps DEF reconcileOrphans, MishapKind
    <2>2. run' \in [RunId -> Run]
      BY <1>16, <1>t, OrphanRuns
    <2> QED BY <1>16, <1>t, <2>1, <2>2 DEF reconcileOrphans
  <1>17. CASE FirstRelease \/ DeleteEnvironment
    BY <1>17, <1>t DEF FirstRelease, DeleteEnvironment
  <1> QED
    BY <1>1, <1>2, <1>3, <1>4, <1>5, <1>6, <1>7, <1>8, <1>9, <1>10, <1>11, <1>12, <1>13, <1>14, <1>15, <1>16, <1>17
    DEF JobsNext, JobsEvaluate

(***************************************************************************)
(* A slot is fired once                                                    *)
(***************************************************************************)
\* Every job keeps its slot and stays, or is not there yet.
SameJobs ==
    \A j \in JobId : /\ job'[j].slot = job[j].slot
                     /\ job'[j].status = "ABSENT" <=> job[j].status = "ABSENT"
                     /\ job'[j].status = "ABSENT" => job'[j] = job[j]

\* A step that creates nothing and leaves the leader's cron alone.
LEMMA QuietStep ==
    ASSUME JobsInv, JobsTypeOK', UNCHANGED <<ids, scene, cronEpoch, cronLast, jobPass>>, now' >= now, SameJobs,
           \A j \in JobId : listing'[j] \in {listing[j], NoJob},
           Puts(plan') \subseteq Puts(plan),
           \A c \in Puts(canceling') : c \in Puts(canceling) \/ (Rewrites(c) /\ c.record.status = "CANCELED")
    PROVE  JobsInv'
  <1>0. JobsTypeOK /\ plan \in Seq(JobCommand) /\ canceling \in Seq(JobCommand)
    BY DEF JobsInv, JobsTypeOK
  <1>1. ASSUME NEW c, c.id \in JobId, Rewrites(c) PROVE Rewrites(c)'
    BY <1>1 DEF Rewrites, SameJobs
  <1>2. ASSUME NEW c, c.id \in JobId, Creates(c) PROVE Creates(c)'
    BY <1>2, NoJobShape DEF Creates, SameJobs
  <1>3. SlotFree => SlotFree'
    BY DEF SlotFree, SameJobs
  <1>4. RecordsInv'
    <2>1. ASSUME NEW j \in JobId
          PROVE  /\ job'[j].status = "ABSENT" => job'[j] = NoJob
                 /\ j > ids'.job => job'[j] = NoJob
                 /\ listing'[j] # NoJob => /\ job'[j].status # "ABSENT" /\ listing'[j].status # "ABSENT"
                                           /\ listing'[j].slot = job'[j].slot
      BY NoJobShape DEF JobsInv, RecordsInv, SameJobs
    <2>2. ASSUME NEW c \in Puts(canceling') PROVE Rewrites(c)' /\ c.record.status = "CANCELED"
      <3>1. c.id \in JobId
        BY PutsTyped DEF JobsTypeOK
      <3>2. Rewrites(c) /\ c.record.status = "CANCELED"
        BY DEF JobsInv, RecordsInv
      <3> QED BY <1>1, <3>1, <3>2
    <2> QED BY <2>1, <2>2 DEF RecordsInv
  <1>5. PlanInv'
    <2>1. \A c \in Puts(plan') : c.id \in JobId /\ c \in Puts(plan)
      BY <1>0, PutsTyped
    <2> QED BY <1>1, <1>2, <1>3, <2>1 DEF JobsInv, PlanInv
  <1>6. SlotsInv'
    <2>1. /\ now \in Nat /\ cronEpoch \in Nat /\ cronLast \in Nat
          /\ now' \in Nat
      BY <1>0, SceneShape DEF JobsTypeOK
    <2>2. Horizon' = Horizon
      BY DEF Horizon
    <2> QED BY <2>1, <2>2 DEF JobsInv, SlotsInv, SameJobs
  <1>7. SlotFiredOnce'
    BY DEF JobsInv, SlotFiredOnce, SameJobs
  <1> QED BY <1>4, <1>5, <1>6, <1>7 DEF JobsInv

\* A job that exists is overwritten by a copy of it.
LEMMA RewriteKeeps ==
    ASSUME JobsInv, JobsTypeOK', NEW c, c.id \in JobId, Rewrites(c), job' = [job EXCEPT ![c.id] = c.record]
    PROVE  SameJobs
  BY DEF SameJobs, Rewrites, JobsInv, JobsTypeOK

\* The jobs are listed, or their copies let go.
LEMMA ListStep ==
    ASSUME JobsInv, JobsTypeOK', UNCHANGED <<job, ids, scene, now>>, Puts(plan') = {}, jobPass' # "cancel",
           Puts(canceling') \subseteq Puts(canceling), \A j \in JobId : listing'[j] \in {job[j], NoJob},
           \A j \in JobId : job[j].slot <= Horizon', cronLast' <= now, cronEpoch' <= now
    PROVE  JobsInv'
  <1>1. RecordsInv'
    <2>1. \A c \in Puts(canceling') : Rewrites(c)' /\ c.record.status = "CANCELED"
      BY DEF JobsInv, RecordsInv, Rewrites
    <2> QED BY <2>1, NoJobShape DEF JobsInv, RecordsInv
  <1>2. PlanInv' /\ SlotsInv' /\ SlotFiredOnce'
    BY DEF JobsInv, PlanInv, SlotsInv, SlotFiredOnce
  <1> QED BY <1>1, <1>2 DEF JobsInv

LEMMA MoreIds ==
    ASSUME JobsInv, UNCHANGED <<job, listing, canceling>>, ids'.job = ids.job + 1
    PROVE  RecordsInv'
  <1>1. ids.job \in Nat /\ canceling \in Seq(JobCommand)
    BY IdsShape DEF JobsInv, JobsTypeOK
  <1>2. ASSUME NEW c \in Puts(canceling) PROVE Rewrites(c)' /\ c.record.status = "CANCELED"
    <2>1. Rewrites(c) /\ c.record.status = "CANCELED" /\ c.id \in JobId
      BY <1>1, PutsTyped DEF JobsInv, RecordsInv
    <2>2. c.id \in Nat
      BY <2>1 DEF JobId
    <2> QED BY <1>1, <2>1, <2>2 DEF Rewrites
  <1>3. ASSUME NEW j \in JobId, j > ids'.job PROVE job[j] = NoJob
    <2>1. j > ids.job
      BY <1>1, <1>3 DEF JobId
    <2> QED BY <2>1 DEF JobsInv, RecordsInv
  <1> QED BY <1>2, <1>3 DEF JobsInv, RecordsInv

\* A slot that is due is taken.
LEMMA SlotTaken ==
    ASSUME JobsInv, ~(Due + Jitter > now \/ ids.job = scene.jobs), cronLast' = Due,
           UNCHANGED <<job, cronEpoch, now, scene>>
    PROVE  /\ SlotFree' /\ Due <= now /\ Horizon' = Due /\ ids.job < scene.jobs /\ Due \in Nat
           /\ \A j \in JobId : job[j].slot <= Due
  <1>1. /\ Due \in Nat /\ Due > Horizon /\ Horizon \in Nat /\ Jitter \in Nat /\ now \in Nat
        /\ cronEpoch \in Nat /\ cronLast \in Nat /\ ids.job \in Nat /\ scene.jobs \in Nat
    <2>1. JobsTypeOK
      BY DEF JobsInv
    <2>2. Due \in Nat /\ Due > Horizon /\ Horizon \in Nat /\ Jitter \in Nat
      BY <2>1, DueLater, JobsAssumption
    <2>3. ids.job \in Nat /\ scene.jobs \in Nat /\ scene.ticks \in Nat
      BY <2>1, SceneShape, IdsShape DEF JobsTypeOK
    <2>4. now \in 0..scene.ticks /\ cronEpoch \in 0..scene.ticks /\ cronLast \in 0..scene.ticks
      BY <2>1 DEF JobsTypeOK
    <2> QED BY <2>2, <2>3, <2>4
  <1>2. Due <= now /\ ids.job < scene.jobs
    BY <1>1 DEF JobsInv
  <1>3. Due > cronEpoch
    BY <1>1 DEF Horizon
  <1>4. ASSUME NEW j \in JobId PROVE job[j].slot < Due
    <2>1. job[j].slot \in Nat /\ job[j].slot <= Horizon
      BY DEF JobsInv, JobsTypeOK, Job, SlotsInv
    <2> QED BY <1>1, <2>1
  <1>5. SlotFree'
    BY <1>1, <1>3, <1>4 DEF SlotFree
  <1>6. \A j \in JobId : job[j].slot <= Due /\ Horizon' = Due
    BY <1>1, <1>3, <1>4 DEF Horizon, JobsInv, JobsTypeOK, Job
  <1> QED BY <1>1, <1>2, <1>3, <1>5, <1>6 DEF Horizon

LEMMA InvNext ==
    ASSUME JobsInv, [JobsNext]_jobsVars
    PROVE  JobsInv'
  <1>0. JobsTypeOK /\ JobsTypeOK' /\ plan \in Seq(JobCommand) /\ canceling \in Seq(JobCommand) /\ now \in Nat
        /\ ids.job \in Nat /\ scene.jobs \in Nat
    <2>1. JobsTypeOK /\ JobsTypeOK'
      BY TypeNext DEF JobsInv
    <2>2. scene.ticks \in Nat /\ scene.jobs \in Nat /\ ids.job \in Nat
      BY <2>1, SceneShape, IdsShape DEF JobsTypeOK
    <2>3. now \in 0..scene.ticks /\ plan \in Seq(JobCommand) /\ canceling \in Seq(JobCommand)
      BY <2>1 DEF JobsTypeOK
    <2> QED BY <2>1, <2>2, <2>3
  <1>p. \A c \in Puts(plan) : c.id \in JobId /\ c.record \in Job
    BY <1>0, PutsTyped
  <1>q. \A c \in Puts(canceling) : c.id \in JobId /\ c.record \in Job
    BY <1>0, PutsTyped
  <1>s. job' = job => SameJobs
    BY DEF SameJobs
  <1> USE DEF jobsVars, jobTables, jobWorld, jobLeader, jobClient
  <1>1. CASE reconcileCron
    <2>0. /\ jobPass = "jobs" /\ listing = NoListing /\ plan = <<>>
          /\ UNCHANGED <<job, run, scene, now, cronEpoch, canceling, mishaps>>
      BY <1>1 DEF reconcileCron
    <2>1. CASE Due + Jitter > now \/ ids.job = scene.jobs
      <3>1. listing' = job /\ jobPass' = "jobs" /\ UNCHANGED <<cronLast, plan, ids>>
        BY <1>1, <2>1 DEF reconcileCron, ListJobs
      <3> QED BY <1>0, <2>0, <3>1, ListStep, NoCommands DEF JobsInv, SlotsInv, Horizon
    <2>2. CASE ~(Due + Jitter > now \/ ids.job = scene.jobs)
      <3>1. cronLast' = Due /\ fireCron(Due)
        BY <1>1, <2>2 DEF reconcileCron
      <3>2. /\ SlotFree' /\ Due <= now /\ Horizon' = Due /\ ids.job < scene.jobs /\ Due \in Nat
            /\ \A j \in JobId : job[j].slot <= Due
        BY <2>0, <2>2, <3>1, SlotTaken
      <3>3. SlotsInv' /\ SlotFiredOnce'
        BY <2>0, <3>1, <3>2 DEF JobsInv, SlotsInv, SlotFiredOnce
      <3>4. CASE enqueueCronJob(Due) /\ UNCHANGED listing
        <4> DEFINE r == [status |-> "QUEUED", attempt |-> 0, slot |-> Due]
        <4>1. /\ ids'.job = ids.job + 1 /\ ids.job + 1 \in JobId /\ Puts(plan') = {putJob(ids.job + 1, r)}
              /\ jobPass' = "cron"
          BY <1>0, <3>2, <3>4, Enqueues
        <4>2. RecordsInv'
          BY <2>0, <3>4, <4>1, MoreIds
        <4>3. ASSUME NEW c \in Puts(plan') PROVE Creates(c)'
          <5>1. r \in Job
            BY <3>2 DEF Job
          <5>2. c = putJob(ids.job + 1, r) /\ c.id = ids.job + 1
            BY <4>1, <5>1, PutJobShape
          <5>3. job[ids.job + 1] = NoJob
            BY <1>0, <4>1 DEF JobsInv, RecordsInv
          <5> QED BY <1>0, <2>0, <3>1, <4>1, <5>2, <5>3 DEF Creates
        <4>4. PlanInv'
          BY <3>2, <4>1, <4>3 DEF PlanInv
        <4> QED BY <1>0, <2>0, <3>2, <3>3, <4>1, <4>2, <4>4 DEF JobsInv
      <3>5. CASE jobPass' = "cron" /\ UNCHANGED <<plan, ids, listing>>
        <4>1. \A j \in JobId : listing'[j] = NoJob
          BY <2>0, <3>5 DEF NoListing
        <4> QED BY <1>0, <2>0, <3>1, <3>2, <3>3, <3>5, <4>1, ListStep, NoCommands DEF SlotsInv
      <3>6. CASE /\ scene.policy = "REPLACE" /\ jobPass' = "cancel" /\ UNCHANGED <<plan, ids>>
                 /\ listing' = [j \in JobId |-> IF j \in activeCronJobs THEN job[j] ELSE NoJob]
        <4>1. RecordsInv'
          <5>1. \A j \in JobId : listing'[j] \in {job[j], NoJob}
            BY <3>6
          <5>2. ASSUME NEW j \in JobId
                PROVE  listing'[j] # NoJob => /\ job'[j].status # "ABSENT" /\ listing'[j].status # "ABSENT"
                                              /\ listing'[j].slot = job'[j].slot
            BY <2>0, <5>1 DEF JobsInv, RecordsInv
          <5>3. \A c \in Puts(canceling') : Rewrites(c)' /\ c.record.status = "CANCELED"
            BY <2>0, <3>6 DEF JobsInv, RecordsInv, Rewrites
          <5> QED BY <2>0, <3>6, <5>2, <5>3 DEF JobsInv, RecordsInv
        <4>2. PlanInv'
          BY <2>0, <3>2, <3>6, NoCommands DEF PlanInv
        <4> QED BY <1>0, <2>0, <3>3, <3>6, <4>1, <4>2 DEF JobsInv
      <3> QED BY <3>1, <3>4, <3>5, <3>6 DEF fireCron
    <2> QED BY <2>1, <2>2
  <1>2. CASE replaceCron
    <2>0. /\ jobPass = "cancel" /\ plan = <<>>
          /\ UNCHANGED <<job, run, scene, now, cronEpoch, cronLast, canceling, mishaps>>
          /\ SlotFree /\ SlotFree' /\ ids.job < scene.jobs /\ scene.policy = "REPLACE"
      BY <1>2 DEF replaceCron, JobsInv, PlanInv, SlotFree
    <2>1. SlotsInv' /\ SlotFiredOnce'
      BY <2>0 DEF JobsInv, SlotsInv, SlotFiredOnce, Horizon
    <2>2. CASE listing = NoListing /\ enqueueCronJob(cronLast) /\ UNCHANGED listing
      <3> DEFINE r == [status |-> "QUEUED", attempt |-> 0, slot |-> cronLast]
      <3>0. cronLast \in Nat
        BY <1>0, SceneShape DEF JobsTypeOK
      <3>1. /\ ids'.job = ids.job + 1 /\ ids.job + 1 \in JobId /\ Puts(plan') = {putJob(ids.job + 1, r)}
            /\ jobPass' = "cron"
        BY <1>0, <2>0, <2>2, <3>0, Enqueues
      <3>2. RecordsInv'
        BY <2>0, <2>2, <3>1, MoreIds
      <3>3. ASSUME NEW c \in Puts(plan') PROVE Creates(c)'
        <4>1. r \in Job
          BY <3>0 DEF Job
        <4>2. c = putJob(ids.job + 1, r) /\ c.id = ids.job + 1
          BY <3>1, <4>1, PutJobShape
        <4>3. job[ids.job + 1] = NoJob
          BY <1>0, <3>1 DEF JobsInv, RecordsInv
        <4> QED BY <1>0, <2>0, <3>1, <4>2, <4>3 DEF Creates
      <3>4. PlanInv'
        BY <2>0, <3>1, <3>3 DEF PlanInv
      <3> QED BY <1>0, <2>0, <2>1, <3>1, <3>2, <3>4 DEF JobsInv
    <2>3. ASSUME NEW j \in JobId, Turn(j), plan' = CancelCommands(j, listing[j]), UNCHANGED <<ids, jobPass>>
          PROVE  JobsInv'
      <3>1. listing[j] \in Job /\ listing[j] # NoJob /\ listing' = [listing EXCEPT ![j] = NoJob]
        BY <1>0, <2>3 DEF Turn, JobsTypeOK
      <3>2. PICK r \in Job : r = [listing[j] EXCEPT !.status = "CANCELED"]
        BY <3>1 DEF Job, Ended
      <3>3. Puts(plan') = {putJob(j, r)} /\ r.status = "CANCELED" /\ r.slot = listing[j].slot
        BY <1>0, <2>3, <3>1, <3>2, CancelShape DEF Job, JobsTypeOK
      <3>4. ASSUME NEW c \in Puts(plan') PROVE Rewrites(c)' /\ c.record.status = "CANCELED"
        <4>1. c.id = j /\ c.record = r
          BY <3>3, PutJobShape
        <4>2. job[j].status # "ABSENT" /\ listing[j].slot = job[j].slot /\ j <= ids.job
          BY <1>0, <3>1, NoJobShape DEF JobsInv, RecordsInv, JobId
        <4> QED BY <2>0, <2>3, <3>3, <4>1, <4>2 DEF Rewrites
      <3>5. PlanInv'
        BY <2>0, <2>3, <3>3, <3>4 DEF PlanInv
      <3>6. RecordsInv'
        <4>1. \A i \in JobId : listing'[i] \in {listing[i], NoJob}
          BY <1>0, <3>1 DEF JobsTypeOK
        <4>2. \A c \in Puts(canceling') : Rewrites(c)' /\ c.record.status = "CANCELED"
          BY <2>0, <2>3 DEF JobsInv, RecordsInv, Rewrites
        <4> QED BY <2>0, <2>3, <4>1, <4>2 DEF JobsInv, RecordsInv
      <3> QED BY <1>0, <2>0, <2>1, <2>3, <3>5, <3>6 DEF JobsInv
    <2> QED BY <1>2, <2>2, <2>3 DEF replaceCron
  <1>3. CASE reconcileJobs
    <2>1. /\ jobPass' = "jobs" /\ listing' = job /\ plan = <<>>
          /\ UNCHANGED <<job, ids, scene, now, cronEpoch, cronLast, canceling, plan>>
      BY <1>3 DEF reconcileJobs, ListJobs
    <2> QED BY <1>0, <2>1, ListStep, NoCommands DEF JobsInv, SlotsInv, Horizon
  <1>4. CASE SendCommand
    <2>0. PICK c : c = Head(plan)
      OBVIOUS
    <2>1. /\ plan # <<>> /\ applyJobCommand(c) /\ plan' = Tail(plan)
          /\ UNCHANGED <<ids, scene, now, cronEpoch, cronLast, jobPass, listing, canceling, mishaps>>
      BY <1>4, <2>0 DEF SendCommand
    <2>2. /\ Puts(plan') \subseteq Puts(plan) /\ (job' # job => c \in Puts(plan))
          /\ c \in Puts(plan) => job' = [job EXCEPT ![c.id] = c.record]
      BY <1>0, <2>0, <2>1, Applies, SendsOne
    <2>3. ASSUME SameJobs PROVE JobsInv'
      BY <1>0, <2>1, <2>2, <2>3, QuietStep
    <2>4. CASE job' = job
      BY <1>s, <2>3, <2>4
    <2>5. CASE c \in Puts(plan) /\ Rewrites(c)
      BY <1>0, <1>p, <2>2, <2>3, <2>5, RewriteKeeps
    <2>6. CASE c \in Puts(plan) /\ ~Rewrites(c)
      <3>1. Creates(c) /\ SlotFree /\ jobPass = "cron" /\ c.id \in JobId
        BY <1>p, <2>6 DEF JobsInv, PlanInv
      <3>2. \A d \in Puts(plan') : d = c
        BY <2>2, <2>6 DEF JobsInv, PlanInv
      <3>3. c.record = [status |-> "QUEUED", attempt |-> 0, slot |-> cronLast]
        BY <3>1 DEF Creates, putJob
      <3>4. /\ c.record.status = "QUEUED" /\ c.record.slot = cronLast
            /\ job'[c.id] = c.record /\ \A j \in JobId : j # c.id => job'[j] = job[j]
            /\ job[c.id] = NoJob /\ c.id <= ids.job
        BY <1>0, <2>2, <2>6, <3>1, <3>3 DEF JobsTypeOK, Creates
      <3>5. RecordsInv'
        <4>1. ASSUME NEW j \in JobId
              PROVE  /\ job'[j].status = "ABSENT" => job'[j] = NoJob
                     /\ j > ids'.job => job'[j] = NoJob
                     /\ listing'[j] # NoJob => /\ job'[j].status # "ABSENT" /\ listing'[j].status # "ABSENT"
                                               /\ listing'[j].slot = job'[j].slot
          <5>1. CASE j = c.id
            <6>1. listing[j] = NoJob
              BY <3>4, <5>1, NoJobShape DEF JobsInv, RecordsInv
            <6>2. ~(j > ids.job)
              BY <1>0, <3>4, <5>1 DEF JobId
            <6> QED BY <2>1, <3>4, <5>1, <6>1, <6>2
          <5>2. CASE j # c.id
            BY <2>1, <3>4, <5>2 DEF JobsInv, RecordsInv
          <5> QED BY <5>1, <5>2
        <4>2. ASSUME NEW d \in Puts(canceling) PROVE Rewrites(d)' /\ d.record.status = "CANCELED"
          <5>1. Rewrites(d) /\ d.record.status = "CANCELED" /\ d.id \in JobId
            BY <1>q DEF JobsInv, RecordsInv
          <5>2. d.id # c.id
            BY <3>4, <5>1, NoJobShape DEF Rewrites
          <5> QED BY <2>1, <3>4, <5>1, <5>2 DEF Rewrites
        <4> QED BY <2>1, <4>1, <4>2 DEF RecordsInv
      <3>6. PlanInv'
        <4>1. Rewrites(c)'
          BY <2>1, <3>1, <3>4 DEF Rewrites
        <4> QED BY <2>1, <3>1, <3>2, <4>1 DEF PlanInv
      <3>7. SlotsInv'
        <4>1. Horizon = cronLast /\ Horizon' = Horizon /\ cronLast \in Nat
          BY <1>0, <2>1, <3>1, SceneShape DEF Horizon, SlotFree, JobsTypeOK
        <4> QED BY <2>1, <3>1, <3>4, <4>1 DEF JobsInv, SlotsInv
      <3>8. SlotFiredOnce'
        BY <2>1, <3>1, <3>4 DEF JobsInv, SlotFiredOnce, SlotFree
      <3> QED BY <1>0, <2>1, <3>5, <3>6, <3>7, <3>8 DEF JobsInv
    <2> QED BY <2>2, <2>4, <2>5, <2>6
  <1>5. ASSUME NEW j \in JobId, reconcileJob(j) PROVE JobsInv'
    <2>1. /\ jobPass = "jobs" /\ plan = <<>> /\ listing[j] # NoJob /\ listing' = [listing EXCEPT ![j] = NoJob]
          /\ UNCHANGED <<job, scene, now, cronEpoch, cronLast, jobPass, canceling, mishaps>>
      BY <1>5 DEF reconcileJob, Turn
    <2>2. listing[j].status # "ABSENT" /\ job[j].status # "ABSENT" /\ listing[j].slot = job[j].slot /\ j <= ids.job
      BY <1>0, <2>1, NoJobShape DEF JobsInv, RecordsInv, JobId
    <2>3. /\ \A c \in Puts(plan') : Follows(c, j)
          /\ \A c, d \in Puts(plan') : c = d
          /\ ids'.job = ids.job
      BY <1>0, <1>5, <2>2, DriveFacts, NewRunId
    <2>4. \A c \in Puts(plan') : Rewrites(c)'
      BY <2>1, <2>2, <2>3 DEF Follows, Rewrites, Ended
    <2>5. RecordsInv'
      <3>1. \A i \in JobId : listing'[i] \in {listing[i], NoJob}
        BY <1>0, <2>1 DEF JobsTypeOK
      <3>2. \A c \in Puts(canceling') : Rewrites(c)' /\ c.record.status = "CANCELED"
        BY <2>1, <2>3 DEF JobsInv, RecordsInv, Rewrites
      <3> QED BY <2>1, <2>3, <3>1, <3>2 DEF JobsInv, RecordsInv
    <2>6. PlanInv' /\ SlotsInv' /\ SlotFiredOnce'
      BY <2>1, <2>3, <2>4 DEF JobsInv, PlanInv, SlotsInv, SlotFiredOnce, Horizon
    <2> QED BY <1>0, <2>1, <2>3, <2>5, <2>6 DEF JobsInv
  <1>6. CASE RunJob
    <2>1. /\ ids.job < scene.jobs /\ ids' = [ids EXCEPT !.job = @ + 1]
          /\ jobPass = "cancel" => ids.job + 1 < scene.jobs
          /\ job' = [job EXCEPT ![ids.job + 1] = [status |-> "QUEUED", attempt |-> 0, slot |-> 0]]
          /\ UNCHANGED <<scene, now, cronEpoch, cronLast, jobPass, listing, plan, canceling, mishaps>>
      BY <1>0, <1>6 DEF RunJob
    <2>2. ids'.job = ids.job + 1 /\ ids.job + 1 \in JobId
      BY <1>0, <2>1, NewJobId
    <2> DEFINE new == ids.job + 1
    <2>3. /\ job[new] = NoJob /\ job'[new].slot = 0 /\ job'[new].status = "QUEUED"
          /\ \A j \in JobId : j # new => job'[j] = job[j]
      BY <1>0, <2>1, <2>2 DEF JobsInv, RecordsInv, JobsTypeOK
    <2>4. \A j \in JobId : job'[j].slot = job[j].slot
      BY <2>3, NoJobShape
    <2>5. ASSUME NEW c, c.id \in JobId, Rewrites(c) PROVE Rewrites(c)'
      BY <1>0, <2>2, <2>3, <2>5, NoJobShape DEF Rewrites, JobId
    <2>6. ASSUME NEW c, c.id \in JobId, Creates(c) PROVE Creates(c)'
      BY <1>0, <2>1, <2>2, <2>3, <2>6 DEF Creates, JobId
    <2>7. RecordsInv'
      <3>1. ASSUME NEW j \in JobId
            PROVE  /\ job'[j].status = "ABSENT" => job'[j] = NoJob
                   /\ j > ids'.job => job'[j] = NoJob
                   /\ listing'[j] # NoJob => /\ job'[j].status # "ABSENT" /\ listing'[j].status # "ABSENT"
                                             /\ listing'[j].slot = job'[j].slot
        <4>1. CASE j = new
          BY <1>0, <2>1, <2>2, <2>3, <4>1, NoJobShape DEF JobsInv, RecordsInv
        <4>2. CASE j # new
          BY <1>0, <2>1, <2>2, <2>3, <4>2 DEF JobsInv, RecordsInv, JobId
        <4> QED BY <4>1, <4>2
      <3> QED BY <1>q, <2>1, <2>5, <3>1 DEF JobsInv, RecordsInv
    <2>8. PlanInv'
      <3>1. SlotFree => SlotFree'
        BY <2>1, <2>4 DEF SlotFree
      <3> QED BY <1>0, <1>p, <2>1, <2>2, <2>5, <2>6, <3>1 DEF JobsInv, PlanInv
    <2>9. SlotsInv' /\ SlotFiredOnce'
      BY <2>1, <2>4 DEF JobsInv, SlotsInv, SlotFiredOnce, Horizon
    <2> QED BY <1>0, <2>1, <2>2, <2>7, <2>8, <2>9 DEF JobsInv
  <1>7. CASE SendCancel
    <2> DEFINE c == Head(canceling)
    <2>1. /\ canceling # <<>> /\ applyJobCommand(c) /\ canceling' = Tail(canceling)
          /\ UNCHANGED <<ids, scene, now, cronEpoch, cronLast, jobPass, listing, plan, mishaps>>
      BY <1>7 DEF SendCancel
    <2>2. /\ Puts(canceling') \subseteq Puts(canceling) /\ (job' # job => c \in Puts(canceling))
          /\ c \in Puts(canceling) => job' = [job EXCEPT ![c.id] = c.record]
      BY <1>0, <2>1, Applies, SendsOne
    <2> HIDE DEF c
    <2>3. SameJobs
      <3>1. CASE c \in Puts(canceling)
        BY <1>0, <1>q, <2>2, <3>1, RewriteKeeps DEF JobsInv, RecordsInv
      <3> QED BY <1>s, <2>2, <3>1
    <2> QED BY <1>0, <2>1, <2>2, <2>3, QuietStep
  <1>8. ASSUME NEW j \in JobId, CancelJob(j) PROVE JobsInv'
    <2>1. /\ job[j] # NoJob /\ canceling' = CancelCommands(j, job[j])
          /\ UNCHANGED <<job, ids, scene, now, cronEpoch, cronLast, jobPass, listing, plan, mishaps>>
      BY <1>8 DEF CancelJob
    <2>2. PICK r \in Job : r = [job[j] EXCEPT !.status = "CANCELED"]
      <3>1. job[j] \in Job
        BY <1>0 DEF JobsTypeOK
      <3> QED BY <3>1 DEF Job, Ended
    <2>3. Puts(canceling') = {putJob(j, r)} /\ r.status = "CANCELED" /\ r.slot = job[j].slot
      <3>1. job[j] \in Job /\ run \in [RunId -> Run]
        BY <1>0 DEF JobsTypeOK
      <3>2. Puts(canceling') = {putJob(j, r)}
        BY <2>1, <2>2, <3>1, CancelShape
      <3> QED BY <2>2, <3>1, <3>2 DEF Job
    <2>4. ASSUME NEW c \in Puts(canceling') PROVE Rewrites(c) /\ c.record.status = "CANCELED"
      <3>1. c.id = j /\ c.record = r
        BY <2>3, PutJobShape
      <3>2. job[j].status # "ABSENT" /\ j <= ids.job
        BY <1>0, <2>1 DEF JobsInv, RecordsInv, JobId
      <3> QED BY <2>3, <3>1, <3>2 DEF Rewrites
    <2> QED BY <1>0, <1>s, <2>1, <2>4, QuietStep
  \* Agents, time and capacity.
  <1>9. ASSUME UNCHANGED <<job, ids, scene, cronEpoch, cronLast, jobPass, listing, plan, canceling>>, now' >= now
        PROVE  JobsInv'
    BY <1>0, <1>s, <1>9, QuietStep
  <1>10. ASSUME NEW j \in JobId, BackoffPasses(j) PROVE JobsInv'
    BY <1>0, <1>9, <1>10 DEF BackoffPasses
  <1>11. ASSUME NEW a \in RunId, FinishRun(a) \/ StopRun(a) PROVE JobsInv'
    BY <1>0, <1>9, <1>11 DEF FinishRun, StopRun
  <1>12. CASE \/ JobsTick \/ LoseCapacity \/ RegainCapacity \/ FirstRelease \/ DeleteEnvironment
              \/ UNCHANGED jobsVars
    BY <1>0, <1>9, <1>12 DEF JobsTick, LoseCapacity, RegainCapacity, FirstRelease, DeleteEnvironment
  <1>13. CASE SwallowedError
    <2>1. /\ plan # <<>> /\ plan' = Tail(plan)
          /\ UNCHANGED <<job, ids, scene, now, cronEpoch, cronLast, jobPass, listing, canceling>>
      BY <1>13 DEF SwallowedError
    <2>2. Puts(plan') \subseteq Puts(plan)
      BY <1>0, <2>1, SendsOne
    <2> QED BY <1>0, <1>s, <2>1, <2>2, QuietStep
  <1>14. CASE JobsFailover
    <2>1. /\ cronLast' = 0 /\ cronEpoch' = now /\ jobPass' = "jobs" /\ listing' = NoListing /\ plan' = <<>>
          /\ canceling' \in {canceling, <<>>} /\ UNCHANGED <<job, ids, scene, now>>
      BY <1>14 DEF JobsFailover, resetCron
    <2>2. Puts(canceling') \subseteq Puts(canceling) /\ Puts(plan') = {}
      BY <2>1, NoCommands
    <2>3. ASSUME NEW j \in JobId PROVE job[j].slot <= Horizon' /\ listing'[j] = NoJob
      <3>1. job[j].slot \in Nat /\ job[j].slot <= Horizon /\ Horizon <= now /\ Horizon \in Nat
        BY <1>0, DueLater DEF JobsInv, JobsTypeOK, Job, SlotsInv, Horizon
      <3>2. Horizon' = now
        BY <1>0, <2>1 DEF Horizon
      <3> QED BY <1>0, <2>1, <3>1, <3>2 DEF NoListing
    <2> QED BY <1>0, <2>1, <2>2, <2>3, ListStep
  <1>15. CASE reconcileOrphans
    <2>1. /\ listing = NoListing /\ plan = <<>> /\ jobPass' = "cron"
          /\ UNCHANGED <<job, ids, scene, now, cronEpoch, cronLast, listing, plan, canceling>>
      BY <1>15 DEF reconcileOrphans
    <2>2. \A j \in JobId : listing'[j] = NoJob
      BY <2>1 DEF NoListing
    <2> QED BY <1>0, <2>1, <2>2, ListStep, NoCommands DEF JobsInv, SlotsInv, Horizon
  <1> QED
    BY <1>1, <1>2, <1>3, <1>4, <1>5, <1>6, <1>7, <1>8, <1>10, <1>11, <1>12, <1>13, <1>14, <1>15
    DEF JobsNext, JobsEvaluate

LEMMA InvInit == JobsInit => JobsInv
  <1> SUFFICES ASSUME JobsInit PROVE JobsInv
    OBVIOUS
  <1>1. scene \in Scenes /\ ids = [job |-> 0, run |-> 0] /\ plan = <<>> /\ canceling = <<>>
    BY DEF JobsInit
  <1>2. \A j \in JobId : job[j] = NoJob /\ listing[j] = NoJob
    BY DEF JobsInit, NoListing
  <1>3. JobsTypeOK
    <2>1. job \in [JobId -> Job] /\ listing \in [JobId -> Job]
      BY NoJobShape DEF JobsInit, NoListing
    <2>2. run \in [RunId -> Run]
      BY DEF JobsInit, NoRun, Run
    <2>3. scene.ticks \in Nat /\ scene.cancels \in Nat /\ scene.jobs \in Nat
      BY <1>1, SceneShape
    <2> QED BY <2>1, <2>2, <2>3, NoCommands DEF JobsInit, JobsTypeOK
  <1>4. RecordsInv /\ PlanInv
    BY <1>1, <1>2, NoCommands DEF RecordsInv, PlanInv, JobsInit
  <1>5. SlotsInv /\ SlotFiredOnce /\ ids.job <= scene.jobs
    BY <1>1, <1>2, NoJobShape, SceneShape DEF SlotsInv, SlotFiredOnce, Horizon, JobsInit
  <1> QED BY <1>3, <1>4, <1>5 DEF JobsInv

(***************************************************************************)
(* A cron has one unfinished run                                           *)
(***************************************************************************)
LEMMA NotUnfinished ==
    /\ \A x \in Unfinished : x # "ABSENT" /\ x # "CANCELED" /\ ~jobTerminal(x)
    /\ NoJob.status \notin Unfinished
  BY NoJobShape DEF Unfinished, jobTerminal, Ended

LEMMA ExclusiveNext ==
    ASSUME JobsInv, JobsInv', ExclusiveInv, [JobsNext]_jobsVars
    PROVE  ExclusiveInv'
  <1>0. /\ JobsTypeOK /\ plan \in Seq(JobCommand) /\ canceling \in Seq(JobCommand)
        /\ \A j \in JobId : job[j] \in Job /\ listing[j] \in Job
    BY DEF JobsInv, JobsTypeOK
  <1>p. \A c \in Puts(plan) : c.id \in JobId /\ c.record \in Job
    BY <1>0, PutsTyped
  <1>e. Puts(<<>>) = {}
    BY NoCommands
  \* No run becomes unfinished, and what remains to be canceled is still to be.
  <1>a. ASSUME UNCHANGED scene, NoneLost' => NoneLost, \A j \in JobId : Live(j)' => Live(j),
               jobPass' # "cancel"
        PROVE  ExclusiveInv'
    BY <1>a DEF ExclusiveInv
  <1>n. UNCHANGED mishaps => (NoneLost' => NoneLost)
    BY DEF NoneLost
  <1> USE DEF jobsVars, jobTables, jobWorld, jobLeader, jobClient
  <1>1. CASE reconcileCron
    <2>0. listing = NoListing /\ plan = <<>> /\ UNCHANGED <<job, scene, mishaps>>
      BY <1>1 DEF reconcileCron
    <2>1. \A j \in JobId : Live(j) <=> j \in activeCronJobs
      <3> SUFFICES ASSUME NEW j \in JobId PROVE Live(j) <=> j \in activeCronJobs
        OBVIOUS
      <3>1. listing[j] = NoJob /\ Puts(plan) = {}
        BY <1>e, <2>0 DEF NoListing
      <3>2. Live(j) <=> job[j].slot # 0 /\ job[j].status \in Unfinished
        BY <3>1, NoJobShape DEF Live
      <3>3. job[j].slot # 0 => (job[j].status \in Unfinished <=> ~jobTerminal(job[j].status))
        <4>1. job[j].status \in {"ABSENT", "QUEUED", "RUNNING", "RETRYING"} \cup Ended
          BY <1>0 DEF Job
        <4>2. job[j].slot # 0 => job[j].status # "ABSENT"
          BY NoJobShape DEF JobsInv, RecordsInv
        <4> QED BY <4>1, <4>2 DEF Unfinished, jobTerminal, Ended
      <3> QED BY <3>2, <3>3, NoJobShape DEF activeCronJobs
    <2>2. CASE Due + Jitter > now \/ ids.job = scene.jobs
      <3>1. listing' = job /\ jobPass' = "jobs" /\ UNCHANGED plan
        BY <1>1, <2>2 DEF reconcileCron, ListJobs
      <3>2. \A j \in JobId : Live(j)' => Live(j)
        BY <1>e, <2>0, <3>1 DEF Live
      <3> QED BY <1>a, <1>n, <2>0, <3>1, <3>2
    <2>3. CASE ~(Due + Jitter > now \/ ids.job = scene.jobs)
      <3>1. fireCron(Due) /\ cronLast' = Due /\ Due \in Nat /\ ids.job < scene.jobs
        <4>1. fireCron(Due) /\ cronLast' = Due
          BY <1>1, <2>3 DEF reconcileCron
        <4>2. Due \in Nat
          BY <1>0, DueLater
        <4>3. ids.job \in Nat /\ scene.jobs \in Nat /\ ids.job <= scene.jobs /\ ids.job # scene.jobs
          <5>1. ids.job <= scene.jobs
            BY DEF JobsInv
          <5>2. ids.job \in Nat
            BY <1>0, IdsShape
          <5>3. scene.jobs \in Nat
            BY <1>0, SceneShape DEF JobsTypeOK
          <5> QED BY <2>3, <5>1, <5>2, <5>3
        <4> QED BY <4>1, <4>2, <4>3
      <3>2. CASE /\ scene.policy = "ALLOW" \/ (scene.policy = "FORBID" /\ activeCronJobs = {})
                 /\ enqueueCronJob(Due) /\ UNCHANGED listing
        <4> DEFINE new == putJob(ids.job + 1, [status |-> "QUEUED", attempt |-> 0, slot |-> Due])
        <4>1. Puts(plan') = {new} /\ jobPass' = "cron"
          BY <1>0, <3>1, <3>2, Enqueues
        <4> HIDE DEF new
        <4>2. ASSUME NEW j \in JobId, Live(j)' PROVE Live(j) \/ j = new.id
          BY <2>0, <3>2, <4>1, <4>2 DEF Live
        <4> QED BY <2>0, <2>1, <3>2, <4>1, <4>2 DEF ExclusiveInv
      <3>3. CASE jobPass' = "cron" /\ UNCHANGED <<plan, ids, listing>>
        <4>1. \A j \in JobId : Live(j)' => Live(j)
          BY <2>0, <3>3 DEF Live
        <4> QED BY <1>a, <1>n, <2>0, <3>3, <4>1
      <3>4. CASE /\ scene.policy = "REPLACE" /\ jobPass' = "cancel" /\ UNCHANGED <<plan, ids>>
                 /\ listing' = [j \in JobId |-> IF j \in activeCronJobs THEN job[j] ELSE NoJob]
        <4>1. \A j \in JobId : Live(j)' => Live(j)
          BY <1>e, <2>0, <3>4, NotUnfinished DEF Live
        <4>2. ASSUME NEW j \in JobId, job[j].slot # 0, job[j].status \in Unfinished PROVE listing'[j] # NoJob
          <5>1. Live(j)
            BY <4>2 DEF Live
          <5> QED BY <2>1, <3>4, <4>2, <5>1, NotUnfinished
        <4> QED BY <1>n, <2>0, <3>4, <4>1, <4>2 DEF ExclusiveInv
      <3> QED BY <3>1, <3>2, <3>3, <3>4 DEF fireCron
    <2> QED BY <2>2, <2>3
  <1>2. CASE replaceCron
    <2>0. /\ jobPass = "cancel" /\ plan = <<>> /\ UNCHANGED <<job, scene, mishaps>>
          /\ scene.policy = "REPLACE" /\ ids.job < scene.jobs
      BY <1>2 DEF replaceCron, JobsInv, PlanInv
    <2>1. CASE listing = NoListing /\ enqueueCronJob(cronLast) /\ UNCHANGED listing
      <3> DEFINE new == putJob(ids.job + 1, [status |-> "QUEUED", attempt |-> 0, slot |-> cronLast])
      <3>1. Puts(plan') = {new} /\ jobPass' = "cron"
        <4>1. cronLast \in Nat
          BY <1>0, SceneShape DEF JobsTypeOK
        <4> QED BY <1>0, <2>0, <2>1, <4>1, Enqueues
      <3> HIDE DEF new
      <3>2. \A j \in JobId : listing[j] = NoJob
        BY <2>1 DEF NoListing
      <3>3. ASSUME NoneLost, NEW j \in JobId PROVE ~Live(j)
        <4>1. ~(job[j].slot # 0 /\ job[j].status \in Unfinished)
          BY <1>e, <2>0, <3>2, <3>3 DEF ExclusiveInv
        <4> QED BY <1>e, <2>0, <3>2, <4>1, NotUnfinished DEF Live
      <3>4. ASSUME NEW j \in JobId, Live(j)' PROVE Live(j) \/ j = new.id
        BY <2>0, <2>1, <3>1, <3>4 DEF Live
      <3> QED BY <1>n, <2>0, <3>1, <3>3, <3>4 DEF ExclusiveInv
    <2>2. ASSUME NEW j \in JobId, Turn(j), plan' = CancelCommands(j, listing[j]), UNCHANGED <<ids, jobPass>>
          PROVE  ExclusiveInv'
      <3>1. /\ listing'[j] = NoJob /\ \A i \in JobId : i # j => listing'[i] = listing[i]
        BY <1>0, <2>2 DEF Turn, JobsTypeOK
      <3>2. PICK r \in Job : r = [listing[j] EXCEPT !.status = "CANCELED"]
        BY <1>0, CanceledCopy
      <3>3. Puts(plan') = {putJob(j, r)} /\ putJob(j, r).id = j /\ putJob(j, r).record.status = "CANCELED"
        <4>1. listing[j] \in Job /\ run \in [RunId -> Run]
          BY <1>0 DEF JobsTypeOK
        <4>2. Puts(plan') = {putJob(j, r)}
          BY <2>2, <3>2, <4>1, CancelShape
        <4>3. r.status = "CANCELED"
          BY <3>2, <4>1, CanceledCopy
        <4>4. putJob(j, r).id = j /\ putJob(j, r).record = r
          BY PutJobShape
        <4> QED BY <4>2, <4>3, <4>4
      <3>4. \A i \in JobId : Live(i)' => Live(i)
        BY <2>0, <3>1, <3>3, NotUnfinished DEF Live
      <3>5. ASSUME NoneLost, NEW i \in JobId, job[i].slot # 0, job[i].status \in Unfinished
            PROVE  listing'[i] # NoJob \/ \E c \in Puts(plan') : c.id = i
        <4>1. listing[i] # NoJob
          BY <1>e, <2>0, <3>5 DEF ExclusiveInv
        <4> QED BY <3>1, <3>3, <4>1
      <3> QED BY <1>n, <2>0, <2>2, <3>4, <3>5 DEF ExclusiveInv
    <2> QED BY <1>2, <2>1, <2>2 DEF replaceCron
  <1>3. CASE reconcileJobs
    <2>1. listing' = job /\ jobPass' = "jobs" /\ UNCHANGED <<job, scene, plan, mishaps>>
      BY <1>3 DEF reconcileJobs, ListJobs
    <2>2. \A j \in JobId : Live(j)' => Live(j)
      BY <2>1 DEF Live
    <2> QED BY <1>a, <1>n, <2>1, <2>2
  <1>4. CASE SendCommand
    <2>0. PICK c : c = Head(plan)
      OBVIOUS
    <2>1. /\ plan # <<>> /\ applyJobCommand(c) /\ plan' = Tail(plan)
          /\ UNCHANGED <<scene, jobPass, listing, mishaps>>
      BY <1>4, <2>0 DEF SendCommand
    <2>2. /\ Puts(plan') \subseteq Puts(plan) /\ (job' # job => c \in Puts(plan))
          /\ c \in Puts(plan) => job' = [job EXCEPT ![c.id] = c.record]
          /\ Puts(plan) \subseteq Puts(plan') \cup {c}
      BY <1>0, <2>0, <2>1, Applies, SendsOne
    <2>3. ASSUME c \in Puts(plan) PROVE job'[c.id] = c.record /\ \A j \in JobId : j # c.id => job'[j] = job[j]
      BY <1>0, <1>p, <2>2, <2>3 DEF JobsTypeOK
    <2>4. \A j \in JobId : Live(j)' => Live(j)
      BY <2>1, <2>2, <2>3 DEF Live
    <2>5. CASE jobPass # "cancel"
      BY <1>a, <1>n, <2>1, <2>4, <2>5
    <2>6. CASE jobPass = "cancel"
      <3>1. ASSUME NoneLost, NEW j \in JobId, job'[j].slot # 0, job'[j].status \in Unfinished
            PROVE  listing[j] # NoJob \/ \E d \in Puts(plan') : d.id = j
        <4>1. c \in Puts(plan) => c.record.status = "CANCELED"
          BY <2>6 DEF JobsInv, PlanInv
        <4>2. c \in Puts(plan) => j # c.id
          BY <2>3, <3>1, <4>1, NotUnfinished
        <4>3. job'[j] = job[j]
          BY <2>2, <2>3, <4>2
        <4>4. listing[j] # NoJob \/ \E d \in Puts(plan) : d.id = j
          BY <2>6, <3>1, <4>3 DEF ExclusiveInv
        <4>5. \A d \in Puts(plan) : d.id = j => d \in Puts(plan')
          BY <2>2, <4>2
        <4> QED BY <4>4, <4>5
      <3> QED BY <1>n, <2>1, <2>4, <3>1 DEF ExclusiveInv
    <2> QED BY <2>5, <2>6
  <1>5. ASSUME NEW j \in JobId, reconcileJob(j) PROVE ExclusiveInv'
    <2>1. /\ jobPass' = "jobs" /\ listing[j] # NoJob /\ listing' = [listing EXCEPT ![j] = NoJob]
          /\ UNCHANGED <<job, scene, mishaps>>
      BY <1>5 DEF reconcileJob, Turn
    <2>2. listing[j].status # "ABSENT"
      BY <2>1 DEF JobsInv, RecordsInv
    <2>3. \A c \in Puts(plan') : Follows(c, j)
      BY <1>0, <1>5, <2>2, DriveFacts
    <2>4. \A i \in JobId : listing'[i] \in {listing[i], NoJob}
      BY <1>0, <2>1 DEF JobsTypeOK
    <2>5. \A i \in JobId : Live(i)' => Live(i)
      BY <2>1, <2>3, <2>4, NotUnfinished DEF Live, Follows
    <2> QED BY <1>a, <1>n, <2>1, <2>5
  \* The plan and the listing stay; a job is at most ended or is no cron's.
  <1>6. ASSUME UNCHANGED <<scene, jobPass, listing, plan>>, NoneLost' => NoneLost,
               \A j \in JobId : job'[j] = job[j] \/ job'[j].slot = 0 \/ job'[j].status = "CANCELED"
        PROVE  ExclusiveInv'
    <2>1. \A j \in JobId : job'[j].slot # 0 /\ job'[j].status \in Unfinished => job'[j] = job[j]
      BY <1>6, NotUnfinished
    <2>2. \A j \in JobId : Live(j)' => Live(j)
      BY <1>6, <2>1 DEF Live
    <2> QED BY <1>6, <2>1, <2>2 DEF ExclusiveInv
  <1>7. CASE RunJob
    <2>1. /\ job' = [job EXCEPT ![ids.job + 1] = [status |-> "QUEUED", attempt |-> 0, slot |-> 0]]
          /\ UNCHANGED <<scene, jobPass, listing, plan, mishaps>>
      BY <1>7 DEF RunJob
    <2>2. \A j \in JobId : job'[j] = job[j] \/ job'[j].slot = 0
      BY <1>0, <2>1 DEF JobsTypeOK
    <2> QED BY <1>6, <1>n, <2>1, <2>2
  <1>8. CASE SendCancel
    <2>0. PICK c : c = Head(canceling)
      OBVIOUS
    <2>1. /\ canceling # <<>> /\ applyJobCommand(c) /\ UNCHANGED <<scene, jobPass, listing, plan, mishaps>>
      BY <1>8, <2>0 DEF SendCancel
    <2>2. /\ job' # job => c \in Puts(canceling)
          /\ c \in Puts(canceling) => job' = [job EXCEPT ![c.id] = c.record]
      BY <1>0, <2>0, <2>1, Applies
    <2>3. c \in Puts(canceling) => c.record.status = "CANCELED"
      BY DEF JobsInv, RecordsInv
    <2>4. \A j \in JobId : job'[j] = job[j] \/ job'[j].status = "CANCELED"
      BY <1>0, <2>2, <2>3 DEF JobsTypeOK
    <2> QED BY <1>6, <1>n, <2>1, <2>4
  <1>9. ASSUME NEW j \in JobId, CancelJob(j) \/ BackoffPasses(j) PROVE ExclusiveInv'
    BY <1>6, <1>9, <1>n DEF CancelJob, BackoffPasses
  <1>10. ASSUME NEW a \in RunId, FinishRun(a) \/ StopRun(a) PROVE ExclusiveInv'
    BY <1>6, <1>10, <1>n DEF FinishRun, StopRun
  <1>11. CASE JobsTick \/ RegainCapacity \/ FirstRelease \/ DeleteEnvironment \/ UNCHANGED jobsVars
    BY <1>6, <1>11, <1>n DEF JobsTick, RegainCapacity, FirstRelease, DeleteEnvironment
  \* A mishap is appended.
  <1>m. ASSUME NEW kind \in MishapKind, Mishap(kind)
        PROVE  (NoneLost' => NoneLost) /\ (kind = "swallowed" => ~NoneLost')
    <2>1. /\ DOMAIN mishaps = 1..Len(mishaps) /\ DOMAIN mishaps' = 1..(Len(mishaps) + 1) /\ Len(mishaps) \in Nat
          /\ \A i \in 1..Len(mishaps) : mishaps'[i] = mishaps[i]
          /\ mishaps'[Len(mishaps) + 1] = kind
      BY <1>0, <1>m, Mishaps DEF JobsTypeOK
    <2> QED BY <2>1 DEF NoneLost
  <1>12. CASE LoseCapacity
    BY <1>6, <1>12, <1>m DEF LoseCapacity, MishapKind
  <1>13. CASE SwallowedError
    <2>1. /\ plan # <<>> /\ plan' = Tail(plan) /\ UNCHANGED <<job, scene, jobPass, listing>> /\ ~NoneLost'
      BY <1>13, <1>m DEF SwallowedError, MishapKind
    <2>2. Puts(plan') \subseteq Puts(plan)
      BY <1>0, <2>1, SendsOne
    <2>3. \A j \in JobId : Live(j)' => Live(j)
      BY <2>1, <2>2 DEF Live
    <2> QED BY <2>1, <2>3 DEF ExclusiveInv
  <1>14. CASE JobsFailover
    <2>1. /\ jobPass' = "jobs" /\ listing' = NoListing /\ plan' = <<>> /\ UNCHANGED <<job, scene>>
          /\ NoneLost' => NoneLost
      BY <1>14, <1>m DEF JobsFailover, MishapKind
    <2>2. \A j \in JobId : Live(j)' => Live(j)
      BY <1>e, <2>1, NotUnfinished DEF Live, NoListing
    <2> QED BY <1>a, <2>1, <2>2
  <1>15. CASE reconcileOrphans
    <2>1. jobPass' = "cron" /\ UNCHANGED <<job, scene, listing, plan>> /\ (NoneLost' => NoneLost)
      BY <1>15, <1>m, <1>n DEF reconcileOrphans, MishapKind
    <2>2. \A j \in JobId : Live(j)' => Live(j)
      BY <2>1 DEF Live
    <2> QED BY <1>a, <2>1, <2>2
  <1> QED
    BY <1>1, <1>2, <1>3, <1>4, <1>5, <1>7, <1>8, <1>9, <1>10, <1>11, <1>12, <1>13, <1>14, <1>15
    DEF JobsNext, JobsEvaluate

(***************************************************************************)
(* Executions are paid for                                                 *)
(***************************************************************************)
\* Where the charges are: of an attempt of a job that exists, or of a mishap.
LEMMA ChargeShape ==
    ASSUME JobsTypeOK, NEW x \in Attempts \cup Faults
    PROVE  \/ \E j \in 1..ids.job, k \in 1..(scene.retries + 1) : x = <<j, k>> /\ x[1] = j /\ x[2] = k /\ j \in JobId /\ j # 0
           \/ x \in Faults /\ x[1] = 0
  <1>1. ids.job \in Nat /\ ids.job <= MaxJobs /\ MaxJobs \in Nat
    BY IdsShape, SceneShape DEF JobsTypeOK, JobId
  <1>2. CASE x \in Faults
    BY <1>2 DEF Faults
  <1>3. CASE x \in Attempts
    <2>1. PICK j \in 1..ids.job, k \in 1..(scene.retries + 1) : x = <<j, k>>
      BY <1>3 DEF Attempts
    <2>2. x[1] = j /\ x[2] = k
      BY <2>1
    <2>3. j \in JobId /\ j # 0
      BY <1>1 DEF JobId
    <2> QED BY <2>1, <2>2, <2>3
  <1> QED BY <1>2, <1>3

LEMMA MoreCharges ==
    ASSUME JobsTypeOK, JobsTypeOK', UNCHANGED scene, ids'.job >= ids.job, Len(mishaps') >= Len(mishaps)
    PROVE  Attempts \subseteq Attempts' /\ Faults \subseteq Faults'
  <1>1. /\ ids.job \in Nat /\ ids'.job \in Nat /\ Len(mishaps) \in Nat /\ Len(mishaps') \in Nat
    <2>1. MaxJobs \in Nat
      BY JobsAssumption
    <2>2. ids'.job \in {0} \cup JobId
      BY DEF JobsTypeOK
    <2>3. ids'.job \in Nat
      BY <2>1, <2>2 DEF JobId
    <2>4. mishaps \in Seq(MishapKind) /\ mishaps' \in Seq(MishapKind)
      BY DEF JobsTypeOK
    <2> QED BY <2>3, <2>4, IdsShape
  <1>2. 1..ids.job \subseteq 1..ids'.job /\ 1..Len(mishaps) \subseteq 1..Len(mishaps')
    BY <1>1
  <1> QED BY <1>2 DEF Attempts, Faults

\* An account stays one as long as its charges are covered.
LEMMA AccountKept ==
    ASSUME JobsTypeOK, JobsTypeOK', NEW f, Account(f), UNCHANGED scene, ids'.run = ids.run,
           ids'.job >= ids.job, Len(mishaps') >= Len(mishaps),
           \A j \in 1..ids.job, k \in 1..(scene.retries + 1) : Charged(j, k) => Charged(j, k)'
    PROVE  Account(f)'
  <1>1. f \in [1..ids'.run -> Attempts' \cup Faults']
    BY MoreCharges DEF Account
  <1>2. \A a, b \in 1..ids'.run : f[a] = f[b] => a = b
    BY DEF Account
  <1>3. ASSUME NEW a \in 1..ids'.run, f[a][1] # 0 PROVE Charged(f[a][1], f[a][2])'
    <2>1. a \in 1..ids.run /\ f[a] \in Attempts \cup Faults
      BY DEF Account
    <2>2. PICK j \in 1..ids.job, k \in 1..(scene.retries + 1) : f[a][1] = j /\ f[a][2] = k
      BY <1>3, <2>1, ChargeShape
    <2>3. Charged(j, k)
      BY <1>3, <2>1, <2>2 DEF Account
    <2>4. Charged(j, k)'
      BY <2>3
    <2> QED BY <2>2, <2>4
  <1> QED BY <1>1, <1>2, <1>3 DEF Account

\* Every charge but one stays covered.
CoveredBut(u, v) ==
    \A j \in 1..ids.job, k \in 1..(scene.retries + 1) :
       Charged(j, k) => Charged(j, k)' \/ (j = u /\ k = v)

\* A mishap pays for the one charge that it leaves uncovered.
LEMMA AccountRedirected ==
    ASSUME JobsTypeOK, JobsTypeOK', NEW f, Account(f), UNCHANGED <<scene, ids>>, Len(mishaps') = Len(mishaps) + 1,
           NEW u, NEW v, CoveredBut(u, v)
    PROVE  \E g : Account(g)'
  <1>n. PICK new : new = <<0, Len(mishaps) + 1>>
    OBVIOUS
  <1>g. PICK g : g = [a \in 1..ids.run |-> IF f[a] = <<u, v>> THEN new ELSE f[a]]
    OBVIOUS
  <1>0. Len(mishaps) \in Nat /\ Len(mishaps') \in Nat /\ ids.job \in Nat
    BY IdsShape DEF JobsTypeOK
  <1>1. new \in Faults' /\ new[1] = 0 /\ new \notin Attempts \cup Faults
    <2>1. new \in Faults'
      BY <1>0, <1>n DEF Faults
    <2>2. new \notin Faults
      BY <1>0, <1>n DEF Faults
    <2>3. new \notin Attempts
      BY <1>0, <1>n DEF Attempts
    <2> QED BY <1>n, <2>1, <2>2, <2>3
  <1>2. Attempts \subseteq Attempts' /\ Faults \subseteq Faults'
    BY <1>0, MoreCharges
  <1>3. \A a \in 1..ids.run : f[a] \in Attempts \cup Faults
    BY DEF Account
  <1>4. g \in [1..ids'.run -> (Attempts \cup Faults)']
    BY <1>1, <1>2, <1>3, <1>g
  <1>5. ASSUME NEW a \in 1..ids'.run, NEW b \in 1..ids'.run, g[a] = g[b] PROVE a = b
    <2>1. a \in 1..ids.run /\ b \in 1..ids.run
      OBVIOUS
    <2>2. (f[a] = <<u, v>>) = (f[b] = <<u, v>>)
      BY <1>1, <1>3, <1>5, <1>g, <2>1
    <2>3. f[a] = f[b]
      BY <1>5, <1>g, <2>1, <2>2
    <2> QED BY <2>1, <2>3 DEF Account
  <1>6. ASSUME NEW a \in 1..ids'.run, g[a][1] # 0 PROVE Charged(g[a][1], g[a][2])'
    <2>1. a \in 1..ids.run /\ f[a] # <<u, v>> /\ g[a] = f[a]
      BY <1>1, <1>6, <1>g
    <2>2. PICK j \in 1..ids.job, k \in 1..(scene.retries + 1) : f[a] = <<j, k>> /\ f[a][1] = j /\ f[a][2] = k
      BY <1>3, <1>6, <2>1, ChargeShape
    <2>3. Charged(j, k)
      BY <1>6, <2>1, <2>2 DEF Account
    <2>4. ~(j = u /\ k = v)
      BY <2>1, <2>2
    <2>5. Charged(j, k)'
      BY <2>3, <2>4 DEF CoveredBut
    <2> QED BY <2>1, <2>2, <2>5
  <1>7. Account(g)'
    BY <1>4, <1>5, <1>6 DEF Account
  <1> QED BY <1>7

\* A new attempt pays for a new assignment.
LEMMA AccountExtended ==
    ASSUME JobsTypeOK, JobsTypeOK', NEW f, Account(f), UNCHANGED <<scene, mishaps>>,
           ids'.run = ids.run + 1, ids'.job = ids.job,
           NEW u \in 1..ids.job, NEW v \in 1..(scene.retries + 1), ~Charged(u, v), Charged(u, v)',
           \A j \in 1..ids.job, k \in 1..(scene.retries + 1) : Charged(j, k) => Charged(j, k)'
    PROVE  \E g : Account(g)'
  <1>n. PICK new : new = <<u, v>>
    OBVIOUS
  <1>g. PICK g : g = [a \in 1..(ids.run + 1) |-> IF a \in 1..ids.run THEN f[a] ELSE new]
    OBVIOUS
  <1>0. ids.run \in Nat /\ ids.job \in Nat
    BY IdsShape DEF JobsTypeOK
  <1>1. \A a \in 1..ids'.run : a \in 1..ids.run \/ a = ids.run + 1
    BY <1>0
  <1>2. new \in Attempts' /\ new[1] = u /\ new[2] = v /\ u # 0
    BY <1>0, <1>n DEF Attempts
  <1>3. \A a \in 1..ids.run : f[a] \in Attempts \cup Faults /\ f[a] # new
    <2> SUFFICES ASSUME NEW a \in 1..ids.run PROVE f[a] \in Attempts \cup Faults /\ f[a] # new
      OBVIOUS
    <2>1. f[a] \in Attempts \cup Faults
      BY DEF Account
    <2>2. f[a] = new => Charged(u, v)
      BY <1>2 DEF Account
    <2> QED BY <2>1, <2>2
  <1>4. (Attempts \cup Faults)' = Attempts \cup Faults
    BY DEF Attempts, Faults
  <1>5. g \in [1..ids'.run -> (Attempts \cup Faults)']
    BY <1>2, <1>3, <1>4, <1>g
  <1>6. ASSUME NEW a \in 1..ids'.run, NEW b \in 1..ids'.run, g[a] = g[b] PROVE a = b
    <2>1. CASE a \in 1..ids.run /\ b \in 1..ids.run
      BY <1>6, <1>g, <2>1 DEF Account
    <2> QED BY <1>0, <1>1, <1>3, <1>6, <1>g, <2>1
  <1>7. ASSUME NEW a \in 1..ids'.run, g[a][1] # 0 PROVE Charged(g[a][1], g[a][2])'
    <2>1. CASE a \in 1..ids.run
      <3>1. g[a] = f[a]
        BY <1>g, <2>1
      <3>2. PICK j \in 1..ids.job, k \in 1..(scene.retries + 1) : f[a][1] = j /\ f[a][2] = k
        BY <1>3, <1>7, <2>1, <3>1, ChargeShape
      <3>3. Charged(j, k)
        BY <1>7, <2>1, <3>1, <3>2 DEF Account
      <3>4. Charged(j, k)'
        BY <3>3
      <3> QED BY <3>1, <3>2, <3>4
    <2>2. CASE a \notin 1..ids.run
      <3>1. g[a] = new
        BY <1>g, <2>2
      <3> QED BY <1>2, <3>1
    <2> QED BY <2>1, <2>2
  <1>8. Account(g)'
    BY <1>5, <1>6, <1>7 DEF Account
  <1> QED BY <1>8

LEMMA ExecutionsNext ==
    ASSUME JobsInv, JobsInv', ExecutionsInv, [JobsNext]_jobsVars
    PROVE  ExecutionsInv'
  <1>0. /\ JobsTypeOK /\ JobsTypeOK' /\ plan \in Seq(JobCommand) /\ canceling \in Seq(JobCommand)
        /\ \A j \in JobId : job[j] \in Job /\ listing[j] \in Job
    BY DEF JobsInv, JobsTypeOK
  <1>p. \A c \in Puts(plan) : c.id \in JobId /\ c.record \in Job
    BY <1>0, PutsTyped
  <1>e. Puts(<<>>) = {}
    BY NoCommands
  <1>i. ids.job \in Nat /\ ids.run \in Nat /\ scene.retries \in Nat /\ Len(mishaps) \in Nat /\ 1..ids.job \subseteq JobId
    <2>1. ids.job \in Nat /\ ids.run \in Nat /\ ids.job <= MaxJobs /\ MaxJobs \in Nat /\ scene.retries \in Nat
      BY <1>0, IdsShape, SceneShape DEF JobsTypeOK
    <2>2. mishaps \in Seq(MishapKind)
      BY <1>0 DEF JobsTypeOK
    <2> QED BY <2>1, <2>2 DEF JobId
  <1>f. PICK f : Account(f)
    BY DEF ExecutionsInv
  <1>w. /\ \A j \in JobId : WithinRetries(job[j]) /\ WithinRetries(listing[j])
        /\ \A c \in Puts(plan) : WithinRetries(c.record)
        /\ WithinRetries(NoJob)
    BY NoJobShape DEF ExecutionsInv, AttemptInv, WithinRetries
  <1>a. ASSUME UNCHANGED scene, \A j \in JobId : WithinRetries(job'[j]) /\ WithinRetries(listing'[j]),
               \A c \in Puts(plan') : WithinRetries(c.record)
        PROVE  AttemptInv'
    BY <1>a DEF AttemptInv, WithinRetries
  <1>c. ASSUME UNCHANGED <<scene, mishaps>>, ids'.run = ids.run, ids'.job >= ids.job,
               \A j \in 1..ids.job, k \in 1..(scene.retries + 1) : Charged(j, k) => Charged(j, k)'
        PROVE  \E g : Account(g)'
    <2>1. Account(f)'
      BY <1>0, <1>c, <1>f, <1>i, AccountKept
    <2> QED BY <2>1
  <1> USE DEF jobsVars, jobTables, jobWorld, jobLeader, jobClient
  \* Between two turns nothing is owed: what is listed is the tables' copy.
  <1>1. ASSUME plan = <<>>, UNCHANGED <<job, scene, mishaps>>, ids'.run = ids.run, ids'.job >= ids.job,
               \A j \in JobId : listing'[j] \in {listing[j], job[j], NoJob},
               \A c \in Puts(plan') : WithinRetries(c.record) /\ (c.id > ids.job \/ c.record.status \notin Unfinished)
        PROVE  ExecutionsInv'
    <2>1. AttemptInv'
      BY <1>1, <1>a, <1>w
    <2>2. ASSUME NEW j \in 1..ids.job, NEW k \in 1..(scene.retries + 1), Charged(j, k) PROVE Charged(j, k)'
      <3>1. j \in JobId /\ j <= ids.job /\ Puts(plan) = {}
        BY <1>1, <1>e, <1>i
      <3>2. job[j].status \in Unfinished => k <= job[j].attempt
        BY <2>2, <3>1 DEF Charged
      <3>3. listing'[j].status \in Unfinished => k <= listing'[j].attempt
        BY <1>1, <2>2, <3>1, <3>2, NotUnfinished DEF Charged
      <3>4. \A c \in Puts(plan') : c.id = j => c.record.status \notin Unfinished
        BY <1>1, <1>i, <3>1
      <3> QED BY <1>1, <3>2, <3>3, <3>4 DEF Charged
    <2> QED BY <1>1, <1>c, <2>1, <2>2 DEF ExecutionsInv
  \* A new run is queued.
  <1>q. ASSUME NEW slot \in Nat, enqueueCronJob(slot), ids.job < scene.jobs
        PROVE  /\ ids'.run = ids.run /\ ids'.job >= ids.job
               /\ \A c \in Puts(plan') : WithinRetries(c.record) /\ c.id > ids.job
    <2>1. PICK r \in Job : r = [status |-> "QUEUED", attempt |-> 0, slot |-> slot]
      BY DEF Job
    <2>2. Puts(plan') = {putJob(ids.job + 1, r)} /\ ids'.run = ids.run /\ ids'.job = ids.job + 1
      BY <1>0, <1>q, <2>1, Enqueues, NewJobId DEF enqueueCronJob
    <2>3. putJob(ids.job + 1, r).id = ids.job + 1 /\ putJob(ids.job + 1, r).record = r
      BY DEF putJob
    <2>4. WithinRetries(r)
      BY <2>1 DEF WithinRetries
    <2> QED BY <1>i, <2>2, <2>3, <2>4
  <1>2. CASE reconcileCron
    <2>0. plan = <<>> /\ UNCHANGED <<job, scene, mishaps>>
      BY <1>2 DEF reconcileCron
    <2>1. CASE UNCHANGED <<plan, ids>>
      <3>1. \A j \in JobId : listing'[j] \in {listing[j], job[j], NoJob}
        BY <1>2 DEF reconcileCron, ListJobs, fireCron
      <3> QED BY <1>1, <1>e, <1>i, <2>0, <2>1, <3>1
    <2>2. CASE ~UNCHANGED <<plan, ids>>
      <3>1. enqueueCronJob(Due) /\ UNCHANGED listing /\ ids.job # scene.jobs
        BY <1>2, <2>2 DEF reconcileCron, fireCron
      <3>2. Due \in Nat /\ ids.job < scene.jobs
        <4>1. ids.job \in Nat /\ scene.jobs \in Nat /\ ids.job <= scene.jobs
          BY <1>0, IdsShape, SceneShape DEF JobsInv, JobsTypeOK
        <4> QED BY <1>0, <3>1, <4>1, DueLater
      <3> QED BY <1>1, <1>q, <2>0, <3>1, <3>2
    <2> QED BY <2>1, <2>2
  <1>3. CASE replaceCron
    <2>0. jobPass = "cancel" /\ plan = <<>> /\ UNCHANGED <<job, scene, mishaps>> /\ ids.job < scene.jobs
      BY <1>3 DEF replaceCron, JobsInv, PlanInv
    <2>1. CASE enqueueCronJob(cronLast) /\ UNCHANGED listing
      <3>1. cronLast \in Nat
        BY <1>0, SceneShape DEF JobsTypeOK
      <3> QED BY <1>1, <1>q, <2>0, <2>1, <3>1
    <2>2. ASSUME NEW j \in JobId, Turn(j), plan' = CancelCommands(j, listing[j]), UNCHANGED ids
          PROVE  ExecutionsInv'
      <3>1. \A i \in JobId : listing'[i] \in {listing[i], NoJob}
        BY <1>0, <2>2 DEF Turn, JobsTypeOK
      <3>2. PICK r \in Job : r = [listing[j] EXCEPT !.status = "CANCELED"]
        BY <1>0, CanceledCopy
      <3>3. r.status = "CANCELED"
        BY <1>0, <3>2, CanceledCopy
      <3>4. Puts(plan') = {putJob(j, r)} /\ putJob(j, r).record = r
        <4>1. listing[j] \in Job /\ run \in [RunId -> Run]
          BY <1>0 DEF JobsTypeOK
        <4> QED BY <2>2, <3>2, <4>1, CancelShape, PutJobShape
      <3>5. \A c \in Puts(plan') : WithinRetries(c.record) /\ c.record.status \notin Unfinished
        BY <3>3, <3>4 DEF WithinRetries, Unfinished
      <3> QED BY <1>1, <1>i, <2>0, <2>2, <3>1, <3>5
    <2> QED BY <1>3, <2>1, <2>2 DEF replaceCron
  <1>4. CASE reconcileJobs
    BY <1>1, <1>4, <1>e, <1>i DEF reconcileJobs, ListJobs
  <1>5. CASE SendCommand
    <2>0. PICK c : c = Head(plan)
      OBVIOUS
    <2>1. /\ plan # <<>> /\ applyJobCommand(c) /\ plan' = Tail(plan)
          /\ UNCHANGED <<ids, scene, listing, mishaps>>
      BY <1>5, <2>0 DEF SendCommand
    <2>2. /\ Puts(plan') \subseteq Puts(plan) /\ (job' # job => c \in Puts(plan))
          /\ c \in Puts(plan) => job' = [job EXCEPT ![c.id] = c.record]
          /\ Puts(plan) \subseteq Puts(plan') \cup {c}
      BY <1>0, <2>0, <2>1, Applies, SendsOne
    <2>3. ASSUME c \in Puts(plan) PROVE job'[c.id] = c.record /\ \A j \in JobId : j # c.id => job'[j] = job[j]
      BY <1>0, <1>p, <2>2, <2>3 DEF JobsTypeOK
    <2>4. AttemptInv'
      BY <1>a, <1>w, <2>1, <2>2, <2>3
    <2>5. \A d, e \in Puts(plan) : d = e
      BY DEF JobsInv, PlanInv
    <2>6. ASSUME NEW j \in 1..ids.job, NEW k \in 1..(scene.retries + 1), Charged(j, k) PROVE Charged(j, k)'
      <3>1. j \in JobId
        BY <1>i
      <3>2. CASE c \notin Puts(plan)
        <4>1. Puts(plan') = Puts(plan) /\ job' = job
          BY <2>2, <3>2
        <4> QED BY <2>1, <2>6, <4>1 DEF Charged
      <3>3. CASE c \in Puts(plan)
        <4>1. job'[j].status \in Unfinished => k <= job'[j].attempt
          <5>1. CASE j = c.id
            BY <2>3, <2>6, <3>3, <5>1 DEF Charged
          <5>2. CASE j # c.id
            BY <2>3, <2>5, <2>6, <3>1, <3>3, <5>2 DEF Charged
          <5> QED BY <5>1, <5>2
        <4> QED BY <2>1, <2>2, <2>6, <4>1 DEF Charged
      <3> QED BY <3>2, <3>3
    <2> QED BY <1>c, <1>i, <2>1, <2>4, <2>6 DEF ExecutionsInv
  <1>6. ASSUME NEW j \in JobId, reconcileJob(j) PROVE ExecutionsInv'
    <2>1. /\ plan = <<>> /\ listing[j] # NoJob /\ listing' = [listing EXCEPT ![j] = NoJob]
          /\ UNCHANGED <<job, scene, mishaps>>
      BY <1>6 DEF reconcileJob, Turn
    <2>2. listing[j].status # "ABSENT" /\ j \in 1..ids.job
      BY <1>i, <2>1, NoJobShape DEF JobsInv, RecordsInv, JobId
    <2>3. \A c \in Puts(plan') : Follows(c, j)
      BY <1>0, <1>6, <2>2, DriveFacts
    <2>4. listing'[j] = NoJob /\ \A i \in JobId : listing'[i] \in {listing[i], NoJob}
      BY <1>0, <2>1 DEF JobsTypeOK
    <2>5. AttemptInv'
      <3>1. \A c \in Puts(plan') : WithinRetries(c.record)
        BY <2>3 DEF Follows, WithinRetries, Ended
      <3> QED BY <1>a, <1>w, <2>1, <2>4, <3>1
    <2>6. listing[j].attempt \in Nat
      BY <1>0 DEF Job
    <2>7. ASSUME \A c \in Puts(plan') : c.record.attempt \in Nat /\ listing[j].attempt <= c.record.attempt,
                 NEW i \in 1..ids.job, NEW k \in 1..(scene.retries + 1), Charged(i, k)
          PROVE  Charged(i, k)'
      <3>1. i \in JobId /\ Puts(plan) = {}
        BY <1>e, <1>i, <2>1
      <3>2. job[i].status \in Unfinished => k <= job[i].attempt
        BY <2>7, <3>1 DEF Charged
      <3>3. listing'[i].status \in Unfinished => k <= listing'[i].attempt
        BY <2>4, <2>7, <3>1, NotUnfinished DEF Charged
      <3>4. ASSUME NEW c \in Puts(plan'), c.id = i, c.record.status \in Unfinished PROVE k <= c.record.attempt
        <4>1. i = j /\ listing[j].status \in Unfinished
          BY <2>3, <3>4 DEF Follows
        <4>2. k <= listing[j].attempt
          BY <2>7, <4>1 DEF Charged
        <4> QED BY <2>6, <2>7, <4>2
      <3> QED BY <2>1, <3>2, <3>3, <3>4 DEF Charged
    <2>8. CASE UNCHANGED ids /\ \A c \in Puts(plan') : c.record.attempt = listing[j].attempt
      BY <1>c, <1>i, <2>1, <2>5, <2>6, <2>7, <2>8 DEF ExecutionsInv
    <2>9. CASE /\ ids.run < MaxRuns /\ ids' = [ids EXCEPT !.run = @ + 1]
               /\ listing[j].status \in {"QUEUED", "RETRYING"}
               /\ \E c \in Puts(plan') : c.record.status = "RUNNING" /\ c.record.attempt = listing[j].attempt + 1
               /\ \A c \in Puts(plan') : c.record.status = "RUNNING" /\ c.record.attempt = listing[j].attempt + 1
      <3>1. ids'.run = ids.run + 1 /\ ids'.job = ids.job
        BY <1>0, <2>9, NewRunId
      <3>2. PICK v \in 1..(scene.retries + 1) : v = listing[j].attempt + 1
        BY <1>i, <1>w, <2>6, <2>9 DEF WithinRetries
      <3>3. ~Charged(j, v)
        BY <2>6, <2>9, <3>2 DEF Charged, Unfinished
      <3>4. Charged(j, v)'
        <4>1. \E c \in Puts(plan') : c.id = j /\ c.record.status = "RUNNING" /\ c.record.attempt = v
          BY <2>3, <2>9, <3>2 DEF Follows
        <4>2. \A c \in Puts(plan') : v <= c.record.attempt
          BY <2>9, <3>2
        <4> QED BY <2>4, <4>1, <4>2, NotUnfinished DEF Charged
      <3>5. \A i \in 1..ids.job, k \in 1..(scene.retries + 1) : Charged(i, k) => Charged(i, k)'
        BY <2>6, <2>7, <2>9
      <3>6. \E g : Account(g)'
        BY <1>0, <1>f, <2>1, <2>2, <3>1, <3>3, <3>4, <3>5, AccountExtended
      <3> QED BY <2>5, <3>6 DEF ExecutionsInv
    <2> QED BY <1>0, <1>6, <2>2, <2>8, <2>9, DriveFacts
  \* The plan and the listing stay; a job is at most canceled or is a new one.
  <1>7. ASSUME UNCHANGED <<scene, listing, plan, mishaps>>, ids'.run = ids.run, ids'.job >= ids.job,
               \A j \in JobId : \/ job'[j] = job[j] \/ job'[j].status = "CANCELED"
                                \/ j > ids.job /\ WithinRetries(job'[j])
        PROVE  ExecutionsInv'
    <2>1. AttemptInv'
      <3>1. \A j \in JobId : WithinRetries(job'[j])
        BY <1>7, <1>w DEF WithinRetries
      <3> QED BY <1>7, <1>a, <1>w, <3>1
    <2>2. ASSUME NEW j \in 1..ids.job, NEW k \in 1..(scene.retries + 1), Charged(j, k) PROVE Charged(j, k)'
      <3>1. job'[j] = job[j] \/ job'[j].status \notin Unfinished
        BY <1>7, <1>i, NotUnfinished
      <3> QED BY <1>7, <2>2, <3>1 DEF Charged
    <2> QED BY <1>7, <1>c, <2>1, <2>2 DEF ExecutionsInv
  <1>8. CASE RunJob
    <2>1. /\ job' = [job EXCEPT ![ids.job + 1] = [status |-> "QUEUED", attempt |-> 0, slot |-> 0]]
          /\ ids' = [ids EXCEPT !.job = @ + 1] /\ ids.job < scene.jobs
          /\ UNCHANGED <<scene, listing, plan, mishaps>>
      <3>1. ids.job + (IF jobPass = "cancel" THEN 1 ELSE 0) < scene.jobs /\ scene.jobs \in Nat
        BY <1>8, <1>0, SceneShape DEF RunJob, JobsTypeOK
      <3>2. ids.job < scene.jobs
        BY <1>i, <3>1
      <3> QED BY <1>8, <3>2 DEF RunJob
    <2>2. ids'.run = ids.run /\ ids'.job >= ids.job
      BY <1>0, <1>i, <2>1, NewJobId DEF JobsInv
    <2>3. \A j \in JobId : job'[j] = job[j] \/ (j > ids.job /\ WithinRetries(job'[j]))
      BY <1>0, <1>i, <2>1 DEF JobsTypeOK, WithinRetries
    <2> QED BY <1>7, <2>1, <2>2, <2>3
  <1>9. CASE SendCancel
    <2>0. PICK c : c = Head(canceling)
      OBVIOUS
    <2>1. /\ canceling # <<>> /\ applyJobCommand(c) /\ UNCHANGED <<ids, scene, listing, plan, mishaps>>
      BY <1>9, <2>0 DEF SendCancel
    <2>2. /\ job' # job => c \in Puts(canceling)
          /\ c \in Puts(canceling) => job' = [job EXCEPT ![c.id] = c.record]
      BY <1>0, <2>0, <2>1, Applies
    <2>3. c \in Puts(canceling) => c.record.status = "CANCELED"
      BY DEF JobsInv, RecordsInv
    <2>4. \A j \in JobId : job'[j] = job[j] \/ job'[j].status = "CANCELED"
      BY <1>0, <2>2, <2>3 DEF JobsTypeOK
    <2> QED BY <1>7, <1>i, <2>1, <2>4
  <1>10. ASSUME NEW j \in JobId, CancelJob(j) \/ BackoffPasses(j) PROVE ExecutionsInv'
    BY <1>7, <1>i, <1>10 DEF CancelJob, BackoffPasses
  <1>11. ASSUME NEW a \in RunId, FinishRun(a) \/ StopRun(a) PROVE ExecutionsInv'
    BY <1>7, <1>i, <1>11 DEF FinishRun, StopRun
  <1>12. CASE JobsTick \/ RegainCapacity \/ FirstRelease \/ DeleteEnvironment \/ UNCHANGED jobsVars
    BY <1>7, <1>i, <1>12 DEF JobsTick, RegainCapacity, FirstRelease, DeleteEnvironment
  \* A mishap loses the one PutJob that is under way, if any, and pays for its attempt.
  <1>13. ASSUME NEW kind \in MishapKind, Mishap(kind), UNCHANGED <<job, ids, scene>>,
                \A j \in JobId : listing'[j] \in {listing[j], NoJob}, Puts(plan') \subseteq Puts(plan)
         PROVE  ExecutionsInv'
    <2>1. AttemptInv'
      BY <1>13, <1>a, <1>w
    <2>2. PICK u, v : \A c \in Puts(plan) : c.id = u /\ c.record.attempt = v
      <3>1. CASE Puts(plan) = {}
        BY <3>1
      <3>2. CASE Puts(plan) # {}
        <4>1. PICK d \in Puts(plan) : \A c \in Puts(plan) : c = d
          BY <3>2 DEF JobsInv, PlanInv
        <4> QED BY <4>1
      <3> QED BY <3>1, <3>2
    <2>3. ASSUME NEW j \in 1..ids.job, NEW k \in 1..(scene.retries + 1), Charged(j, k)
          PROVE  Charged(j, k)' \/ (j = u /\ k = v)
      <3> SUFFICES ASSUME ~(j = u /\ k = v) PROVE Charged(j, k)'
        OBVIOUS
      <3>1. j \in JobId
        BY <1>i
      <3>2. job[j].status \in Unfinished => k <= job[j].attempt
        BY <2>2, <2>3 DEF Charged
      <3>3. listing'[j].status \in Unfinished => k <= listing'[j].attempt
        BY <1>13, <2>3, <3>1, NotUnfinished DEF Charged
      <3> QED BY <1>13, <2>3, <3>2, <3>3 DEF Charged
    <2>4. Len(mishaps') = Len(mishaps) + 1
      BY <1>0, <1>13, Mishaps
    <2>5. \E g : Account(g)'
      <3>1. UNCHANGED <<scene, ids>>
        BY <1>13
      <3>2. CoveredBut(u, v)
        BY <2>3 DEF CoveredBut
      <3>3. JobsTypeOK /\ JobsTypeOK'
        BY <1>0
      <3> QED BY <1>f, <2>4, <3>1, <3>2, <3>3, AccountRedirected
    <2> QED BY <2>1, <2>5 DEF ExecutionsInv
  <1>14. CASE LoseCapacity
    BY <1>13, <1>14 DEF LoseCapacity, MishapKind
  <1>15. CASE SwallowedError
    <2>1. plan # <<>> /\ plan' = Tail(plan) /\ Mishap("swallowed") /\ UNCHANGED <<job, ids, scene, listing>>
      BY <1>15 DEF SwallowedError
    <2>2. Puts(plan') \subseteq Puts(plan)
      BY <1>0, <2>1, SendsOne
    <2> QED BY <1>13, <2>1, <2>2 DEF MishapKind
  <1>16. CASE JobsFailover
    <2>1. listing' = NoListing /\ plan' = <<>> /\ Mishap("failover") /\ UNCHANGED <<job, ids, scene>>
      BY <1>16 DEF JobsFailover
    <2>2. Puts(plan') \subseteq Puts(plan) /\ \A j \in JobId : listing'[j] = NoJob
      BY <1>e, <2>1 DEF NoListing
    <2> QED BY <1>13, <2>1, <2>2 DEF MishapKind
  <1>17. CASE reconcileOrphans
    <2>1. plan = <<>> /\ UNCHANGED <<job, ids, scene, listing, plan>>
      BY <1>17 DEF reconcileOrphans
    <2>2. CASE UNCHANGED mishaps
      BY <1>1, <1>e, <1>i, <2>1, <2>2
    <2>3. CASE Mishap("swallowed")
      BY <1>13, <2>1, <2>3 DEF MishapKind
    <2> QED BY <1>17, <2>2, <2>3 DEF reconcileOrphans
  <1> QED
    BY <1>2, <1>3, <1>4, <1>5, <1>6, <1>8, <1>9, <1>10, <1>11, <1>12, <1>14, <1>15, <1>16, <1>17
    DEF JobsNext, JobsEvaluate

LEMMA ExecutionsInit == JobsInit => ExecutionsInv
  <1> SUFFICES ASSUME JobsInit PROVE ExecutionsInv
    OBVIOUS
  <1>1. \A j \in JobId : job[j] = NoJob /\ listing[j] = NoJob
    BY DEF JobsInit, NoListing
  <1>2. AttemptInv
    BY <1>1, NoJobShape, NoCommands DEF AttemptInv, WithinRetries, JobsInit
  <1>3. PICK f : f = [a \in {} |-> a]
    OBVIOUS
  <1>4. 1..ids.run = {}
    BY DEF JobsInit
  <1>5. Account(f)
    BY <1>3, <1>4 DEF Account
  <1> QED BY <1>2, <1>5 DEF ExecutionsInv

\* An account bounds the number of assignments by the number of charges.
LEMMA AccountBounds ==
    ASSUME JobsTypeOK, NEW f, Account(f)
    PROVE  ExecutionsBounded
  <1>1. /\ ids.job \in Nat /\ ids.run \in Nat /\ scene.retries \in Nat /\ mishaps \in Seq(MishapKind)
    BY IdsShape, SceneShape DEF JobsTypeOK
  <1>2. PICK n \in Nat, m \in Nat, r \in Nat, l \in Nat :
           n = ids.run /\ m = ids.job /\ r = scene.retries + 1 /\ l = Len(mishaps)
    BY <1>1
  <1>3. f \in Injection(1..n, Attempts \cup Faults)
    BY <1>2 DEF Account, Injection, IsInjective
  <1>4. /\ IsFiniteSet(1..n) /\ IsFiniteSet(1..m) /\ IsFiniteSet(1..r) /\ IsFiniteSet(1..l)
        /\ Cardinality(1..n) = n /\ Cardinality(1..m) = m /\ Cardinality(1..r) = r /\ Cardinality(1..l) = l
    <2>1. ASSUME NEW k \in Nat PROVE IsFiniteSet(1..k) /\ Cardinality(1..k) = k
      <3>1. IsFiniteSet(1..k) /\ Cardinality(1..k) = IF 1 > k THEN 0 ELSE k - 1 + 1
        BY FS_Interval
      <3> QED BY <3>1
    <2> QED BY <2>1
  <1>5. IsFiniteSet(Attempts) /\ Cardinality(Attempts) = m * r
    <2>1. Attempts = (1..m) \X (1..r)
      BY <1>2 DEF Attempts
    <2>2. IsFiniteSet((1..m) \X (1..r)) /\ Cardinality((1..m) \X (1..r)) = Cardinality(1..m) * Cardinality(1..r)
      BY <1>4, FS_Product, Zenon
    <2> QED BY <1>4, <2>1, <2>2
  <1>6. IsFiniteSet(Faults) /\ Cardinality(Faults) = l
    <2>1. IsFiniteSet({0}) /\ Cardinality({0}) = 1
      BY FS_Singleton
    <2>2. IsFiniteSet({0} \X (1..l)) /\ Cardinality({0} \X (1..l)) = Cardinality({0}) * Cardinality(1..l)
      BY <1>4, <2>1, FS_Product, Zenon
    <2>3. Faults = {0} \X (1..l)
      BY <1>2 DEF Faults
    <2> QED BY <1>4, <2>1, <2>2, <2>3
  <1>7. PICK p \in Nat : p = m * r
    OBVIOUS
  <1>8. IsFiniteSet(Attempts \cup Faults) /\ Cardinality(Attempts \cup Faults) <= p + l
    <2>1. PICK q \in Nat : q = Cardinality(Attempts \cap Faults)
      BY <1>5, FS_CardinalityType, FS_Intersection
    <2>2. Cardinality(Attempts \cup Faults) = p + l - q
      BY <1>5, <1>6, <1>7, <2>1, FS_Union
    <2>3. IsFiniteSet(Attempts \cup Faults)
      BY <1>5, <1>6, FS_Union
    <2> QED BY <2>1, <2>2, <2>3
  <1>9. n <= p + l
    <2>1. n <= Cardinality(Attempts \cup Faults) /\ Cardinality(Attempts \cup Faults) \in Nat
      BY <1>3, <1>4, <1>8, FS_Injection, FS_CardinalityType
    <2> QED BY <1>8, <2>1
  <1>10. p = r * m
    BY <1>7
  <1> QED BY <1>2, <1>9, <1>10 DEF ExecutionsBounded

(***************************************************************************)
(* Theorems                                                                *)
(***************************************************************************)
\* The tables, the leader's memory and every command under way are well formed, and
\* the ids handed out stay within the scene's bounds (reconcileCron, reconcileJobs,
\* RunJob and CancelJob).
THEOREM JobsTyped == JobsSpec => []JobsTypeOK
  <1>1. JobsInv /\ [JobsNext]_jobsVars => JobsInv'
    BY InvNext
  <1>2. JobsInv => JobsTypeOK
    BY DEF JobsInv
  <1> QED BY <1>1, <1>2, InvInit, PTL DEF JobsSpec

\* reconcileCron fires a slot at most once, for every schedule, jitter and number of
\* leader changes, although a new leader knows nothing of what its predecessor fired.
THEOREM SlotsFiredOnce == JobsSpec => []SlotFiredOnce
  <1>1. JobsInv /\ [JobsNext]_jobsVars => JobsInv'
    BY InvNext
  <1>2. JobsInv => SlotFiredOnce
    BY DEF JobsInv
  <1> QED BY <1>1, <1>2, InvInit, PTL DEF JobsSpec

\* Under FORBID, and under REPLACE while no command is lost, a cron never has two
\* unfinished runs (fireCron and activeCronJobs), wherever the leader changes between
\* two commands and whatever stale copy of a job is still to be written.
THEOREM CronRunsExclusive == JobsSpec => []CronExclusive
  <1> DEFINE Inv == JobsInv /\ ExclusiveInv
  <1>1. JobsInit => Inv
    <2> SUFFICES ASSUME JobsInit PROVE Inv
      OBVIOUS
    <2>1. \A j \in JobId : job[j] = NoJob /\ listing[j] = NoJob
      BY DEF JobsInit, NoListing
    <2>2. \A j \in JobId : ~Live(j)
      BY <2>1, NoJobShape, NoCommands DEF Live, JobsInit
    <2>3. ExclusiveInv
      BY <2>2 DEF ExclusiveInv, JobsInit
    <2> QED BY <2>3, InvInit
  <1>2. Inv /\ [JobsNext]_jobsVars => Inv'
    BY InvNext, ExclusiveNext
  <1>3. Inv => CronExclusive
    <2> SUFFICES ASSUME Inv, scene.policy = "FORBID" \/ (scene.policy = "REPLACE" /\ NoneLost),
                        NEW i \in JobId, NEW j \in JobId,
                        job[i].slot # 0, job[i].status \in Unfinished, job[j].slot # 0, job[j].status \in Unfinished
                 PROVE  i = j
      BY DEF CronExclusive, NoneLost, Unfinished
    <2>1. Live(i) /\ Live(j)
      BY DEF Live
    <2> QED BY <2>1 DEF ExclusiveInv
  <1> QED BY <1>1, <1>2, <1>3, PTL DEF JobsSpec

\* A job is executed max_retries + 1 times at most (placeJob, jobAttemptFailed), and
\* every leader change or lost command costs one execution at most, for every number
\* of jobs, retries, cancel requests and faults.
THEOREM RunsBounded == JobsSpec => []ExecutionsBounded
  <1> DEFINE Inv == JobsInv /\ ExecutionsInv
  <1>1. JobsInit => Inv
    BY InvInit, ExecutionsInit
  <1>2. Inv /\ [JobsNext]_jobsVars => Inv'
    BY InvNext, ExecutionsNext
  <1>3. Inv => ExecutionsBounded
    BY AccountBounds DEF JobsInv, ExecutionsInv
  <1> QED BY <1>1, <1>2, <1>3, PTL DEF JobsSpec

(***************************************************************************)
(* Both                                                                    *)
(***************************************************************************)
\* Where there is a control node, what both loops store and have still to send is
\* well formed, whichever of them a behaviour is about.
THEOREM WorkTyped ==
    ASSUME Dispatcher # {}
    PROVE  WorkSpec => []WorkTypeOK
  <1> DEFINE Inv == BuildsTypeOK /\ JobsInv
  <1>1. BuildsRest => BuildsTypeOK
    <2>1. (CHOOSE c \in Dispatcher : TRUE) \in Dispatcher
      OBVIOUS
    <2> QED
      BY <2>1, BuildsAssumption DEF BuildsRest, BuildsTypeOK, BuildStatus, DispatchStage, NoBuilder
  <1>2. BuildsInit => BuildsTypeOK
    BY BuildsInitInv DEF OutcomeInv
  <1>3. WorkInit => Inv
    BY <1>1, <1>2, InvInit DEF WorkInit, JobsRest
  <1>4. Inv /\ [WorkNext]_workVars => Inv'
    <2>1. Inv /\ WorkNext => Inv'
      BY BuildsTypeNext, InvNext DEF WorkNext
    <2>2. Inv /\ UNCHANGED workVars => Inv'
      BY BuildsTypeNext, InvNext DEF workVars
    <2> QED
      BY <2>1, <2>2
  <1>5. Inv => WorkTypeOK
    BY DEF JobsInv, WorkTypeOK
  <1> QED
    BY <1>3, <1>4, <1>5, PTL DEF WorkSpec
===============================================================================

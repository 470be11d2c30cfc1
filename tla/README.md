# Zattera control plane in TLA+

Zattera is a self-hosted platform: one Go binary that runs as a control node
(raft-replicated state, scheduler, deployment orchestrator, API) and as a worker
(agent, proxy, builder).  The modules in this directory model the control plane and the
part of the agent it depends on: what the loops and handlers read, decide and commit, in
every interleaving, across leader changes, restarts and lost or late reports.

Paths below are relative to `src/internal`.

## 1. The system and its parts

All control nodes hold the same state through raft.  A handler or loop reads the local
copy without a lock that outlives the read, and changes it only by sending a command,
which every node applies atomically.  Whatever was read before may be out of date when
the command commits, and an operation that needs two commands can be cut in half by a
leader change.  That is where the hard behaviour is.

| Part | Code | State | Operations | What makes it correct |
|---|---|---|---|---|
| Replicated state | `state`, `daemon/raftstore` | environments, releases, deployments, builds, assignments, volumes, nodes | one command per kind of record | a command is atomic and one that fails changes nothing |
| Deployment orchestrator | `daemon/scheduler/deployment.go`, `helpers.go` | none of its own | a pass moves each unfinished deployment, oldest first, by one phase | one rollout at a time; traffic moves only to a ready release; nothing is left behind; every deployment ends |
| Stateful updates | `daemon/scheduler/stateful.go` | none of its own | stop old, start new, promote, or restart old | the volume has one writer; traffic moves to what runs |
| Volumes and leases | `daemon/scheduler/volumes.go` | fencing lease per volume | give the lease to the lowest RUN assignment | only the holder starts |
| Deploy requests | `daemon/api/deploy.go`, `upload.go`, `githubroutes.go` | requests in flight | read, check, number, commit up to three records | ids order the deployments; a request that fails half way does no harm |
| Release retention | `daemon/scheduler/retention.go` | the sweep's delete list | list, delete one by one | nothing in use is deleted |
| Build dispatcher | `daemon/scheduler/builds.go` | in-flight map per control node | list, claim, pick a builder, mark RUNNING, follow, record | a build runs once, its outcome is final, it ends |
| Scheduler loop | `daemon/scheduler/scheduler.go`, `drain.go`, `teardown.go`, `placement.go` | the evaluation in progress | converge, reap orphans, drain | the replica count is restored; drains keep the replicas up and end |
| Routes | `daemon/scheduler/routes.go` | none | endpoints of the active release | only healthy replicas on usable nodes are endpoints |
| Node liveness | `daemon/api/liveness.go`, `livestate`, `nodehealth` | heartbeat ages in a control node's memory | list, judge, set status | running nodes are not demoted, dead ones are |
| Node administration | `daemon/api/nodes.go` | requests in flight | drain, cordon, uncordon, label, remove | a status is not lost to a stale write |
| Agent synchronisation | `daemon/api/agentsync.go`, `daemon/agent/agent.go` | sent set, buffered reports | push assignment sets, flush reports | the agent converges on what is stored |
| Agent executor | `daemon/agent/executor.go` | containers, fail counts | stop what is not wanted, start what is and holds its lease, park what keeps failing | fencing holds whatever set the agent has |
| Scale to zero and activator | `daemon/scheduler/scaletozero.go`, `serverless.go`, `api/activator.go`, `proxy/activator.go` | held requests per ingress, idle times | hold, wake, report load, cool | a held request is served; a busy environment is not cooled |
| Jobs and cron | `daemon/scheduler/jobs.go`, `cron.go`, `api/jobs.go` | job runs, cron slots seen by the leader | fire, place, observe, retry, cancel | one run per slot; the concurrency policy; no more executions than retries allow; runs end |
| Joining | `daemon/api/join.go` | tokens, addresses, calls in flight | consume a token, allocate an address, record, hand out a credential | a token is used once; addresses are distinct and kept |
| Image registry | `daemon/registry` | blobs, manifests, tags, reference counts | push, tag, untag, delete, sweep | a tagged image can be pulled; counts are exact; nothing in use is swept |
| Log store | `daemon/logstore`, `agent/logserver.go` | one active file and numbered segments per stream, followers | append, rotate, recover, expire, query, follow | nothing but retention loses a line; readers see no line twice and miss none that was written since they came |
| Mesh paths | `daemon/mesh/meshsock/path.go` | verified address, probes, path per peer | probe, keep alive, punch, fall back to the relay | a direct path where one works, the relay where none does |
| Resource autoscaler | `daemon/scheduler/autoscaler.go` | cool-down times | evaluate metrics, set the count | counts stay in range; a promotion is not reverted |
| Networks, virtual addresses, volume snapshots | `daemon/scheduler/networks.go`, `vips.go`, `snapshots.go` | allocations | allocate, release | no address twice |
| Log capture, metrics, archive, backup | `daemon/agent/logcapture.go`, `tsdb`, `archive`, `backup` | files | store, read | storage I/O |
| Proxy, mesh interfaces, DNS | `daemon/proxy`, `mesh`, `intdns` | connections, peers | route, dial, relay | packet I/O on a table given to them |
| Secrets, certificates, accounts, audit | `daemon/secrets`, `tlsmgr`, `ca`, `api/rbac.go` | keys, accounts | seal, issue, authorise | cryptography and access control |
| Alerts and notifications | `daemon/notify` | firing alerts | evaluate rules, send | observers |
| Command line and configuration | `cli`, `appconfig`, `config`, `cloud` | none | call the API | clients |

How they interact: API handlers, orchestrator, scheduler, retention, liveness monitor and
dispatcher all write the replicated state; orchestrator, scheduler, retention and
dispatcher are separate goroutines of the leader and stop at their next command
(`ErrNotLeader`) when leadership moves.  The control node pushes each agent the full set
of its assignments; the agent's executor works from the last set it got and sends
reports, which are buffered, merged last-write-wins and committed as one command.  The
orchestrator and the scheduler never see a container, only those reports.  An ingress that
holds a request asks the leader to wake the environment, and the leader's loops cool it
again from the load that the ingresses report in heartbeats.  Builds, jobs, joins, the
registry, the log store and mesh paths meet the rest only through finished records (a
build's outcome, a node's record), so each is a specification of its own.

Hard behaviour, line by line, is listed under `hazards` in `PROJECT.json`.

## 2. Modules

| Module | Models | State and actions |
|---|---|---|
| `NodeTable` | node records and the commands on them | `node`; `applySetNodeStatus`, `applyPutNode`, ... |
| `Store` | the other records of one environment, the commands, the queries of `helpers.go` and `placement.go` | `env`, `release`, `deployment`, `build`, `assignment`; one `apply...` per command |
| `Orchestrator` | `deployment.go` | `pass` (deployments still to visit), `todo` (commands of the current arm); one action per phase arm, `ApplyNext` sends the next command, `Failover` drops the rest |
| `DeployApi` | deploy, upload, rollback and push handlers | `requests`, each with what it read; one action per step of a handler |
| `Retention` | `retention.go` | `doomed`; `sweepEnv`, `DeleteRelease` |
| `Rollout` | their composition with agents, builds and leader changes | the specification the theorems are about |
| `Serving` | abstract: traffic only moves to a ready release, which stays ready | implemented by `Rollout` |
| `RolloutInvariants`, `RolloutProofs` | the inductive invariants and the theorems | |
| `Scheduler` | `scheduler.go`, `drain.go`, `teardown.go` | `view` (environment as listed), `work` (the rest of the evaluation) |
| `Cluster` | `Rollout` + `Scheduler` + what operators and the monitor do to nodes | `removal`, `nodeOps` |
| `Agent` | executor, assignment sets and reports of one node | `frame`, `containers`, `failCount`, `reported`, `volume` |
| `Stateful` | `stateful.go` and leases over `Rollout`, `Scheduler`, `Agent` | arms, `RestartOldStep`, `reconcileLeases` |
| `StatefulInvariants`, `StatefulProofs` | its inductive invariant and the theorems | |
| `Liveness` | monitor, heartbeats, gossip, elections, restarts, operator requests | `beat`, `listed`, `verdict`, `request` |
| `LivenessProofs` | its inductive invariant and the theorem | |
| `BuildOutcome` | abstract: a build is waited for and then has one final outcome | implemented by `Builds` |
| `Builds` | `builds.go` on several control nodes | `queue`, `stage`, `picked` per control node, `status`, `dispatchLeader`; `unrecorded` (builds whose outcome was refused) |
| `Jobs` | `jobs.go`, `cron.go`, the cancel handler, runs on agents | `job`, `run`, the ids handed out (`ids`), the environment (`jobEnv`: without a release, released, deleted), the leader's slots (`cronLast`, `cronEpoch`) and its pass (`listing`, `plan`), a cancel request (`canceling`); under REPLACE `replaceCron` cancels the listed runs one turn at a time; `reconcileOrphans` stops the runs of a deleted environment |
| `WorkProofs` | that `Builds` implements `BuildOutcome`; the inductive invariants and the theorems of `Jobs` | |
| `Join` | `join.go` on several control nodes, each with its own copy of the state | `members` (committed), `replica` (applied, per control node), `call` (one handler each), `revived` (nodes stored again by a call that resumed them while they were removed) |
| `JoinProofs` | its inductive invariant and the theorems | |
| `Wake` | activator of each ingress, Activate, heartbeats, both cooling loops | `http` (requests), `waking`, `report` (heartbeats), the leader's `lastWake` and `lastActive`, `effective`, `endpoint`; `ServeHTTP`, `Activate`, `ReportStats`, `scaleEnv`, ..., a clock |
| `WakeProofs` | its inductive invariants and the theorems | |
| `Registry`, `MCRegistry` | pushes, retags, deletes, the sweep of files, crashes | blob files, the index transaction, one operation per worker; `MCRegistry` gives the images |
| `LogStore` | one stream: append with failed and cut writes, rotation file by file, recovery, retention, query, follow | `active`, `raw`, `zst` (files), `rotation` (what the lock's holder has left), `stuck` (a write failed), `spoiled` (lines behind a cut record), `reader` |
| `LogStoreProofs` | its inductive invariant and the theorems | |
| `MeshPath` | probes, keepalives, punching and relay for one peer | `verified`, `path`, messages in flight, the network (`reachable`) |
| `MCRollout`, `MCStateful` | instances for TLC; `StableNext` of the former has the steps of `Rollout` without leader changes, failed commands and pruning, which the instances (a) and (d) of `MCCluster` take | |
| `MCCluster` | two instances each of `Rollout` and `Cluster` in one run | `focus` |
| `MCServices` | `Liveness`, `Join` (twice), `Wake`, `Registry`, `LogStore` (twice) in one run | `focus` |
| `MCWork` | `Builds`, `Jobs` in one run | `focus` |
| `MCHeal` | `Cluster` (with any node events, and with drains only) and `MeshPath` in one run | `focus` |
| `HealProofs` | the inductive invariants and the theorems of `Cluster` and `MeshPath` | |

`MCCluster`, `MCServices`, `MCWork` and `MCHeal` put specifications that share no state side
by side. `focus`, chosen at the start and never changed, says which of them a behaviour is
about; the others rest in an initial state. The reachable states are the union of those of
the parts, and a property of one part holds in the run exactly if it holds of the part
alone.

A loop's arm is translated as the code runs it: it reads the state and decides in one
step, and what it decided is a sequence of commands in `todo` (or `work`) that are applied
one step at a time, with every other actor in between.  Where the code reads again between
two commands (the second count in `place`, the re-read in `applyBatch` and in
`statefulFail`), the sequence has a step for it (`RecheckGreen`, `Batch`, `RestartOld`).

Definitions named "Mutant" in a comment are wrong variants of the definition after them;
each shows that some property notices the mistake it makes (`mutants` in `PROJECT.json`).

### Abstractions

* Ids are ULIDs, ordered by creation; here they are numbers handed out in order.  One
  environment of one service is modelled; environments do not share records other than nodes.
* `Place` returns any choice of up to n eligible nodes; scores, labels and reservations
  decide among them in the code and no property depends on which.
* A deadline that is compared with the clock may have passed or not whenever it is asked.
* `STARTING` as an observed state stands for PENDING and PULLING too.
* In `Rollout` and `Cluster` an agent is reduced to its reports: any state in `Reports` may
  follow any other, which covers late and reordered ones.  `Agent` has the real executor.
* `sendAssignments` sends the current set in one step.  The versions that suppress a
  resend after a reconnect are not modelled.
* An apply error that is logged and ignored (`deployment.go:392`) is modelled as a command
  that had no effect (`ApplyTimesOut`).  A command that times out for its author and
  commits all the same is `ApplyNext`; one that commits later still is not modelled.
* `Stateful` has a single node: a volume pins its service to one.
* `Wake`: an environment has one replica or none, which becomes routable `ColdStart` ticks
  after the wake; the proxying itself is one step.  Times keep their order
  (debounce < hold timeout, idle timeout), not their values.
* `Join`: a command has the three outcomes Apply can have (committed and confirmed,
  refused, committed although the caller is told otherwise), and a replica applies
  committed commands late.  Certificates and the voter's enrolment are left out.
* `Registry`: a digest is a model value, an upload session is the blob it leaves, and the
  transactions of the index are atomic as in bbolt.
* `LogStore`: a line is its position in the order of appends.  Its time is the one Docker
  stamped it with, in the same order, and lines are still on their way when a follower
  takes the wall clock: up to `MaxLate` lines that are appended later count as stamped before
  (`TakeTime`).  Every rename and removal is a step; a query's time filter is the
  follower's `since` only and it has no limit.  What follows a cut record in a file is read
  as nothing (`scanRecords` cannot find the next record).  The buffers behind the follower's
  channel (`merged`, `out`) are left out, so a follower lags earlier than in the code.
* `MeshPath`: one peer and the addresses it may have; a round trip is a probe and an
  answer that may be late or never come.
* `Jobs`: an agent's run of a job is its reports; placement is any eligible node, or none
  when `capacity` is gone.  An environment gets its first release or is deleted in one step;
  `reconcileOrphans` reads and applies in one.
* Steps the code divides further, where no property tells the difference: `buildDeployment`
  mints its ids together (`deploy.go:65` mints the release's before the platform look-up);
  a pass visits deployments by id and supersedes by creation time, which is one order here;
  `sweepEnv` reads everything at once, and a delete that fails ends the sweep like a
  leader change does; `reconcileExecutor` is one step per assignment set, without the drift of
  a container's configuration (`executor.go:237`); `Activate` reads and writes in one step.
* `Builds.finish` has a guard that is not in the code, `StaleListing` or not listed: it is
  there to leave out, by a named constant, the re-run that section 6 describes.
* Raft is external: commands are totally ordered, committed ones survive, and a new leader
  reads all of them (the window before it has applied its log is in the plan).

## 3. Runs

| Run | Module | Checks | Instance | What it shows |
|---|---|---|---|---|
| `rollout_races` | `MCCluster` | `Undisturbed`: in (a) and (b) the guarantees of rollouts, in (c) `DrainedEmpty` and `KeptUp`; in (d) `DeployedReleaseKept` | (a) 2 deployments, 2 requests at once (deploy, upload, rollback), a leader change at any step; (b) 2 nodes, rollouts next to the scheduler and a drain; (c) 3 nodes, 2 replicas, 3 drains, leader changes, reports of RUNNING and HEALTHY; (d) retention keeps 1, leader changes and ignored apply errors | however requests race and wherever the leader changes, one rollout at a time, a failed or superseded one leaves nothing wanted, a drain window belongs to the release that serves, also when the scheduler writes the same replicas; a drain keeps the replicas up, also when the replacement sits on the next node to drain; DRAINED means empty; nothing serving or being rolled out is pruned |
| `rollout_serving` | `MCRollout` | `TypeOK`, `ExclusiveRollout`, `NoLeakedGreen`, `DrainingHasSwitched`, `ServingHealthy`, `ServingRefined`, `DeploymentsEnd` | 2 deployments with pushes, no faults, instances that do not regress | one rollout at a time, nothing left of a failed one, a drain window only for the release that serves; traffic only ever moves to a full healthy set, `Rollout` implements `Serving`, every deployment ends |
| `heal` | `MCHeal` | `DrainedEmpty`, `DrainKeepsReplicas`, `DrainsEnd`, `Converges`; `StablePathKept`, `RelayFallback`, `ReachableVerified` | 2 nodes, 4 events out of drain, uncordon, down, up, remove (forced or not), or drains only; 2 addresses, 2 changes of the network | DRAINED means empty whatever happens to nodes; with drains only the replicas stay up (RUNNING or HEALTHY) meanwhile; drains end and the replica count is restored for good; a path stays while the network does, a cut-off peer ends on the relay, a reachable one on a direct path |
| `liveness_tracked` | `Liveness` | `WorkersTracked` | 2 control nodes, an election, crashes, recoveries, drains and cordons | a worker's status ends up following its agent, also when a verdict was decided on a record that has changed since |
| `stateful_update` | `MCStateful` | `StatefulTypeOK`, `SingleWriter`, `SwitchedToRunning` | 2 deployments, failed starts, lost reports, leader changes | one container on the volume; traffic moves only when the new instance alone runs (with pushes this is so for two deployments and not for three, section 6; `OneWriter` says what it takes for any number) |
| `work` | `MCWork` | `WorkTypeOK`, `OutcomeFinal`, `BuildsEnd`, `SlotFiredOnce`, `CronExclusive`, `ExecutionsBounded`, `JobsSettle` | 2 control nodes, 2 builds, 1 builder, 1 election, 1 cordon, 1 refused write; 2 jobs, up to 4 slots, the three policies, retries, a cancellation, up to 2 faults, an environment that is new or deleted (nine scenes) | `Builds` implements `BuildOutcome` and, while the leader stays, every build ends unless its outcome was refused; a slot fires once, an exclusive cron's runs do not overlap, a job runs no more often than its retries allow, and settles |
| `services` | `MCServices` | `RunningNotDown`; `JoinTypeOK`, `TokenUsedOnce`, `AddressesDistinct`, `AddressKept`; `ServicesTypeOK`; `HeldIsServed`, `BusyNotCooled`; `RefsExact`, `TaggedPullable`; `LogKept`, `QueryExact`, `FollowComplete` | 1 control node that restarts, 2 workers; joins with 2 replicas, 2 addresses, 1 removal, and either 2 calls, 2 tokens, 2 leader changes or 3 calls and one leader; 2 ingresses, 2 requests, 1 election; 2 workers on images that share a layer, crashes; segments of 2 lines, cap 2, 1 line on its way when a follower begins, and either 4 lines or 3 with 2 crashes, full disks or cut records | who is heard in time is not demoted by a control node that restarts; a token lets one call in and addresses are distinct and kept, but for a node removed while it is resumed; a held request is served and a busy environment is not cooled; counts are exact after every operation and a tagged image can be pulled; no line is lost in an append or a rotation cut anywhere, but for those behind a cut record, and readers see what was there |
| `abort_crash` | `MCRollout` | `ServingStaffed` violated | 2 deployments, failover | finding 1 |
| `stateful_double_run` | `MCStateful` | `SingleWriter` violated | 2 deployments, 2 requests at once | finding 2 |
| `serverless_wake` | `Wake` | `HeldNotTimedOut` violated | as in `services`, with a concurrency limit | finding 3 |
| `registry_race` | `MCRegistry` | `LayersKept` violated | as in `services` | finding 4 |
| `drain_downtime` | `Cluster` | `Served` violated | 2 nodes, 1 replica, 1 drain | finding 5 |

**Why the bounds are enough.**  Two deployments are what it takes for one to supersede,
block or drain behind another; supersession only looks at "a newer one exists", so a third
behaves towards the second as the second towards the first.  Stateful updates are an
exception that the attempt to prove them brought to light: what one deployment leaves behind
when a push supersedes it can hurt the third (section 6).  Three releases give each
deployment a new one on top of the first.  `MaxAssignment` lets each deployment place its
replicas once and, in `Cluster`, every node event cause a replacement.  Two requests in
flight let both pass the check before either commits.  Three nodes let a replacement land
on the next node to drain; two replicas make "enough replacements" differ from "some
replacement".  In `Liveness` the thresholds keep their order
(gossip < deadline < grace) in the grace run.  `Builds` needs two control nodes for a dispatch
to outlive its leadership, and one builder that is cordoned for none to be left.  `Jobs` needs two runs to overlap and a slot on either side of an
election; a scene fixes policy, retries and faults so that each is explored in full.  Two
calls are what it takes to race for an address or a token, two addresses let the loser of
the race retry, and two moves let a handler be deposed and its node be elected again
(the theorems of section 5 do away with these bounds); a third call is what it takes to give
away the address of a node that is removed while it restarts, which was also checked with
two tokens and a leader change (10.7 million states).  Two ingresses let one be idle
while the other holds; two images and an index over two layers let a layer be shared and be the last of its kind.  Four lines make
two full segments, so that retention has something to remove while a third file is active (a
segment that is rotated for its age may be shorter, so that three do so too, and the
faults were also checked with four, in 1.9 million states),
two faults let a crash hit the recovery from a crash, and one late line falls in the gap
between a follower's start and its subscription.  Two changes
of the network are a cut and a repair.  Bounds in guards: `MaxRelease`, `MaxDeployment`,
`MaxAssignment`, `MaxInFlight`, `MaxNodeOps`, `MaxTerm`, `MaxRequest`, `MaxLeaderChanges`,
`MaxCordons`, `MaxJobs`, `MaxRuns`, `MaxMoves`, `MaxRemovals`, `MaxFaults`, `MaxLogFaults`,
`MaxLines`, `MaxLate`, `MaxRefused`, `MaxChanges`.  The liveness properties of `Cluster` exclude behaviours that run into
`MaxAssignment` (`minted < MaxAssignment` in their premise).

Deadlock is not checked where the bounds end every behaviour, which is everywhere but in
`liveness_tracked`, whose loops never stop; that nothing gets stuck before its end is what
the liveness properties say.

**What a passing run leaves out, and why.**  A run leaves out a fault when the code is
known to violate the property under it; each such case is in section 6.
`rollout_serving` has no leader change (finding 1) and no rollback to the active release;
instance (d) of `rollout_races` has no rollbacks and one request in flight, instance (a) a
retention that prunes nothing; instance (b) has no leader change and (c) no other node
events and no failing instances; `services` has one control node in `Liveness` and no
concurrency limit in `Wake` (finding 3); `stateful_update` has
`StaleEvaluation` and `StaleRequests` FALSE, no ignored apply errors and no containers that
refuse to stop, and no third deployment; `work` has `StaleListing` FALSE and one election
among the dispatchers.  Three properties name the case they do not cover instead of leaving
the fault out: `AddressesDistinct` (`revived`), `LogKept` (`spoiled`) and `BuildsEnd`
(`unrecorded`, elections).

### Fairness

* `Rollout`: the orchestrator's loop, commands and handlers are weakly fair (it ticks every
  15 s and on every change; handlers run to their end).  A build ends (`Builds`
  shows when).  An agent reports at least once on what it was told to run.  Strong
  fairness of `DeadlinePasses`: whenever a deployment keeps being visited its deadline
  passes some day and, for `place`, capacity is found.  STARTING and PLACING have no
  deadline in the code, so without the last two assumptions a deployment may wait for ever.
* `Cluster`: the scheduler's loop is weakly fair; strong fairness of `PlacesAll` says that a
  placement that is possible again and again succeeds; agents report; removals finish.
* `Liveness`: the clock, the monitor's ticker, heartbeats of running agents, handlers.
  `Timely` keeps the clock from passing a deadline before a running agent was heard.
* `Builds`: the leader's loop and the dispatch goroutines; a silent builder is given up
  after its inactivity timeout, so a stream ends.
* `Jobs`: the leader's pass and its commands, a cancel handler, backoffs run out, capacity
  returns, and a run that has started ends and is reported.  The last is an assumption
  on the user's program.
* `MeshPath`: the evaluation's ticker, the clock, and answers that are under way arrive.
  Whether a probe is answered depends on `reachable`, which fairness says nothing about.
* In `MCHeal` the fairness is that of the part the behaviour is about.

## 4. Findings

1. `abort_crash`.  `abort` deletes the green set in one command and records FAILED in the
   next.  When leadership moves in between, the new leader finds a deployment in
   HEALTHCHECKING without green replicas; all of none are healthy (`deployment.go:254`), so it
   promotes it, and the environment serves from zero replicas.
2. `stateful_double_run`.  A request that reads the environment while another deployment is
   about to finish records an outdated previous release.  When its own deployment fails,
   `statefulFail` sets that release's stopped instance back to RUN beside the one that
   serves; the lease moves to the lower id and the executor starts it without stopping
   the container it already has: two writers.
3. `serverless_wake`.  With a concurrency limit, `serverless.go` sets the replica count from
   the requests in flight, without an idle window.  A request the activator holds is not in
   flight, so the environment woken for it is cooled by the next pass; the ingress asks once
   per hold, and the request is answered 504 after the hold timeout.
4. `registry_race`.  `PutManifest` checks that the layers exist before the transaction that
   counts them, and `sweepBlobs` removes files after the transaction that found them
   unused.  Untagging the last image with a layer in between leaves the new manifest
   without it.
5. `drain_downtime`.  `replacementReady` counts RUNNING replicas (`drain.go:86`), which every
   instance is before its health check has passed, while only HEALTHY ones are endpoints
   (`routes.go:243`).  A drain stops the only endpoint of a service while its replacement is
   warming up, although `drain.go:15-18` promises a healthy replacement first.  What the
   code does guarantee, a replica that is RUNNING or HEALTHY for each that is needed, is
   `KeptUp`, checked by `heal` and `rollout_races` and proved as `DrainsKeepUp`.

## 5. Proofs

The theorems hold for every value of the constants that the modules' assumptions allow: every
set of nodes and ingresses, every number of releases, deployments, replicas, requests, control
nodes, calls, addresses, tokens, builds, jobs, retries, lines and segments, every deadline,
every number of leader changes and crashes.  What they assume beyond that is in the last
column; each such assumption excludes a behaviour of the code that breaks the property
(sections 4 and 6).

| Theorem | Statement | Assumptions |
|---|---|---|
| `TypeCorrect` | `Spec => []TypeOK` | none |
| `OneRollout` | `Spec => []ExclusiveRollout` | no swallowed apply error |
| `NothingLeaked` | `Spec => []NoLeakedGreen` | no swallowed apply error |
| `SwitchBeforeDrain` | `Spec /\ []RolloutReleaseKept => []DrainingHasSwitched` | no swallowed apply error |
| `ReleasesKept` | `Spec => []DeployedReleaseKept` | `OneByOne`: one request in flight, no rollbacks |
| `TrafficReady` | `Spec /\ []RolloutReleaseKept /\ [][LeaderChange => Idle]_vars => ServingRefined` | no swallowed apply error, no rollback to the active release |
| `TrafficHealthy` | the same `=> []ServingHealthy` | also `Steady`: instances do not regress |
| `TrafficOneByOne` | `Spec /\ [][LeaderChange => Idle]_vars => ServingRefined /\ []DrainingHasSwitched` | no swallowed apply error, `OneByOne` |
| `JoinTypes` | `JoinSpec => []JoinTypeOK` | none |
| `TokenOnce` | `JoinSpec => []TokenUsedOnce` | none |
| `Distinct` | `JoinSpec => []AddressesDistinct` | none; the property excludes nodes in `revived` |
| `Kept` | `JoinSpec => []AddressKept` | none |
| `HeardNotDemoted` | `Spec => []RunningNotDown` (of `Liveness`) | one control node, no recovery of lost nodes |
| `OutcomeKept` | `BuildsSpec /\ [][LeadsAfresh]_buildsVars => OutcomeFinal` | `~StaleListing` |
| `OutcomeKeptOnce` | `BuildsSpec => OutcomeFinal` | `~StaleListing`, one election at most |
| `WorkTyped` | `WorkSpec => []WorkTypeOK` | there is a control node |
| `StoreKeepsLines` | `LogSpec => []LogKept` | no partial record (`torn`); writes may fail |
| `QueriesExact` | `LogSpec => []QueryExact` | no partial record (`torn`); writes may fail |
| `FollowersMissNothing` | `LogSpec => []FollowComplete` | no partial record (`torn`); writes may fail |
| `BusyKeepsReplica` | `WakeSpec => BusyNotCooled` | `~Serverless`, an idle window of two heartbeat intervals or more |
| `HeldRequestsServed` | `WakeSpec => []HeldIsServed` | `Timely`: `~Serverless`; a replica starts within the idle window and the hold timeout; the debounce is no longer than the idle window |
| `WakeTyped` | `WakeSpec => []WakeTypeOK` | none |
| `JobsTyped` | `JobsSpec => []JobsTypeOK` | none |
| `SlotsFiredOnce` | `JobsSpec => []SlotFiredOnce` | none |
| `CronRunsExclusive` | `JobsSpec => []CronExclusive` | none |
| `RunsBounded` | `JobsSpec => []ExecutionsBounded` | none |
| `StatefulTypes` | `StatefulSpec => []StatefulTypeOK` | none |
| `OneWriter` | `StatefulSpec /\ [][RequestWaits]_statefulVars => []SingleWriter` | `OneWriterSetting` (below) |
| `SwitchRunning` | the same `=> SwitchedToRunning` | `OneWriterSetting` |
| `OneWriterDeploys` | `StatefulSpec => []SingleWriter` | `OneWriterSetting`, `~StaleRequests`, no pushes |
| `RolloutsUndisturbed` | `ClusterSpec => [](ExclusiveRollout /\ NoLeakedGreen)` | no swallowed apply error |
| `SwitchUndisturbed` | `ClusterSpec /\ []RolloutReleaseKept => []DrainingHasSwitched` | no swallowed apply error |
| `DrainedNodesEmpty` | `ClusterSpec => []DrainedEmpty` | no deployments |
| `DrainsKeepUp` | `ClusterSpec /\ [][OnlyDrains]_clusterVars => []KeptUp` | no deployments; a stateless service that does not scale to zero; instances report RUNNING or HEALTHY, in any order, or nothing |
| `DrainsKeepReplicas` | `HealSpec => []DrainKeepsReplicas` | the same |
| `PathKept` | `MeshSpec => StablePathKept` | none |

### Rollouts

None of the invariants is inductive: what keeps two deployments apart is not in the
deployments but in what the pass has still to visit and to send.  The strengthening is in
`RolloutInvariants`.  `StepsInv` says that what is pending is well-formed: it ends in a goal
for one unfinished deployment.  `PassOrder` says that everything older than a deployment
yet to be visited is either visited first or not being rolled out, and that nothing else is
being rolled out while a goal advances its deployment (oldest first is what makes this
true).  `ReapedFirst` says that a goal of FAILED or SUPERSEDED has its green set gone or the
delete in front of it.  `FreshDeployments` says that the number of a request in flight is
in use nowhere else.  `SwitchedFirst` says that a goal of DRAINING_OLD has the switch in
front of it or behind it.  Each is proved initial and preserved by every step, on a few
lemmas about the arms (`ArmSteps`, `ReconcileVisits`, `ReconcileLeaves`: what any arm may
leave in `todo`, and from which phase), about `Apply` and about short sequences.

`"timeout" \notin Faults` is needed: an arm whose delete was lost goes on to record FAILED.
`[]RolloutReleaseKept` is needed because promoting a pruned release has no effect while the
deployment goes on.

### Retention

`ReleasesKept` says when retention gives that: with one request in flight and no rollbacks,
and then whatever else goes wrong.  `Versions` says that releases are numbered in
order, so that the release of a request whose deployment is not stored yet is the newest,
which a sweep always keeps (`NewestKept`); `Unpruned` says that nothing on the list of a sweep
is served, being rolled out or about to be.  Two requests in flight, or a rollback to a
release on the list, break it (section 6).

### Traffic

`TrafficReady` is the refinement of `Serving`, step by step: the initial states map to
initial ones, a step that leaves the traffic alone is a `Restaff` or a stutter, and the switch
is a `Switch`.  That the serving release is ready after every step is `StaffInv`:

* `Replicated`: a wanted replica belongs to a deployment that got past PENDING, and is of its
  release; ids not handed out yet are not in use;
* `PhaseOfGoal`, `ReplicasOfGoal`: the arm under way fits the phase it was decided in, deletes
  only replicas of the deployment it gives up, stores only new ones and stops only those of
  the release its deployment replaced;
* `Staffed`: enough green replicas from STARTING on, enough of them up from PROMOTING on, and
  of the serving release enough that no arm deletes (`Kept`: their deployment has
  switched the traffic, or is about to).

At the switch the last two meet: a replica of the release belongs to the deployment that
switches, or to one that is over; one that failed has no replicas (`NoLeakedGreen`), no other
is being rolled out (`ExclusiveRollout`), so all are `Kept`.  `completeDrain` stops replicas of
the previous release, which is another one (`Forward`).  The hypothesis
`[][LeaderChange => Idle]_vars`, that a leader is replaced between arms and not inside
one, is what finding 1 and the second item of section 6 show to be needed; leader changes
between arms are covered.  Nothing is assumed about the reports of agents in `TrafficReady`:
the switch looks at health, but the promise to keep the full set wanted does not depend on it.

### Joins

That two nodes never share an address is not inductive either.  The handler looks for a free
address on its own replica, which may lag behind what is committed; two handlers may choose
the same one and both write it.  What saves them is that each reads again after its write and
starts over if another record has its address.  `JoinInv` makes that argument: `Identities`
(an identity a call did not mint itself belongs to a call that ended well, and only a
resumed call uses one), `Recorded` (what a handler wrote, or is about to write again, is on the
committed record; a new node has no record before its token was accepted), `OneSeesOther` (when
a handler that has its check to make shares its address with another record, it sees that
record in its replica, or the other has its check to make too and sees this one),
`OwnersDistinct` (records past their checks differ) and `Spent` (a call past consumption has
used its token), which with `TokenUsedOnce` is inductive.  A removal may come at any time, also
between the read and the write of a call that resumes the node.  That write stores the
record again; the node is then in `revived` and out of `OwnersDistinct`, until it is
removed again.  `OneSeesOther` is the one that rests
on the order of commits: the second of two writers has the first in its replica when its
write has been confirmed.

### Node liveness

`HeardInv` adds to `RunningNotDown` that the grace window is the time since the leader's memory
is empty and that outside of it every running agent was heard in time (`HeardOrGrace`), and
that nothing read or decided earlier, be it a listed record, a verdict or an operator's stale copy,
would make a running node DOWN when it is written (`NothingToDemote`).  With a second control
node the first half fails (the window counts from boot, section 6); a recovery puts back a
record that was DOWN.

### Builds

`OutcomeInv` relates what the leader has still to do to the stored status: whatever it has
listed, claimed or picked is QUEUED, what it streams is RUNNING (`InStep`), and nobody else
has anything listed.  It survives an election exactly if the new leader has no dispatch of its
own under way (`LeadsAfresh`), which can fail only when a node leads a second time: a leader
that lost and regained its office finds its old dispatch finishing a build it
then runs again.  `OutcomeKeptOnce` discharges the hypothesis for one election with
`FirstLeader`: until then only the first leader has dispatched anything.

### Log store

Files are ordered by their lines.  `DiskInv` says so (`Ordered`), says where the holder of the
lock is in a rotation or a recovery and what that means for the files (`Rotating`), and
that every line is expired or in a file (`Covered`); a crash or a full disk may stop the
rotation in each of its stages and none has a line in no file.  `ReaderInv` says that a
query has returned, in order, a prefix of what was there when it took its snapshot; that a
follower has, sent or waiting in its channel, every line appended since it subscribed
(`Sent`); and that its second read covers what is stamped after it began (`ReadAgain`),
where the two overlap.  That a number is free
for the next segment rests on a count: there are fewer segments than lines.  That the
next segment to read is the smallest unread one uses the least-number principle of the
library (`WFMin`).  A partial record is excluded, because what is appended behind one is lost; TLC covers
that case, with the lost lines in `spoiled`.

### Scale to zero

`BusyInv` (for `BusyKeepsReplica`): a heartbeat younger than a request in flight has counted
it, and while the leader has not heard an ingress its activity mark is as young as that
silence, so that a leader elected a moment ago does not take silence for idleness.
`HeldInv` (for `HeldRequestsServed`) is conditional on no fault having happened, as the property
is: a cold environment has no mark, a debounced activation finds the environment awake,
and a parked request has its wake on the way or a replica that has been coming up for as long
as it waits.

### Jobs

`JobsInv` follows every copy of a record: the table, the leader's listing and the
commands still to be sent agree on the slot a job was created for (`RecordsInv`, `PlanInv`), and
no job is of a slot later than the ones the leader counts from (`SlotsInv`).
For exclusion a job counts as unfinished while any copy that may still be written shows it so
(`Live`); at most one is.  For the bound on executions there is an account that charges
every assignment to an attempt of its job or to a fault, injectively (`Account`); the bound is
then a fact about cardinalities of finite sets.

### Stateful updates

`OneWriterSetting` is: one replica, requests one at a time and no rollbacks (`OneByOne`), no
swallowed apply error, stops that succeed, and no evaluation overtaken by a deployment
(`~StaleEvaluation`).  `RequestWaits` says that no request comes while a deployment is under
way; deploys and uploads whose check is not stale see to that themselves, which is
`OneWriterDeploys`, and pushes do not.  Everything else is allowed: leader changes between
any two commands, failed starts and builds, lost and late reports, assignment sets and leases
that arrive late, scale to zero.

That there is one container says nothing about the next one, so the invariant follows an
instance from its creation to its end.  `WriterInv` has these parts:

* `OneAtATime`, `RequestsFit`, `DeploymentsFit`: one deployment or one request at a time, and it
  replaces what serves, until it has switched the traffic;
* `InstancesFit`: at most one instance of the release that serves and one of the deployment
  under way, which is the newest there is; what is wanted is one of these two;
* `ServesKept`: the instance that serves is wanted unless a deployment that replaces it has
  stopped it, so that a failing deployment restarts one instance and the right one;
* `LowestTouched`: of the instances that are RUN only the lowest was ever given the lease, in
  the store, in the agent's set or in a command that is still to come;
* `FrameSafe`, `OneContainer`: the agent's set, however old, does not give the lease to
  another instance than the one that runs, and so there is one container;
* `PromotesRunning`: a deployment that promotes has its container running, which is
  `SwitchedToRunning` at the switch;
* `ArmsFit`, `WorkFits`: what the arm and the evaluation under way have still to send fits
  the phase, stops or deletes nothing that serves and starts only what is new.

The argument is in `LowestTouched`: the lease goes to the lowest RUN instance, a new one has
the highest number, and the old one is RUN again only when the new one has been deleted.
TLC checked `WriterInv` on a finite instance (748 963 states) before the proof.

### Scheduler and drains

`ClusterTypes` is type correctness of `Cluster`, pending evaluation included.  A step of the
scheduler, of a node or of an operator is `Beside` the rollout: it leaves environment,
deployments and requests alone, at most ends the orchestrator's pass (a leader change) and
adds no replica to a deployment's green set.  Every such step keeps the invariants of section "Rollouts" (`BesideKeeps`), which gives
`RolloutsUndisturbed` and `SwitchUndisturbed` from the lemmas about `Rollout`.

`DrainedNodesEmpty` needs that nothing is about to be put on a drained node.  `EmptyInv` says
it: batches are only at the head of what the evaluation has to do (`WorkOrder`), and while a
node is about to be marked DRAINED no replica is arriving and none is wanted there
(`DrainInv`).  Deployments are excluded because a placement the orchestrator decided before
the drain may commit after it (`drain.go:58`).

`DrainsKeepUp` adds a count (`EnoughLeft`): replicas on live nodes and those arriving are no
more than needed, so the scheduler never has one to spare, and the replicas that are up
without those about to be stopped are enough.  Up is what `replacementReady` takes for it,
RUNNING or HEALTHY; that every replica needed is an endpoint, which is `Served`, is not true
of the code (finding 5).  Its assumptions are the cases in which the code does let go of a
replica that is up: `OnlyDrains`, because the scale-down after an uncordon stops
the newest replica, healthy or not (`scheduler.go:222`), and because a node that fails takes
its replicas along; instances that do not fail; and a service that wants its replicas.
`KeepInv` was checked with TLC on the instance of `heal` first.

### Mesh paths

`PathInv`: before any change of the network, the candidates or the socket, a keepalive that
is due finds no miss on record, because a miss is answered before the next tick, and so no
evaluation holds a copy of the peer with a miss in it that it could drop the path for.

### Only model-checked

* Liveness (`DeploymentsEnd`, `DrainsEnd`, `Converges`, `WorkersTracked`, `BuildsEnd`,
  `JobsSettle`, `RelayFallback`, `ReachableVerified`), which rests on fairness.
* `Registry` (`RefsExact`, `TaggedPullable`), whose cascade of deletions is a recursive
  operator, and with it `ServicesTypeOK`, which has the types of `Registry` in it; that of
  `Wake`, its other half, is `WakeTyped`.
* `Undisturbed` and `DeployedReleaseKept` of `MCCluster` as they stand: they speak of instances
  with constants of their own.  Each of their parts is a theorem about `Rollout` or
  `Cluster`, the latter is `ReleasesKept`.

## 6. Where the code departs from what one would expect

Met while modelling; what concerns modelled code was confirmed with TLC, by adding the named
fault or constant to a run or by stating the property without its exclusion.

* Rollback to the active release (`Inputs` with `rollbackToActive`): its previous release is
  itself, so `completeDrain` stops the replicas that serve (`deploy.go:86`).
* A leader change during a promotion next to a push: a push is not held back by a running deployment and
  has no previous release (`githubroutes.go:167`), so a superseded deployment that had
  switched traffic is reaped (`deployment.go:273`).
* Ignored apply errors (`Faults` with `timeout`): a lost promotion goes on to drain the old
  release (`deployment.go:392`); a lost delete leaks replicas, and in `Stateful` breaks
  `SingleWriter`.
* Retention with rollbacks: a rollback that targets a release already on the sweep's list
  loses it (`retention.go:127`).
* The scheduler checks for an owner and then reads the replicas (`scheduler.go:143`): a
  deployment that begins in between has its green set stopped as stale.  `StaleEvaluation`
  in `Stateful` is the same race, and breaks `SingleWriter`.
* Scale-down after an uncordon during a drain stops the newest replica, healthy or not
  (`scheduler.go:222`).
* `drain.go:74`: before the first promotion the wanted count is zero, so a drain stops the
  replicas of a first deployment.  `drain.go:86`: finding 5.  A drain ends when its agent
  has reported every instance stopped; for a node that is drained while its agent is dead
  it does not end (nothing but a forced removal does, `nodes.go:190`).  `drain.go:58`: a placement the orchestrator
  decided before the drain may commit after the node was marked DRAINED.
* Liveness: the grace window is measured from the daemon's boot (`liveness.go:83`), so a
  control node elected later has none, although the comment at 38-39 speaks of a new
  leader; the leader's own record is judged by nobody (`liveness.go:107`); a verdict decided
  before a drain overwrites it (`liveness.go:161`).
* Stateful: a STOPPED report is sent once, so when it is lost the deployment that waits
  for it stays in STOPPING_OLD (`agentsync.go:347`).  A
  container that could not be stopped is reported STOPPED (`executor.go:387`;
  `AgentFaults` with `stopFails`), although `stateful.go:52-53` waits for "its container
  gone".  An old instance set back to RUN and stopped again before it got its lease has no
  container and is never reported STOPPED: the next deployment waits in STOPPING_OLD for
  ever.  A leader change inside `statefulFail`, or a push, leaves two RUN assignments, the
  one without the lease never starts and the deployment stays in STARTING.
* Stateful, with a third deployment (`MCStatefulUpdate.cfg` with `MaxDeployment = 3`,
  `MaxRelease = 4` and pushes among the inputs; met while proving `OneWriter`): `SingleWriter` fails
  after 57 steps.  A push supersedes a deployment that has stopped the old instance, and
  superseding does not restart it.  The push's build fails, and the scheduler, which counts only
  what is RUN, creates a second instance of the release that serves.  A later deployment stops that
  one and fails, and the restart of the old release (`stateful.go:158`) sets both instances to RUN.
  The lease goes to the lower one, while the container of the other still runs: two writers.
* Builds: a leader change orphans a RUNNING build, because the new leader only dispatches
  queued ones (`builds.go:212-213` stores RUNNING "so a failover can observe it").  So does a
  leader that stays, when its log does not take the outcome in time: `fail` and `succeed`
  drop the error (`builds.go:400`, 408).  With
  two elections, or when a dispatch ends between a listing and a claim made from it
  (`StaleListing`), a finished build is run again and its outcome changes.
* Retention with two requests in flight: a release committed by one request can be pruned
  before its deployment is committed, when retention keeps 1; promoting it has no effect and
  `DrainingHasSwitched` fails.
* Jobs: the executor reports STOPPED without an exit code, so a job that was drained is
  recorded SUCCEEDED; a job on a DOWN node stays RUNNING; a STOP that comes before the
  container was started is never reported; a cancellation is overwritten by a pass that
  read the job before; a swallowed error between deleting an attempt's assignment and
  recording the attempt runs the job again; a slot is lost when the election falls between
  its due time and its jitter; the run of a deleted environment is stopped as an orphan,
  recorded SUCCEEDED like a drained one, or, if it was never started, waited for.
* Wake: Activate writes the environment it read at its start; its debounce accepts a wake
  without writing anything; a dead ingress keeps its last heartbeat; when the environment is
  warm already no nudge is sent, although `proxy/l7.go` expects one.
* Join: a join that fails after the token was consumed burns it; a daemon that restarts
  joins again (`daemon.go:122`), so a node admitted with a single-use token cannot
  restart; a failed join leaves its record and address; a resumed join that reads its record
  before the removal of its node and writes after it (`join.go:265`) stores the record again,
  schedulable and with its address, which may have been given to another node meanwhile:
  without the exclusion of `revived`, `AddressesDistinct` fails after 15 steps with three
  calls; `join.go:377` says "Deleted nodes' IPs are not reused yet", but they are.
* Registry: `Reap` compares start times and drops an upload without its lock; a crash between
  commit and sweep leaves blobs nobody will sweep; images pushed by digest are never
  collected; retention sweeps the leader's registry only.
* Log store: a record cut by a crash or a full disk is not removed when the stream is opened
  (`segmented.go:159` appends behind it), so the lines that follow it in the file are
  unreadable, although `segment.go:12-13` says a torn tail is "detected on read and ignored".
  After a write failed, or a rotation failed on a full disk, every append fails until a
  restart, and the capture ignores the error.  A rotation that overlaps a
  query hides lines from it.  A line stamped before a follower takes the wall clock
  (`logserver.go:64`) and appended after its query and before its subscription is filtered
  out of the second read (`segmented.go:396`) and not in the channel: it is missed without a
  marker, although `docs/operations/logs.md:27` promises an explicit one "rather than silently losing
  lines".  A follower that lags inside a batch of two entries would be closed
  twice (`segmented.go:214`); the only caller appends one.
* Log capture: a container replaced under the same assignment between two polls is not
  followed again; a daemon restart captures the container's history a second time.
* Mesh: a later answer from another address changes `verifiedAddr` but not the endpoint
  (`path.go:401-432`); an evaluation's stale copy may put a peer on the relay just after it
  was verified.
* Others, from reading only: `agent.go:199` drops the newest status batch, although the comment
  says the oldest; `agentsync.go:191` skips a resend by version; `store.go:167` gives all
  leader loops one channel; `builds.go:326` may pick one builder twice; certificate locks
  expire after two minutes without renewal and are released unconditionally
  (`tlsmgr/storage.go:175`); a new leader forgets which alerts fire (`notify/engine.go:96`).

## 7. Not modelled, and the plan

Not modelled because it is I/O, data or third-party code: raft itself and its transport,
packets of proxy, mesh and DNS, log capture, metrics, archives and backups, cryptography,
accounts and audit, notifications, command line, configuration and cloud providers.

A large part of the repository is outside any model's reach.  About 34 000 of its 84 000
lines are generated (protobuf messages, gRPC stubs, the HTTP gateway under `api/gen`), and
the command line, handlers that translate requests into records, file formats and
provider clients make up most of the rest: they keep no state of their own, and a model of them would
repeat their text.  What is modelled is the code that decides something while others act.

Next, in this order:

1. The resource autoscaler next to promotions: both write the whole environment record
   (`autoscaler.go:206`).
2. Versions of assignment sets in `Agent` (`agentsync.go:191`), and agents of several nodes.
3. Certificate locks; a new leader before it has applied its log; `Place`, networks and
   virtual addresses against reference definitions.
4. Proofs: `Registry` with its cascade written without recursion; `OneWriter` with pushes, once
   superseding restarts what it stopped; drains next to rollouts, whose counts differ while two
   releases have replicas; `RunningNotDown` with several control nodes, once the grace window
   counts from the election.

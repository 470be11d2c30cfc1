------------------------------ MODULE DeployApi ------------------------------
(***************************************************************************)
(* The requests that create deployments: the deploy service (api/deploy.go *)
(* and api/upload.go) and the GitHub push handler (api/githubroutes.go).   *)
(* A handler reads the environment, refuses if a deployment is in          *)
(* progress, builds its records and then commits them one at a time; none  *)
(* of this holds a lock, so requests interleave with each other and with   *)
(* the orchestrator.                                                       *)
(***************************************************************************)
EXTENDS Store

CONSTANTS
    Inputs,       \* the kinds of request made: a subset of RequestKind
    MaxInFlight   \* bound: requests being handled at the same time

RequestKind == {"deploy", "upload", "rollback", "rollbackToActive", "git"}

ASSUME DeployApiAssumption == Inputs \subseteq RequestKind /\ MaxInFlight \in Nat \ {0}

VARIABLES
    requests,     \* requests being handled
    lastRelease,  \* release ids handed out
    lastDeployment  \* deployment ids handed out

api == <<requests, lastRelease, lastDeployment>>

Request == [stage : {"read", "checked", "build", "release", "deployment"}, kind : RequestKind,
            dep : {NoId} \cup DeploymentId, rel : {NoId} \cup ReleaseId,
            prev : {NoId} \cup ReleaseId]

ApiTypeOK ==
    /\ requests \subseteq Request
    /\ lastRelease \in {NoId} \cup ReleaseId
    /\ lastDeployment \in {NoId} \cup DeploymentId

deploymentBlocksNewDeploy(d) == ~isTerminalPhase(d) /\ deployment[d].phase # "DRAINING_OLD"
hasActiveDeployment == \E d \in DeploymentId : deploymentBlocksNewDeploy(d)

CanMint(newRelease) ==
    /\ lastDeployment < MaxDeployment
    /\ newRelease => lastRelease < MaxRelease

(***************************************************************************)
(* resolveEnv: the request keeps the environment it read, and with it the  *)
(* active release that becomes previous_release_id.                        *)
(***************************************************************************)
resolveEnv(kind) ==
    /\ kind \in Inputs \ {"git"}
    /\ Cardinality(requests) < MaxInFlight
    /\ CanMint(kind \in {"deploy", "upload"})
    /\ requests' = requests \cup {[stage |-> "read", kind |-> kind, dep |-> NoId,
                                   rel |-> NoId, prev |-> env.active]}
    /\ UNCHANGED <<store, minted, lastRelease, lastDeployment>>

\* The handler answers FailedPrecondition.
Refuse(q) ==
    /\ q \in requests /\ q.stage = "read" /\ hasActiveDeployment
    /\ requests' = requests \ {q}
    /\ UNCHANGED <<store, minted, lastRelease, lastDeployment>>

Check(q) ==
    /\ q \in requests /\ q.stage = "read" /\ ~hasActiveDeployment
    /\ requests' = (requests \ {q}) \cup {[q EXCEPT !.stage = "checked"]}
    /\ UNCHANGED <<store, minted, lastRelease, lastDeployment>>

\* After the check Deploy asks a registry for the image's platforms and
\* UploadSource receives the whole source, so a lot may happen before they go on.
\* Deploy and UploadSource build a release and a deployment record; the ids, and
\* so the order superseding goes by, are fixed here and not when they commit.
buildDeployment(q) ==
    /\ q \in requests /\ q.stage = "checked" /\ q.kind \in {"deploy", "upload"}
    /\ CanMint(TRUE)
    /\ lastRelease' = lastRelease + 1
    /\ lastDeployment' = lastDeployment + 1
    /\ requests' = (requests \ {q}) \cup
          {[q EXCEPT !.stage = IF q.kind = "upload" THEN "build" ELSE "release",
                     !.rel = lastRelease + 1, !.dep = lastDeployment + 1]}
    /\ UNCHANGED <<store, minted>>

\* Rollback targets a stored release: the one before the active one by default,
\* any other when the caller names it, the active one included.
Rollback(q, target) ==
    /\ q \in requests /\ q.stage = "checked"
    /\ q.kind \in {"rollback", "rollbackToActive"}
    /\ CanMint(FALSE)
    /\ release[target] # "ABSENT"
    /\ (target = q.prev) <=> (q.kind = "rollbackToActive")
    /\ lastDeployment' = lastDeployment + 1
    /\ requests' = (requests \ {q}) \cup
          {[q EXCEPT !.stage = "deployment", !.rel = target, !.dep = lastDeployment + 1]}
    /\ UNCHANGED <<store, minted, lastRelease>>

\* A push: no check for a deployment in progress, no previous release.
DeployGit ==
    /\ "git" \in Inputs
    /\ Cardinality(requests) < MaxInFlight /\ CanMint(TRUE)
    /\ lastRelease' = lastRelease + 1
    /\ lastDeployment' = lastDeployment + 1
    /\ requests' = requests \cup
          {[stage |-> "build", kind |-> "git", dep |-> lastDeployment + 1,
            rel |-> lastRelease + 1, prev |-> NoId]}
    /\ UNCHANGED <<store, minted>>

CommitBuild(q) ==
    /\ q \in requests /\ q.stage = "build"
    /\ build' = [build EXCEPT ![q.dep] = "QUEUED"]
    /\ requests' = (requests \ {q}) \cup {[q EXCEPT !.stage = "release"]}
    /\ UNCHANGED <<env, release, deployment, assignment, node, minted, lastRelease, lastDeployment>>

CommitRelease(q) ==
    /\ q \in requests /\ q.stage = "release"
    /\ release' = [release EXCEPT ![q.rel] = IF q.kind = "deploy" THEN "IMAGE" ELSE "SOURCE"]
    /\ requests' = (requests \ {q}) \cup {[q EXCEPT !.stage = "deployment"]}
    /\ UNCHANGED <<env, deployment, build, assignment, node, minted, lastRelease, lastDeployment>>

CommitDeployment(q) ==
    /\ q \in requests /\ q.stage = "deployment"
    /\ deployment' = [deployment EXCEPT ![q.dep] =
          [rel |-> q.rel, prev |-> q.prev, phase |-> "PENDING",
           rollback |-> q.kind \in {"rollback", "rollbackToActive"}]]
    /\ requests' = requests \ {q}
    /\ UNCHANGED <<env, release, build, assignment, node, minted, lastRelease, lastDeployment>>

\* A command of the request fails (no leader, a timeout): the caller gets the
\* error and what was committed before it stays.
AbandonRequest(q) ==
    /\ q \in requests
    /\ requests' = requests \ {q}
    /\ UNCHANGED <<store, minted, lastRelease, lastDeployment>>

ApiStep ==
    \/ DeployGit
    \/ \E kind \in Inputs : resolveEnv(kind)
    \/ \E q \in requests :
          \/ Refuse(q) \/ Check(q) \/ buildDeployment(q) \/ \E r \in ReleaseId : Rollback(q, r)
          \/ CommitBuild(q) \/ CommitRelease(q) \/ CommitDeployment(q)
==============================================================================

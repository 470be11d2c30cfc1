------------------------------ MODULE Retention ------------------------------
(***************************************************************************)
(* Release retention (scheduler/retention.go): the leader deletes old      *)
(* releases of the environment, keeping the active one, the rollback       *)
(* target below it, the newest few and whatever an unfinished deployment   *)
(* references.  The set to delete is computed once per sweep and then      *)
(* deleted one command at a time.                                          *)
(***************************************************************************)
EXTENDS Store

CONSTANT RetentionKeep   \* how many of the newest releases always stay

ASSUME RetentionAssumption == RetentionKeep \in Nat \ {0}

VARIABLE doomed   \* releases the current sweep has still to delete

StoredReleases == {r \in ReleaseId : release[r] # "ABSENT"}

Newest == {r \in StoredReleases :
             Cardinality({s \in StoredReleases : s > r}) < RetentionKeep}

\* The highest version below the active release.
previousReleaseID ==
    {r \in StoredReleases : /\ env.active \in StoredReleases /\ r < env.active
                            /\ \A s \in StoredReleases : s < env.active => s <= r}

\* Mutant: only the releases deployments came from are kept.
ReferencedPrevOnly ==
    {deployment[d].prev : d \in {e \in DeploymentId : ~isTerminalPhase(e)}}

Referenced ==
    UNION {{deployment[d].rel, deployment[d].prev} :
             d \in {e \in DeploymentId : ~isTerminalPhase(e)}}

sweepEnv ==
    /\ doomed = {}
    /\ doomed' = StoredReleases \ ({env.active} \cup previousReleaseID \cup Newest \cup Referenced)
    /\ doomed' # {}
    /\ UNCHANGED <<store, minted>>

DeleteRelease(r) ==
    /\ r \in doomed /\ \A s \in doomed : s <= r
    /\ release' = [release EXCEPT ![r] = "ABSENT"]
    /\ doomed' = doomed \ {r}
    /\ UNCHANGED <<env, deployment, build, assignment, node, minted>>
==============================================================================

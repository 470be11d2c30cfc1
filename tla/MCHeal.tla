-------------------------------- MODULE MCHeal --------------------------------
(***************************************************************************)
(* Two parts that repair what the outside breaks, under fairness, in one   *)
(* run: the scheduler heals the environment (Cluster) and a node finds a   *)
(* path to a peer (MeshPath).  They share no state, so a behaviour is      *)
(* about one of them (focus), the other does not move, and the fairness    *)
(* assumed is that of the one that does.  In "drains" nodes are drained    *)
(* and nothing else happens to them.                                       *)
(***************************************************************************)
EXTENDS Cluster, MeshPath

VARIABLE focus

\* Where a part may start in several states, it rests in one of them.
HealInit ==
    /\ focus \in {"cluster", "drains", "mesh"} /\ ClusterInit /\ MeshInit
    /\ focus # "mesh" \/ lastRelease = NoId
    /\ focus = "mesh" \/ (reachable = {} /\ candidates = {})

HealNext ==
    \/ focus = "cluster" /\ ClusterNext /\ UNCHANGED <<meshVars, focus>>
    \/ focus = "drains" /\ ClusterNext /\ OnlyDrains /\ UNCHANGED <<meshVars, focus>>
    \/ focus = "mesh" /\ MeshNext /\ UNCHANGED <<clusterVars, focus>>

HealFairness ==
    \/ focus \in {"cluster", "drains"} /\ ClusterFairness
    \/ focus = "mesh" /\ MeshFairness

HealSpec == HealInit /\ [][HealNext]_<<clusterVars, meshVars, focus>> /\ HealFairness

\* When nodes are drained and nothing else happens to them, however many there are
\* and also when a replacement is on the next node to drain, the serving release
\* never has fewer replicas up (RUNNING or HEALTHY) than it needs: a drain stops one
\* only when enough others are up elsewhere (replacementReady).
DrainKeepsReplicas == focus = "drains" => KeptUp
===============================================================================

------------------------------ MODULE MCRollout ------------------------------
(* Small instances of Rollout for TLC. *)
EXTENDS RolloutInvariants, TLC

NodeSymmetry == Permutations(Node)

\* The steps while one leader stays, its commands succeed and retention has nothing
\* to prune.  The others are taken by the instances of MCCluster.
StableNext ==
    \/ ApiStep /\ UNCHANGED <<orch, doomed>>
    \/ OrchStep
    \/ \E d \in DeploymentId : FinishBuild(d)
    \/ \E a \in AssignmentId : Report(a)

StableSpec == Init /\ [][StableNext]_vars /\ Fairness
==============================================================================

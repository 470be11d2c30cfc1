SPECIFICATION ClustersSpec
CONSTANTS
    n1 = n1
    n2 = n2
    n3 = n3
    Node = {n1, n2}
    Fleet = {n1, n2, n3}
    Lone = {n1}
SYMMETRY ClusterSymmetry
CHECK_DEADLOCK FALSE
INVARIANTS
    Undisturbed
    DeployedReleaseKept

SPECIFICATION FairSpec
CONSTANTS
    c1 = c1
    c2 = c2
    w1 = w1
    Node = {c1, c2, w1}
    Control = {c1, c2}
    GossipStale = 1
    Deadline = 1
    Grace = 2
    Gossip = FALSE
    Ops = {"crash", "recover", "drain", "cordon"}
    MaxTerm = 1
    MaxRequest = 2
PROPERTY WorkersTracked

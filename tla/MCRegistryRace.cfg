SPECIFICATION RegistrySpec
CONSTANTS
    Layer = {"l1", "l2"}
    Manifest = {"m1", "m2"}
    Index = {"x1"}
    Edges <- SharedLayers
    Repo = {"p"}
    Tag = {"t1", "t2"}
    Worker = {1, 2}
CHECK_DEADLOCK FALSE
INVARIANT LayersKept

SPECIFICATION TreeSpec
CONSTANTS
    a = a
    b = b
    c = c
    Leaf <- MCLeaf
    RING_LOG = 2
    K_LOG = 2
    TREE_DEPTH = 5
    CUTS <- MCCuts
    Batches <- MCBatches
INVARIANTS
    RingIsTheTrees
    FrontierIsTheTree
    OpenedIsInTheRing
    PlanIsAccepted
\* The tree fills up: D then refuses every flush.
CHECK_DEADLOCK FALSE

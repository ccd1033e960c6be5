SPECIFICATION Spec
CONSTANTS
    alice = alice
    bob = bob
    Client <- MCClient
    Leaf <- MCClient
    Note <- MCClient
    Nullifier <- MCClient
    Key <- MCClient
    NfOf <- MCSame
    KeyOf <- MCSame
    OwnerOf <- MCSame
    NoNote = NoNote
    BATCH = 2
    RING = 1
    MAX_COUNT = 0
    DELTA = 5
    FEE = 1
    MAX_TX = 6
    MAX_TAKE = 1
    MAX_REORG = 1
SYMMETRY MCSymmetry
INVARIANTS
    CopyIsItsOutputs
    StateIsHistory
    PaidOncePerChain
\* The bound on transactions is reached.
CHECK_DEADLOCK FALSE

SPECIFICATION FairSpec
CONSTANTS
    alice = alice
    bob = bob
    Client = {alice}
    Leaf <- MCClient
    Note <- MCClient
    Nullifier <- MCClient
    Key <- MCClient
    NfOf <- MCSame
    KeyOf <- MCSame
    OwnerOf <- MCLoner
    NoNote = NoNote
    BATCH = 1
    RING = 1
    MAX_COUNT = 1
    DELTA = 5
    FEE = 1
    MAX_TX = 12
    MAX_TAKE = 1
    MAX_REORG = 1
PROPERTIES
    FlushedInTheEnd
    PaidInTheEnd
\* Everything is withdrawn.
CHECK_DEADLOCK FALSE

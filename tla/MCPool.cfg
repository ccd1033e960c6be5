SPECIFICATION Spec
CONSTANTS
    a = a
    b = b
    c = c
    k = k
    Leaf <- MCLeaf
    Note <- MCNote
    Nullifier <- MCNullifier
    Key <- MCKey
    NfOf <- MCNfOf
    KeyOf <- MCKeyOf
    BATCH = 2
    RING = 2
    MAX_COUNT = 4
    DELTA = 5
    FEE = 1
    D_VALUE = 1
    W_VALUE = 2
INVARIANTS
    TypeOK
    Solvency
    NoDoublePayout
    RingIsHistory
    StillProvable
PROPERTIES
    ImplementsLedger
\* The tree and the queue fill up and every note is paid: the pool then stops.
CHECK_DEADLOCK FALSE

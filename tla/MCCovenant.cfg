SPECIFICATION CovenantSpec
CONSTANTS
    a = a
    b = b
    Leaf <- MCLeaf
    Note <- MCNote
    Nullifier <- MCNullifier
    Key <- MCKey
    NfOf <- MCNfOf
    KeyOf <- MCKeyOf
    BATCH = 1
    RING = 2
    MAX_COUNT = 2
    DELTA = 5
    FEE = 1
    D_VALUE = 1
    W_VALUE = 2
    NWORKER = 2
    N_IN = 3
INVARIANTS
    OneOfEach
PROPERTIES
    ImplementsPool
\* The tree and the queue fill up and every note is paid: the pool then stops.
CHECK_DEADLOCK FALSE

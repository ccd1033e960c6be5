SPECIFICATION Spec
CONSTANTS
    alice = alice
    bob = bob
    toAlice = toAlice
    toBob = toBob
    Leaf <- MCLeaf
    Note <- MCLeaf
    Nullifier = {1, 2}
    Key = {11, 12}
    NfOf <- MCNfOf
    KeyOf <- MCKeyOf
    Payee = {toAlice, toBob}
    PayTo <- MCPayTo
    BATCH = 1
    RING = 1
    MAX_COUNT = 1
    DELTA = 5
    FEE = 1
    D_VALUE = 1
    W_VALUE = 2
    NCARRIER = 1
    NBATON = 2
    MAX_TX0 = 2
INVARIANTS
    PaidIsVerified
    PaidAsIntended
    OneTx1PerTx0
    BatonsKept
PROPERTIES
    ImplementsPool
\* The tree is full, every note is paid, the bound on tx0s is reached.
CHECK_DEADLOCK FALSE

SPECIFICATION Spec
CONSTANTS
    N = 4
    good = good
    bad = bad
    a = a
    b = b
    c = c
    p = p
    q = q
    C = C
    D = D
    NoCat = NoCat
    Empty = Empty
    NoState = NoState
    Statement = {good, bad}
    Dyn = {a, b, c}
    Stat = {p, q}
    State <- MCState
    Start <- MCStart
    Step <- MCStep
    Accept <- MCAccept
    Commitment <- MCCommitment
    Hash <- MCHash
    Category = {C, D}
    Layouts <- MCLayouts
    MAX_TX = 3
INVARIANTS
    RunsWhole
PROPERTIES
    GroupsImplementVerifier
CHECK_DEADLOCK FALSE

SPECIFICATION Spec
CONSTANTS
    N = 3
    good = good
    bad = bad
    a = a
    b = b
    x = x
    y = y
    ha = ha
    hb = hb
    hx = hx
    hy = hy
    Empty = Empty
    NoArg = NoArg
    Statement = {good, bad}
    State = {a, b, x, y}
    Commitment = {ha, hb, hx, hy}
    Accept = {b}
    Start <- MCStart
    Step <- MCStep
    Hash <- MCHash
    Issue <- MCIssue
    MAX_TX = 7
    MAX_FT = 1
    MAX_OUTS = 1
INVARIANTS
    TokensArePlaced
    VerdictMeansVerified
    OneVerdictPerGenesis
PROPERTIES
    ImplementsVerifier
CHECK_DEADLOCK FALSE

SPECIFICATION Spec
CONSTANTS
    DEPTH = 3
    Keys <- MCKeys
INVARIANTS
    RootIsTheSet
    OneEncoding
    PathIsAccepted
\* Every key gets spent: W then refuses every withdrawal.
CHECK_DEADLOCK FALSE

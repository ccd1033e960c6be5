CONSTANTS
    W = 3
    LAST = 5
    Frames <- MCFrames
    Windowed = {3, 4}
    First = 1
    Carrier <- MCCarrier
    Room <- MCRoom
    Program <- MCProgram
    Statements <- MCStatement
    Relation <- MCRelation
    Payload <- MCPayload
    Quotient <- MCQuotient
    Opened <- MCOpened
    Coins <- MCCoins
    Foreign <- MCForeign
SPECIFICATION CoordinatorSpec
INVARIANTS VerdictIsTrue CodeIsTheProgram HonestIsAccepted
CHECK_DEADLOCK FALSE

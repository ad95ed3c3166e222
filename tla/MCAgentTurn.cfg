SPECIFICATION FairSpec
CONSTANTS
    a1 = a1
    a2 = a2
    a3 = a3
    Process <- MCProcess
    None = None
    MaxTurns = 3
INVARIANTS
    TypeOK
    NoAgentOutlivesItsTurn
    VerdictIsTrue
PROPERTY
    TurnReturns

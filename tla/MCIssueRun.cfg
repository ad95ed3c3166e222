SPECIFICATION FairSpec
CONSTANTS
    i1 = i1
    Issue <- MCOne
    None = None
    MaxImpl = 2
    RepeatLimit = 2
    TimeoutLimit = 1
    VerifyLimit = 1
    DraftAfter = 1
    MaxFaults = 2
    MaxHelp = 1
INVARIANTS
    TypeOK
    OverBudgetIsRecovery
    OnePullRequest
PROPERTY
    ImplementsLedger
    CycleAdvances
    LossIsReported
    DraftIsPublished
    DoneIsEarned

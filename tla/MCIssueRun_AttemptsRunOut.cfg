SPECIFICATION FairSpec
CONSTANTS
    i1 = i1
    Issue <- MCOne
    None = None
    MaxImpl = 2
    RepeatLimit = 2
    TimeoutLimit = 1
    VerifyLimit = 1
    DraftAfter = 1
    MaxFaults = 0
    MaxHelp = 0
PROPERTY
    AttemptsRunOut

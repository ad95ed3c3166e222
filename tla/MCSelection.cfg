SPECIFICATION FairSpec
CONSTANTS
    Issue = {1, 2, 3}
    Epic = 3
    Before <- const_Before
    PerCycle = 1
    MaxFaults = 1
    MaxHelp = 1
INVARIANT TypeOK
INVARIANT DependentWaits
INVARIANT BoundedStart
PROPERTY CycleReturns
PROPERTY ClosedIsDone
PROPERTY EpicCloses

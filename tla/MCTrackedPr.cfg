CONSTANTS
    MaxCommit = 2
    MaxRepair = 1
    MaxPrs = 2
    MaxFaults = 1
    MaxHelp = 1
    RequestsReview = TRUE
SPECIFICATION FairSpec
INVARIANTS TypeOK LocalCiTruth OneRequestPerHead NeverStuck KernelMergesTogether GuidanceHolds
PROPERTIES PromiseKept OneTurnPerFinding ClosedStaysClosed MergedIsRecorded HealthyIsMerged

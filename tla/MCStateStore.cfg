\* Every session runs once, so the system comes to rest.
SPECIFICATION Spec
CHECK_DEADLOCK FALSE
CONSTANTS
    cy1 = cy1
    cy2 = cy2
    op1 = op1
    rs1 = rs1
    rd1 = rd1
    pr1 = pr1
    loop = loop
    web = web
    Cycle <- MCCycle
    Operator <- MCOperator
    Resetter <- MCResetter
    Reader <- MCReader
    Pruner <- MCPruner
    Proc <- MCProc
    ProcOf <- MCProcOf
    None = None
SYMMETRY CycleSymmetry
CONSTRAINT OneMutation
INVARIANTS
    TypeOK
    LostOnlyByOutlived
PROPERTY
    EvidenceKept
    ImplementsRegister
    NoWorktreeTaken

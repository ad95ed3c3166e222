SPECIFICATION Spec
CONSTANTS
    c1 = c1
    c2 = c2
    c3 = c3
    p1 = p1
    p2 = p2
    h1 = h1
    n1 = n1
    n2 = n2
    Client <- MCClient
    Proc <- MCProc
    ProcOf <- MCProcOf
    Home <- MCHome
    HomeOf <- MCHomeOf
    Pid <- MCPid
    Forcing = {}
    None = None
    Blank = Blank
INVARIANT
    MutualExclusion

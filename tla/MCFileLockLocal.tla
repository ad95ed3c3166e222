-------------------------- MODULE MCFileLockLocal ---------------------------
(* Two callers of one process that stays up and polls, one caller of another *)
(* process that may crash at any step and come back under any pid.           *)
EXTENDS FileLock
CONSTANTS c1, c2, c3, p1, p2, h1, n1, n2
MCClient == {c1, c2, c3}
MCProc == {p1, p2}
MCProcOf == [c \in MCClient |-> IF c = c3 THEN p2 ELSE p1]
MCHome == {h1}
MCHomeOf == [p \in MCProc |-> h1]
MCPid == {n1, n2}

StableInit == Init /\ pidOf[p1] = n1
StableNext == Next /\ pidOf'[p1] = n1
FairSpec == StableInit /\ [][StableNext]_vars /\ Fairness({p1})
=============================================================================

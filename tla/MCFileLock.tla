---------------------------- MODULE MCFileLock ------------------------------
(* Three processes with a caller each: two of one user and host, and a third *)
(* of another host that shares the state directory and cleans up ambiguous   *)
(* owners.  Two pids, so that pids are reused and collide between hosts.     *)
EXTENDS FileLock
CONSTANTS c1, c2, c3, p1, p2, p3, h1, h2, n1, n2
MCClient == {c1, c2, c3}
MCProc == {p1, p2, p3}
MCProcOf == [c \in MCClient |-> CASE c = c1 -> p1 [] c = c2 -> p2 [] c = c3 -> p3]
MCHome == {h1, h2}
MCHomeOf == [p \in MCProc |-> IF p = p3 THEN h2 ELSE h1]
MCPid == {n1, n2}
=============================================================================

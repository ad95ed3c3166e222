---------------------------- MODULE MCStateStore ----------------------------
(* A loop process with two cycles and a web process with one operator        *)
(* mutation, one reset, one prune and one report.                            *)
EXTENDS StateStore, TLC
CONSTANTS cy1, cy2, op1, rs1, pr1, rd1, loop, web
MCCycle == {cy1, cy2}
MCOperator == {op1}
MCResetter == {rs1}
MCPruner == {pr1}
MCReader == {rd1}
MCProc == {loop, web}
MCProcOf == [s \in MCCycle \cup MCOperator \cup MCResetter \cup MCPruner \cup MCReader |->
                IF s \in MCCycle THEN loop ELSE web]
\* Bound: the operator asks for one of the two, a requeue or a prune.
OneMutation == pc[op1] = "idle" \/ pc[pr1] = "idle"

CycleSymmetry == Permutations(MCCycle)
=============================================================================

---------------------------- MODULE MCSelection ----------------------------
\* Two issues of which the second waits for the first, and their epic.
EXTENDS Selection

const_Before == [i \in Issue |-> IF i = 2 THEN {1} ELSE {}]
=============================================================================

----------------------------- MODULE MCIssueRun -----------------------------
(* One issue; for any number of them see IssueRunProofs.                     *)
EXTENDS IssueRun
CONSTANT i1
MCOne == {i1}
=============================================================================

------------------------------ MODULE MCTrackedPr ------------------------------
EXTENDS DecisionKernel, PullRequestReport
=============================================================================

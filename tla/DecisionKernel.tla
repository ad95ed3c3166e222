---------------------------- MODULE DecisionKernel ----------------------------
(***************************************************************************)
(* Decision Kernel v2: a second opinion on a pull request.  explain shows  *)
(* what it would do beside what the supervisor does; it changes nothing,   *)
(* and may be asked in every state of TrackedPr.                           *)
(*                                                                         *)
(* It reads the saved record r and the pull request s, and two facts that  *)
(* PullRequestPolicy leaves out: reviewed, the latest commit that Codex    *)
(* Connector reviewed, and synced, that the record already names the head  *)
(* as approved (provider_success_head_sha; a cycle sees to that before it  *)
(* decides).  GitHub runs checks on every head, and calls a pull request   *)
(* CLEAN when they are green and nothing conflicts.                        *)
(***************************************************************************)
EXTENDS TrackedPr

Decision(action, reason) == [action |-> action, reason |-> reason]

\* normalizeHeadFreshness and normalizeLocalStateFreshness: explain knows only
\* last_head_sha, as the tracked head and as the last head it observed.
normalizeHeadFreshness(r, s) ==
    IF r.last = NoCommit    THEN "unknown"
    ELSE IF r.last = s.head THEN "current_head"
    ELSE "stale_head"

normalizeLocalStateFreshness(r, s) ==
    IF r.last = NoCommit    THEN "missing"
    ELSE IF r.last = s.head THEN "fresh"
    ELSE "stale"

normalizeMergeability(s) ==
    IF s.state # "open"                 THEN "closed"
    ELSE IF s.draft                     THEN "draft"
    ELSE IF s.conflict                  THEN "conflicted"
    ELSE IF mergeConditionsSatisfied(s) THEN "mergeable"
    ELSE "unknown"

\* buildReviewPolicyInput: to which head the must-fix thread belongs.
boundaryOutcome(r, s, reviewed) ==
    IF ~MustFix(s) THEN "none"
    ELSE IF s.codex = "none" /\ reviewed \notin {NoCommit, s.head} THEN "stale_commit_thread"
    ELSE IF s.codex # "none" \/ Exhausted(r, s) THEN "must_fix_current_head"
    ELSE "metadata_only_unresolved"

\* normalizeReviewPosture over summarizeReviewThreads; residue counts only
\* beside a review of the head, and then it is a finding of the head.
normalizeReviewPosture(r, s, reviewed) ==
    IF s.person \/ boundaryOutcome(r, s, reviewed) = "must_fix_current_head"
    THEN "review_blocked"
    ELSE IF s.codex # "none" THEN "current_head_review_observed"
    ELSE IF boundaryOutcome(r, s, reviewed) = "stale_commit_thread"
    THEN "stale_previous_head_review"
    ELSE "missing_current_head_review"

\* Mutant: a result of any head counts.
BlockedWithoutResult(r, s) == r.ci = NoCommit

mergeReadyBlockedByLocalCi(r, s) == r.ci # s.head

mergeReadyBlockedByFinalGuard(s, synced) ==
    \/ s.conflict
    \/ s.person
    \/ ~(synced /\ s.codex = "clean")
    \/ MustFix(s)

\* selectReadOnlyDecision once the head is settled and known: checks first.
ChecksDecision(s) ==
    IF s.checks = "red" THEN Decision("run_codex", "checks_failing")
                        ELSE Decision("wait", "checks_pending")

MissingReviewDecision(r, s) ==
    IF s.checks = "red" /\ r.last = NoCommit THEN Decision("wait", "fresh_local_state_required")
    ELSE IF s.checks # "green"               THEN ChecksDecision(s)
    ELSE Decision("request_review", "missing_current_head_review")

MergeReady(r, s, reviewed, synced) ==
    /\ normalizeHeadFreshness(r, s) = "current_head"
    /\ normalizeLocalStateFreshness(r, s) = "fresh"
    /\ normalizeReviewPosture(r, s, reviewed) = "current_head_review_observed"
    /\ s.checks = "green"
    /\ ~mergeReadyBlockedByLocalCi(r, s)
    /\ ~mergeReadyBlockedByFinalGuard(s, synced)
    /\ normalizeMergeability(s) = "mergeable"

ReviewedDecision(r, s, reviewed, synced) ==
    IF r.last = NoCommit THEN Decision("wait", "fresh_local_state_required")
    ELSE IF boundaryOutcome(r, s, reviewed) = "must_fix_current_head"
    THEN Decision("run_codex", "current_head_must_fix_review")
    ELSE IF s.checks # "green" THEN ChecksDecision(s)
    ELSE IF boundaryOutcome(r, s, reviewed) = "stale_commit_thread"
    THEN Decision("wait", "stale_commit_review")
    ELSE IF MergeReady(r, s, reviewed, synced)
    THEN Decision("merge", "merge_ready_diagnostic_only")
    ELSE Decision("ask_operator", "insufficient_merge_evidence")

selectReadOnlyDecision(r, s, reviewed, synced) ==
    LET where == normalizeMergeability(s)
    IN
    IF where = "closed"          THEN Decision("no_action", "pull_request_closed")
    ELSE IF where = "draft"      THEN Decision("ask_operator", "draft_pull_request")
    ELSE IF where = "conflicted" THEN Decision("ask_operator", "merge_conflict")
    ELSE IF normalizeLocalStateFreshness(r, s) = "stale"
    THEN Decision("wait", "stale_local_state")
    ELSE IF s.person             THEN Decision("ask_operator", "manual_review_thread")
    ELSE IF normalizeReviewPosture(r, s, reviewed) = "missing_current_head_review"
    THEN MissingReviewDecision(r, s)
    ELSE ReviewedDecision(r, s, reviewed, synced)
-----------------------------------------------------------------------------
\* The comparison with the supervisor: the action its state stands for ...
actionEquivalentForCurrentState(state) ==
    CASE state = "done"                  -> "no_action"
      [] state \in {"addressing_review", "repairing_ci", "resolving_conflict"} -> "run_codex"
      [] state \in {"blocked", "failed"} -> "ask_operator"
      [] OTHER                           -> "wait"

currentActionEquivalent(r, s) ==
    LET state == inferStateFromPullRequest(r, s)
    IN  IF state = "ready_to_merge"                         THEN "merge"
        ELSE IF state = "waiting_ci" /\ RequestIsDue(r, s)  THEN "request_review"
        ELSE actionEquivalentForCurrentState(state)

\* ... and how the two relate.
comparisonCategory(current, v2) ==
    IF current = v2 THEN "agreement"
    ELSE IF \/ v2 = "ask_operator"
            \/ v2 = "wait" /\ current \in {"run_codex", "request_review"}
    THEN "safe_divergence"
    ELSE "manual_review_required"

\* guardPrLifecycleEvaluation in the mode that takes actions: source is where
\* the facts are from.
ActionTakingAllowed(r, s, source) ==
    source = "fresh_github" /\ normalizeLocalStateFreshness(r, s) = "fresh"

\* evaluateDecisionKernelV2PrLifecycleAction in that mode: d is the read-only
\* decision, spent the retry budget of the review loop.  A stale review is one
\* without a review of the head, so it is never resolved but asked for again.
PrLifecycleAction(r, s, d, source, spent) ==
    IF ~ActionTakingAllowed(r, s, source)       THEN "ask_operator"
    ELSE IF d.action = "merge"                  THEN "merge"
    ELSE IF spent                               THEN "ask_operator"
    ELSE IF d.action = "request_review"         THEN "request_review"
    ELSE IF d.reason = "checks_pending"         THEN "wait_ci"
    ELSE IF d.reason = "stale_commit_review"    THEN "request_review"
    ELSE IF d.action = "ask_operator"           THEN "ask_operator"
    ELSE "no_action"
-----------------------------------------------------------------------------
(* Property *)

\* The supervisor merges: its state says so and its final guard agrees.
SupervisorMerges(r, s) ==
    inferStateFromPullRequest(r, s) = "ready_to_merge" /\ finalAutoMergeGuard(r, r.last, s)

\* The kernel has a rule of its own for the merge, over other facts than the
\* state and the guard of the supervisor.  Whatever else it is told, it merges
\* when the supervisor would and the record names the head as approved, never
\* on cached facts, and the comparison calls that an agreement.
KernelAgrees(r, s) ==
    \A reviewed \in KnownHead, synced \in {FALSE, s.codex = "clean"} :
        LET v2 == selectReadOnlyDecision(r, s, reviewed, synced)
            merge == v2.action = "merge"
        IN
        /\ merge <=> synced /\ SupervisorMerges(r, s)
        /\ merge => comparisonCategory(currentActionEquivalent(r, s), "merge") = "agreement"
        /\ \A source \in {"fresh_github", "cached_github"}, spent \in BOOLEAN :
               PrLifecycleAction(r, s, v2, source, spent) = "merge"
                   <=> merge /\ source = "fresh_github"

KernelMergesTogether == KernelAgrees(rec, gh)
=============================================================================

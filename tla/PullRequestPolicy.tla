-------------------------- MODULE PullRequestPolicy --------------------------
(***************************************************************************)
(* What the supervisor concludes from one look at a pull request.          *)
(*                                                                         *)
(* The decisions of src/pull-request-state-policy.ts and of the Codex      *)
(* Connector review request, as functions of the saved record r and a      *)
(* snapshot s of the pull request; they change nothing.                    *)
(*                                                                         *)
(* The configuration: Codex Connector is the only review provider and a    *)
(* review of the current head is required; it reports by comments and      *)
(* threads, never by a CHANGES_REQUESTED decision; humanReviewBlocksMerge  *)
(* is set, a local CI command is configured, local review is off, stale    *)
(* bot threads are not resolved automatically, review requests are not     *)
(* repeated (retry limit 0), and grace and quiet periods are zero.         *)
(***************************************************************************)
EXTENDS Naturals

CONSTANTS MaxCommit,      \* bound: commits of the branch, numbered as they appear
          RequestsReview  \* configuredBotCurrentHeadSignalTimeoutAction is
                          \* request_review_comment, and not block

ASSUME PolicyAssumption == MaxCommit \in Nat \ {0} /\ RequestsReview \in BOOLEAN

Commit == 1..MaxCommit
NoCommit == 0
KnownHead == Commit \cup {NoCommit}

\* Run states of core/types.ts with a pull request.
TrackedState == {"draft_pr", "pr_open", "repairing_ci", "resolving_conflict", "waiting_ci",
                 "addressing_review", "ready_to_merge", "merging", "stabilizing",
                 "blocked", "failed", "done"}
\* The reason stale_review_bot does not occur: staleConfiguredBotReviewThreads is
\* empty beside a must-fix thread, and the threads of the bot are all must-fix.
Reason == {"none", "manual_review", "verification", "review_bot_timeout", "manual_pr_closed"}

\* The record of the issue in the state file.  A null head is NoCommit; ci is
\* the head of a successful latest_local_ci_result; gate is the head of the
\* last observed host-local blocker; tried are the findings (head, thread)
\* that had their turn (processed_review_thread_ids, review_loop_retry_state);
\* stopped is the thread that was the whole review when the run was stopped for
\* no progress (last_tracked_pr_progress_snapshot), NoCommit if it was not.
Record == [state : TrackedState, reason : Reason, last : KnownHead, ci : KnownHead,
           req : KnownHead, gate : KnownHead, stopped : KnownHead,
           tried : SUBSET (Commit \X Commit), repairs : Nat]

\* The pull request on GitHub.  codex is the Connector's verdict on the head,
\* elapsed that the configured time to wait for it has passed; thread is the
\* commit on which its unresolved must-fix thread was posted; person is an
\* unresolved thread of a human reviewer; asked counts the marked review
\* request comments for each head; auto is the head auto-merge was enabled for.
PullRequest == [state : {"open", "merged", "closed"}, draft : BOOLEAN, head : Commit,
                checks : {"pending", "green", "red"}, conflict : BOOLEAN,
                codex : {"none", "clean", "must_fix"}, elapsed : BOOLEAN,
                thread : KnownHead, person : BOOLEAN, asked : [Commit -> Nat],
                auto : KnownHead]
-----------------------------------------------------------------------------
\* Must-fix threads and their one turn for each head.

MustFix(s) == s.thread # NoCommit
\* Mutant: the finding is looked up under the head it was posted on.
ExhaustedAtPost(r, s) == MustFix(s) /\ <<s.thread, s.thread>> \in r.tried

Exhausted(r, s) == MustFix(s) /\ <<s.head, s.thread>> \in r.tried
Actionable(r, s) == MustFix(s) /\ ~Exhausted(r, s)

Settled(s) == s.checks = "green" /\ ~s.conflict

\* Mutant: only a thread counts as a signal.
ThreadSignalPending(s) == ~s.draft /\ s.codex # "must_fix"

SignalPending(s) == ~s.draft /\ s.codex = "none"
TimedOut(s) == SignalPending(s) /\ s.elapsed

\* codexConnectorCurrentHeadReviewReadiness, but for the bot's threads.
Reviewable(s) == SignalPending(s) /\ Settled(s) /\ ~s.person

\* No must-fix thread is safe to wait beside.
shouldWaitForCodexConnectorCurrentHeadReview(s) ==
    Reviewable(s) /\ ~MustFix(s) /\ (s.elapsed => RequestsReview)

mergeConditionsSatisfied(s) == s.state = "open" /\ ~s.draft /\ Settled(s)

\* The states of a pull request that is neither merged nor waiting for its
\* review, by what stands in the way first: findings and checks ...
BlockerState(r, s) ==
    IF Actionable(r, s) /\ Settled(s) /\ ~s.person THEN "addressing_review"
    ELSE IF Exhausted(r, s) /\ Settled(s)          THEN "blocked"
    ELSE IF s.checks = "red"                       THEN "repairing_ci"
    ELSE IF Actionable(r, s)                       THEN "addressing_review"
    ELSE IF Exhausted(r, s) /\ s.conflict          THEN "resolving_conflict"
    ELSE IF MustFix(s) \/ s.person                 THEN "blocked"
    ELSE "resolving_conflict"

HasBlocker(s) == MustFix(s) \/ s.person \/ s.checks = "red" \/ s.conflict

\* ... then the draft, the signal of the provider and the merge.
OpenState(r, s) ==
    IF s.draft                              THEN "draft_pr"
    ELSE IF TimedOut(s) /\ ~RequestsReview  THEN "blocked"
    ELSE IF SignalPending(s)                THEN "waiting_ci"
    ELSE IF mergeConditionsSatisfied(s)
         THEN IF r.last \in {NoCommit, s.head} THEN "ready_to_merge" ELSE "stabilizing"
    ELSE IF s.checks = "pending"            THEN "waiting_ci"
    ELSE "pr_open"

inferStateFromPullRequest(r, s) ==
    IF s.state = "merged"                                      THEN "done"
    ELSE IF shouldWaitForCodexConnectorCurrentHeadReview(s) THEN "waiting_ci"
    ELSE IF HasBlocker(s)                                      THEN BlockerState(r, s)
    ELSE OpenState(r, s)

blockedReasonFromReviewState(s) ==
    IF TimedOut(s) /\ ~RequestsReview  THEN "review_bot_timeout"
    ELSE IF s.person \/ MustFix(s)     THEN "manual_review"
    ELSE "none"

\* inferFailureContext returns one; of the category review or manual.
HasFailure(s) == HasBlocker(s) \/ (TimedOut(s) /\ ~RequestsReview)
ReviewFailure(s) ==
    /\ s.checks # "red"
    /\ TimedOut(s) => RequestsReview
    /\ MustFix(s) \/ s.person

shouldRunCodex(r, s) ==
    inferStateFromPullRequest(r, s) \in
        {"repairing_ci", "resolving_conflict", "addressing_review", "stabilizing"}

\* A thread of an older commit asks for a new review.  One posted on the head
\* between the two calls of a look does not: what the look knows to be the
\* latest reviewed commit, by which the code tells them apart, is left out.
configuredBotThreadsAllowCodexConnectorRequest(s) == MustFix(s) => s.thread < s.head

\* codexConnectorReviewRequestPolicy chooses the initial request comment.
RequestIsDue(r, s) ==
    /\ RequestsReview
    /\ TimedOut(s)
    /\ Reviewable(s)
    /\ configuredBotThreadsAllowCodexConnectorRequest(s)
    /\ r.req # s.head
-----------------------------------------------------------------------------
\* Patches of the record that every look at the pull request computes.

\* Mutant: the comments of the pull request are not searched.
SyncFromRecord(r, s) == IF s.codex = "none" /\ r.req = s.head THEN s.head ELSE NoCommit

syncCodexConnectorReviewRequestObservation(r, s) ==
    IF s.codex = "none" /\ (s.asked[s.head] > 0 \/ r.req = s.head) THEN s.head ELSE NoCommit

\* resetTrackedPrHeadScopedStateOnAdvance
HeadAdvanceReset(r, h) ==
    [r EXCEPT !.ci   = IF r.last = h /\ @ = h THEN h ELSE NoCommit,
              !.req  = IF r.last = h /\ @ = h THEN h ELSE NoCommit,
              !.gate = IF r.last = h /\ @ = h THEN h ELSE NoCommit]

\* projectTrackedPrLifecycle: the record the inference of a recovery reads.
Projected(r, s) == [HeadAdvanceReset(r, s.head) EXCEPT !.last = s.head]

\* The state and blocked_reason a look at the pull request leaves.
WithState(r, s, seen) ==
    LET next == inferStateFromPullRequest(seen, s)
    IN  [r EXCEPT !.state = next,
                  !.reason = IF next = "blocked"
                             THEN blockedReasonFromReviewState(s) ELSE "none"]

\* hasCurrentHeadCodexNoMajor and the rest of finalAutoMergeGuard.
finalAutoMergeGuard(r, original, s) ==
    /\ s.head = original
    /\ ~s.conflict
    /\ s.checks = "green"
    /\ s.codex = "clean"
    /\ ~MustFix(s)
    /\ ~s.person
    /\ r.ci = s.head
=============================================================================

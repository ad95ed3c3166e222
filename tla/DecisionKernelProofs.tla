------------------------- MODULE DecisionKernelProofs -------------------------
(***************************************************************************)
(* The kernel and the supervisor merge together, for every record and      *)
(* every pull request: neither reading has to be a reachable one.          *)
(***************************************************************************)
EXTENDS DecisionKernel, TrackedPrProofs

\* The supervisor's side without its cases: what it takes to merge.
MergeFacts(r, s) ==
    /\ s.state = "open" /\ ~s.draft /\ Settled(s)
    /\ s.codex = "clean" /\ ~MustFix(s) /\ ~s.person
    /\ r.last = s.head /\ r.ci = s.head

\* The state and the final guard come down to those facts.
LEMMA SupervisorRule ==
    ASSUME NEW r \in Record, NEW s \in PullRequest
    PROVE  SupervisorMerges(r, s) <=> MergeFacts(r, s)
<1>1. ASSUME SupervisorMerges(r, s) PROVE MergeFacts(r, s)
  <2>1. finalAutoMergeGuard(r, r.last, s) BY <1>1 DEF SupervisorMerges
  <2>2. Settled(s) /\ ~HasBlocker(s)
    BY <2>1 DEF finalAutoMergeGuard, Settled, HasBlocker, PullRequest
  <2>3. inferStateFromPullRequest(r, s) = "ready_to_merge" BY <1>1 DEF SupervisorMerges
  <2>4. inferStateFromPullRequest(r, s) = OpenState(r, s)
    BY <2>2, <2>3 DEF inferStateFromPullRequest
  <2>5. mergeConditionsSatisfied(s) BY <2>3, <2>4 DEF OpenState
  <2> QED BY <2>1, <2>2, <2>5 DEF MergeFacts, finalAutoMergeGuard, mergeConditionsSatisfied
<1>2. ASSUME MergeFacts(r, s) PROVE SupervisorMerges(r, s)
  <2>1. ~HasBlocker(s) /\ mergeConditionsSatisfied(s)
    BY <1>2 DEF MergeFacts, HasBlocker, Settled, mergeConditionsSatisfied
  <2>2. ~SignalPending(s) BY <1>2 DEF MergeFacts, SignalPending
  <2>3. inferStateFromPullRequest(r, s) = OpenState(r, s)
    BY <1>2, <2>1, <2>2 DEF inferStateFromPullRequest, MergeFacts, Reviewable,
       shouldWaitForCodexConnectorCurrentHeadReview
  <2>4. OpenState(r, s) = "ready_to_merge"
    <3>1. ~s.draft /\ ~TimedOut(s) BY <1>2, <2>2 DEF MergeFacts, TimedOut
    <3>2. r.last \in {NoCommit, s.head} BY <1>2 DEF MergeFacts
    <3> QED BY <2>1, <2>2, <3>1, <3>2 DEF OpenState
  <2>5. finalAutoMergeGuard(r, r.last, s) BY <1>2 DEF MergeFacts, finalAutoMergeGuard, Settled
  <2> QED BY <2>3, <2>4, <2>5 DEF SupervisorMerges
<1> QED BY <1>1, <1>2

\* So does the kernel's rule, whichever commit was reviewed last.
LEMMA KernelRule ==
    ASSUME NEW r \in Record, NEW s \in PullRequest, NEW reviewed \in KnownHead,
           NEW synced \in BOOLEAN
    PROVE  selectReadOnlyDecision(r, s, reviewed, synced).action = "merge"
               <=> synced /\ MergeFacts(r, s)
<1> DEFINE d == selectReadOnlyDecision(r, s, reviewed, synced)
           Merge == Decision("merge", "merge_ready_diagnostic_only")
<1>1. \A a, why : Decision(a, why).action = a BY DEF Decision
<1>2. ChecksDecision(s).action # "merge" BY <1>1 DEF ChecksDecision
<1>3. MissingReviewDecision(r, s).action # "merge" BY <1>1, <1>2 DEF MissingReviewDecision
<1>4. ASSUME d.action = "merge" PROVE synced /\ MergeFacts(r, s)
  <2>1. /\ d = ReviewedDecision(r, s, reviewed, synced)
        /\ normalizeMergeability(s) \notin {"closed", "draft", "conflicted"}
        /\ normalizeLocalStateFreshness(r, s) # "stale"
    BY <1>1, <1>3, <1>4 DEF selectReadOnlyDecision
  <2>2. /\ r.last # NoCommit
        /\ s.checks = "green"
        /\ normalizeMergeability(s) = "mergeable"
        /\ ~mergeReadyBlockedByLocalCi(r, s)
        /\ ~mergeReadyBlockedByFinalGuard(s, synced)
    <3>1. ReviewedDecision(r, s, reviewed, synced).action = "merge" BY <1>4, <2>1
    <3>2. Decision("wait", "fresh_local_state_required").action # "merge" BY <1>1
    <3>3. Decision("run_codex", "current_head_must_fix_review").action # "merge" BY <1>1
    <3>4. Decision("wait", "stale_commit_review").action # "merge" BY <1>1
    <3>5. Decision("ask_operator", "insufficient_merge_evidence").action # "merge" BY <1>1
    <3>6. MergeReady(r, s, reviewed, synced)
      BY <1>2, <3>1, <3>2, <3>3, <3>4, <3>5 DEF ReviewedDecision
    <3> QED BY <3>6 DEF MergeReady, normalizeHeadFreshness
  <2>3. s.state = "open" /\ ~s.draft /\ ~s.conflict BY <2>2 DEF normalizeMergeability
  <2>4. r.last = s.head BY <2>1, <2>2 DEF normalizeLocalStateFreshness
  <2> QED BY <2>2, <2>3, <2>4 DEF MergeFacts, Settled, mergeReadyBlockedByLocalCi,
             mergeReadyBlockedByFinalGuard
<1>5. ASSUME synced, MergeFacts(r, s) PROVE d.action = "merge"
  <2>1. normalizeMergeability(s) = "mergeable"
    BY <1>5 DEF MergeFacts, Settled, normalizeMergeability, mergeConditionsSatisfied
  <2>2. r.last # NoCommit BY <1>5 DEF MergeFacts, PullRequest, Commit, NoCommit
  <2>3. normalizeLocalStateFreshness(r, s) = "fresh"
    BY <1>5, <2>2 DEF MergeFacts, normalizeLocalStateFreshness
  <2>4. boundaryOutcome(r, s, reviewed) = "none" BY <1>5 DEF MergeFacts, boundaryOutcome
  <2>5. normalizeReviewPosture(r, s, reviewed) = "current_head_review_observed"
    BY <1>5, <2>4 DEF MergeFacts, normalizeReviewPosture
  <2>6. d = ReviewedDecision(r, s, reviewed, synced)
    BY <1>5, <2>1, <2>3, <2>5 DEF MergeFacts, selectReadOnlyDecision
  <2>7. ~mergeReadyBlockedByLocalCi(r, s) /\ ~mergeReadyBlockedByFinalGuard(s, synced)
    BY <1>5 DEF MergeFacts, Settled, mergeReadyBlockedByLocalCi, mergeReadyBlockedByFinalGuard
  <2>8. s.checks = "green" BY <1>5 DEF MergeFacts, Settled
  <2>9. MergeReady(r, s, reviewed, synced)
    <3>1. normalizeHeadFreshness(r, s) = "current_head"
      BY <1>5, <2>2 DEF MergeFacts, normalizeHeadFreshness
    <3> QED BY <2>1, <2>3, <2>5, <2>7, <2>8, <3>1 DEF MergeReady
  <2>10. d = Merge BY <2>2, <2>4, <2>6, <2>8, <2>9 DEF ReviewedDecision
  <2> QED BY <1>1, <2>10
<1> QED BY <1>4, <1>5

\* The kernel merges when the supervisor would and the record names the head
\* as approved, whatever it is told besides, and on fresh facts only
\* (decision-kernel-v2.ts beside pull-request-state-policy.ts and
\* finalAutoMergeGuard).
THEOREM KernelRuleIsTheGuard ==
    ASSUME NEW r \in Record, NEW s \in PullRequest
    PROVE  KernelAgrees(r, s)
<1> SUFFICES ASSUME NEW reviewed \in KnownHead, NEW synced \in {FALSE, s.codex = "clean"}
             PROVE  LET v2 == selectReadOnlyDecision(r, s, reviewed, synced)
                        merge == v2.action = "merge"
                    IN
                    /\ merge <=> synced /\ SupervisorMerges(r, s)
                    /\ merge => comparisonCategory(currentActionEquivalent(r, s), "merge")
                                    = "agreement"
                    /\ \A source \in {"fresh_github", "cached_github"}, spent \in BOOLEAN :
                           PrLifecycleAction(r, s, v2, source, spent) = "merge"
                               <=> merge /\ source = "fresh_github"
    BY DEF KernelAgrees
<1> DEFINE v2 == selectReadOnlyDecision(r, s, reviewed, synced)
           merge == v2.action = "merge"
<1>1. synced \in BOOLEAN OBVIOUS
<1>2. merge <=> synced /\ MergeFacts(r, s) BY <1>1, KernelRule
<1>3. merge <=> synced /\ SupervisorMerges(r, s) BY <1>2, SupervisorRule
<1>4. merge => comparisonCategory(currentActionEquivalent(r, s), "merge") = "agreement"
  <2>1. merge => currentActionEquivalent(r, s) = "merge"
    BY <1>3 DEF SupervisorMerges, currentActionEquivalent
  <2> QED BY <2>1 DEF comparisonCategory
<1>5. ASSUME NEW source \in {"fresh_github", "cached_github"}, NEW spent \in BOOLEAN
      PROVE  PrLifecycleAction(r, s, v2, source, spent) = "merge"
                 <=> merge /\ source = "fresh_github"
  <2>1. merge => ActionTakingAllowed(r, s, "fresh_github")
    BY <1>2 DEF MergeFacts, ActionTakingAllowed, normalizeLocalStateFreshness, PullRequest,
       Commit, NoCommit
  <2>2. ActionTakingAllowed(r, s, source) => source = "fresh_github" BY DEF ActionTakingAllowed
  <2>3. CASE merge /\ source = "fresh_github" BY <2>1, <2>3 DEF PrLifecycleAction
  <2>4. CASE ~(merge /\ source = "fresh_github") BY <2>2, <2>4 DEF PrLifecycleAction
  <2> QED BY <2>3, <2>4
<1> QED BY <1>3, <1>4, <1>5

\* In every state explain and the supervisor agree about the merge.
THEOREM KernelNeverAhead == Spec => []KernelMergesTogether
<1>1. TypeOK => KernelMergesTogether BY KernelRuleIsTheGuard DEF TypeOK, KernelMergesTogether
<1> QED BY <1>1, TrackedTypes, PTL
=============================================================================

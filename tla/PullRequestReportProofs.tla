----------------------- MODULE PullRequestReportProofs -----------------------
(***************************************************************************)
(* The advice about a stopped pull request is good, for every record and   *)
(* every pull request: neither has to be a reachable one.                  *)
(***************************************************************************)
EXTENDS PullRequestReport, TrackedPrProofs

\* A look at an open pull request never fails the issue, names a reason with
\* every block, and calls nothing but a draft a draft.
LEMMA Inferred ==
    ASSUME NEW r \in Record, NEW s \in PullRequest
    PROVE  /\ inferStateFromPullRequest(r, s) # "failed"
           /\ inferStateFromPullRequest(r, s) = "draft_pr" => s.draft
           /\ inferStateFromPullRequest(r, s) = "blocked"
                => blockedReasonFromReviewState(s) # "none"
<1>1. /\ OpenState(r, s) # "failed"
      /\ OpenState(r, s) = "draft_pr" => s.draft
      /\ OpenState(r, s) = "blocked" => TimedOut(s) /\ ~RequestsReview
  BY DEF OpenState
<1>2. /\ BlockerState(r, s) \notin {"failed", "draft_pr"}
      /\ BlockerState(r, s) = "blocked" => MustFix(s) \/ s.person
  BY DEF BlockerState, Exhausted
<1>3. inferStateFromPullRequest(r, s)
        \in {"done", "waiting_ci", BlockerState(r, s), OpenState(r, s)}
  BY DEF inferStateFromPullRequest
<1>4. (TimedOut(s) /\ ~RequestsReview) \/ MustFix(s) \/ s.person
        => blockedReasonFromReviewState(s) # "none"
  BY DEF blockedReasonFromReviewState
<1> QED BY <1>1, <1>2, <1>3, <1>4

\* Diagnosis and recovery read the same state and reason off GitHub.
LEMMA SameReading ==
    ASSUME NEW r \in Record, NEW s \in PullRequest
    PROVE  /\ Projection(r, s).state = inferStateFromPullRequest(Projected(r, s), s)
           /\ Projection(r, s).state # "failed"
           /\ Projection(r, s).state = "draft_pr" => s.draft
           /\ Projection(r, s).state = "blocked" <=> Projection(r, s).reason # "none"
           /\ Converged(r, s).state = Projection(r, s).state
           /\ Converged(r, s).reason = Projection(r, s).reason
           /\ [Converged(r, s) EXCEPT !.repairs = r.repairs].state = Projection(r, s).state
           /\ [Converged(r, s) EXCEPT !.repairs = r.repairs].reason = Projection(r, s).reason
<1> DEFINE p == Projected(r, s)
           z == [p EXCEPT !.repairs = 0]
           next == inferStateFromPullRequest(p, s)
           why == IF next = "blocked" THEN blockedReasonFromReviewState(s) ELSE "none"
<1>1. p \in Record /\ z \in Record
  BY DEF Projected, HeadAdvanceReset, Record, PullRequest, KnownHead
<1>2. /\ next # "failed"
      /\ next = "draft_pr" => s.draft
      /\ next = "blocked" <=> why # "none"
  BY <1>1, Inferred
<1>3. /\ Projection(r, s) = [p EXCEPT !.state = next, !.reason = why]
      /\ Converged(r, s) = [z EXCEPT !.state = next, !.reason = why]
  BY DEF Projection, Converged, WithState
<1> HIDE DEF p, z, next, why
<1>4. /\ Projection(r, s).state = next /\ Projection(r, s).reason = why
      /\ Converged(r, s).state = next /\ Converged(r, s).reason = why
      /\ [Converged(r, s) EXCEPT !.repairs = r.repairs].state = next
      /\ [Converged(r, s) EXCEPT !.repairs = r.repairs].reason = why
  BY <1>1, <1>3 DEF Record
<1> QED BY <1>2, <1>4 DEF next, p

\* A block that is preserved keeps its state and its reason.
LEMMA KeptStops ==
    ASSUME NEW r \in Record, NEW s \in PullRequest
    PROVE  LET kept == [Projected(r, s) EXCEPT !.repairs = IF Projected(r, s) = r THEN @ ELSE 0]
           IN  kept.state = r.state /\ kept.reason = r.reason
<1>1. /\ Projected(r, s) \in Record
      /\ Projected(r, s).state = r.state /\ Projected(r, s).reason = r.reason
  BY DEF Projected, HeadAdvanceReset, Record, PullRequest, KnownHead
<1> QED BY <1>1 DEF Record

\* A stopped record that no rule holds takes on what GitHub calls for.
LEMMA RecoveryFollows ==
    ASSUME NEW r \in Record, NEW s \in PullRequest, isBlockedLikeState(r), Mismatch(r, s),
           ~Held(r, s), r.state = "blocked" => ~preserveDraftReadyPromotionBlocker(r, s)
    PROVE  /\ Recovered(r, s).state = Projection(r, s).state
           /\ Recovered(r, s).reason = Projection(r, s).reason
<1> DEFINE c == Converged(r, s)
           kept == [c EXCEPT !.repairs = r.repairs]
<1>1. r.state \in {"blocked", "failed"}
  BY DEF isBlockedLikeState
<1>2. CASE r.state = "failed"
  <2>1. Recovered(r, s) = c
    BY <1>2 DEF Recovered, canRefreshTrackedPrLifecycle
  <2> QED BY <2>1, SameReading
<1>3. CASE r.state = "blocked" /\ r.reason = "review_bot_timeout"
  <2>1. r.last = s.head /\ Projection(r, s).state # "blocked"
    BY <1>3 DEF Held
  <2>2. canRefreshTrackedPrLifecycle(r, s)
    BY <1>3, <2>1 DEF canRefreshTrackedPrLifecycle
  <2>3. c.state # r.state
    BY <1>3, <2>1, SameReading
  <2>4. Recovered(r, s) = c
    BY <2>2, <2>3 DEF Recovered
  <2> QED BY <2>4, SameReading
<1>4. CASE r.state = "blocked" /\ r.reason # "review_bot_timeout"
  <2>1. Recovered(r, s) = BlockedRecovered(r, s)
    BY <1>4 DEF Recovered, canRefreshTrackedPrLifecycle
  <2>2. Recovered(r, s) = c \/ Recovered(r, s) = kept
    BY <1>4, <2>1 DEF BlockedRecovered, Held
  <2>3. /\ c.state = Projection(r, s).state /\ c.reason = Projection(r, s).reason
        /\ kept.state = Projection(r, s).state /\ kept.reason = Projection(r, s).reason
    BY SameReading
  <2> HIDE DEF c, kept
  <2> QED BY <2>2, <2>3
<1> QED BY <1>1, <1>2, <1>3, <1>4

\* A block that agrees with GitHub stays one, whatever else is tidied up.
LEMMA RecoveryRests ==
    ASSUME NEW r \in Record, NEW s \in PullRequest, r.state = "blocked",
           Projection(r, s).state = "blocked", Projection(r, s).reason = r.reason
    PROVE  ~RecoveryMoves(r, s)
<1> DEFINE c == Converged(r, s)
           same == [c EXCEPT !.repairs = r.repairs]
           kept == [Projected(r, s) EXCEPT !.repairs = IF Projected(r, s) = r THEN @ ELSE 0]
<1>1. /\ c.state = r.state /\ c.reason = r.reason /\ same.state = r.state /\ same.reason = r.reason
      /\ kept.state = r.state /\ kept.reason = r.reason
  BY SameReading, KeptStops
<1>2. BlockedRecovered(r, s) \in {r, c, same, kept}
  BY DEF BlockedRecovered
<1> HIDE DEF c, same, kept
<1>3. Recovered(r, s) \in {r, c, BlockedRecovered(r, s)}
  BY DEF Recovered, c
<1> QED BY <1>1, <1>2, <1>3 DEF RecoveryMoves

\* The advice and the silence about a stopped pull request are good whatever
\* the record and the pull request: tracked-pr-mismatch.ts and the recoveries
\* agree, except where a stop is held on purpose.
THEOREM GuidanceRule ==
    ASSUME NEW r \in Record, NEW s \in PullRequest, NEW residue \in BOOLEAN
    PROVE  /\ GoodAdvice(r, s, buildTrackedPrMismatch(r, s, residue))
           /\ GoodSilence(r, s, residue)
<1> DEFINE report == buildTrackedPrMismatch(r, s, residue)
           next == Projection(r, s)
           gated == /\ r.state = "blocked" /\ r.reason = "verification"
                    /\ next.state = "draft_pr" /\ s.draft
           resumable == "stale_but_recoverable"
           kept == [Projected(r, s) EXCEPT !.repairs = IF Projected(r, s) = r THEN @ ELSE 0]
<1>1. \A line, advice, recoverability :
          /\ Report(line, advice, recoverability).line = line
          /\ Report(line, advice, recoverability).advice = advice
          /\ Report(line, advice, recoverability).recoverability = recoverability
  BY DEF Report
<1>2. NoReport.line = "none" /\ NoReport.advice = "none" /\ NoReport.recoverability = "none"
  BY <1>1 DEF NoReport
<1>3. ASSUME report # NoReport
      PROVE  /\ Mismatch(r, s) /\ isBlockedLikeState(r)
             /\ report = IF gated THEN ReadyPromotionReport(r, s)
                         ELSE Report("tracked_pr_mismatch", "cycle",
                                     classifyTrackedPrMismatchRecoverability(r, s))
  BY <1>3 DEF buildTrackedPrMismatch, Mismatch
<1>4. /\ ReadyPromotionReport(r, s).line = "tracked_pr_ready_promotion_blocked"
      /\ ReadyPromotionReport(r, s).advice
           = IF hasFreshTrackedPrReadyPromotionBlockerEvidence(r, s) THEN "fix_gate" ELSE "cycle"
  BY <1>1 DEF ReadyPromotionReport
<1>5. preserveDraftReadyPromotionBlocker(r, s) /\ r.state = "blocked"
        <=> gated /\ hasFreshTrackedPrReadyPromotionBlockerEvidence(r, s)
  <2>1. /\ next.state = inferStateFromPullRequest(Projected(r, s), s)
        /\ next.state = "draft_pr" => s.draft
    BY SameReading
  <2> QED BY <2>1 DEF preserveDraftReadyPromotionBlocker
<1> HIDE DEF report, gated
<1>6. report.advice \in {"none", "cycle", "fix_gate"}
  BY <1>1, <1>2, <1>3, <1>4
<1>7. ASSUME report.advice = "fix_gate" PROVE ~RecoveryMoves(r, s)
  <2>1. report # NoReport
    BY <1>2, <1>7
  <2>2. gated /\ hasFreshTrackedPrReadyPromotionBlockerEvidence(r, s)
    BY <1>1, <1>3, <1>4, <1>7, <2>1
  <2>3. preserveDraftReadyPromotionBlocker(r, s) /\ r.state = "blocked" /\ r.reason = "verification"
    BY <1>5, <2>2 DEF gated
  <2>4. Recovered(r, s) = BlockedRecovered(r, s)
    BY <2>3 DEF Recovered, canRefreshTrackedPrLifecycle
  <2>5. BlockedRecovered(r, s) = r \/ BlockedRecovered(r, s) = kept
    BY <2>3 DEF BlockedRecovered
  <2>6. kept.state = r.state /\ kept.reason = r.reason
    BY KeptStops
  <2> HIDE DEF kept
  <2> QED BY <2>4, <2>5, <2>6 DEF RecoveryMoves
<1>8. ASSUME report.advice = "cycle", ~Held(r, s)
      PROVE  /\ Recovered(r, s).state = next.state /\ Recovered(r, s).reason = next.reason
             /\ Mismatch(r, s)
  <2>1. report # NoReport
    BY <1>2, <1>8
  <2>2. r.state = "blocked" => ~preserveDraftReadyPromotionBlocker(r, s)
    BY <1>3, <1>4, <1>5, <1>8, <2>1
  <2> QED BY <1>3, <1>8, <2>1, <2>2, RecoveryFollows
<1>9. ASSUME report.advice = "cycle", ~Held(r, s) PROVE RecoveryMoves(r, s)
  BY <1>8, <1>9 DEF Mismatch, RecoveryMoves
<1>10. ASSUME report.recoverability = resumable, ~Held(r, s) PROVE RecoveryResumes(r, s)
  <2>1. report # NoReport
    BY <1>2, <1>10
  <2>2. report.advice = "cycle" /\ next.state \notin {"blocked", "failed"}
    <3>1. next.state # "failed" /\ (next.state = "blocked" => next.reason # "none")
      BY SameReading
    <3>2. CASE gated
      <4>1. report = ReadyPromotionReport(r, s) /\ next.state = "draft_pr"
        BY <1>3, <2>1, <3>2 DEF gated
      <4>2. ~hasFreshTrackedPrReadyPromotionBlockerEvidence(r, s)
        BY <1>1, <1>10, <4>1 DEF ReadyPromotionReport
      <4> QED BY <1>4, <4>1, <4>2
    <3>3. CASE ~gated
      <4>1. report = Report("tracked_pr_mismatch", "cycle",
                            classifyTrackedPrMismatchRecoverability(r, s))
        BY <1>3, <2>1, <3>3
      <4>2. classifyTrackedPrMismatchRecoverability(r, s) = resumable
        BY <1>1, <1>10, <4>1
      <4>3. next.state \in {"ready_to_merge", "draft_pr", "addressing_review"}
        BY <4>2 DEF classifyTrackedPrMismatchRecoverability
      <4> QED BY <1>1, <3>1, <4>1, <4>3
    <3> QED BY <3>2, <3>3
  <2> QED BY <1>8, <1>10, <2>2 DEF RecoveryResumes, isBlockedLikeState
<1>11. GoodAdvice(r, s, report)
  BY <1>7, <1>9, <1>10 DEF GoodAdvice
<1>12. ASSUME isBlockedLikeState(r), ~residue, report = NoReport PROVE ~RecoveryMoves(r, s)
  <2>1. ~Mismatch(r, s)
    <3> SUFFICES ASSUME Mismatch(r, s) PROVE report.line # "none"
      BY <1>2, <1>12
    <3>1. report = IF gated THEN ReadyPromotionReport(r, s)
                   ELSE Report("tracked_pr_mismatch", "cycle",
                               classifyTrackedPrMismatchRecoverability(r, s))
      BY <1>12 DEF report, gated, buildTrackedPrMismatch
    <3> QED BY <1>1, <1>4, <3>1
  <2>2. r.state = "blocked" /\ next.state = "blocked" /\ next.reason = r.reason
    BY <1>12, <2>1, SameReading DEF Mismatch, isBlockedLikeState
  <2> QED BY <2>2, RecoveryRests
<1> QED BY <1>11, <1>12 DEF GoodSilence, report

\* Between two cycles the advice that status, doctor and explain give is good,
\* whatever led there.
THEOREM GuidanceIsGood == Spec => []GuidanceHolds
<1>1. TypeOK => GuidanceHolds
  BY GuidanceRule DEF TypeOK, GuidanceHolds
<1> QED BY <1>1, TrackedTypes, PTL
=============================================================================

-------------------------- MODULE PullRequestReport --------------------------
(***************************************************************************)
(* What status, doctor and explain tell a person about a stopped pull      *)
(* request.  They read the record and GitHub by themselves, outside the    *)
(* run lock, and advise to run a cycle or to fix the gate first; whether   *)
(* the advice is good is decided elsewhere, by the recoveries of TrackedPr.*)
(*                                                                         *)
(* residue is what the policy leaves out: the remediation of stale bot     *)
(* threads has a report of its own for a block on a manual review.  As in  *)
(* TrackedPr there are no path gates, and so no repair queued by one.      *)
(***************************************************************************)
EXTENDS TrackedPr

isBlockedLikeState(r) == r.state \in {"blocked", "failed"}

\* projectTrackedPrLifecycle, with the state and the reason GitHub calls for.
Projection(r, s) == WithState(Projected(r, s), s, Projected(r, s))

Mismatch(r, s) ==
    /\ isBlockedLikeState(r)
    /\ \/ Projection(r, s).state # r.state
       \/ Projection(r, s).state = "blocked" /\ Projection(r, s).reason # r.reason

staleLocalBlocker(r, s) == r.reason # "none" /\ Projection(r, s).reason # r.reason

\* A suspected outage would be two equal reasons, and those are not stale; a
\* stale_review_bot block, the other case of the code, does not occur.
classifyTrackedPrMismatchRecoverability(r, s) ==
    LET next == Projection(r, s)
    IN  IF ~staleLocalBlocker(r, s)              THEN "manual_attention_required"
        ELSE IF next.state \in {"ready_to_merge", "draft_pr", "addressing_review"}
                                                 THEN "stale_but_recoverable"
        ELSE "manual_attention_required"

Report(line, advice, recoverability) ==
    [line |-> line, advice |-> advice, recoverability |-> recoverability]

NoReport == Report("none", "none", "none")

ReadyPromotionReport(r, s) ==
    IF hasFreshTrackedPrReadyPromotionBlockerEvidence(r, s)
    THEN Report("tracked_pr_ready_promotion_blocked", "fix_gate", "manual_attention_required")
    ELSE Report("tracked_pr_ready_promotion_blocked", "cycle",
                IF staleLocalBlocker(r, s) THEN "stale_but_recoverable"
                                           ELSE "manual_attention_required")

buildTrackedPrMismatch(r, s, residue) ==
    IF \/ ~Mismatch(r, s)
       \/ r.state = "blocked" /\ r.reason = "manual_review" /\ residue
    THEN NoReport
    ELSE IF /\ r.state = "blocked" /\ r.reason = "verification"
            /\ Projection(r, s).state = "draft_pr" /\ s.draft
    THEN ReadyPromotionReport(r, s)
    ELSE Report("tracked_pr_mismatch", "cycle", classifyTrackedPrMismatchRecoverability(r, s))
-----------------------------------------------------------------------------
\* What the next cycle does about it, for a pull request that is open.
RecoveryMoves(r, s) == Recovered(r, s).state # r.state \/ Recovered(r, s).reason # r.reason
RecoveryResumes(r, s) == ~isBlockedLikeState(Recovered(r, s))

\* The stops that a cycle keeps although GitHub has moved on: a review loop
\* without progress, a pull request a person closed, and a late review whose
\* head has moved or that something else blocks by now.
Held(r, s) ==
    /\ r.state = "blocked"
    /\ \/ Suppressed(r, s)
       \/ r.reason = "manual_pr_closed"
       \/ /\ r.reason = "review_bot_timeout"
          /\ r.last # s.head \/ Projection(r, s).state = "blocked"

GoodAdvice(r, s, report) ==
    /\ report.advice = "cycle" /\ ~Held(r, s) => RecoveryMoves(r, s)
    /\ report.advice = "fix_gate" => ~RecoveryMoves(r, s)
    /\ report.recoverability = "stale_but_recoverable" /\ ~Held(r, s) => RecoveryResumes(r, s)

\* A stop that goes unreported is one that a cycle leaves as it is, but for
\* the residue, which is reported otherwise.
GoodSilence(r, s, residue) ==
    isBlockedLikeState(r) /\ ~residue /\ buildTrackedPrMismatch(r, s, residue) = NoReport
        => ~RecoveryMoves(r, s)

\* The advice given about a stopped pull request is what its next cycle bears
\* out: "run a cycle" where the recoveries then change the record, "fix the
\* gate, a rerun will not help" where they keep it, recoverable where they
\* resume it, nothing where nothing would change.  Diagnosis and recovery are
\* two programs over one record (tracked-pr-mismatch.ts and the recoveries).
GuidanceHolds ==
    pc = "idle" /\ gh.state = "open" =>
        \A residue \in BOOLEAN :
            /\ GoodAdvice(rec, gh, buildTrackedPrMismatch(rec, gh, residue))
            /\ GoodSilence(rec, gh, residue)
=============================================================================

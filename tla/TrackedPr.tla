------------------------------ MODULE TrackedPr ------------------------------
(***************************************************************************)
(* The life of an issue's pull request from its draft to its merge: the    *)
(* recoveries that read it, repair turns, the review request, ready        *)
(* promotion with local CI, the final guard and auto-merge.                *)
(*                                                                         *)
(* GitHub and the people and bots that use it move between any two calls   *)
(* of the supervisor.  A look at the pull request is two calls: the pull   *)
(* request first (view), then its checks and threads, so the two halves    *)
(* may belong to different heads.  Every action below that saves ends in   *)
(* that save; a crash falls between two actions and loses view and work.   *)
(*                                                                         *)
(* The run lock admits one cycle at a time (FileLock); the record is the   *)
(* one of the state file (StateStore); how the first pull request comes    *)
(* about is IssueRun.  Commits of the branch are numbered by age.  A       *)
(* commit the agent leaves unpushed is pushed before the next look, so a   *)
(* turn commits and pushes in one step; an agent that commits starts from  *)
(* the head of the branch.  The counter of repeated failure signatures is  *)
(* left out: a failure seen again may or may not have reached its limit.   *)
(***************************************************************************)
EXTENDS PullRequestPolicy, FiniteSets

CONSTANTS MaxRepair,  \* maxRepairAttemptsPerIssue
          MaxPrs,     \* bound: pull requests of the branch
          MaxFaults,  \* bound: crashes and failed GitHub calls
          MaxHelp     \* bound: what people and conflicts do to the pull request

ASSUME TrackedAssumption ==
    {MaxRepair, MaxPrs} \subseteq Nat \ {0} /\ {MaxFaults, MaxHelp} \subseteq Nat

VARIABLES rec,      \* the record of the issue in the state file
          gh,       \* the pull request of the branch that the record names
          issue,    \* the issue on GitHub: open, closed, or edited after a merge
          local,    \* HEAD of the workspace
          pc,       \* where the cycle is
          view,     \* the pull request as it was last read
          work,     \* the finding (head, thread) the turn addresses
          prs,      \* pull requests opened for the branch
          faults,
          helps,
          tested,   \* history: commits that passed local CI in the workspace
          green,    \* history: commits whose checks were green at some time
          clean,    \* history: commits Codex Connector found clean
          answered, \* history: findings that had a completed turn
          merged    \* history: some pull request of the issue was merged

disk == <<rec>>
world == <<gh, issue, local, prs>>
cycle == <<pc, view, work>>
bounds == <<faults, helps>>
history == <<tested, green, clean, answered, merged>>
vars == <<disk, world, cycle, bounds, history>>

Pcs == {"idle", "reconcile", "closing", "select", "hydrate", "askEarly", "askedEarly",
        "turn", "publish", "post", "posted", "ready", "apply", "applied", "askLate",
        "askedLate", "localCi", "guard", "guarded", "armed", "enabled"}
NoWork == <<NoCommit, NoCommit>>

TypeOK ==
    /\ rec \in Record /\ rec.repairs <= MaxRepair
    /\ gh \in PullRequest
    /\ issue \in {"open", "edited", "closed"}
    /\ local \in Commit
    /\ pc \in Pcs
    /\ view \in PullRequest
    /\ work \in KnownHead \X KnownHead
    /\ prs \in 1..MaxPrs
    /\ faults \in 0..MaxFaults
    /\ helps \in 0..MaxHelp
    /\ tested \subseteq Commit
    /\ green \subseteq Commit
    /\ clean \subseteq Commit
    /\ answered \subseteq Commit \X Commit
    /\ merged \in BOOLEAN

\* createPullRequest with the head h, whose checks GitHub runs by commit.
DraftPullRequest(h, checks) ==
    [state |-> "open", draft |-> TRUE, head |-> h, checks |-> checks, conflict |-> FALSE,
     codex |-> "none", elapsed |-> FALSE, thread |-> NoCommit, person |-> FALSE,
     asked |-> [c \in Commit |-> 0], auto |-> NoCommit]

\* What view is between two cycles.
Unseen == DraftPullRequest(1, "pending")

Init ==
    /\ rec = [state |-> "draft_pr", reason |-> "none", last |-> 1, ci |-> NoCommit,
              req |-> NoCommit, gate |-> NoCommit, stopped |-> NoCommit, tried |-> {},
              repairs |-> 0]
    /\ gh = DraftPullRequest(1, "pending")
    /\ issue = "open"
    /\ local = 1
    /\ pc = "idle"
    /\ view = Unseen
    /\ work = NoWork
    /\ prs = 1
    /\ faults = 0
    /\ helps = 0
    /\ tested = {}
    /\ green = {}
    /\ clean = {}
    /\ answered = {}
    /\ merged = FALSE
-----------------------------------------------------------------------------
Forget == /\ view' = Unseen
          /\ work' = NoWork

\* What gh pr view tells of p and the cycle reads: not its checks, not its threads
\* and not whether auto-merge is on.
Viewed(p) ==
    [p EXCEPT !.checks = "pending", !.thread = NoCommit, !.person = FALSE, !.auto = NoCommit]

\* The first half of a look: gh pr view.
Look(from, to) ==
    /\ pc = from
    /\ pc' = to
    /\ view' = Viewed(gh)
    /\ UNCHANGED <<disk, world, work, bounds, history>>

\* The second half: checks and unresolved threads of the moment.
Snapshot == [view EXCEPT !.checks = gh.checks, !.thread = gh.thread, !.person = gh.person]

Save(r, to) ==
    /\ rec' = r
    /\ pc' = to

EndCycle(r) == Save(r, "idle") /\ Forget

Blocked(r, reason) == [r EXCEPT !.state = "blocked", !.reason = reason]
Failed(r) == [r EXCEPT !.state = "failed", !.reason = "none"]
-----------------------------------------------------------------------------
(* The recoveries of the prelude. *)

\* runOnce: the prelude reads the pull request of the record first.
StartCycle == Look("idle", "reconcile")

\* TRACKED_PR_LIFECYCLE_REFRESH_STATES, and a block on a review that is late.
canRefreshTrackedPrLifecycle(r, s) ==
    \/ r.state \notin {"blocked", "failed", "done", "stabilizing"}
    \/ r.state = "blocked" /\ r.reason = "review_bot_timeout" /\ r.last = s.head

\* buildTrackedPrStaleFailureConvergencePatch
Converged(r, s) ==
    LET seen == Projected(r, s)
    IN  WithState([seen EXCEPT !.repairs = 0], s, seen)

\* suppressSameHeadNoProgressReviewThreadRecovery
Suppressed(r, s) ==
    /\ r.stopped # NoCommit /\ r.last = s.head
    /\ s.thread = r.stopped /\ ~s.person
    /\ Actionable(r, s)
    /\ Converged(r, s).state # "blocked"

\* A refusal at another head is no evidence about this one.
hasFreshTrackedPrReadyPromotionBlockerEvidence(r, s) == r.gate = s.head

\* Mutant: the block is kept whatever head local CI refused.
PreserveAtAnyHead(r, s) ==
    r.reason = "verification" /\ inferStateFromPullRequest(Projected(r, s), s) = "draft_pr"

\* The draft that local CI refused stays blocked until its head moves.
preserveDraftReadyPromotionBlocker(r, s) ==
    /\ r.reason = "verification"
    /\ inferStateFromPullRequest(Projected(r, s), s) = "draft_pr"
    /\ hasFreshTrackedPrReadyPromotionBlockerEvidence(r, s)

\* reconcileRecoverableBlockedIssueStates for a record with a pull request.  A
\* block that stays takes the head and drops what belongs to another one, the
\* evidence of a preserved block included; only an unchanged one keeps its count.
BlockedRecovered(r, s) ==
    LET seen == Projected(r, s)
    IN  IF Suppressed(r, s) \/ r.reason = "manual_pr_closed" THEN r
        ELSE IF preserveDraftReadyPromotionBlocker(r, s)
        THEN [seen EXCEPT !.repairs = IF seen = r THEN @ ELSE 0]
        ELSE IF Converged(r, s).state = "blocked" /\ seen = r /\ Converged(r, s).reason = r.reason
        THEN [Converged(r, s) EXCEPT !.repairs = r.repairs]
        ELSE Converged(r, s)

\* The record after the recoveries, for an open pull request.
Recovered(r, s) ==
    IF canRefreshTrackedPrLifecycle(r, s)
    THEN IF Converged(r, s).state = r.state THEN r ELSE Converged(r, s)
    ELSE IF r.state = "failed" THEN Converged(r, s)
    ELSE IF r.state = "blocked" /\ r.reason # "review_bot_timeout" THEN BlockedRecovered(r, s)
    ELSE r

\* A block kept on GitHub's terms counts its repairs anew when its failure is
\* another one; the failure signature, which would tell, is left out.
RecoveredRecords(r, s) ==
    {Recovered(r, s)} \cup
    {q \in {[Recovered(r, s) EXCEPT !.repairs = 0]} :
        /\ r.state = "blocked" /\ r.reason \notin {"review_bot_timeout", "manual_pr_closed"}
        /\ Converged(r, s).state = "blocked"}

\* Mutant: the patch leaves the state alone.
DoneStateless(r, h) == [r EXCEPT !.reason = "none", !.last = h]

\* doneResetPatch
Done(r, h) == [r EXCEPT !.state = "done", !.reason = "none", !.last = h]

Reconcile ==
    /\ pc = "reconcile"
    /\ \/ /\ view.state = "merged" /\ issue = "closed"
          /\ EndCycle(Done(rec, view.head))
          /\ UNCHANGED issue
       \/ /\ view.state = "merged" /\ issue = "open"      \* closeIssue
          /\ issue' = "closed"
          /\ pc' = "closing"
          /\ UNCHANGED <<rec, view, work>>
       \/ /\ view.state = "closed" \/ (view.state = "merged" /\ issue = "edited")
          /\ Save(rec, "select")
          /\ Forget
          /\ UNCHANGED issue
       \/ /\ view.state = "open"
          /\ \E r \in RecoveredRecords(rec, Snapshot) : Save(r, "select")
          /\ Forget
          /\ UNCHANGED issue
    /\ UNCHANGED <<gh, local, prs, bounds, history>>

CloseDone ==
    /\ pc = "closing"
    /\ EndCycle(Done(rec, view.head))
    /\ UNCHANGED <<world, bounds, history>>

\* Mutant: one repair too many.
BudgetOffByOne(r) == r.repairs <= MaxRepair

hasAttemptBudgetRemaining(r) == r.repairs < MaxRepair

isEligibleForSelection(r) == r.state \notin {"blocked", "failed", "done"}

\* The request the selection knows of: that of the record, though it may be for
\* another head, or else that of the pull request.
KnownRequest(r, s) ==
    IF r.req # NoCommit THEN r.req ELSE IF s.asked[s.head] > 0 THEN s.head ELSE NoCommit

\* A block on the threads of an older commit whose review is still to be asked
\* for; the selection reads the pull request for it at one point.
shouldSelectCodexConnectorReviewRequestRecovery(r, s) ==
    /\ r.state = "blocked" /\ r.reason = "manual_review"
    /\ RequestIsDue([r EXCEPT !.req = KnownRequest(r, s)], s)

\* A terminal record is not selected but for the review request, which without
\* a thread also takes a timeout that an earlier look has recorded; an exhausted
\* repair lane fails it.  The workspace is prepared: last_head_sha is its HEAD,
\* and then GitHub is read.
Select ==
    LET asks == shouldSelectCodexConnectorReviewRequestRecovery(rec, gh)
    IN
    /\ pc = "select"
    /\ \/ /\ ~isEligibleForSelection(rec)
          /\ asks => ~MustFix(gh)
          /\ EndCycle(rec)
       \/ /\ isEligibleForSelection(rec) \/ asks
          /\ ~hasAttemptBudgetRemaining(rec)
          /\ EndCycle(Failed(rec))
       \/ /\ isEligibleForSelection(rec) \/ asks
          /\ hasAttemptBudgetRemaining(rec)
          /\ Save([rec EXCEPT !.last = local], "hydrate")
          /\ view' = Viewed(gh)
          /\ UNCHANGED work
    /\ UNCHANGED <<world, bounds, history>>
-----------------------------------------------------------------------------
(* The prepared run: what the cycle does about what it sees. *)

\* runPreparedIssueFlow up to the request: the state of the pull request, with
\* last_head_sha as the head for the inference but not in the record.
Evaluated(r, s) ==
    LET asked == [r EXCEPT !.req = syncCodexConnectorReviewRequestObservation(r, s),
                           !.stopped = NoCommit]
    IN  WithState(asked, s, [asked EXCEPT !.last = s.head])

\* Mutant: a closed pull request is only one that was merged.
IsNotMerged(p) == p.state # "merged"

isOpenPullRequest(p) == p.state = "open"

\* The unresolved threads of the progress snapshot, when they are one of the bot.
SoleThread(s) == IF s.person THEN NoCommit ELSE s.thread

\* The patch stays in memory until the first save; the turn's counters are part
\* of it.  A failure repeated to its limit may stop the issue instead.
Hydrate ==
    LET s == Snapshot
        r == Evaluated(rec, s)
        open == isOpenPullRequest(view)
        waits == r.state = "waiting_ci" /\ r.req = s.head /\ ~HasFailure(s)
        runs == shouldRunCodex(r, s)
    IN
    /\ pc = "hydrate"
    /\ \/ /\ view.state = "merged"
          /\ EndCycle([rec EXCEPT !.state = "done", !.last = view.head])
       \/ /\ view.state = "closed"
          /\ EndCycle(Blocked(rec, "manual_pr_closed"))
       \/ /\ open /\ RequestIsDue(r, s)
          /\ pc' = "askEarly"
          /\ UNCHANGED <<rec, view, work>>
       \/ /\ open /\ ~RequestIsDue(r, s) /\ waits         \* returns without a save
          /\ EndCycle(rec)
       \/ /\ open /\ HasFailure(s)                        \* the repeat limit
          /\ EndCycle(IF ReviewFailure(s)
                      THEN [Blocked(r, blockedReasonFromReviewState(s))
                               EXCEPT !.stopped = SoleThread(s)]
                      ELSE [Failed(r) EXCEPT !.stopped = SoleThread(s)])
       \/ /\ open /\ ~RequestIsDue(r, s) /\ ~waits /\ runs
          /\ Save([r EXCEPT !.state = inferStateFromPullRequest(r, s), !.reason = "none",
                            !.repairs = @ + 1], "turn")
          /\ work' = IF inferStateFromPullRequest(r, s) = "addressing_review"
                     THEN <<s.head, s.thread>> ELSE NoWork
          /\ UNCHANGED view
       \/ /\ open /\ ~RequestIsDue(r, s) /\ ~waits /\ ~runs
          /\ Save(r, "post")
          /\ UNCHANGED <<view, work>>
    /\ UNCHANGED <<world, bounds, history>>

\* maybeRequestCodexConnectorReviewComment: the comment comes first ...
PostRequest ==
    /\ pc \in {"askEarly", "askLate"}
    /\ gh' = [gh EXCEPT !.asked[view.head] = @ + 1]
    /\ pc' = IF pc = "askEarly" THEN "askedEarly" ELSE "askedLate"
    /\ UNCHANGED <<disk, issue, local, prs, view, work, bounds, history>>

\* ... and the save follows.
SaveRequest ==
    /\ pc \in {"askedEarly", "askedLate"}
    /\ EndCycle([rec EXCEPT !.state = "waiting_ci", !.reason = "none", !.req = view.head])
    /\ UNCHANGED <<world, bounds, history>>

\* The call fails, whether or not the comment was posted.
RequestFails ==
    LET reason == blockedReasonFromReviewState(Snapshot)
        r == Blocked(rec, IF reason = "none" THEN "review_bot_timeout" ELSE reason)
    IN
    /\ pc \in {"askEarly", "askedEarly", "askLate", "askedLate"}
    /\ faults < MaxFaults
    /\ faults' = faults + 1
    /\ IF pc \in {"askEarly", "askedEarly"}
       THEN Save(r, "post") /\ UNCHANGED <<view, work>>
       ELSE EndCycle(r)
    /\ UNCHANGED <<world, helps, history>>
-----------------------------------------------------------------------------
(* The turn and its publication gate. *)

\* New commits void what GitHub and Codex said of the head; a thread stays until
\* it is resolved.
Pushed(p) ==
    [p EXCEPT !.head = @ + 1, !.checks = "pending", !.codex = "none", !.elapsed = FALSE]

\* The agent commits and pushes, resolving a conflict, or leaves the branch.
Turn ==
    /\ pc = "turn"
    /\ pc' = "publish"
    /\ \/ UNCHANGED <<gh, local>>
       \/ /\ gh.head < MaxCommit
          /\ gh' = [Pushed(gh) EXCEPT !.conflict = FALSE]
          /\ local' = gh.head + 1
    /\ UNCHANGED <<disk, issue, prs, view, work, bounds, history>>

\* applyCodexTurnPublicationGate: a pull request that is no longer open is none,
\* and a branch with work ahead of the default branch gets a new one.
Publish ==
    /\ pc = "publish"
    /\ \/ /\ gh.state = "open"
          /\ view' = Viewed(gh)
          /\ Save([rec EXCEPT !.last = local], "post")
          /\ UNCHANGED <<gh, prs, work, tested>>
       \/ /\ gh.state # "open" /\ prs < MaxPrs           \* local CI, then the draft
          /\ gh' = DraftPullRequest(local, IF local = gh.head THEN gh.checks ELSE "pending")
          /\ view' = Viewed(gh')
          /\ prs' = prs + 1
          /\ tested' = tested \cup {local}
          /\ Save([rec EXCEPT !.last = local, !.ci = local], "post")
          /\ UNCHANGED work
       \/ /\ gh.state # "open"                           \* local CI refuses
          /\ EndCycle([Blocked(rec, "verification") EXCEPT !.ci = NoCommit])
          /\ UNCHANGED <<gh, prs, tested>>
       \/ /\ gh.state # "open"                           \* nothing is ahead
          /\ EndCycle([rec EXCEPT !.state = "stabilizing"])
          /\ UNCHANGED <<gh, prs, tested>>
    /\ UNCHANGED <<issue, local, bounds, green, clean, answered, merged>>

\* nextProcessedReviewThreadPatch, saved with the post-turn record: the finding
\* had its turn if the head it left is the head of the workspace; then the
\* pull request is read again.
PostTurn ==
    LET done == work # NoWork /\ view.head = local
        pair == <<view.head, work[2]>>
    IN
    /\ pc = "post"
    /\ Save([rec EXCEPT !.tried = IF done THEN @ \cup {pair} ELSE @], "posted")
    /\ answered' = IF done THEN answered \cup {pair} ELSE answered
    /\ view' = Viewed(gh)
    /\ work' = NoWork
    /\ UNCHANGED <<world, bounds, tested, green, clean, merged>>
-----------------------------------------------------------------------------
(* Ready promotion, the lifecycle of the record, and the merge. *)

\* Mutant: a result counts for the head that was read.
LocalCiGateUnbound(passed) ==
    /\ rec.ci # view.head \/ view.draft
    /\ \/ /\ ~passed
          /\ EndCycle([Blocked(rec, "verification") EXCEPT !.ci = NoCommit,
                                                           !.gate = view.head])
          /\ UNCHANGED tested
       \/ /\ passed
          /\ Save([rec EXCEPT !.ci = view.head, !.gate = NoCommit],
                  IF view.draft THEN "ready" ELSE "guard")
          /\ tested' = tested \cup {local}
          /\ UNCHANGED <<view, work>>

\* runTrackedPrCurrentHeadLocalCiGate: the result is saved without a head; only
\* a workspace whose HEAD is the head that was read gives it one.
LocalCiGate(passed) ==
    /\ rec.ci # view.head \/ view.draft
    /\ \/ /\ ~passed
          /\ EndCycle([Blocked(rec, "verification") EXCEPT !.ci = NoCommit,
                                                           !.gate = view.head])
          /\ UNCHANGED tested
       \/ /\ passed /\ local # view.head
          /\ EndCycle([Blocked(rec, "verification") EXCEPT !.ci = NoCommit,
                                                           !.gate = view.head])
          /\ tested' = tested \cup {local}
       \/ /\ passed /\ local = view.head
          /\ Save([rec EXCEPT !.ci = view.head, !.gate = NoCommit],
                  IF view.draft THEN "ready" ELSE "guard")
          /\ tested' = tested \cup {local}
          /\ UNCHANGED <<view, work>>

\* maybePromoteDraftPullRequestToReady
Promotes(s) == s.draft /\ Settled(s) /\ ~MustFix(s) /\ ~s.person

LocalCi(passed) ==
    /\ \/ pc = "posted" /\ Promotes(Snapshot)
       \/ pc = "localCi"
    /\ LocalCiGate(passed)
    /\ UNCHANGED <<world, bounds, green, clean, answered, merged>>

LocalCiPasses == LocalCi(TRUE)
LocalCiFails == LocalCi(FALSE)

NoPromotion ==
    /\ pc = "posted" /\ ~Promotes(Snapshot)
    /\ pc' = "apply"
    /\ Forget
    /\ UNCHANGED <<disk, world, bounds, history>>

\* Mutant: the pull request is taken to be open still.
MarkReadyOpen ==
    /\ pc = "ready"
    /\ gh.state = "open"
    /\ gh' = [gh EXCEPT !.draft = FALSE]
    /\ pc' = "apply"
    /\ Forget
    /\ UNCHANGED <<disk, issue, local, prs, bounds, history>>

\* gh pr ready names the pull request and no head.
MarkReady ==
    /\ pc = "ready"
    /\ IF gh.state = "open"
       THEN gh' = [gh EXCEPT !.draft = FALSE] /\ pc' = "apply"
       ELSE pc' = "idle" /\ UNCHANGED gh
    /\ Forget
    /\ UNCHANGED <<disk, issue, local, prs, bounds, history>>

Refresh == Look("apply", "applied")

\* applyTrackedPrLifecycleState, then the request or the gate before the merge.
ApplyLifecycle ==
    LET s == Snapshot
        r == WithState([rec EXCEPT !.req = syncCodexConnectorReviewRequestObservation(rec, s),
                                   !.last = s.head],
                       s, [rec EXCEPT !.last = s.head])
    IN
    /\ pc = "applied"
    /\ \/ /\ RequestIsDue(r, s)
          /\ Save(r, "askLate")
          /\ UNCHANGED <<view, work>>
       \/ /\ ~RequestIsDue(r, s) /\ r.state = "ready_to_merge"
          /\ Save(r, IF r.ci = s.head THEN "guard" ELSE "localCi")
          /\ UNCHANGED <<view, work>>
       \/ /\ ~RequestIsDue(r, s) /\ r.state # "ready_to_merge"
          /\ EndCycle(r)
    /\ UNCHANGED <<world, bounds, history>>

LookAgain == Look("guard", "guarded")

\* handlePostTurnMergeAndCompletion; rec.last is the head of the earlier look.
\* The first save of a pass is the one after auto-merge is enabled.
Guard ==
    LET s == Snapshot
        next == inferStateFromPullRequest([rec EXCEPT !.last = s.head], s)
        seen == [rec EXCEPT !.last = s.head]
    IN
    /\ pc = "guarded"
    /\ \/ /\ next # "ready_to_merge"
          /\ EndCycle(WithState(seen, s, seen))
       \/ /\ next = "ready_to_merge" /\ s.head # rec.last
          /\ EndCycle([seen EXCEPT !.state = "stabilizing", !.reason = "none"])
       \/ /\ next = "ready_to_merge" /\ s.head = rec.last
          /\ ~finalAutoMergeGuard(rec, rec.last, s)
          /\ EndCycle(Blocked(seen, "verification"))
       \/ /\ next = "ready_to_merge" /\ finalAutoMergeGuard(rec, rec.last, s)
          /\ pc' = "armed"
          /\ UNCHANGED <<rec, view, work>>
    /\ UNCHANGED <<world, bounds, history>>

\* Mutant: without --match-head-commit.
EnableAutoMergeAnyHead ==
    /\ pc = "armed"
    /\ IF gh.state = "open"
       THEN gh' = [gh EXCEPT !.auto = gh.head] /\ pc' = "enabled" /\ UNCHANGED <<view, work>>
       ELSE pc' = "idle" /\ Forget /\ UNCHANGED gh
    /\ UNCHANGED <<disk, issue, local, prs, bounds, history>>

\* gh pr merge --auto --match-head-commit: refused when the head moved.
EnableAutoMerge ==
    /\ pc = "armed"
    /\ IF gh.state = "open" /\ gh.head = view.head
       THEN gh' = [gh EXCEPT !.auto = view.head] /\ pc' = "enabled" /\ UNCHANGED <<view, work>>
       ELSE pc' = "idle" /\ Forget /\ UNCHANGED gh
    /\ UNCHANGED <<disk, issue, local, prs, bounds, history>>

SaveMerging ==
    /\ pc = "enabled"
    /\ EndCycle([rec EXCEPT !.state = "merging", !.reason = "none", !.last = view.head])
    /\ UNCHANGED <<world, bounds, history>>

\* The supervisor dies; what was read is lost.
Crash ==
    /\ pc # "idle"
    /\ faults < MaxFaults
    /\ faults' = faults + 1
    /\ pc' = "idle"
    /\ Forget
    /\ UNCHANGED <<disk, world, helps, history>>
-----------------------------------------------------------------------------
(* GitHub, its bots and its people. *)

Outside(p) ==
    /\ gh.state = "open"
    /\ gh' = p
    /\ UNCHANGED <<disk, prs, cycle, faults, tested, answered>>

Quiet == UNCHANGED <<issue, local, helps, green, clean, merged>>

ChecksFinish ==
    /\ gh.checks = "pending"
    /\ \E outcome \in {"green", "red"} :
          /\ Outside([gh EXCEPT !.checks = outcome])
          /\ green' = IF outcome = "green" THEN green \cup {gh.head} ELSE green
    /\ UNCHANGED <<issue, local, helps, clean, merged>>

CodexReviews ==
    /\ ~gh.draft /\ gh.codex = "none"
    /\ \/ /\ Outside([gh EXCEPT !.codex = "clean"])
          /\ clean' = clean \cup {gh.head}
       \/ /\ Outside([gh EXCEPT !.codex = "must_fix", !.thread = gh.head])
          /\ UNCHANGED clean
    /\ UNCHANGED <<issue, local, helps, green, merged>>

ReviewIsLate ==
    /\ SignalPending(gh) /\ ~gh.elapsed
    /\ Outside([gh EXCEPT !.elapsed = TRUE])
    /\ Quiet

ThreadResolved ==
    /\ gh.thread # NoCommit \/ gh.person
    /\ \/ Outside([gh EXCEPT !.thread = NoCommit])
       \/ Outside([gh EXCEPT !.person = FALSE])
    /\ Quiet

\* A person comments, closes, merges, pushes to the branch or runs the checks
\* again; the default branch moves into a conflict.
Help ==
    /\ helps < MaxHelp
    /\ helps' = helps + 1
    /\ \/ /\ \/ Outside([gh EXCEPT !.person = TRUE])
             \/ Outside([gh EXCEPT !.conflict = TRUE])
             \/ Outside([gh EXCEPT !.state = "closed"])
             \/ Outside([gh EXCEPT !.checks = "pending"])
             \/ gh.head < MaxCommit /\ Outside(Pushed(gh))
          /\ UNCHANGED merged
       \/ /\ ~gh.draft
          /\ Outside([gh EXCEPT !.state = "merged"])
          /\ merged' = TRUE
    /\ UNCHANGED <<issue, local, green, clean>>

\* Auto-merge: GitHub merges the head of the moment once its checks are green,
\* and may close the issue with it.
GitHubMerges ==
    /\ gh.auto # NoCommit /\ ~gh.draft /\ Settled(gh)
    /\ Outside([gh EXCEPT !.state = "merged"])
    /\ merged' = TRUE
    /\ issue' \in {issue, "closed"}
    /\ UNCHANGED <<local, helps, green, clean>>

\* Somebody writes in the issue after the merge.
IssueEdited ==
    /\ merged /\ issue = "open" /\ helps < MaxHelp
    /\ issue' = "edited"
    /\ helps' = helps + 1
    /\ UNCHANGED <<disk, gh, local, prs, cycle, faults, history>>

Supervisor ==
    \/ StartCycle \/ Reconcile \/ CloseDone \/ Select \/ Hydrate
    \/ PostRequest \/ SaveRequest \/ RequestFails
    \/ Turn \/ Publish \/ PostTurn
    \/ LocalCiPasses \/ LocalCiFails \/ NoPromotion \/ MarkReady
    \/ Refresh \/ ApplyLifecycle \/ LookAgain \/ Guard
    \/ EnableAutoMerge \/ SaveMerging

Next ==
    \/ Supervisor
    \/ Crash
    \/ ChecksFinish \/ CodexReviews \/ ReviewIsLate \/ ThreadResolved
    \/ Help \/ GitHubMerges \/ IssueEdited

Spec == Init /\ [][Next]_vars

\* The loop starts one cycle after another and each goes on.  NeverStuck is why
\* this asks no more of Next than fairness of Supervisor would.
Proceed == pc' \in Pcs
FairSpec == Spec /\ WF_pc(Proceed)
-----------------------------------------------------------------------------
(* Properties *)

\* No step of a cycle meets a record and a pull request for which no branch of
\* the code is written.
NeverStuck == ENABLED Supervisor

\* Auto-merge is enabled only at a head that passed everything, though what the
\* guard read may belong to two heads, and done means merged: see MergePromise.
Promise == INSTANCE MergePromise WITH
    Nothing <- NoCommit,
    head <- gh.head,
    vetted <- tested \cap green \cap clean,
    promised <- gh.auto,
    done <- rec.state = "done"
PromiseKept == Promise!Spec

\* A local CI result that the record binds to a head is a result of that
\* commit, though the checks run in a workspace whose HEAD may be another one.
LocalCiTruth == rec.ci # NoCommit => rec.ci \in tested

\* The review of a head is requested once, whatever dies between the comment on
\* GitHub and the save that remembers it.
OneRequestPerHead == \A h \in Commit : gh.asked[h] <= 1

\* A finding that had its turn at a head gets no other one there: turns that
\* change nothing come to an end.
OneTurnPerFinding == [][pc' = "turn" => work' \notin answered]_vars

\* The branch gets a second pull request only if the first was open when the
\* turn began: one that a person closed earlier stays closed.
ClosedStaysClosed == [][prs' > prs => view.state = "open"]_vars

\* The record of an issue whose pull request was merged becomes done, wherever
\* the supervisor died, unless somebody has written in the issue since.
MergedIsRecorded ==
    gh.state = "merged" ~> rec.state = "done" \/ issue = "edited" \/ gh.state # "merged"

\* A pull request that has everything is set to merge at its head, or it is
\* before the operator, or something has changed.
Healthy == gh.state = "open" /\ Settled(gh) /\ gh.codex = "clean" /\ ~MustFix(gh) /\ ~gh.person
HealthyIsMerged ==
    Healthy ~> gh.auto = gh.head \/ rec.state \in {"blocked", "failed"} \/ ~Healthy
=============================================================================

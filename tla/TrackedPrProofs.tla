--------------------------- MODULE TrackedPrProofs ---------------------------
(* The safety of a pull request's life for every number of commits, pull     *)
(* requests, repairs and faults: what each step of a cycle may rely on, and  *)
(* that auto-merge keeps its promise although a look at the pull request is  *)
(* two calls and everything may move between them.                           *)
EXTENDS TrackedPr, TLAPS

\* What every patch of a record leaves of it.
Keeps(r, q) ==
    /\ q.tried = r.tried
    /\ q.ci \in {r.ci, NoCommit}
    /\ q.repairs \in {r.repairs, 0}

-----------------------------------------------------------------------------
(* The policy. *)

\* Every pull request has a state of the record, whatever was saved before:
\* no case of inferStateFromPullRequest is missing.
LEMMA StateInferred ==
    ASSUME NEW r \in Record, NEW s \in PullRequest
    PROVE  inferStateFromPullRequest(r, s) \in TrackedState
<1>1. ASSUME HasBlocker(s) PROVE BlockerState(r, s) \in TrackedState
  BY <1>1 DEF HasBlocker, BlockerState, TrackedState, Actionable, Exhausted, MustFix, Settled,
              PullRequest
<1>2. OpenState(r, s) \in TrackedState
  BY DEF OpenState, TrackedState
<1> QED BY <1>1, <1>2 DEF inferStateFromPullRequest, TrackedState

\* A reason of the record, for a block or none.
LEMMA ReasonInferred ==
    ASSUME NEW s
    PROVE  blockedReasonFromReviewState(s) \in Reason
BY DEF blockedReasonFromReviewState, Reason

\* A record is inferred done only from a merged pull request.
LEMMA DoneInferred ==
    ASSUME NEW r, NEW s, inferStateFromPullRequest(r, s) = "done", s \in PullRequest
    PROVE  s.state = "merged"
<1>1. OpenState(r, s) # "done"
  BY DEF OpenState
<1>2. ASSUME HasBlocker(s) PROVE BlockerState(r, s) # "done"
  BY <1>2 DEF HasBlocker, BlockerState, Actionable, Exhausted, MustFix, Settled, PullRequest
<1> QED BY <1>1, <1>2 DEF inferStateFromPullRequest

\* The remembered request is forgotten or one for the head that was read.
LEMMA RequestObserved ==
    ASSUME NEW r, NEW s \in PullRequest
    PROVE  syncCodexConnectorReviewRequestObservation(r, s) \in KnownHead
BY DEF syncCodexConnectorReviewRequestObservation, KnownHead, PullRequest

\* A request is due only where GitHub has none for the head.
LEMMA DueIsUnasked ==
    ASSUME NEW r, NEW s \in PullRequest, NEW q,
           q.req = syncCodexConnectorReviewRequestObservation(r, s),
           RequestIsDue(q, s)
    PROVE  s.asked[s.head] = 0
<1>1. s.codex = "none" /\ q.req # s.head
  BY DEF RequestIsDue, TimedOut, SignalPending
<1>2. s.asked[s.head] \in Nat
  BY DEF PullRequest
<1> QED BY <1>1, <1>2 DEF syncCodexConnectorReviewRequestObservation

\* A look leaves a record whose history is the old one.
LEMMA StateApplied ==
    ASSUME NEW r \in Record, NEW q \in Record, NEW s \in PullRequest
    PROVE  /\ WithState(r, s, q) \in Record
           /\ Keeps(r, WithState(r, s, q))
           /\ WithState(r, s, q).repairs = r.repairs
           /\ WithState(r, s, q).ci = r.ci
           /\ WithState(r, s, q).req = r.req
           /\ WithState(r, s, q).state = inferStateFromPullRequest(q, s)
<1> DEFINE next == inferStateFromPullRequest(q, s)
           why == IF next = "blocked" THEN blockedReasonFromReviewState(s) ELSE "none"
<1>1. next \in TrackedState /\ why \in Reason
  BY StateInferred, ReasonInferred DEF Reason
<1>2. WithState(r, s, q) = [r EXCEPT !.state = next, !.reason = why]
  BY DEF WithState
<1> HIDE DEF next, why
<1>3. /\ WithState(r, s, q) \in Record
      /\ Keeps(r, WithState(r, s, q))
      /\ WithState(r, s, q).repairs = r.repairs
      /\ WithState(r, s, q).ci = r.ci
      /\ WithState(r, s, q).req = r.req
      /\ WithState(r, s, q).state = next
  BY <1>1, <1>2 DEF Record, Keeps
<1> QED BY <1>3 DEF next

\* An advanced head resets what belonged to the old one.
LEMMA HeadProjected ==
    ASSUME NEW r \in Record, NEW s \in PullRequest
    PROVE  /\ Projected(r, s) \in Record
           /\ Keeps(r, Projected(r, s))
<1> DEFINE ci == IF r.last = s.head /\ r.ci = s.head THEN s.head ELSE NoCommit
           req == IF r.last = s.head /\ r.req = s.head THEN s.head ELSE NoCommit
           gate == IF r.last = s.head /\ r.gate = s.head THEN s.head ELSE NoCommit
<1>1. s.head \in KnownHead /\ ci \in KnownHead /\ req \in KnownHead /\ gate \in KnownHead
  BY DEF PullRequest, KnownHead
<1>2. ci \in {r.ci, NoCommit}
  OBVIOUS
<1>3. Projected(r, s) = [r EXCEPT !.ci = ci, !.req = req, !.gate = gate, !.last = s.head]
  BY DEF Projected, HeadAdvanceReset, Record
<1> HIDE DEF ci, req, gate
<1> QED BY <1>1, <1>2, <1>3 DEF Record, Keeps

\* The recoveries keep the history, and finish nothing that is not merged.
LEMMA RecoveryKeeps ==
    ASSUME NEW r \in Record, NEW s \in PullRequest
    PROVE  /\ Recovered(r, s) \in Record
           /\ Keeps(r, Recovered(r, s))
           /\ Recovered(r, s).state = "done" => r.state = "done" \/ s.state = "merged"
<1> DEFINE seen == Projected(r, s)
           none == 0
           zero == [seen EXCEPT !.repairs = none]
<1>1. seen \in Record /\ Keeps(r, seen)
  BY HeadProjected
<1>2. none \in Nat /\ none = 0
  OBVIOUS
<1>2a. seen.state = r.state /\ zero.state = r.state
  BY DEF Projected, HeadAdvanceReset, Record
<1>2b. [seen EXCEPT !.repairs = IF seen = r THEN @ ELSE 0] \in {seen, zero}
  BY <1>1 DEF Record
<1> DEFINE kept == [seen EXCEPT !.repairs = IF seen = r THEN @ ELSE 0]
<1> HIDE DEF seen, none
<1>3. zero \in Record
  BY <1>1, <1>2 DEF Record
<1>4. Keeps(r, zero)
  BY <1>1, <1>2 DEF Record, Keeps
<1>5. Converged(r, s) = WithState(zero, s, seen)
  BY <1>2 DEF Converged, seen
<1> HIDE DEF zero
<1>6. /\ Converged(r, s) \in Record
      /\ Keeps(zero, Converged(r, s))
      /\ Converged(r, s).state = inferStateFromPullRequest(seen, s)
  <2>1. /\ WithState(zero, s, seen) \in Record
        /\ Keeps(zero, WithState(zero, s, seen))
        /\ WithState(zero, s, seen).state = inferStateFromPullRequest(seen, s)
    BY <1>1, <1>3, StateApplied, Zenon
  <2> QED BY <2>1, <1>5, Zenon
<1>7. Converged(r, s).state = "done" => s.state = "merged"
  BY <1>6, DoneInferred
<1>8. Keeps(r, Converged(r, s))
  BY <1>4, <1>6 DEF Keeps
<1> DEFINE back == [Converged(r, s) EXCEPT !.repairs = r.repairs]
<1>9. back \in Record /\ Keeps(r, back) /\ back.state = Converged(r, s).state
  BY <1>6, <1>8 DEF Record, Keeps
<1>10. Keeps(r, r)
  BY DEF Keeps
<1>11. BlockedRecovered(r, s) \in {r, back, kept, Converged(r, s)}
  BY DEF BlockedRecovered, seen
<1> HIDE DEF back, kept
<1>12. Recovered(r, s) \in {r, back, seen, zero, Converged(r, s)}
  BY <1>11, <1>2b DEF Recovered, kept
<1> QED BY <1>1, <1>3, <1>4, <1>6, <1>7, <1>8, <1>9, <1>10, <1>12, <1>2a

\* So they do where the repairs are counted anew.
LEMMA RecordsRecovered ==
    ASSUME NEW r \in Record, NEW s \in PullRequest, NEW q \in RecoveredRecords(r, s)
    PROVE  /\ q \in Record
           /\ Keeps(r, q)
           /\ q.state = "done" => r.state = "done" \/ s.state = "merged"
<1> DEFINE none == 0
           kept == Recovered(r, s)
<1>1. none \in Nat /\ none = 0
  OBVIOUS
<1>2. /\ kept \in Record /\ Keeps(r, kept)
      /\ kept.state = "done" => r.state = "done" \/ s.state = "merged"
  BY RecoveryKeeps
<1>3. q \in {kept, [kept EXCEPT !.repairs = none]}
  BY DEF RecoveredRecords
<1> HIDE DEF none, kept
<1> QED BY <1>1, <1>2, <1>3 DEF Record, Keeps
-----------------------------------------------------------------------------
(* What the steps of a cycle may rely on. *)

\* A run that goes on has a repair left.
BudgetLeft == pc = "hydrate" => rec.repairs < MaxRepair

\* From its turn to the merge a record is not done.
NotDone == pc \in {"turn", "publish", "post", "posted", "localCi"} => rec.state # "done"

\* What counts as merged was merged.
MergedKnown ==
    /\ rec.state = "done" => merged
    /\ gh.state = "merged" => merged
    /\ view.state = "merged" => merged
    /\ pc = "closing" => merged

\* Checks and review of a pull request are those of its head; what was read of
\* the review is of the head that was read.
Verdicts ==
    /\ gh.checks = "green" => gh.head \in green
    /\ gh.codex = "clean" => gh.head \in clean
    /\ view.codex = "clean" => view.head \in clean

\* Where the merge is decided the branch may be ahead of what was read; its
\* checks were then read for another head, to which it never returns.
Vetted ==
    /\ pc \in {"guarded", "armed"} => view.head <= gh.head
    /\ pc = "armed" => /\ view.head \in tested \cap clean
                       /\ gh.head = view.head => view.head \in green

\* The comments that were read are all there are, and a due request has none.
RequestKnown ==
    /\ pc \in {"hydrate", "applied"} => view.asked = gh.asked
    /\ pc \in {"askEarly", "askLate"} => gh.asked[view.head] = 0

\* Every finding that had its turn is remembered.
TurnsRemembered ==
    /\ answered \subseteq rec.tried
    /\ pc = "turn" => work \notin answered

\* The finding of a turn is one.
WorkKnown == work # NoWork => work \in Commit \X Commit

\* A turn begins with an open pull request.
TurnOpen == pc \in {"turn", "publish"} => view.state = "open"

\* Everything but the types.
Rest ==
    /\ BudgetLeft /\ NotDone /\ MergedKnown /\ Verdicts /\ Vetted
    /\ RequestKnown /\ TurnsRemembered /\ TurnOpen /\ WorkKnown
    /\ LocalCiTruth /\ OneRequestPerHead

Inv == TypeOK /\ Rest

\* What is read of a pull request is a pull request with its head and review.
LEMMA ViewedTyped ==
    ASSUME NEW p \in PullRequest
    PROVE  /\ Viewed(p) \in PullRequest
           /\ Viewed(p).head = p.head /\ Viewed(p).state = p.state
           /\ Viewed(p).asked = p.asked /\ Viewed(p).codex = p.codex
BY DEF Viewed, PullRequest, KnownHead

\* A new pull request satisfies the invariant.
LEMMA Initially == Init => Inv
<1> SUFFICES ASSUME Init PROVE Inv
  OBVIOUS
<1> DEFINE no == FALSE
           yes == TRUE
           asked == [c \in Commit |-> 0]
<1>1. 1 \in Commit /\ Commit \subseteq Nat /\ NoCommit \notin Commit
  BY PolicyAssumption DEF Commit, NoCommit
<1>2. asked \in [Commit -> Nat] /\ \A c \in Commit : asked[c] <= 1
  OBVIOUS
<1>3. gh = [state |-> "open", draft |-> yes, head |-> 1, checks |-> "pending", conflict |-> no,
            codex |-> "none", elapsed |-> no, thread |-> NoCommit, person |-> no,
            asked |-> asked, auto |-> NoCommit]
  BY DEF Init, DraftPullRequest
<1>4. view = gh
  BY DEF Init, Unseen
<1>5. no \in BOOLEAN /\ yes \in BOOLEAN
  OBVIOUS
<1>6. rec = [state |-> "draft_pr", reason |-> "none", last |-> 1, ci |-> NoCommit,
             req |-> NoCommit, gate |-> NoCommit, stopped |-> NoCommit, tried |-> {}, repairs |-> 0]
  BY DEF Init
<1> HIDE DEF no, yes, asked
<1>7. gh \in PullRequest
  BY <1>1, <1>2, <1>3, <1>5 DEF PullRequest, KnownHead
<1>8. rec \in Record /\ rec.repairs <= MaxRepair
  BY <1>1, <1>5, <1>6, TrackedAssumption DEF Record, KnownHead, TrackedState, Reason
<1>9. TypeOK
  <2>1. pc \in Pcs /\ merged \in BOOLEAN /\ issue \in {"open", "edited", "closed"}
    BY DEF Init, Pcs
  <2>2. local \in Commit /\ work \in KnownHead \X KnownHead
    BY <1>1 DEF Init, NoWork, KnownHead
  <2>3. prs \in 1..MaxPrs /\ faults \in 0..MaxFaults /\ helps \in 0..MaxHelp
    BY TrackedAssumption DEF Init
  <2>4. /\ tested \subseteq Commit /\ green \subseteq Commit /\ clean \subseteq Commit
        /\ answered \subseteq Commit \X Commit
    BY DEF Init
  <2> QED BY <1>4, <1>7, <1>8, <2>1, <2>2, <2>3, <2>4 DEF TypeOK
<1>10. Rest
  BY <1>1, <1>2, <1>3, <1>4, <1>6 DEF Rest, Init, BudgetLeft, NotDone, MergedKnown, Verdicts,
     Vetted, RequestKnown, TurnsRemembered, TurnOpen, WorkKnown, LocalCiTruth, OneRequestPerHead
<1> QED BY <1>9, <1>10 DEF Inv, Rest
-----------------------------------------------------------------------------
(* GitHub, its bots and its people. *)

\* A step of the world moves the pull request, and of it neither the comments
\* nor the head without its verdicts.
Moved ==
    /\ UNCHANGED <<rec, pc, view, work, prs, tested, answered>>
    /\ gh' \in PullRequest
    /\ gh'.asked = gh.asked
    /\ gh'.head >= gh.head
    /\ green \subseteq green' /\ clean \subseteq clean' /\ (merged => merged')
    /\ gh'.checks = "green" => gh'.head \in green'
    /\ gh'.codex = "clean" => gh'.head \in clean'
    /\ gh'.state = "merged" => merged'
    /\ pc = "armed" /\ gh'.head = view.head => gh.head = view.head

LEMMA WorldKeeps ==
    ASSUME TypeOK, Rest, Moved
    PROVE  Rest'
<1>1. /\ gh.head \in Nat /\ gh'.head \in Nat /\ view.head \in Nat
      /\ view.head \in Commit
  BY PolicyAssumption DEF TypeOK, Moved, PullRequest, Commit
<1> USE DEF Rest, Moved
<1>2. BudgetLeft' /\ NotDone' /\ TurnOpen' /\ WorkKnown' /\ TurnsRemembered' /\ LocalCiTruth'
  BY DEF BudgetLeft, NotDone, TurnOpen, WorkKnown, TurnsRemembered, LocalCiTruth
<1>3. MergedKnown' /\ Verdicts' /\ RequestKnown' /\ OneRequestPerHead'
  BY DEF MergedKnown, Verdicts, RequestKnown, OneRequestPerHead
<1>4. Vetted'
  BY <1>1 DEF Vetted
<1> QED BY <1>2, <1>3, <1>4

\* The types after a step of the world.
LEMMA WorldTyped ==
    ASSUME TypeOK, Moved, UNCHANGED faults,
           issue' \in {"open", "edited", "closed"}, local' = local, helps' \in 0..MaxHelp,
           green' \subseteq Commit, clean' \subseteq Commit, merged' \in BOOLEAN
    PROVE  TypeOK'
BY DEF TypeOK, Moved

\* One field of a pull request changes.
LEMMA PullRequestTyped ==
    ASSUME NEW p \in PullRequest
    PROVE  /\ \A x \in {"open", "merged", "closed"} : [p EXCEPT !.state = x] \in PullRequest
           /\ \A x \in {"pending", "green", "red"} : [p EXCEPT !.checks = x] \in PullRequest
           /\ \A x \in {"none", "clean", "must_fix"} : [p EXCEPT !.codex = x] \in PullRequest
           /\ \A x \in BOOLEAN : /\ [p EXCEPT !.draft = x] \in PullRequest
                                 /\ [p EXCEPT !.conflict = x] \in PullRequest
                                 /\ [p EXCEPT !.elapsed = x] \in PullRequest
                                 /\ [p EXCEPT !.person = x] \in PullRequest
           /\ \A x \in KnownHead : /\ [p EXCEPT !.thread = x] \in PullRequest
                                   /\ [p EXCEPT !.auto = x] \in PullRequest
<1>1. \A x \in {"open", "merged", "closed"} : [p EXCEPT !.state = x] \in PullRequest
  BY DEF PullRequest
<1>2. \A x \in {"pending", "green", "red"} : [p EXCEPT !.checks = x] \in PullRequest
  BY DEF PullRequest
<1>3. \A x \in {"none", "clean", "must_fix"} : [p EXCEPT !.codex = x] \in PullRequest
  BY DEF PullRequest
<1>4. \A x \in BOOLEAN : [p EXCEPT !.draft = x] \in PullRequest
  BY DEF PullRequest
<1>5. \A x \in BOOLEAN : [p EXCEPT !.conflict = x] \in PullRequest
  BY DEF PullRequest
<1>6. \A x \in BOOLEAN : [p EXCEPT !.elapsed = x] \in PullRequest
  BY DEF PullRequest
<1>7. \A x \in BOOLEAN : [p EXCEPT !.person = x] \in PullRequest
  BY DEF PullRequest
<1>8. \A x \in KnownHead : [p EXCEPT !.thread = x] \in PullRequest
  BY DEF PullRequest
<1>9. \A x \in KnownHead : [p EXCEPT !.auto = x] \in PullRequest
  BY DEF PullRequest
<1> QED BY <1>1, <1>2, <1>3, <1>4, <1>5, <1>6, <1>7, <1>8, <1>9

\* A push gives a pull request with a later head and no verdicts.
LEMMA PushTyped ==
    ASSUME NEW p \in PullRequest, p.head < MaxCommit
    PROVE  /\ Pushed(p) \in PullRequest
           /\ Pushed(p).head = p.head + 1
           /\ Pushed(p).asked = p.asked
           /\ Pushed(p).auto = p.auto
           /\ Pushed(p).state = p.state
           /\ Pushed(p).checks = "pending"
           /\ Pushed(p).codex = "none"
<1> DEFINE no == FALSE
           next == p.head + 1
<1>1. next \in Commit /\ no \in BOOLEAN
  BY PolicyAssumption DEF PullRequest, Commit
<1>2. Pushed(p) = [p EXCEPT !.head = next, !.checks = "pending", !.codex = "none",
                            !.elapsed = no]
  BY DEF Pushed
<1>3. next = p.head + 1
  OBVIOUS
<1> HIDE DEF no, next
<1> QED BY <1>1, <1>2, <1>3 DEF PullRequest

\* GitHub and its people keep the invariant.
LEMMA WorldSteps ==
    ASSUME Inv,
           \/ ChecksFinish \/ CodexReviews \/ ReviewIsLate \/ ThreadResolved
           \/ Help \/ GitHubMerges \/ IssueEdited
    PROVE  Inv'
<1> USE DEF disk, world, cycle, bounds, history
<1> DEFINE Counts ==
           /\ UNCHANGED faults
           /\ issue' \in {"open", "edited", "closed"} /\ local' = local /\ helps' \in 0..MaxHelp
           /\ green' \subseteq Commit /\ clean' \subseteq Commit /\ merged' \in BOOLEAN
<1>1. /\ TypeOK /\ Rest /\ gh \in PullRequest /\ gh.head \in Commit
      /\ Verdicts /\ MergedKnown /\ green \subseteq Commit /\ clean \subseteq Commit
      /\ merged \in BOOLEAN /\ issue \in {"open", "edited", "closed"} /\ helps \in 0..MaxHelp
  BY DEF Inv, Rest, TypeOK, PullRequest
<1>2. gh.head \in Nat /\ NoCommit \in KnownHead
  BY <1>1, PolicyAssumption DEF Commit, KnownHead
<1>3. helps < MaxHelp => helps + 1 \in 0..MaxHelp
  BY <1>1, TrackedAssumption
<1>4. CASE ChecksFinish
  <2>1. PICK outcome \in {"green", "red"} :
           /\ gh' = [gh EXCEPT !.checks = outcome]
           /\ green' = IF outcome = "green" THEN green \cup {gh.head} ELSE green
    BY <1>4 DEF ChecksFinish, Outside
  <2>2. Counts
    BY <1>1, <1>4, <2>1 DEF ChecksFinish, Outside
  <2>3. gh' \in PullRequest
    BY <1>1, <2>1, PullRequestTyped
  <2>4. Moved
    BY <1>1, <1>2, <1>4, <2>1, <2>3 DEF ChecksFinish, Outside, Moved, Verdicts, MergedKnown, PullRequest
  <2> QED BY <1>1, <2>2, <2>4, WorldKeeps, WorldTyped DEF Inv, Rest
<1>5. CASE CodexReviews
  <2>1. \/ gh' = [gh EXCEPT !.codex = "clean"] /\ clean' = clean \cup {gh.head}
        \/ gh' = [gh EXCEPT !.codex = "must_fix", !.thread = gh.head] /\ clean' = clean
    BY <1>5 DEF CodexReviews, Outside
  <2>2. Counts
    BY <1>1, <1>5, <2>1 DEF CodexReviews, Outside
  <2>3. gh' \in PullRequest
    BY <1>1, <2>1 DEF PullRequest, KnownHead
  <2>4. /\ gh'.head = gh.head /\ gh'.asked = gh.asked /\ gh'.checks = gh.checks
        /\ gh'.state = gh.state /\ (gh'.codex = "clean" => gh.head \in clean')
        /\ clean \subseteq clean'
    BY <1>1, <2>1 DEF PullRequest
  <2>5. UNCHANGED <<rec, pc, view, work, prs, tested, answered, green, merged>>
    BY <1>5 DEF CodexReviews, Outside
  <2>6. gh.head >= gh.head
    BY <1>2
  <2>7. Moved
    BY <1>1, <2>3, <2>4, <2>5, <2>6 DEF Moved, Verdicts, MergedKnown
  <2> QED BY <1>1, <2>2, <2>7, WorldKeeps, WorldTyped DEF Inv, Rest
<1>6. CASE ReviewIsLate \/ ThreadResolved
  <2> DEFINE no == FALSE
             yes == TRUE
  <2>1. no \in BOOLEAN /\ yes \in BOOLEAN
    OBVIOUS
  <2>2. gh' \in {[gh EXCEPT !.elapsed = yes], [gh EXCEPT !.thread = NoCommit],
                 [gh EXCEPT !.person = no]}
    BY <1>6 DEF ReviewIsLate, ThreadResolved, Outside
  <2>3. Counts
    BY <1>1, <1>6 DEF ReviewIsLate, ThreadResolved, Outside, Quiet
  <2> HIDE DEF no, yes
  <2>4. gh' \in PullRequest
    BY <1>1, <1>2, <2>1, <2>2 DEF PullRequest
  <2>5. Moved
    BY <1>1, <1>2, <1>6, <2>2, <2>4
       DEF ReviewIsLate, ThreadResolved, Outside, Quiet, Moved, Verdicts, MergedKnown, PullRequest
  <2> QED BY <1>1, <2>3, <2>5, WorldKeeps, WorldTyped DEF Inv, Rest
<1>7. CASE Help
  <2> DEFINE yes == TRUE
  <2>1. yes \in BOOLEAN
    OBVIOUS
  <2>2. \/ /\ gh' \in {[gh EXCEPT !.person = yes], [gh EXCEPT !.conflict = yes],
                       [gh EXCEPT !.state = "closed"], [gh EXCEPT !.checks = "pending"]}
           /\ merged' = merged
        \/ /\ gh.head < MaxCommit /\ gh' = Pushed(gh)
           /\ merged' = merged
        \/ /\ gh' = [gh EXCEPT !.state = "merged"]
           /\ merged'
    BY <1>7 DEF Help, Outside
  <2>3. Counts
    BY <1>1, <1>3, <1>7 DEF Help, Outside
  <2> HIDE DEF yes
  <2>4. gh.thread \in KnownHead
    BY <1>1 DEF PullRequest
  <2>5. gh' \in PullRequest
    <3>1. CASE gh' = Pushed(gh) /\ gh.head < MaxCommit
      BY <1>1, <2>4, <3>1, PushTyped
    <3>2. CASE gh' \in {[gh EXCEPT !.person = yes], [gh EXCEPT !.conflict = yes],
                        [gh EXCEPT !.state = "closed"], [gh EXCEPT !.checks = "pending"],
                        [gh EXCEPT !.state = "merged"]}
      BY <1>1, <2>1, <3>2 DEF PullRequest
    <3> QED BY <2>2, <3>1, <3>2
  <2>6. UNCHANGED <<rec, pc, view, work, prs, tested, answered, green, clean>>
    BY <1>7 DEF Help, Outside
  <2>7. ASSUME gh.head < MaxCommit, gh' = Pushed(gh), merged' = merged
        PROVE  Moved
    <3>1. /\ gh'.head = gh.head + 1 /\ gh'.asked = gh.asked /\ gh'.checks = "pending"
          /\ gh'.codex = "none" /\ gh'.state = gh.state
      BY <1>1, <2>4, <2>7, PushTyped
    <3>2. pc = "armed" => view.head <= gh.head /\ view.head \in Nat
      BY <1>1, PolicyAssumption DEF Rest, Vetted, TypeOK, PullRequest, Commit
    <3>3. (merged => merged') /\ (gh'.state = "merged" => merged')
      BY <1>1, <2>7, <3>1, Zenon DEF MergedKnown
    <3>4. gh'.head >= gh.head /\ (pc = "armed" => gh'.head # view.head)
      BY <1>2, <3>1, <3>2
    <3> QED BY <2>5, <2>6, <3>1, <3>3, <3>4 DEF Moved
  <2>8. ASSUME \/ /\ gh' \in {[gh EXCEPT !.person = yes], [gh EXCEPT !.conflict = yes],
                              [gh EXCEPT !.state = "closed"], [gh EXCEPT !.checks = "pending"]}
                  /\ merged' = merged
               \/ gh' = [gh EXCEPT !.state = "merged"] /\ merged'
        PROVE  Moved
    <3>1. /\ gh'.head = gh.head /\ gh'.asked = gh.asked /\ gh'.codex = gh.codex
          /\ gh'.checks \in {gh.checks, "pending"}
          /\ gh'.state # "merged" \/ gh'.state = gh.state \/ merged'
      BY <1>1, <2>8 DEF PullRequest
    <3>2. (merged => merged') /\ (gh'.state = "merged" => merged')
      BY <1>1, <2>8, <3>1, Zenon DEF MergedKnown
    <3>3. /\ gh'.checks = "green" => gh'.head \in green'
          /\ gh'.codex = "clean" => gh'.head \in clean'
      BY <1>1, <2>6, <3>1 DEF Verdicts
    <3>4. gh'.head >= gh.head
      BY <1>2, <3>1
    <3> QED BY <2>5, <2>6, <3>1, <3>2, <3>3, <3>4 DEF Moved
  <2>9. Moved
    BY <2>2, <2>7, <2>8, Zenon
  <2> QED BY <1>1, <2>3, <2>9, WorldKeeps, WorldTyped DEF Inv, Rest
<1>8. CASE GitHubMerges
  <2>1. gh' = [gh EXCEPT !.state = "merged"] /\ merged' = TRUE
    BY <1>8 DEF GitHubMerges, Outside
  <2>2. Counts
    BY <1>1, <1>8 DEF GitHubMerges, Outside
  <2>3. gh' \in PullRequest
    BY <1>1, <2>1, PullRequestTyped
  <2>4. Moved
    BY <1>1, <1>2, <1>8, <2>1, <2>3 DEF GitHubMerges, Outside, Moved, Verdicts, MergedKnown, PullRequest
  <2> QED BY <1>1, <2>2, <2>4, WorldKeeps, WorldTyped DEF Inv, Rest
<1>9. CASE IssueEdited
  <2>1. Counts
    BY <1>1, <1>3, <1>9 DEF IssueEdited
  <2>2. Moved
    BY <1>1, <1>2, <1>9 DEF IssueEdited, Moved, Verdicts, MergedKnown
  <2> QED BY <1>1, <2>1, <2>2, WorldKeeps, WorldTyped DEF Inv, Rest
<1> QED BY <1>4, <1>5, <1>6, <1>7, <1>8, <1>9

\* What is known of nothing that was read.
LEMMA UnseenTyped ==
    /\ Unseen \in PullRequest /\ Unseen.state = "open" /\ Unseen.codex = "none"
    /\ NoWork \in KnownHead \X KnownHead
<1> DEFINE no == FALSE
           yes == TRUE
           asked == [c \in Commit |-> 0]
<1>1. /\ no \in BOOLEAN /\ yes \in BOOLEAN /\ asked \in [Commit -> Nat]
      /\ 1 \in Commit /\ NoCommit \in KnownHead
  BY PolicyAssumption DEF Commit, KnownHead
<1>2. Unseen = [state |-> "open", draft |-> yes, head |-> 1, checks |-> "pending", conflict |-> no,
                codex |-> "none", elapsed |-> no, thread |-> NoCommit, person |-> no,
                asked |-> asked, auto |-> NoCommit]
  BY DEF Unseen, DraftPullRequest
<1> HIDE DEF no, yes, asked
<1> QED BY <1>1, <1>2 DEF PullRequest, NoWork

\* A cycle that ends, by a crash or a save, leaves what the next may rely on:
\* the record decides, GitHub does not move, history may grow.
LEMMA CycleEnds ==
    ASSUME Inv, pc' = "idle", Forget, UNCHANGED <<gh, local, prs, answered, green, clean, merged>>,
           rec' \in Record, rec'.repairs <= MaxRepair, rec'.tried = rec.tried,
           rec'.state = "done" => merged,
           rec'.ci # NoCommit => rec'.ci \in tested',
           tested' \subseteq Commit, issue' \in {"open", "edited", "closed"},
           faults' \in 0..MaxFaults, helps' \in 0..MaxHelp
    PROVE  Inv'
<1>1. /\ view' \in PullRequest /\ view'.state = "open" /\ view'.codex = "none"
      /\ work' = NoWork /\ work' \in KnownHead \X KnownHead
  BY UnseenTyped DEF Forget
<1>2. TypeOK'
  BY <1>1 DEF Inv, Rest, TypeOK, Pcs
<1>3. BudgetLeft' /\ NotDone' /\ TurnOpen' /\ WorkKnown' /\ RequestKnown' /\ Vetted'
  BY <1>1 DEF BudgetLeft, NotDone, TurnOpen, WorkKnown, RequestKnown, Vetted
<1>4. MergedKnown' /\ Verdicts' /\ TurnsRemembered' /\ LocalCiTruth' /\ OneRequestPerHead'
  BY <1>1 DEF Inv, Rest, MergedKnown, Verdicts, TurnsRemembered, LocalCiTruth, OneRequestPerHead
<1> QED BY <1>2, <1>3, <1>4 DEF Inv, Rest

LEMMA CrashKeeps == Inv /\ Crash => Inv'
<1> SUFFICES ASSUME Inv, Crash PROVE Inv'
  OBVIOUS
<1>1. /\ rec \in Record /\ rec.repairs <= MaxRepair /\ tested \subseteq Commit
      /\ issue \in {"open", "edited", "closed"} /\ helps \in 0..MaxHelp
      /\ faults + 1 \in 0..MaxFaults
  BY TrackedAssumption DEF Inv, Rest, TypeOK, Crash
<1> QED BY <1>1, CycleEnds DEF Crash, disk, world, history, Inv, Rest, MergedKnown, LocalCiTruth

-----------------------------------------------------------------------------
(* The steps of a cycle. *)

\* What was read of the pull request, its second half as of now.
LEMMA SnapshotTyped ==
    ASSUME TypeOK
    PROVE  /\ Snapshot \in PullRequest
           /\ Snapshot.head = view.head /\ Snapshot.state = view.state
           /\ Snapshot.asked = view.asked /\ Snapshot.codex = view.codex
           /\ Snapshot.checks = gh.checks /\ Snapshot.thread = gh.thread
BY DEF TypeOK, Snapshot, PullRequest

\* A record after one field or two were set.
LEMMA RecordTyped ==
    ASSUME NEW r \in Record
    PROVE  /\ \A h \in KnownHead : [r EXCEPT !.last = h] \in Record
           /\ \A x \in TrackedState, why \in Reason :
                 [r EXCEPT !.state = x, !.reason = why] \in Record
           /\ \A x \in TrackedState, why \in Reason, h \in KnownHead :
                 [r EXCEPT !.state = x, !.reason = why, !.last = h] \in Record
<1>1. \A h \in KnownHead : [r EXCEPT !.last = h] \in Record
  BY DEF Record
<1>2. \A x \in TrackedState, why \in Reason : [r EXCEPT !.state = x, !.reason = why] \in Record
  BY DEF Record
<1>3. \A x \in TrackedState, why \in Reason, h \in KnownHead :
         [r EXCEPT !.state = x, !.reason = why, !.last = h] \in Record
  BY DEF Record
<1> QED BY <1>1, <1>2, <1>3

\* The record that a prepared run works with.
LEMMA RunEvaluated ==
    ASSUME NEW r \in Record, NEW s \in PullRequest
    PROVE  /\ Evaluated(r, s) \in Record
           /\ Evaluated(r, s).tried = r.tried
           /\ Evaluated(r, s).ci = r.ci
           /\ Evaluated(r, s).repairs = r.repairs
           /\ Evaluated(r, s).req = syncCodexConnectorReviewRequestObservation(r, s)
           /\ Evaluated(r, s).state = "done" => s.state = "merged"
<1> DEFINE req == syncCodexConnectorReviewRequestObservation(r, s)
           asked == [r EXCEPT !.req = req, !.stopped = NoCommit]
           seen == [asked EXCEPT !.last = s.head]
<1>1. NoCommit \in KnownHead /\ req \in KnownHead /\ s.head \in KnownHead
  BY RequestObserved DEF PullRequest, KnownHead
<1>2. Evaluated(r, s) = WithState(asked, s, seen)
  BY DEF Evaluated
<1> HIDE DEF req
<1>3. /\ asked \in Record /\ asked.tried = r.tried /\ asked.ci = r.ci /\ asked.repairs = r.repairs
      /\ asked.req = req
  BY <1>1 DEF Record
<1> HIDE DEF asked
<1>4. seen \in Record
  BY <1>1, <1>3, RecordTyped
<1> HIDE DEF seen
<1>5. /\ WithState(asked, s, seen) \in Record
      /\ Keeps(asked, WithState(asked, s, seen))
      /\ WithState(asked, s, seen).repairs = asked.repairs
      /\ WithState(asked, s, seen).ci = asked.ci
      /\ WithState(asked, s, seen).req = asked.req
      /\ WithState(asked, s, seen).state = inferStateFromPullRequest(seen, s)
  BY <1>3, <1>4, StateApplied, Zenon
<1>6. inferStateFromPullRequest(seen, s) = "done" => s.state = "merged"
  BY DoneInferred
<1>7. req = syncCodexConnectorReviewRequestObservation(r, s)
  BY DEF req
<1> QED BY <1>2, <1>3, <1>5, <1>6, <1>7 DEF Keeps

\* The finding a review turn is about has had no turn at the head that was read.
LEMMA ReviewIsActionable ==
    ASSUME NEW r \in Record, NEW s \in PullRequest,
           inferStateFromPullRequest(r, s) = "addressing_review"
    PROVE  s.thread # NoCommit /\ <<s.head, s.thread>> \notin r.tried
<1>1. OpenState(r, s) # "addressing_review"
  BY DEF OpenState
<1>2. HasBlocker(s) /\ BlockerState(r, s) = "addressing_review"
  BY <1>1 DEF inferStateFromPullRequest
<1>3. Actionable(r, s)
  BY <1>2 DEF HasBlocker, BlockerState, Actionable, Exhausted, MustFix, Settled, PullRequest
<1> QED BY <1>3 DEF Actionable, Exhausted, MustFix

\* Every look finds the pull request as it is.
LEMMA LookKeeps ==
    ASSUME Inv,
           NEW from, NEW to, Look(from, to),
           to \in {"reconcile", "applied", "guarded"}
    PROVE  Inv'
<1> USE DEF Look, disk, world, bounds, history
<1>5. /\ view' \in PullRequest /\ view'.head = gh.head /\ view'.state = gh.state
      /\ view'.asked = gh.asked /\ view'.codex = gh.codex
  BY ViewedTyped DEF Inv, Rest, TypeOK
<1>1. TypeOK'
  BY <1>5 DEF Inv, Rest, TypeOK, Pcs
<1>2. BudgetLeft' /\ NotDone' /\ TurnOpen' /\ WorkKnown' /\ RequestKnown'
  BY <1>5 DEF Inv, Rest, BudgetLeft, NotDone, TurnOpen, WorkKnown, RequestKnown
<1>3. Vetted'
  BY <1>5, PolicyAssumption DEF Inv, Rest, TypeOK, PullRequest, Commit, Vetted
<1>4. MergedKnown' /\ Verdicts' /\ TurnsRemembered' /\ LocalCiTruth' /\ OneRequestPerHead'
  BY <1>5 DEF Inv, Rest, MergedKnown, Verdicts, TurnsRemembered, LocalCiTruth, OneRequestPerHead
<1> QED BY <1>1, <1>2, <1>3, <1>4 DEF Inv, Rest

\* The recoveries.
LEMMA ReconcileKeeps == Inv /\ (Reconcile \/ CloseDone) => Inv'
<1> SUFFICES ASSUME Inv, Reconcile \/ CloseDone PROVE Inv'
  OBVIOUS
<1> USE DEF world, bounds, history
<1>1. /\ TypeOK /\ rec \in Record /\ view \in PullRequest /\ view.head \in KnownHead
      /\ rec.repairs <= MaxRepair /\ rec.repairs \in Nat
      /\ MergedKnown /\ LocalCiTruth
  BY DEF Inv, Rest, TypeOK, PullRequest, KnownHead, Record
<1>2. CASE EndCycle(Done(rec, view.head)) /\ merged /\ UNCHANGED <<gh, local, prs, bounds, history, issue>>
  <2>1. /\ Done(rec, view.head) \in Record /\ Done(rec, view.head).repairs = rec.repairs
        /\ Done(rec, view.head).tried = rec.tried /\ Done(rec, view.head).ci = rec.ci
    BY <1>1 DEF Done, Record, TrackedState, Reason
  <2> QED BY <1>1, <1>2, <2>1, CycleEnds DEF EndCycle, Save, TypeOK, LocalCiTruth
<1>3. CASE /\ view.state = "merged" /\ issue' = "closed" /\ pc' = "closing"
           /\ UNCHANGED <<rec, view, work, gh, local, prs, bounds, history>>
  <2>1. TypeOK'
    BY <1>1, <1>3 DEF TypeOK, Pcs
  <2> QED BY <1>1, <1>3, <2>1
          DEF Inv, Rest, BudgetLeft, NotDone, MergedKnown, Verdicts, Vetted, RequestKnown,
              TurnsRemembered, TurnOpen, WorkKnown, LocalCiTruth, OneRequestPerHead
<1>4. ASSUME NEW r \in Record, Keeps(rec, r), r.state = "done" => merged,
             Save(r, "select"), Forget, UNCHANGED <<issue, gh, local, prs, bounds, history>>
      PROVE  Inv'
  <2>1. /\ view' \in PullRequest /\ view'.state = "open" /\ view'.codex = "none"
        /\ work' = NoWork /\ work' \in KnownHead \X KnownHead
    BY <1>4, UnseenTyped DEF Forget
  <2>2. rec' = r /\ r.repairs <= MaxRepair
    BY <1>1, <1>4, TrackedAssumption DEF Save, Keeps
  <2>3. TypeOK'
    BY <1>1, <1>4, <2>1, <2>2 DEF TypeOK, Pcs, Save
  <2>4. BudgetLeft' /\ NotDone' /\ TurnOpen' /\ WorkKnown' /\ RequestKnown' /\ Vetted'
    BY <1>4, <2>1 DEF Save, BudgetLeft, NotDone, TurnOpen, WorkKnown, RequestKnown, Vetted
  <2>5. TurnsRemembered' /\ LocalCiTruth'
    BY <1>4, <2>2 DEF Inv, Rest, Save, Keeps, TurnsRemembered, LocalCiTruth
  <2>6. MergedKnown' /\ Verdicts' /\ OneRequestPerHead'
    BY <1>4, <2>1, <2>2 DEF Inv, Rest, Save, MergedKnown, Verdicts, OneRequestPerHead
  <2> QED BY <2>3, <2>4, <2>5, <2>6 DEF Inv, Rest
<1>5. Keeps(rec, rec) /\ (rec.state = "done" => merged)
  BY <1>1 DEF Keeps, MergedKnown
<1>6. \A r \in RecoveredRecords(rec, Snapshot) :
         r \in Record /\ Keeps(rec, r) /\ (r.state = "done" => merged)
  BY <1>1, SnapshotTyped, RecordsRecovered DEF MergedKnown
<1>7. CASE CloseDone
  BY <1>1, <1>2, <1>7 DEF CloseDone, MergedKnown
<1>8. CASE Reconcile
  BY <1>1, <1>2, <1>3, <1>4, <1>5, <1>6, <1>8 DEF Reconcile, MergedKnown
<1> QED BY <1>7, <1>8

\* The selection of the record.
LEMMA SelectKeeps == Inv /\ Select => Inv'
<1> SUFFICES ASSUME Inv, Select PROVE Inv'
  OBVIOUS
<1> USE DEF world, bounds, history
<1>1. /\ TypeOK /\ rec \in Record /\ local \in KnownHead
      /\ rec.repairs <= MaxRepair /\ rec.repairs \in Nat
      /\ rec.state = "done" => merged
  BY DEF Inv, Rest, TypeOK, KnownHead, Record, MergedKnown
<1>2. /\ Failed(rec) \in Record /\ Failed(rec).repairs = rec.repairs
      /\ Failed(rec).tried = rec.tried /\ Failed(rec).ci = rec.ci /\ Failed(rec).state # "done"
  BY <1>1 DEF Failed, Record, TrackedState, Reason
<1>3. CASE (EndCycle(rec) \/ EndCycle(Failed(rec))) /\ UNCHANGED <<world, bounds, history>>
  <2>1. CASE EndCycle(rec)
    BY <1>1, <2>1, CycleEnds DEF Select, EndCycle, Save, Inv, Rest, TypeOK, LocalCiTruth
  <2>2. CASE EndCycle(Failed(rec))
    BY <1>1, <1>2, <2>2, CycleEnds DEF Select, EndCycle, Save, Inv, Rest, TypeOK, LocalCiTruth
  <2> QED BY <1>3, <2>1, <2>2
<1>4. CASE /\ isEligibleForSelection(rec)
              \/ shouldSelectCodexConnectorReviewRequestRecovery(rec, gh)
           /\ hasAttemptBudgetRemaining(rec)
           /\ Save([rec EXCEPT !.last = local], "hydrate") /\ view' = Viewed(gh)
           /\ UNCHANGED <<work, world, bounds, history>>
  <2>1. /\ rec' \in Record /\ rec'.repairs = rec.repairs /\ rec'.tried = rec.tried
        /\ rec'.ci = rec.ci /\ rec'.state = rec.state
    BY <1>1, <1>4 DEF Save, Record
  <2>5. /\ view' \in PullRequest /\ view'.head = gh.head /\ view'.state = gh.state
        /\ view'.asked = gh.asked /\ view'.codex = gh.codex
    BY <1>1, <1>4, ViewedTyped DEF TypeOK
  <2>2. TypeOK'
    BY <1>1, <1>4, <2>1, <2>5 DEF TypeOK, Pcs, Save
  <2>3. BudgetLeft' /\ NotDone' /\ TurnOpen' /\ WorkKnown' /\ RequestKnown' /\ Vetted'
    BY <1>4, <2>1, <2>5 DEF Inv, Rest, Save, BudgetLeft, NotDone, TurnOpen, WorkKnown, RequestKnown, Vetted,
       hasAttemptBudgetRemaining
  <2>4. MergedKnown' /\ Verdicts' /\ TurnsRemembered' /\ LocalCiTruth' /\ OneRequestPerHead'
    BY <1>4, <2>1, <2>5 DEF Inv, Rest, Save, MergedKnown, Verdicts, TurnsRemembered, LocalCiTruth, OneRequestPerHead
  <2> QED BY <2>2, <2>3, <2>4 DEF Inv, Rest
<1> QED BY <1>3, <1>4 DEF Select

\* The rest of the invariant, where a step of the cycle moves only the record,
\* the place and the finding.
LEMMA CycleMoves ==
    ASSUME Inv, UNCHANGED <<gh, local, prs, issue, helps, faults, history>>,
           view' = view, work' \in {work, NoWork}, rec' \in Record,
           rec'.repairs <= MaxRepair, rec'.tried = rec.tried, rec'.ci = rec.ci,
           rec'.state = "done" => merged,
           pc' \in {"post", "askEarly", "askLate", "askedEarly", "askedLate", "localCi", "guard"},
           pc' \in {"post", "localCi"} => rec'.state # "done",
           pc' \in {"askEarly", "askLate"} => gh.asked[view.head] = 0
    PROVE  Inv'
<1> USE DEF history
<1>1. /\ view' \in PullRequest /\ view'.head = view.head /\ view'.state = view.state
      /\ view'.codex = view.codex
  BY DEF Inv, Rest, TypeOK
<1>2. TypeOK'
  BY <1>1, UnseenTyped DEF Inv, Rest, TypeOK, Pcs
<1>3. BudgetLeft' /\ NotDone' /\ TurnOpen' /\ WorkKnown' /\ RequestKnown' /\ Vetted'
  BY <1>1 DEF Inv, Rest, BudgetLeft, NotDone, TurnOpen, WorkKnown, RequestKnown, Vetted
<1>4. MergedKnown' /\ Verdicts' /\ TurnsRemembered' /\ LocalCiTruth' /\ OneRequestPerHead'
  BY <1>1 DEF Inv, Rest, MergedKnown, Verdicts, TurnsRemembered, LocalCiTruth, OneRequestPerHead
<1> QED BY <1>2, <1>3, <1>4 DEF Inv, Rest

\* A blocked or failed record keeps its history.
LEMMA StoppedTyped ==
    ASSUME NEW r \in Record, NEW why \in Reason, NEW sole \in KnownHead
    PROVE  /\ Blocked(r, why) \in Record /\ Failed(r) \in Record
           /\ [Blocked(r, why) EXCEPT !.stopped = sole] \in Record
           /\ [Failed(r) EXCEPT !.stopped = sole] \in Record
           /\ Keeps(r, Blocked(r, why)) /\ Keeps(r, Failed(r))
           /\ Keeps(r, [Blocked(r, why) EXCEPT !.stopped = sole])
           /\ Keeps(r, [Failed(r) EXCEPT !.stopped = sole])
           /\ Blocked(r, why).state = "blocked" /\ Failed(r).state = "failed"
           /\ [Blocked(r, why) EXCEPT !.stopped = sole].state = "blocked"
           /\ [Failed(r) EXCEPT !.stopped = sole].state = "failed"
           /\ Blocked(r, why).repairs = r.repairs /\ Failed(r).repairs = r.repairs
           /\ Blocked(r, why).ci = r.ci /\ Failed(r).ci = r.ci
<1>1. /\ Blocked(r, why) \in Record /\ Keeps(r, Blocked(r, why))
      /\ Blocked(r, why).state = "blocked" /\ Blocked(r, why).repairs = r.repairs
      /\ Blocked(r, why).ci = r.ci
  BY DEF Blocked, Record, TrackedState, Keeps
<1>2. /\ Failed(r) \in Record /\ Keeps(r, Failed(r))
      /\ Failed(r).state = "failed" /\ Failed(r).repairs = r.repairs /\ Failed(r).ci = r.ci
  BY DEF Failed, Record, TrackedState, Reason, Keeps
<1>3. \A q \in Record : /\ [q EXCEPT !.stopped = sole] \in Record
                        /\ Keeps(q, [q EXCEPT !.stopped = sole])
                        /\ [q EXCEPT !.stopped = sole].state = q.state
  BY DEF Record, Keeps
<1>4. \A p, q : Keeps(r, p) /\ Keeps(p, q) => Keeps(r, q)
  BY DEF Keeps
<1> QED BY <1>1, <1>2, <1>3, <1>4

\* The cycle ends with a record that keeps the history, and nothing else moves.
LEMMA CycleSaves ==
    ASSUME Inv, NEW r \in Record, EndCycle(r), Keeps(rec, r), r.state = "done" => merged,
           UNCHANGED <<world, history>>, helps' = helps, faults' \in 0..MaxFaults
    PROVE  Inv'
<1>1. /\ rec.repairs \in Nat /\ rec.repairs <= MaxRepair /\ tested \subseteq Commit
      /\ issue \in {"open", "edited", "closed"} /\ helps \in 0..MaxHelp
      /\ rec.ci # NoCommit => rec.ci \in tested
  BY DEF Inv, Rest, TypeOK, Record, LocalCiTruth
<1>2. rec' = r /\ r.repairs <= MaxRepair /\ r.tried = rec.tried /\ r.ci \in {rec.ci, NoCommit}
  BY <1>1, TrackedAssumption DEF EndCycle, Save, Keeps
<1> QED BY <1>1, <1>2, CycleEnds DEF EndCycle, Save, world, history

\* The look of a prepared run and what it leads to.
LEMMA HydrateKeeps == Inv /\ Hydrate => Inv'
<1> SUFFICES ASSUME Inv, Hydrate PROVE Inv'
  OBVIOUS
<1> DEFINE s == Snapshot
           r == Evaluated(rec, s)
           sole == SoleThread(s)
           why == blockedReasonFromReviewState(s)
<1>1. /\ TypeOK /\ rec \in Record /\ rec.repairs \in Nat /\ rec.repairs < MaxRepair
      /\ view \in PullRequest /\ view.head \in KnownHead /\ view.head \in Commit
      /\ rec.repairs <= MaxRepair /\ MergedKnown /\ pc = "hydrate" /\ view.asked = gh.asked /\ faults \in 0..MaxFaults
  BY DEF Inv, Rest, Hydrate, TypeOK, Record, PullRequest, KnownHead, BudgetLeft, RequestKnown
<1>2. /\ s \in PullRequest /\ s.head = view.head /\ s.state = view.state /\ s.asked = view.asked
      /\ s.thread \in KnownHead
  BY <1>1, SnapshotTyped DEF PullRequest
<1>3. /\ r \in Record /\ r.tried = rec.tried /\ r.ci = rec.ci /\ r.repairs = rec.repairs
      /\ r.req = syncCodexConnectorReviewRequestObservation(rec, s)
      /\ r.state = "done" => s.state = "merged"
  BY <1>1, <1>2, RunEvaluated
<1>4. why \in Reason /\ sole \in KnownHead
  BY <1>2, ReasonInferred DEF Reason, SoleThread, KnownHead
<1>5. UNCHANGED <<world, bounds, history>>
  BY DEF Hydrate
<1>6. \/ /\ view.state = "merged"
         /\ EndCycle([rec EXCEPT !.state = "done", !.last = view.head])
      \/ EndCycle(Blocked(rec, "manual_pr_closed"))
      \/ /\ RequestIsDue(r, s) /\ pc' = "askEarly" /\ UNCHANGED view
         /\ UNCHANGED <<rec, work>>
      \/ EndCycle(rec)
      \/ EndCycle([Blocked(r, why) EXCEPT !.stopped = sole])
      \/ EndCycle([Failed(r) EXCEPT !.stopped = sole])
      \/ /\ isOpenPullRequest(view)
         /\ Save([r EXCEPT !.state = inferStateFromPullRequest(r, s), !.reason = "none",
                           !.repairs = @ + 1], "turn")
         /\ work' = IF inferStateFromPullRequest(r, s) = "addressing_review"
                    THEN <<s.head, s.thread>> ELSE NoWork
         /\ UNCHANGED view
      \/ /\ isOpenPullRequest(view) /\ Save(r, "post")
         /\ UNCHANGED <<view, work>>
  BY DEF Hydrate
<1> HIDE DEF sole, why, r, s
<1>7. CASE view.state = "merged" /\ EndCycle([rec EXCEPT !.state = "done", !.last = view.head])
  <2>1. [rec EXCEPT !.state = "done", !.last = view.head] \in Record
    BY <1>1 DEF Record, TrackedState
  <2>2. Keeps(rec, [rec EXCEPT !.state = "done", !.last = view.head])
    BY <1>1 DEF Record, Keeps
  <2> QED BY <1>1, <1>5, <1>7, <2>1, <2>2, CycleSaves DEF MergedKnown, bounds
<1>8. CASE EndCycle(Blocked(rec, "manual_pr_closed"))
  <2>1. "manual_pr_closed" \in Reason
    BY DEF Reason
  <2>2. /\ Blocked(rec, "manual_pr_closed") \in Record
        /\ Keeps(rec, Blocked(rec, "manual_pr_closed"))
        /\ Blocked(rec, "manual_pr_closed").state = "blocked"
    BY <1>1, <1>4, <2>1, StoppedTyped
  <2> QED BY <1>1, <1>5, <1>8, <2>2, CycleSaves DEF bounds
<1>9. CASE RequestIsDue(r, s) /\ pc' = "askEarly" /\ UNCHANGED <<rec, view, work>>
  <2>1. gh.asked[view.head] = 0
    BY <1>1, <1>2, <1>3, <1>9, DueIsUnasked
  <2>3. rec.state = "done" => merged
    BY <1>1 DEF MergedKnown
  <2>4. UNCHANGED <<gh, local, prs, issue, helps, faults, history>>
    BY <1>5 DEF world, bounds
  <2> QED BY <1>1, <1>9, <2>1, <2>3, <2>4, CycleMoves
<1>10. CASE EndCycle(rec)
  BY <1>1, <1>5, <1>10, CycleSaves DEF bounds, Keeps, MergedKnown
<1>11. ASSUME NEW q \in {[Blocked(r, why) EXCEPT !.stopped = sole], [Failed(r) EXCEPT !.stopped = sole]},
              EndCycle(q)
       PROVE  Inv'
  <2>1. q \in Record /\ Keeps(r, q) /\ q.state # "done"
    <3>1. CASE q = [Blocked(r, why) EXCEPT !.stopped = sole]
      BY <1>3, <1>4, <3>1, StoppedTyped
    <3>2. CASE q = [Failed(r) EXCEPT !.stopped = sole]
      BY <1>3, <1>4, <3>2, StoppedTyped
    <3> QED BY <1>11, <3>1, <3>2
  <2>2. Keeps(rec, q)
    BY <1>3, <2>1 DEF Keeps
  <2> QED BY <1>1, <1>5, <1>11, <2>1, <2>2, CycleSaves DEF bounds
<1>12. ASSUME isOpenPullRequest(view),
              Save([r EXCEPT !.state = inferStateFromPullRequest(r, s), !.reason = "none",
                             !.repairs = @ + 1], "turn"),
              work' = IF inferStateFromPullRequest(r, s) = "addressing_review"
                      THEN <<s.head, s.thread>> ELSE NoWork,
              UNCHANGED view
       PROVE  Inv'
  <2> DEFINE next == inferStateFromPullRequest(r, s)
  <2>1. next \in TrackedState /\ next # "done"
    BY <1>2, <1>3, <1>12, StateInferred, DoneInferred DEF isOpenPullRequest
  <2>2. /\ work' = NoWork \/ (work' \in Commit \X Commit /\ work' \notin r.tried)
        /\ work' \in KnownHead \X KnownHead
    <3>1. CASE next = "addressing_review"
      BY <1>1, <1>2, <1>3, <1>12, <3>1, ReviewIsActionable DEF KnownHead
    <3>2. CASE next # "addressing_review"
      BY <1>12, <3>2, UnseenTyped
    <3> QED BY <3>1, <3>2
  <2> DEFINE more == r.repairs + 1
             none == "none"
  <2>3. /\ rec' = [r EXCEPT !.state = next, !.reason = none, !.repairs = more] /\ pc' = "turn"
        /\ more \in Nat /\ none \in Reason /\ more = rec.repairs + 1
    BY <1>1, <1>3, <1>12 DEF Save, Reason, Record
  <2> HIDE DEF next, more, none
  <2>4. /\ rec' \in Record /\ rec'.tried = rec.tried /\ rec'.ci = rec.ci
        /\ rec'.repairs = rec.repairs + 1 /\ rec'.state = next
    BY <1>1, <1>3, <2>1, <2>3 DEF Record
  <2>5. rec'.repairs <= MaxRepair
    BY <1>1, <2>4, TrackedAssumption
  <2>6. NoWork \notin Commit \X Commit
    BY PolicyAssumption DEF NoWork, NoCommit, Commit
  <2>7. TypeOK'
    BY <1>1, <1>5, <1>12, <2>2, <2>3, <2>4, <2>5 DEF TypeOK, Pcs, world, bounds, history
  <2>8. NotDone' /\ MergedKnown' /\ TurnOpen' /\ WorkKnown' /\ TurnsRemembered'
    BY <1>1, <1>3, <1>5, <1>12, <2>1, <2>2, <2>3, <2>4, <2>6
       DEF Inv, Rest, NotDone, MergedKnown, TurnOpen, WorkKnown, TurnsRemembered, isOpenPullRequest,
           world, history, TypeOK
  <2>9. BudgetLeft' /\ Verdicts' /\ Vetted' /\ RequestKnown' /\ LocalCiTruth' /\ OneRequestPerHead'
    BY <1>5, <1>12, <2>3, <2>4
       DEF Inv, Rest, BudgetLeft, Verdicts, Vetted, RequestKnown, LocalCiTruth, OneRequestPerHead,
           world, history
  <2> QED BY <2>7, <2>8, <2>9 DEF Inv, Rest
<1>13. CASE isOpenPullRequest(view) /\ Save(r, "post") /\ UNCHANGED <<view, work>>
  <2>1. r.state # "done"
    BY <1>2, <1>3, <1>13 DEF isOpenPullRequest
  <2>2. UNCHANGED <<gh, local, prs, issue, helps, faults, history>>
    BY <1>5 DEF world, bounds
  <2>3. rec' = r /\ pc' = "post"
    BY <1>13 DEF Save
  <2> QED BY <1>1, <1>3, <1>13, <2>1, <2>2, <2>3, CycleMoves
<1> QED BY <1>6, <1>7, <1>8, <1>9, <1>10, <1>11, <1>12, <1>13

\* The request, its save and its failure.
LEMMA RequestKeeps == Inv /\ (PostRequest \/ SaveRequest \/ RequestFails) => Inv'
<1> SUFFICES ASSUME Inv, PostRequest \/ SaveRequest \/ RequestFails PROVE Inv'
  OBVIOUS
<1>1. /\ TypeOK /\ rec \in Record /\ rec.repairs <= MaxRepair
      /\ view \in PullRequest /\ view.head \in KnownHead /\ view.head \in Commit
      /\ gh \in PullRequest /\ gh.asked \in [Commit -> Nat]
      /\ MergedKnown /\ faults \in 0..MaxFaults
  BY DEF Inv, Rest, TypeOK, PullRequest, KnownHead
<1>2. CASE PostRequest
  <2> DEFINE asked == [gh.asked EXCEPT ![view.head] = @ + 1]
  <2>1. /\ gh' = [gh EXCEPT !.asked = asked]
        /\ pc' \in {"askedEarly", "askedLate"}
        /\ UNCHANGED <<disk, issue, local, prs, view, work, bounds, history>>
    BY <1>2 DEF PostRequest
  <2>2. gh.asked[view.head] = 0
    BY <1>2 DEF Inv, Rest, RequestKnown, PostRequest
  <2>3. asked \in [Commit -> Nat] /\ \A h \in Commit : asked[h] <= 1
    BY <1>1, <2>2 DEF Inv, Rest, OneRequestPerHead
  <2> HIDE DEF asked
  <2>4. /\ gh' \in PullRequest /\ gh'.asked = asked
        /\ gh'.head = gh.head /\ gh'.checks = gh.checks /\ gh'.codex = gh.codex
        /\ gh'.state = gh.state
    BY <1>1, <2>1, <2>3 DEF PullRequest
  <2>5. TypeOK'
    BY <1>1, <2>1, <2>4 DEF TypeOK, Pcs, disk, bounds, history
  <2> QED BY <2>1, <2>3, <2>4, <2>5
          DEF Inv, Rest, BudgetLeft, NotDone, MergedKnown, Verdicts, Vetted, RequestKnown,
              TurnsRemembered, TurnOpen, WorkKnown, LocalCiTruth, OneRequestPerHead,
              disk, bounds, history
<1>3. CASE SaveRequest
  <2> DEFINE waits == [rec EXCEPT !.state = "waiting_ci", !.reason = "none", !.req = view.head]
  <2>1. EndCycle(waits) /\ UNCHANGED <<world, bounds, history>>
    BY <1>3 DEF SaveRequest
  <2>2. waits \in Record /\ Keeps(rec, waits) /\ waits.state = "waiting_ci"
    BY <1>1 DEF Record, Keeps, TrackedState, Reason
  <2> HIDE DEF waits
  <2> QED BY <1>1, <2>1, <2>2, CycleSaves DEF bounds
<1>4. CASE RequestFails
  <2> DEFINE why == IF blockedReasonFromReviewState(Snapshot) = "none" THEN "review_bot_timeout"
                    ELSE blockedReasonFromReviewState(Snapshot)
             r == Blocked(rec, why)
  <2>1. /\ \/ Save(r, "post") /\ UNCHANGED <<view, work>>
           \/ EndCycle(r)
        /\ faults' \in 0..MaxFaults
        /\ UNCHANGED <<world, helps, history>>
    BY <1>1, <1>4, TrackedAssumption DEF RequestFails
  <2>2. why \in Reason
    BY ReasonInferred DEF Reason
  <2> HIDE DEF why
  <2>3. /\ r \in Record /\ Keeps(rec, r) /\ r.state = "blocked" /\ r.repairs = rec.repairs
        /\ r.ci = rec.ci
    BY <1>1, <2>2, StoppedTyped
  <2> HIDE DEF r
  <2>4. CASE EndCycle(r)
    BY <1>1, <2>1, <2>3, <2>4, CycleSaves
  <2>5. CASE Save(r, "post") /\ UNCHANGED <<view, work>>
    <3>1. rec' = r /\ pc' = "post"
      BY <2>5 DEF Save
    <3>2. TypeOK'
      BY <1>1, <2>1, <2>3, <2>5, <3>1 DEF TypeOK, Pcs, world, history
    <3> QED BY <2>1, <2>3, <2>5, <3>1, <3>2
            DEF Inv, Rest, BudgetLeft, NotDone, MergedKnown, Verdicts, Vetted, RequestKnown, Keeps,
                TurnsRemembered, TurnOpen, WorkKnown, LocalCiTruth, OneRequestPerHead,
                world, history
  <2> QED BY <2>1, <2>4, <2>5
<1> QED BY <1>2, <1>3, <1>4

\* The turn.
LEMMA TurnKeeps == Inv /\ Turn => Inv'
<1> SUFFICES ASSUME Inv, Turn PROVE Inv'
  OBVIOUS
<1>1. /\ TypeOK /\ gh \in PullRequest /\ gh.head \in Nat /\ gh.thread \in KnownHead
      /\ NoCommit \in KnownHead /\ pc = "turn" /\ pc' = "publish"
      /\ UNCHANGED <<disk, issue, prs, view, work, bounds, history>>
  <2>1. TypeOK /\ gh \in PullRequest /\ gh.head \in Commit /\ gh.thread \in KnownHead
    BY DEF Inv, Rest, TypeOK, PullRequest
  <2>2. gh.head \in Nat /\ NoCommit \in KnownHead
    BY <2>1, PolicyAssumption DEF KnownHead, Commit
  <2>3. pc = "turn" /\ pc' = "publish" /\ UNCHANGED <<disk, issue, prs, view, work, bounds, history>>
    BY Zenon DEF Turn
  <2> QED BY <2>1, <2>2, <2>3
<1>2. /\ gh' \in PullRequest /\ local' \in Commit /\ gh'.asked = gh.asked
      /\ gh'.state = gh.state
      /\ gh'.head = gh.head \/ (gh'.checks = "pending" /\ gh'.codex = "none")
      /\ gh'.checks = gh.checks \/ gh'.checks = "pending"
      /\ gh'.codex = gh.codex \/ gh'.codex = "none"
  <2>1. CASE UNCHANGED <<gh, local>>
    BY <1>1, <2>1 DEF TypeOK
  <2>2. ASSUME gh.head < MaxCommit,
               gh' = [Pushed(gh) EXCEPT !.conflict = FALSE], local' = gh.head + 1
        PROVE  /\ gh' \in PullRequest /\ local' \in Commit /\ gh'.asked = gh.asked
               /\ gh'.state = gh.state /\ gh'.checks = "pending" /\ gh'.codex = "none"
    <3> DEFINE no == FALSE
               p == Pushed(gh)
    <3>1. gh' = [p EXCEPT !.conflict = no] /\ no \in BOOLEAN
      BY <2>2
    <3>2. /\ p \in PullRequest /\ p.asked = gh.asked /\ p.state = gh.state
          /\ p.checks = "pending" /\ p.codex = "none"
      BY <1>1, <2>2, PushTyped
    <3> HIDE DEF no, p
    <3>3. /\ gh' \in PullRequest /\ gh'.asked = p.asked /\ gh'.state = p.state
          /\ gh'.checks = p.checks /\ gh'.codex = p.codex
      BY <3>1, <3>2 DEF PullRequest
    <3>4. local' \in Commit
      BY <1>1, <2>2, PolicyAssumption DEF Commit
    <3> QED BY <3>2, <3>3, <3>4
  <2> QED BY <2>1, <2>2 DEF Turn
<1>3. TypeOK'
  BY <1>1, <1>2 DEF TypeOK, Pcs, disk, bounds, history
<1>4. BudgetLeft' /\ NotDone' /\ TurnOpen' /\ WorkKnown' /\ RequestKnown' /\ Vetted'
  BY <1>1 DEF Inv, Rest, BudgetLeft, NotDone, TurnOpen, WorkKnown, RequestKnown, Vetted, disk
<1>5. MergedKnown' /\ Verdicts' /\ TurnsRemembered' /\ LocalCiTruth' /\ OneRequestPerHead'
  BY <1>1, <1>2 DEF Inv, Rest, MergedKnown, Verdicts, TurnsRemembered, LocalCiTruth, OneRequestPerHead,
     disk, history
<1> QED BY <1>3, <1>4, <1>5 DEF Inv, Rest

\* Its publication, a second draft included.
LEMMA PublishKeeps == Inv /\ Publish => Inv'
<1> SUFFICES ASSUME Inv, Publish PROVE Inv'
  OBVIOUS
<1>1. /\ TypeOK /\ rec \in Record /\ gh \in PullRequest /\ local \in Commit /\ local \in KnownHead
      /\ rec.state # "done" /\ MergedKnown /\ Verdicts /\ pc = "publish"
      /\ prs \in 1..MaxPrs /\ tested \subseteq Commit /\ NoCommit \notin Commit
      /\ rec.ci # NoCommit => rec.ci \in tested
  BY PolicyAssumption
     DEF Inv, Rest, TypeOK, KnownHead, NotDone, Publish, LocalCiTruth, NoCommit, Commit
<1>2. UNCHANGED <<issue, local, bounds, green, clean, answered, merged>>
  BY DEF Publish
<1>3. CASE /\ gh.state = "open" /\ view' = Viewed(gh)
           /\ Save([rec EXCEPT !.last = local], "post")
           /\ UNCHANGED <<gh, prs, work, tested>>
  <2>1. /\ rec' \in Record /\ rec'.repairs = rec.repairs /\ rec'.tried = rec.tried
        /\ rec'.ci = rec.ci /\ rec'.state = rec.state /\ pc' = "post"
        /\ view' \in PullRequest /\ view'.head = gh.head /\ view'.state = gh.state
        /\ view'.asked = gh.asked /\ view'.codex = gh.codex
    BY <1>1, <1>3, ViewedTyped DEF Save, Record
  <2>2. TypeOK'
    BY <1>1, <1>2, <1>3, <2>1 DEF TypeOK, Pcs, bounds
  <2> QED BY <1>1, <1>2, <1>3, <2>1, <2>2
          DEF Inv, Rest, BudgetLeft, NotDone, MergedKnown, Verdicts, Vetted, RequestKnown,
              TurnsRemembered, TurnOpen, WorkKnown, LocalCiTruth, OneRequestPerHead
<1>4. CASE /\ prs < MaxPrs
           /\ gh' = DraftPullRequest(local, IF local = gh.head THEN gh.checks ELSE "pending")
           /\ view' = Viewed(gh') /\ prs' = prs + 1 /\ tested' = tested \cup {local}
           /\ Save([rec EXCEPT !.last = local, !.ci = local], "post")
           /\ UNCHANGED work
  <2> DEFINE no == FALSE
             yes == TRUE
             asked == [c \in Commit |-> 0]
             checks == IF local = gh.head THEN gh.checks ELSE "pending"
  <2>1. /\ no \in BOOLEAN /\ yes \in BOOLEAN /\ asked \in [Commit -> Nat]
        /\ NoCommit \in KnownHead /\ checks \in {"pending", "green", "red"}
        /\ checks = "green" => local \in green
        /\ \A h \in Commit : asked[h] <= 1
    BY <1>1 DEF KnownHead, PullRequest, Verdicts
  <2>2. gh' = [state |-> "open", draft |-> yes, head |-> local, checks |-> checks,
               conflict |-> no, codex |-> "none", elapsed |-> no, thread |-> NoCommit,
               person |-> no, asked |-> asked, auto |-> NoCommit]
    BY <1>4 DEF DraftPullRequest
  <2> HIDE DEF no, yes, asked, checks
  <2>3. /\ gh' \in PullRequest /\ gh'.state = "open" /\ gh'.head = local
        /\ gh'.checks = checks /\ gh'.codex = "none" /\ gh'.asked = asked
    BY <1>1, <2>1, <2>2 DEF PullRequest
  <2>10. /\ view' \in PullRequest /\ view'.state = "open" /\ view'.head = local
         /\ view'.codex = "none" /\ view'.asked = asked
    BY <1>4, <2>3, ViewedTyped
  <2>4. /\ rec' \in Record /\ rec'.repairs = rec.repairs /\ rec'.tried = rec.tried
        /\ rec'.ci = local /\ rec'.state = rec.state /\ pc' = "post"
    BY <1>1, <1>4 DEF Save, Record
  <2>5. prs' \in 1..MaxPrs
    BY <1>1, <1>4, TrackedAssumption
  <2>6. TypeOK'
    BY <1>1, <1>2, <1>4, <2>3, <2>4, <2>5, <2>10 DEF TypeOK, Pcs, bounds
  <2>7. BudgetLeft' /\ NotDone' /\ TurnOpen' /\ WorkKnown' /\ RequestKnown' /\ Vetted'
    BY <1>1, <1>4, <2>4, <2>10
       DEF Inv, Rest, BudgetLeft, NotDone, TurnOpen, WorkKnown, RequestKnown, Vetted
  <2>8. MergedKnown' /\ Verdicts'
    BY <1>1, <1>2, <1>4, <2>1, <2>3, <2>4, <2>10 DEF MergedKnown, Verdicts
  <2>9. TurnsRemembered' /\ LocalCiTruth' /\ OneRequestPerHead'
    BY <1>1, <1>2, <1>4, <2>1, <2>3, <2>4
       DEF Inv, Rest, TurnsRemembered, LocalCiTruth, OneRequestPerHead
  <2> QED BY <2>6, <2>7, <2>8, <2>9 DEF Inv, Rest
<1>5. ASSUME NEW r \in Record, EndCycle(r), Keeps(rec, r), r.state # "done",
             UNCHANGED <<gh, prs, tested>>
      PROVE  Inv'
  <2>1. UNCHANGED <<world, history>> /\ helps' = helps /\ faults' \in 0..MaxFaults
    BY <1>1, <1>2, <1>5 DEF world, history, bounds, TypeOK
  <2> QED BY <1>5, <2>1, CycleSaves
<1>6. CASE /\ EndCycle([Blocked(rec, "verification") EXCEPT !.ci = NoCommit])
           /\ UNCHANGED <<gh, prs, tested>>
  <2>1. /\ [Blocked(rec, "verification") EXCEPT !.ci = NoCommit] \in Record
        /\ Keeps(rec, [Blocked(rec, "verification") EXCEPT !.ci = NoCommit])
        /\ [Blocked(rec, "verification") EXCEPT !.ci = NoCommit].state = "blocked"
    BY <1>1 DEF Blocked, Record, TrackedState, Reason, Keeps, KnownHead
  <2> QED BY <1>5, <1>6, <2>1
<1>7. CASE EndCycle([rec EXCEPT !.state = "stabilizing"]) /\ UNCHANGED <<gh, prs, tested>>
  <2>1. /\ [rec EXCEPT !.state = "stabilizing"] \in Record
        /\ Keeps(rec, [rec EXCEPT !.state = "stabilizing"])
        /\ [rec EXCEPT !.state = "stabilizing"].state = "stabilizing"
    BY <1>1 DEF Record, TrackedState, Keeps
  <2> QED BY <1>5, <1>7, <2>1
<1> QED BY <1>3, <1>4, <1>6, <1>7 DEF Publish

\* The finding is remembered and the pull request read again.
LEMMA PostTurnKeeps == Inv /\ PostTurn => Inv'
<1> SUFFICES ASSUME Inv, PostTurn PROVE Inv'
  OBVIOUS
<1> DEFINE done == work # NoWork /\ view.head = local
           pair == <<view.head, work[2]>>
           tried == IF done THEN rec.tried \cup {pair} ELSE rec.tried
<1>1. /\ TypeOK /\ rec \in Record /\ view \in PullRequest /\ view.head \in Commit
      /\ rec.tried \subseteq Commit \X Commit /\ answered \subseteq rec.tried
      /\ work # NoWork => work \in Commit \X Commit
      /\ pc = "post" /\ rec.state # "done"
  BY DEF Inv, Rest, PostTurn, TypeOK, PullRequest, Record, TurnsRemembered, WorkKnown, NotDone
<1>2. /\ rec' = [rec EXCEPT !.tried = tried] /\ pc' = "posted" /\ work' = NoWork
      /\ view' = Viewed(gh)
      /\ answered' = IF done THEN answered \cup {pair} ELSE answered
      /\ UNCHANGED <<world, bounds, tested, green, clean, merged>>
  BY DEF PostTurn, Save
<1>3. done => pair \in Commit \X Commit
  BY <1>1
<1>4. /\ tried \subseteq Commit \X Commit /\ answered' \subseteq tried
  BY <1>1, <1>2, <1>3
<1> HIDE DEF done, pair, tried
<1>5. /\ rec' \in Record /\ rec'.repairs = rec.repairs /\ rec'.tried = tried
      /\ rec'.ci = rec.ci /\ rec'.state = rec.state
  BY <1>1, <1>2, <1>4 DEF Record
<1>9. /\ view' \in PullRequest /\ view'.head = gh.head /\ view'.state = gh.state
      /\ view'.asked = gh.asked /\ view'.codex = gh.codex
  BY <1>1, <1>2, ViewedTyped DEF TypeOK
<1>6. TypeOK'
  BY <1>1, <1>2, <1>4, <1>5, <1>9, UnseenTyped DEF TypeOK, Pcs, world, bounds
<1>7. BudgetLeft' /\ NotDone' /\ TurnOpen' /\ WorkKnown' /\ RequestKnown' /\ Vetted' /\ TurnsRemembered'
  BY <1>1, <1>2, <1>4, <1>5, <1>9
     DEF BudgetLeft, NotDone, TurnOpen, WorkKnown, RequestKnown, Vetted, TurnsRemembered
<1>8. MergedKnown' /\ Verdicts' /\ LocalCiTruth' /\ OneRequestPerHead'
  BY <1>1, <1>2, <1>5, <1>9 DEF Inv, Rest, MergedKnown, Verdicts, LocalCiTruth, OneRequestPerHead, world
<1> QED BY <1>6, <1>7, <1>8 DEF Inv, Rest

\* Local CI and the promotion of the draft.
LEMMA LocalCiKeeps == Inv /\ (LocalCiPasses \/ LocalCiFails) => Inv'
<1> SUFFICES ASSUME Inv, NEW passed \in BOOLEAN, LocalCi(passed) PROVE Inv'
  BY DEF LocalCiPasses, LocalCiFails
<1> DEFINE refused == [Blocked(rec, "verification") EXCEPT !.ci = NoCommit, !.gate = view.head]
           accepted == [rec EXCEPT !.ci = view.head, !.gate = NoCommit]
<1>1. /\ TypeOK /\ rec \in Record /\ rec.repairs <= MaxRepair /\ local \in Commit
      /\ view.head \in Commit /\ view.head \in KnownHead /\ NoCommit \in KnownHead
      /\ tested \subseteq Commit /\ rec.state # "done"
      /\ issue \in {"open", "edited", "closed"} /\ faults \in 0..MaxFaults /\ helps \in 0..MaxHelp
  BY DEF Inv, Rest, TypeOK, PullRequest, KnownHead, NotDone, LocalCi
<1>2. UNCHANGED <<world, bounds, green, clean, answered, merged>>
  BY DEF LocalCi
<1>3. \/ EndCycle(refused) /\ tested' \in {tested, tested \cup {local}}
      \/ /\ local = view.head /\ pc' \in {"ready", "guard"} /\ rec' = accepted
         /\ tested' = tested \cup {local} /\ UNCHANGED <<view, work>>
  BY DEF LocalCi, LocalCiGate, Save
<1>4. /\ refused \in Record /\ refused.repairs = rec.repairs /\ refused.tried = rec.tried
      /\ refused.ci = NoCommit /\ refused.state = "blocked"
  BY <1>1 DEF Blocked, Record, TrackedState, Reason
<1>5. /\ accepted \in Record /\ accepted.repairs = rec.repairs /\ accepted.tried = rec.tried
      /\ accepted.ci = view.head /\ accepted.state = rec.state
  BY <1>1 DEF Record
<1> HIDE DEF refused, accepted
<1>6. CASE EndCycle(refused) /\ tested' \in {tested, tested \cup {local}}
  <2>1. pc' = "idle" /\ Forget /\ rec' = refused
    BY <1>6 DEF EndCycle, Save
  <2>2. UNCHANGED <<gh, local, prs, answered, green, clean, merged, issue, faults, helps>>
    BY <1>2 DEF world, bounds
  <2>3. tested' \subseteq Commit
    BY <1>1, <1>6
  <2> QED BY <1>1, <1>4, <2>1, <2>2, <2>3, CycleEnds
<1>7. CASE /\ local = view.head /\ pc' \in {"ready", "guard"} /\ rec' = accepted
           /\ tested' = tested \cup {local} /\ UNCHANGED <<view, work>>
  <2>1. TypeOK'
    BY <1>1, <1>2, <1>5, <1>7 DEF TypeOK, Pcs, world, bounds
  <2> QED BY <1>1, <1>2, <1>5, <1>7, <2>1
          DEF Inv, Rest, BudgetLeft, NotDone, MergedKnown, Verdicts, Vetted, RequestKnown,
              TurnsRemembered, TurnOpen, WorkKnown, LocalCiTruth, OneRequestPerHead, world
<1> QED BY <1>3, <1>6, <1>7

LEMMA PromotionKeeps == Inv /\ (NoPromotion \/ MarkReady) => Inv'
<1> SUFFICES ASSUME Inv, NoPromotion \/ MarkReady PROVE Inv'
  OBVIOUS
<1> DEFINE no == FALSE
<1>1. /\ pc' \in {"apply", "idle"} /\ Forget
      /\ UNCHANGED <<disk, issue, local, prs, bounds, history>>
      /\ gh' \in {gh, [gh EXCEPT !.draft = no]}
  BY DEF NoPromotion, MarkReady, world
<1>2. no \in BOOLEAN /\ gh \in PullRequest
  BY DEF Inv, Rest, TypeOK
<1> HIDE DEF no
<1>3. /\ gh' \in PullRequest /\ gh'.asked = gh.asked /\ gh'.head = gh.head
      /\ gh'.checks = gh.checks /\ gh'.codex = gh.codex /\ gh'.state = gh.state
  BY <1>1, <1>2 DEF PullRequest
<1>4. /\ view' \in PullRequest /\ view'.state = "open" /\ view'.codex = "none"
      /\ work' = NoWork /\ work' \in KnownHead \X KnownHead
  BY <1>1, UnseenTyped DEF Forget
<1>5. TypeOK'
  BY <1>1, <1>3, <1>4 DEF Inv, Rest, TypeOK, Pcs, disk, bounds, history
<1> QED BY <1>1, <1>3, <1>4, <1>5
        DEF Inv, Rest, BudgetLeft, NotDone, MergedKnown, Verdicts, Vetted, RequestKnown,
            TurnsRemembered, TurnOpen, WorkKnown, LocalCiTruth, OneRequestPerHead, disk, history

\* The lifecycle of the record after a turn.
LEMMA ApplyKeeps == Inv /\ ApplyLifecycle => Inv'
<1> SUFFICES ASSUME Inv, ApplyLifecycle PROVE Inv'
  OBVIOUS
<1> DEFINE s == Snapshot
           req == syncCodexConnectorReviewRequestObservation(rec, s)
           seen == [rec EXCEPT !.last = s.head]
           asked == [rec EXCEPT !.req = req, !.last = s.head]
           r == WithState(asked, s, seen)
<1>1. /\ TypeOK /\ rec \in Record /\ rec.repairs <= MaxRepair /\ MergedKnown
      /\ view.asked = gh.asked /\ faults \in 0..MaxFaults
  BY DEF Inv, Rest, TypeOK, ApplyLifecycle, RequestKnown
<1>2. /\ s \in PullRequest /\ s.head = view.head /\ s.state = view.state /\ s.asked = view.asked
      /\ s.head \in KnownHead
  BY <1>1, SnapshotTyped DEF PullRequest, KnownHead
<1>3. req \in KnownHead
  BY <1>2, RequestObserved
<1>4. /\ \/ RequestIsDue(r, s) /\ Save(r, "askLate") /\ UNCHANGED <<view, work>>
         \/ /\ r.state = "ready_to_merge" /\ Save(r, IF r.ci = s.head THEN "guard" ELSE "localCi")
            /\ UNCHANGED <<view, work>>
         \/ EndCycle(r)
      /\ UNCHANGED <<world, bounds, history>>
  BY DEF ApplyLifecycle
<1>5. req = syncCodexConnectorReviewRequestObservation(rec, s)
  OBVIOUS
<1> HIDE DEF req, s
<1>6. /\ seen \in Record /\ asked \in Record /\ asked.repairs = rec.repairs
      /\ asked.tried = rec.tried /\ asked.ci = rec.ci /\ asked.req = req
  BY <1>1, <1>2, <1>3 DEF Record
<1> HIDE DEF seen, asked
<1>7. /\ r \in Record /\ Keeps(asked, r) /\ r.repairs = asked.repairs /\ r.ci = asked.ci
      /\ r.req = asked.req /\ r.state = inferStateFromPullRequest(seen, s)
  BY <1>2, <1>6, StateApplied, Zenon
<1> HIDE DEF r
<1>8. r.state = "done" => merged
  BY <1>1, <1>2, <1>7, DoneInferred DEF MergedKnown
<1>9. /\ Keeps(rec, r) /\ r.tried = rec.tried /\ r.ci = rec.ci /\ r.repairs <= MaxRepair
  BY <1>1, <1>6, <1>7 DEF Keeps
<1>10. UNCHANGED <<gh, local, prs, issue, helps, faults, history>>
  BY <1>4 DEF world, bounds
<1>11. CASE RequestIsDue(r, s) /\ Save(r, "askLate") /\ UNCHANGED <<view, work>>
  <2>1. gh.asked[view.head] = 0
    BY <1>1, <1>2, <1>5, <1>6, <1>7, <1>11, DueIsUnasked
  <2>2. rec' = r /\ pc' = "askLate" /\ view' = view /\ work' = work
    BY <1>11 DEF Save
  <2> QED BY <1>7, <1>8, <1>9, <1>10, <2>1, <2>2, CycleMoves
<1>12. CASE /\ r.state = "ready_to_merge" /\ Save(r, IF r.ci = s.head THEN "guard" ELSE "localCi")
            /\ UNCHANGED <<view, work>>
  <2>1. rec' = r /\ pc' \in {"guard", "localCi"} /\ r.state # "done" /\ view' = view /\ work' = work
    BY <1>12 DEF Save
  <2> QED BY <1>7, <1>9, <1>10, <2>1, CycleMoves
<1>13. CASE EndCycle(r)
  <2>1. UNCHANGED <<world, history>> /\ helps' = helps /\ faults' \in 0..MaxFaults
    BY <1>1, <1>4, <1>10
  <2> QED BY <1>7, <1>8, <1>9, <1>13, <2>1, CycleSaves
<1> QED BY <1>4, <1>11, <1>12, <1>13

\* The guard of the merge.
LEMMA GuardKeeps == Inv /\ Guard => Inv'
<1> SUFFICES ASSUME Inv, Guard PROVE Inv'
  OBVIOUS
<1> DEFINE s == Snapshot
           seen == [rec EXCEPT !.last = s.head]
<1>1. /\ TypeOK /\ rec \in Record /\ MergedKnown /\ Verdicts /\ faults \in 0..MaxFaults
      /\ rec.ci # NoCommit => rec.ci \in tested
      /\ view.head \in Commit /\ NoCommit \notin Commit /\ view.head <= gh.head
      /\ gh \in PullRequest
  <2>1. pc = "guarded"
    BY Zenon DEF Guard
  <2>2. TypeOK /\ LocalCiTruth /\ Vetted /\ MergedKnown /\ Verdicts
    BY DEF Inv, Rest
  <2>3. /\ rec \in Record /\ gh \in PullRequest /\ view.head \in Commit /\ faults \in 0..MaxFaults
    BY <2>2 DEF TypeOK, PullRequest
  <2>4. (rec.ci # NoCommit => rec.ci \in tested) /\ view.head <= gh.head
    BY <2>1, <2>2 DEF LocalCiTruth, Vetted
  <2>5. NoCommit \notin Commit
    BY PolicyAssumption DEF Commit, NoCommit
  <2> QED BY <2>2, <2>3, <2>4, <2>5
<1>2. /\ s \in PullRequest /\ s.head = view.head /\ s.state = view.state
      /\ s.codex = view.codex /\ s.checks = gh.checks /\ s.head \in KnownHead
  BY <1>1, SnapshotTyped DEF PullRequest, KnownHead
<1>3. UNCHANGED <<world, bounds, history>>
  BY DEF Guard
<1>4. \/ EndCycle(WithState(seen, s, seen))
      \/ EndCycle([seen EXCEPT !.state = "stabilizing", !.reason = "none"])
      \/ EndCycle(Blocked(seen, "verification"))
      \/ /\ finalAutoMergeGuard(rec, rec.last, s)
         /\ pc' = "armed" /\ UNCHANGED <<rec, view, work>>
  BY DEF Guard
<1> HIDE DEF s
<1>5. seen \in Record /\ Keeps(rec, seen)
  BY <1>1, <1>2 DEF Record, Keeps
<1> HIDE DEF seen
<1>6. ASSUME NEW r \in Record, Keeps(seen, r), r.state = "done" => merged, EndCycle(r)
      PROVE  Inv'
  <2>1. Keeps(rec, r)
    BY <1>5, <1>6 DEF Keeps
  <2>2. UNCHANGED <<world, history>> /\ helps' = helps /\ faults' \in 0..MaxFaults
    BY <1>1, <1>3 DEF bounds
  <2> QED BY <1>6, <2>1, <2>2, CycleSaves
<1>7. CASE EndCycle(WithState(seen, s, seen))
  <2>1. /\ WithState(seen, s, seen) \in Record
        /\ Keeps(seen, WithState(seen, s, seen))
        /\ WithState(seen, s, seen).state = inferStateFromPullRequest(seen, s)
    BY <1>2, <1>5, StateApplied, Zenon
  <2>2. WithState(seen, s, seen).state = "done" => merged
    BY <1>1, <1>2, <2>1, DoneInferred DEF MergedKnown
  <2> QED BY <1>6, <1>7, <2>1, <2>2
<1>8. CASE EndCycle([seen EXCEPT !.state = "stabilizing", !.reason = "none"])
  <2>1. /\ [seen EXCEPT !.state = "stabilizing", !.reason = "none"] \in Record
        /\ Keeps(seen, [seen EXCEPT !.state = "stabilizing", !.reason = "none"])
        /\ [seen EXCEPT !.state = "stabilizing", !.reason = "none"].state = "stabilizing"
    BY <1>5 DEF Record, TrackedState, Reason, Keeps
  <2> QED BY <1>6, <1>8, <2>1
<1>9. CASE EndCycle(Blocked(seen, "verification"))
  <2>1. "verification" \in Reason /\ NoCommit \in KnownHead
    BY DEF Reason, KnownHead
  <2>2. /\ Blocked(seen, "verification") \in Record
        /\ Keeps(seen, Blocked(seen, "verification"))
        /\ Blocked(seen, "verification").state = "blocked"
    BY <1>5, <2>1, StoppedTyped
  <2> QED BY <1>6, <1>9, <2>2
<1>10. CASE /\ finalAutoMergeGuard(rec, rec.last, s)
            /\ pc' = "armed" /\ UNCHANGED <<rec, view, work>>
  <2>1. gh.checks = "green" /\ view.codex = "clean" /\ rec.ci = view.head
    BY <1>2, <1>10 DEF finalAutoMergeGuard
  <2>2. gh.head \in green /\ view.head \in clean /\ view.head \in tested
    BY <1>1, <2>1 DEF Verdicts
  <2>3. view' \in PullRequest /\ view'.head = view.head /\ view'.state = view.state /\ view'.codex = view.codex
    BY <1>1, <1>10 DEF TypeOK
  <2>4. UNCHANGED <<gh, issue, local, prs, faults, helps, tested, green, clean, answered, merged>>
    BY <1>3 DEF world, bounds, history
  <2>5. TypeOK'
    BY <1>1, <1>10, <2>3, <2>4 DEF TypeOK, Pcs
  <2>6. Vetted'
    BY <1>1, <1>10, <2>2, <2>3, <2>4 DEF Vetted
  <2> QED BY <1>10, <2>3, <2>4, <2>5, <2>6
          DEF Inv, Rest, BudgetLeft, NotDone, MergedKnown, Verdicts, RequestKnown,
              TurnsRemembered, TurnOpen, WorkKnown, LocalCiTruth, OneRequestPerHead
<1> QED BY <1>4, <1>7, <1>8, <1>9, <1>10

\* The merge.
LEMMA MergeKeeps == Inv /\ (EnableAutoMerge \/ SaveMerging) => Inv'
<1> SUFFICES ASSUME Inv, EnableAutoMerge \/ SaveMerging PROVE Inv'
  OBVIOUS
<1>1. /\ TypeOK /\ rec \in Record /\ gh \in PullRequest /\ view.head \in KnownHead
      /\ view \in PullRequest /\ faults \in 0..MaxFaults
  BY DEF Inv, Rest, TypeOK, PullRequest, KnownHead
<1>2. CASE SaveMerging
  <2> DEFINE r == [rec EXCEPT !.state = "merging", !.reason = "none", !.last = view.head]
  <2>1. EndCycle(r) /\ UNCHANGED <<world, bounds, history>>
    BY <1>2 DEF SaveMerging
  <2>2. r \in Record /\ Keeps(rec, r) /\ r.state = "merging"
    BY <1>1 DEF Record, Keeps, TrackedState, Reason
  <2> HIDE DEF r
  <2> QED BY <1>1, <2>1, <2>2, CycleSaves DEF bounds
<1>3. CASE EnableAutoMerge
  <2>1. /\ \/ pc' = "enabled" /\ UNCHANGED <<view, work>>
           \/ pc' = "idle" /\ Forget
        /\ gh' \in {gh, [gh EXCEPT !.auto = view.head]}
        /\ UNCHANGED <<disk, issue, local, prs, bounds, history>>
    BY <1>3 DEF EnableAutoMerge
  <2>2. /\ gh' \in PullRequest /\ gh'.asked = gh.asked /\ gh'.head = gh.head
        /\ gh'.checks = gh.checks /\ gh'.codex = gh.codex /\ gh'.state = gh.state
    BY <1>1, <2>1 DEF PullRequest
  <2>3. /\ view' \in PullRequest /\ (view' = view \/ (view'.state = "open" /\ view'.codex = "none"))
        /\ work' \in KnownHead \X KnownHead /\ work' \in {work, NoWork}
    BY <1>1, <2>1, UnseenTyped DEF Forget, TypeOK
  <2>4. TypeOK'
    BY <1>1, <2>1, <2>2, <2>3 DEF TypeOK, Pcs, disk, bounds, history
  <2> QED BY <2>1, <2>2, <2>3, <2>4
          DEF Inv, Rest, BudgetLeft, NotDone, MergedKnown, Verdicts, Vetted, RequestKnown,
              TurnsRemembered, TurnOpen, WorkKnown, LocalCiTruth, OneRequestPerHead, disk, history
<1> QED BY <1>2, <1>3

-----------------------------------------------------------------------------
(* The theorems. *)

LEMMA NextKeeps == Inv /\ [Next]_vars => Inv'
<1> SUFFICES ASSUME Inv, [Next]_vars PROVE Inv'
  OBVIOUS
<1>1. CASE Supervisor
  BY <1>1, LookKeeps, ReconcileKeeps, SelectKeeps, HydrateKeeps, RequestKeeps, TurnKeeps,
     PublishKeeps, PostTurnKeeps, LocalCiKeeps, PromotionKeeps, ApplyKeeps, GuardKeeps, MergeKeeps
     DEF Supervisor, StartCycle, Refresh, LookAgain
<1>2. CASE Crash
  BY <1>2, CrashKeeps
<1>3. CASE \/ ChecksFinish \/ CodexReviews \/ ReviewIsLate \/ ThreadResolved
           \/ Help \/ GitHubMerges \/ IssueEdited
  BY <1>3, WorldSteps
<1>4. CASE UNCHANGED vars
  <2>1. UNCHANGED <<rec, gh, issue, local, pc, view, work, prs, faults, helps, tested, green,
                    clean, answered, merged>>
    BY <1>4 DEF vars, disk, world, cycle, bounds, history
  <2> QED BY <2>1 DEF Inv, Rest, TypeOK, BudgetLeft, NotDone, MergedKnown, Verdicts, Vetted, RequestKnown,
          TurnsRemembered, TurnOpen, WorkKnown, LocalCiTruth, OneRequestPerHead
<1> QED BY <1>1, <1>2, <1>3, <1>4 DEF Next

LEMMA InvHolds == Spec => []Inv
<1>1. Init => Inv
  BY Initially
<1>2. Inv /\ [Next]_vars => Inv'
  BY NextKeeps
<1> QED BY <1>1, <1>2, PTL DEF Spec

\* Every look, patch and step keeps the types, for all bounds (TrackedPr).
THEOREM TrackedTypes == Spec => []TypeOK
<1>1. Inv => TypeOK
  BY DEF Inv, Rest
<1> QED BY <1>1, InvHolds, PTL

\* A local CI result bound to a head is one of that commit
\* (runTrackedPrCurrentHeadLocalCiGate).
THEOREM LocalCiTrue == Spec => []LocalCiTruth
<1>1. Inv => LocalCiTruth
  BY DEF Inv, Rest
<1> QED BY <1>1, InvHolds, PTL

\* A review is requested at most once for a head, whatever dies in between
\* (codex-connector-review-request-transition.ts).
THEOREM RequestedOnce == Spec => []OneRequestPerHead
<1>1. Inv => OneRequestPerHead
  BY DEF Inv, Rest
<1> QED BY <1>1, InvHolds, PTL

\* A finding gets no second turn at the same head (turn-execution-orchestration.ts).
THEOREM OneTurnEach == Spec => OneTurnPerFinding
<1>1. Inv /\ Inv' /\ [Next]_vars => [pc' = "turn" => work' \notin answered]_vars
  <2> SUFFICES ASSUME Inv', [Next]_vars, pc' = "turn" PROVE work' \notin answered
    OBVIOUS
  <2>1. work' \notin answered'
    BY DEF Inv, Rest, TurnsRemembered
  <2>2. answered \subseteq answered'
    <3>1. CASE PostTurn
      BY <3>1 DEF PostTurn
    <3>2. CASE UNCHANGED answered
      BY <3>2
    <3>3. PostTurn \/ UNCHANGED answered
      BY DEF Next, Supervisor, vars, history, world, disk, cycle, bounds, StartCycle, Reconcile,
         CloseDone, Select, Hydrate, PostRequest, SaveRequest, RequestFails, Turn, Publish,
         LocalCiPasses, LocalCiFails, LocalCi, NoPromotion, MarkReady, Refresh, ApplyLifecycle,
         LookAgain, Look, Guard, EnableAutoMerge, SaveMerging, Crash, ChecksFinish, CodexReviews,
         ReviewIsLate, ThreadResolved, Help, GitHubMerges, IssueEdited, Outside, Quiet
    <3> QED BY <3>1, <3>2, <3>3
  <2> QED BY <2>1, <2>2
<1> QED BY <1>1, InvHolds, PTL DEF Spec, OneTurnPerFinding

\* A pull request that a person closed before the turn is not replaced
\* (turn-execution-publication-gate.ts).
THEOREM ClosedStays == Spec => ClosedStaysClosed
<1>1. Inv /\ [Next]_vars => [prs' > prs => view.state = "open"]_vars
  <2> SUFFICES ASSUME Inv, [Next]_vars, prs' > prs PROVE view.state = "open"
    OBVIOUS
  <2>1. CASE Publish
    BY <2>1 DEF Inv, Rest, TurnOpen, Publish
  <2>2. CASE UNCHANGED prs
    BY <2>2 DEF Inv, Rest, TypeOK
  <2>3. Publish \/ UNCHANGED prs
    BY DEF Next, Supervisor, vars, history, world, disk, cycle, bounds, StartCycle, Reconcile,
       CloseDone, Select, Hydrate, PostRequest, SaveRequest, RequestFails, Turn, PostTurn,
       LocalCiPasses, LocalCiFails, LocalCi, NoPromotion, MarkReady, Refresh, ApplyLifecycle,
       LookAgain, Look, Guard, EnableAutoMerge, SaveMerging, Crash, ChecksFinish, CodexReviews,
       ReviewIsLate, ThreadResolved, Help, GitHubMerges, IssueEdited, Outside, Quiet
  <2> QED BY <2>1, <2>2, <2>3
<1> QED BY <1>1, InvHolds, PTL DEF Spec, ClosedStaysClosed

\* Only the lifecycle save of the cycle leads to the gate before the merge.
LEMMA GateIsReached ==
    ASSUME [Next]_vars, pc' = "localCi"
    PROVE  ApplyLifecycle \/ UNCHANGED <<pc, rec, view>>
<1>1. ~(StartCycle \/ Reconcile \/ CloseDone \/ Select \/ Refresh \/ LookAgain \/ Turn \/ PostTurn)
  BY DEF StartCycle, Refresh, LookAgain, Look, Reconcile, CloseDone, Select, EndCycle, Save, Turn,
     PostTurn
<1>2. ~(Hydrate \/ PostRequest \/ SaveRequest \/ RequestFails \/ Publish)
  BY DEF Hydrate, PostRequest, SaveRequest, RequestFails, Publish, EndCycle, Save
<1>3. ~(LocalCiPasses \/ LocalCiFails \/ NoPromotion \/ MarkReady)
  BY DEF LocalCiPasses, LocalCiFails, LocalCi, LocalCiGate, NoPromotion, MarkReady, EndCycle, Save
<1>4. ~(Guard \/ EnableAutoMerge \/ SaveMerging \/ Crash)
  BY DEF Guard, EnableAutoMerge, SaveMerging, Crash, EndCycle, Save
<1>5. CASE ChecksFinish \/ CodexReviews \/ ReviewIsLate \/ ThreadResolved \/ GitHubMerges \/ IssueEdited
  BY <1>5 DEF ChecksFinish, CodexReviews, ReviewIsLate, ThreadResolved, GitHubMerges, IssueEdited,
     Outside, cycle, disk
<1>6. CASE Help
  BY <1>6 DEF Help, Outside, cycle, disk
<1>7. CASE UNCHANGED vars
  BY <1>7 DEF vars, cycle, disk
<1> QED BY <1>1, <1>2, <1>3, <1>4, <1>5, <1>6, <1>7 DEF Next, Supervisor

\* What NeverStuck rests on, and what a reader of the gate may ask: local CI runs
\* before a merge only for a head without a result of its own.
GateIsDue == pc = "localCi" => rec.ci # view.head

\* For any heads, checks and people: the gate before the merge never runs again at
\* a head that has passed it (post-turn-pull-request.ts, tracked-pr-local-ci-
\* publication-gate.ts).
THEOREM GateOnlyWhenDue == Spec => []GateIsDue
<1>1. Init => GateIsDue
  BY DEF Init, GateIsDue
<1>2. ASSUME TypeOK, GateIsDue, [Next]_vars PROVE GateIsDue'
  <2> SUFFICES ASSUME pc' = "localCi" PROVE rec'.ci # view'.head
    BY DEF GateIsDue
  <2>1. CASE ApplyLifecycle
    <3>1. PICK r : Save(r, IF r.ci = Snapshot.head THEN "guard" ELSE "localCi") /\ UNCHANGED view
      BY <2>1 DEF ApplyLifecycle, Save, EndCycle
    <3> QED BY <1>2, <3>1, SnapshotTyped DEF Save
  <2>2. CASE UNCHANGED <<pc, rec, view>>
    BY <1>2, <2>2 DEF GateIsDue
  <2> QED BY <1>2, <2>1, <2>2, GateIsReached
<1> QED BY <1>1, <1>2, TrackedTypes, PTL DEF Spec

\* A pull request is ready to merge only if nothing is in its way.
LEMMA ReadyFacts ==
    ASSUME NEW r, NEW s, inferStateFromPullRequest(r, s) = "ready_to_merge"
    PROVE  s.state = "open" /\ ~s.draft /\ Settled(s) /\ ~HasBlocker(s)
<1>1. BlockerState(r, s) # "ready_to_merge"
  BY DEF BlockerState
<1>2. ~HasBlocker(s) /\ OpenState(r, s) = "ready_to_merge"
  BY <1>1 DEF inferStateFromPullRequest
<1> QED BY <1>2 DEF OpenState, mergeConditionsSatisfied

\* The gate before the merge has nothing to promote.
GateIsForReady == pc = "localCi" => ~view.draft

LEMMA ReadyGate == Spec => []GateIsForReady
<1>1. Init => GateIsForReady
  BY DEF Init, GateIsForReady
<1>2. ASSUME TypeOK, GateIsForReady, [Next]_vars PROVE GateIsForReady'
  <2> SUFFICES ASSUME pc' = "localCi" PROVE ~view'.draft
    BY DEF GateIsForReady
  <2>1. CASE ApplyLifecycle
    <3> DEFINE seen == [rec EXCEPT !.last = Snapshot.head]
               r == WithState([rec EXCEPT
                                  !.req = syncCodexConnectorReviewRequestObservation(rec, Snapshot),
                                  !.last = Snapshot.head], Snapshot, seen)
    <3>1. r.state = "ready_to_merge" /\ UNCHANGED view
      BY <2>1 DEF ApplyLifecycle, Save, EndCycle
    <3>2. r.state = inferStateFromPullRequest(seen, Snapshot)
      BY DEF WithState
    <3>3. Snapshot.draft = view.draft
      BY <1>2 DEF TypeOK, Snapshot, PullRequest
    <3> QED BY <3>1, <3>2, <3>3, ReadyFacts
  <2>2. CASE UNCHANGED <<pc, view>>
    BY <1>2, <2>2 DEF GateIsForReady
  <2> QED BY <1>2, <2>1, <2>2, GateIsReached
<1> QED BY <1>1, <1>2, TrackedTypes, PTL DEF Spec

\* The longest way from each place of a cycle to its end.
Farthest == [idle |-> 0, closing |-> 1, enabled |-> 1, askedLate |-> 1, armed |-> 2, askLate |-> 2,
             guarded |-> 3, guard |-> 4, localCi |-> 5, applied |-> 6, apply |-> 7, ready |-> 8,
             posted |-> 9, post |-> 10, publish |-> 11, askedEarly |-> 11, turn |-> 12,
             askEarly |-> 12, hydrate |-> 13, select |-> 14, reconcile |-> 15]

\* A cycle gets nearer to its end with every step of its own, and nobody else
\* writes its record or moves it.
Advances == Farthest[pc'] < Farthest[pc] \/ UNCHANGED <<disk, cycle>>
CycleAdvances == [][pc # "idle" => Advances]_vars

LEMMA RunAdvances == Reconcile \/ CloseDone \/ Select \/ Hydrate => Advances
<1>1. Reconcile => pc = "reconcile" /\ pc' \in {"idle", "closing", "select"}
  BY DEF Reconcile, EndCycle, Save
<1>2. CloseDone => pc = "closing" /\ pc' = "idle"
  BY DEF CloseDone, EndCycle, Save
<1>3. Select => pc = "select" /\ pc' \in {"idle", "hydrate"}
  BY DEF Select, EndCycle, Save
<1>4. Hydrate => pc = "hydrate" /\ pc' \in {"idle", "askEarly", "turn", "post"}
  BY DEF Hydrate, EndCycle, Save
<1> QED BY <1>1, <1>2, <1>3, <1>4 DEF Advances, Farthest

LEMMA RequestAdvances ==
    PostRequest \/ SaveRequest \/ RequestFails \/ Turn \/ Publish \/ PostTurn => Advances
<1>1. PostRequest => \/ pc = "askEarly" /\ pc' = "askedEarly"
                     \/ pc = "askLate" /\ pc' = "askedLate"
  BY DEF PostRequest
<1>2. SaveRequest => pc \in {"askedEarly", "askedLate"} /\ pc' = "idle"
  BY DEF SaveRequest, EndCycle, Save
<1>3. RequestFails => \/ pc \in {"askEarly", "askedEarly"} /\ pc' = "post"
                      \/ pc \in {"askLate", "askedLate"} /\ pc' = "idle"
  BY DEF RequestFails, EndCycle, Save
<1>4. Turn => pc = "turn" /\ pc' = "publish"
  BY DEF Turn
<1>5. Publish => pc = "publish" /\ pc' \in {"idle", "post"}
  BY DEF Publish, EndCycle, Save
<1>6. PostTurn => pc = "post" /\ pc' = "posted"
  BY DEF PostTurn, Save
<1>7. PostRequest \/ SaveRequest \/ RequestFails => Advances
  BY <1>1, <1>2, <1>3 DEF Advances, Farthest
<1>8. Turn \/ Publish \/ PostTurn => Advances
  BY <1>4, <1>5, <1>6 DEF Advances, Farthest
<1> QED BY <1>7, <1>8

LEMMA PromotionAdvances ==
    ASSUME GateIsForReady
    PROVE  LocalCiPasses \/ LocalCiFails \/ NoPromotion \/ MarkReady => Advances
<1>1. LocalCiPasses \/ LocalCiFails =>
         \/ pc = "posted" /\ pc' \in {"idle", "ready", "guard"}
         \/ pc = "localCi" /\ pc' \in {"idle", "guard"}
  BY DEF GateIsForReady, LocalCiPasses, LocalCiFails, LocalCi, LocalCiGate, EndCycle, Save
<1>2. NoPromotion => pc = "posted" /\ pc' = "apply"
  BY DEF NoPromotion
<1>3. MarkReady => pc = "ready" /\ pc' \in {"idle", "apply"}
  BY DEF MarkReady
<1> QED BY <1>1, <1>2, <1>3 DEF Advances, Farthest

LEMMA MergeAdvances ==
    Refresh \/ ApplyLifecycle \/ LookAgain \/ Guard \/ EnableAutoMerge \/ SaveMerging => Advances
<1>1. Refresh => pc = "apply" /\ pc' = "applied"
  BY DEF Refresh, Look
<1>2. ApplyLifecycle => pc = "applied" /\ pc' \in {"idle", "askLate", "guard", "localCi"}
  BY DEF ApplyLifecycle, EndCycle, Save
<1>3. LookAgain => pc = "guard" /\ pc' = "guarded"
  BY DEF LookAgain, Look
<1>4. Guard => pc = "guarded" /\ pc' \in {"idle", "armed"}
  BY DEF Guard, EndCycle, Save
<1>5. EnableAutoMerge => pc = "armed" /\ pc' \in {"idle", "enabled"}
  BY DEF EnableAutoMerge
<1>6. SaveMerging => pc = "enabled" /\ pc' = "idle"
  BY DEF SaveMerging, EndCycle, Save
<1>7. Refresh \/ ApplyLifecycle \/ LookAgain => Advances
  BY <1>1, <1>2, <1>3 DEF Advances, Farthest
<1>8. Guard \/ EnableAutoMerge \/ SaveMerging => Advances
  BY <1>4, <1>5, <1>6 DEF Advances, Farthest
<1> QED BY <1>7, <1>8

\* What is not the supervisor leaves record and cycle alone.
LEMMA OthersLeave ==
    ASSUME \/ ChecksFinish \/ CodexReviews \/ ReviewIsLate \/ ThreadResolved \/ Help \/ GitHubMerges
           \/ IssueEdited \/ UNCHANGED vars
    PROVE  UNCHANGED <<disk, cycle>>
<1>1. CASE ChecksFinish \/ CodexReviews \/ ReviewIsLate \/ ThreadResolved
  BY <1>1 DEF ChecksFinish, CodexReviews, ReviewIsLate, ThreadResolved, Outside
<1>2. CASE Help
  BY <1>2 DEF Help, Outside
<1>3. CASE GitHubMerges \/ IssueEdited \/ UNCHANGED vars
  BY <1>3 DEF GitHubMerges, IssueEdited, Outside, vars
<1> QED BY <1>1, <1>2, <1>3

\* For any bounds a cycle ends at most fifteen steps after it began, whatever
\* GitHub, its bots and its people do between two of them: a gate that passes
\* never leads back to the promotion, and the state file is the cycle's alone
\* while it lasts (post-turn-pull-request.ts).
THEOREM CyclesAdvance == Spec => CycleAdvances
<1>1. GateIsForReady /\ TypeOK /\ [Next]_vars => [pc # "idle" => Advances]_vars
  <2> SUFFICES ASSUME GateIsForReady, TypeOK, [Next]_vars, pc # "idle" PROVE Advances
    OBVIOUS
  <2>1. CASE StartCycle
    BY <2>1 DEF StartCycle, Look
  <2>2. CASE Crash
    <3>1. Farthest[pc] > 0
      BY DEF TypeOK, Pcs, Farthest
    <3>2. pc' = "idle" /\ Farthest["idle"] = 0
      BY <2>2 DEF Crash, Farthest
    <3>3. Farthest[pc'] < Farthest[pc]
      BY <3>1, <3>2
    <3> QED BY <3>3 DEF Advances
  <2>3. CASE \/ ChecksFinish \/ CodexReviews \/ ReviewIsLate \/ ThreadResolved \/ Help
             \/ GitHubMerges \/ IssueEdited \/ UNCHANGED vars
    BY <2>3, OthersLeave DEF Advances
  <2> QED BY <2>1, <2>2, <2>3, RunAdvances, RequestAdvances, PromotionAdvances, MergeAdvances
          DEF Next, Supervisor
<1> QED BY <1>1, ReadyGate, TrackedTypes, PTL DEF Spec, CycleAdvances

\* What FairSpec rests on: a step moves the cycle exactly if the supervisor takes
\* it or dies, so that fairness of Proceed says nothing of GitHub or of people.
THEOREM OnlyTheCycleMoves == Spec => [][pc' # pc <=> Supervisor \/ Crash]_vars
<1>1. [Next]_vars => [pc' # pc <=> Supervisor \/ Crash]_vars
  <2> SUFFICES ASSUME [Next]_vars PROVE [pc' # pc <=> Supervisor \/ Crash]_vars
    OBVIOUS
  <2>1. Crash => pc' # pc
    BY DEF Crash
  <2>2. StartCycle \/ Reconcile \/ CloseDone \/ Select \/ Hydrate => pc' # pc
    BY DEF StartCycle, Look, Reconcile, CloseDone, Select, Hydrate, EndCycle, Save
  <2>3. PostRequest \/ SaveRequest \/ RequestFails \/ Turn \/ Publish \/ PostTurn => pc' # pc
    BY DEF PostRequest, SaveRequest, RequestFails, Turn, Publish, PostTurn, EndCycle, Save
  <2>4. LocalCiPasses \/ LocalCiFails \/ NoPromotion \/ MarkReady => pc' # pc
    BY DEF LocalCiPasses, LocalCiFails, LocalCi, LocalCiGate, NoPromotion, MarkReady, EndCycle, Save
  <2>5. Refresh \/ ApplyLifecycle \/ LookAgain => pc' # pc
    BY DEF Refresh, Look, ApplyLifecycle, LookAgain, EndCycle, Save
  <2>6. Guard \/ EnableAutoMerge \/ SaveMerging => pc' # pc
    BY DEF Guard, EnableAutoMerge, SaveMerging, EndCycle, Save
  <2>7. ChecksFinish \/ CodexReviews \/ ReviewIsLate \/ ThreadResolved \/ Help \/ GitHubMerges
           \/ IssueEdited \/ UNCHANGED vars => pc' = pc
    BY OthersLeave DEF cycle
  <2> QED BY <2>1, <2>2, <2>3, <2>4, <2>5, <2>6, <2>7 DEF Next, Supervisor
<1> QED BY <1>1, PTL DEF Spec

\* What the promise calls vetted, and done.
Passed == tested \cap green \cap clean
Finished == rec.state = "done"

\* A step that leaves branch, promise and verdicts alone finishes, resumes or
\* is not seen by the promise.
LEMMA RecordStep ==
    ASSUME Inv, Inv', gh'.head = gh.head, gh'.auto = gh.auto, Passed' = Passed, merged' = merged
    PROVE  Promise!Next \/ UNCHANGED Promise!vars
<1>1. CASE Finished' = Finished
  BY <1>1 DEF Promise!vars, Passed, Finished
<1>2. CASE Finished' # Finished
  <2>1. CASE Finished'
    <3>1. merged /\ (rec'.state = "done") = TRUE
      BY <2>1 DEF Inv, Rest, MergedKnown, Finished
    <3> QED BY <3>1 DEF Promise!Next, Promise!Finish, Passed
  <2>2. CASE ~Finished'
    <3>1. (rec'.state = "done") = FALSE
      BY <2>2 DEF Finished
    <3> QED BY <3>1 DEF Promise!Next, Promise!Resume, Passed
  <2> QED BY <2>1, <2>2
<1> QED BY <1>1, <1>2

\* One more verdict vets at most one more commit.
LEMMA VerdictStep ==
    ASSUME NEW c \in Commit, gh'.head = gh.head, gh'.auto = gh.auto, merged' = merged,
           Finished' = Finished,
           \/ tested' = tested \cup {c} /\ green' = green /\ clean' = clean
           \/ green' = green \cup {c} /\ tested' = tested /\ clean' = clean
           \/ clean' = clean \cup {c} /\ tested' = tested /\ green' = green
    PROVE  Promise!Next \/ UNCHANGED Promise!vars
<1>1. CASE Passed' = Passed
  BY <1>1 DEF Promise!vars, Passed, Finished
<1>2. CASE Passed' # Passed
  <2>1. Passed' = Passed \cup {c} /\ c \notin Passed
    BY <1>2 DEF Passed
  <2> QED BY <2>1 DEF Promise!Next, Promise!Vet, Passed, Finished
<1> QED BY <1>1, <1>2

LEMMA StepKeepsPromise ==
    ASSUME Inv, Inv', [Next]_vars
    PROVE  Promise!Next \/ UNCHANGED Promise!vars
<1>1. gh \in PullRequest /\ gh' \in PullRequest /\ gh.head \in Commit /\ gh'.head \in Commit /\ local \in Commit
  BY DEF Inv, Rest, TypeOK, PullRequest
<1>2. CASE \/ StartCycle \/ Reconcile \/ CloseDone \/ Select \/ Hydrate \/ SaveRequest \/ RequestFails
           \/ PostTurn \/ NoPromotion \/ Refresh \/ ApplyLifecycle \/ LookAgain \/ Guard \/ SaveMerging
           \/ Crash \/ IssueEdited \/ UNCHANGED vars
  <2>1. UNCHANGED <<gh, tested, green, clean, merged>>
    BY <1>2 DEF StartCycle, Reconcile, CloseDone, Select, Hydrate, SaveRequest, RequestFails, PostTurn,
       NoPromotion, Refresh, ApplyLifecycle, LookAgain, Look, Guard, SaveMerging, Crash, IssueEdited,
       vars, world, history, disk, cycle, bounds
  <2> QED BY <2>1, RecordStep DEF Passed
<1>3. CASE PostRequest \/ MarkReady
  <2>1. gh'.head = gh.head /\ gh'.auto = gh.auto /\ UNCHANGED <<tested, green, clean, merged>>
    BY <1>1, <1>3 DEF PostRequest, MarkReady, PullRequest, history
  <2> QED BY <2>1, RecordStep DEF Passed
<1>4. CASE Turn
  <2>1. gh'.auto = gh.auto
    <3>1. CASE UNCHANGED gh
      BY <3>1
    <3>2. ASSUME gh.head < MaxCommit,
                 gh' = [Pushed(gh) EXCEPT !.conflict = FALSE]
          PROVE  gh'.auto = gh.auto
      BY <1>1, <3>2 DEF Pushed, PullRequest
    <3> QED BY <1>4, <3>1, <3>2 DEF Turn
  <2>2. UNCHANGED <<rec, tested, green, clean, merged>>
    BY <1>4 DEF Turn, disk, history
  <2> QED BY <1>1, <2>1, <2>2 DEF Promise!Next, Promise!Push
<1>5. CASE Publish
  <2>1. CASE UNCHANGED <<gh, tested>>
    BY <1>5, <2>1, RecordStep DEF Publish, Passed
  <2>2. CASE /\ gh' = DraftPullRequest(local, IF local = gh.head THEN gh.checks ELSE "pending")
             /\ tested' = tested \cup {local} /\ rec'.state = rec.state
    <3>1. gh'.auto = NoCommit /\ UNCHANGED <<green, clean, merged>>
      BY <1>5, <2>2 DEF Publish, DraftPullRequest
    <3>2. Passed' = Passed \/ \E c \in Commit : Passed' = Passed \cup {c}
      <4>1. CASE local \in green \cap clean
        BY <1>1, <2>2, <3>1, <4>1 DEF Passed
      <4>2. CASE local \notin green \cap clean
        BY <2>2, <3>1, <4>2 DEF Passed
      <4> QED BY <4>1, <4>2
    <3> QED BY <1>1, <2>2, <3>1, <3>2 DEF Promise!Next, Promise!Reopen, Passed
  <2>3. rec \in Record
    BY DEF Inv, Rest, TypeOK
  <2> QED BY <1>5, <2>1, <2>2, <2>3 DEF Publish, Save, Record
<1>6. CASE LocalCiPasses \/ LocalCiFails
  <2>1. /\ UNCHANGED <<gh, green, clean, merged>> /\ rec.state # "done"
        /\ tested' \in {tested, tested \cup {local}}
    BY <1>6 DEF LocalCiPasses, LocalCiFails, LocalCi, LocalCiGate, world, Inv, Rest, NotDone
  <2>2. rec'.state # "done"
    <3>1. rec \in Record
      BY DEF Inv, TypeOK
    <3> DEFINE stop == [Blocked(rec, "verification") EXCEPT !.ci = NoCommit, !.gate = view.head]
               go == [rec EXCEPT !.ci = view.head, !.gate = NoCommit]
    <3>2. stop.state = "blocked" /\ go.state = rec.state
      BY <3>1 DEF Blocked, Record
    <3>3. rec' \in {stop, go}
      BY <1>6 DEF LocalCiPasses, LocalCiFails, LocalCi, LocalCiGate, EndCycle, Save
    <3> QED BY <2>1, <3>2, <3>3
  <2>3. CASE UNCHANGED tested
    BY <2>1, <2>3, RecordStep DEF Passed
  <2>4. CASE tested' = tested \cup {local}
    BY <1>1, <2>1, <2>2, <2>4, VerdictStep DEF Finished
  <2> QED BY <2>1, <2>3, <2>4
<1>7. CASE ChecksFinish
  <2>1. /\ gh'.head = gh.head /\ gh'.auto = gh.auto /\ UNCHANGED <<rec, tested, clean, merged>>
        /\ green' \in {green, green \cup {gh.head}}
    BY <1>1, <1>7 DEF ChecksFinish, Outside, PullRequest, disk
  <2>2. CASE UNCHANGED green
    BY <2>1, <2>2, RecordStep DEF Passed
  <2>3. CASE green' = green \cup {gh.head}
    BY <1>1, <2>1, <2>3, VerdictStep DEF Finished
  <2> QED BY <2>1, <2>2, <2>3
<1>8. CASE CodexReviews
  <2>1. /\ gh'.head = gh.head /\ gh'.auto = gh.auto /\ UNCHANGED <<rec, tested, green, merged>>
        /\ clean' \in {clean, clean \cup {gh.head}}
    BY <1>1, <1>8 DEF CodexReviews, Outside, PullRequest, disk
  <2>2. CASE UNCHANGED clean
    BY <2>1, <2>2, RecordStep DEF Passed
  <2>3. CASE clean' = clean \cup {gh.head}
    BY <1>1, <2>1, <2>3, VerdictStep DEF Finished
  <2> QED BY <2>1, <2>2, <2>3
<1>9. CASE ReviewIsLate \/ ThreadResolved
  <2>1. gh'.head = gh.head /\ gh'.auto = gh.auto /\ UNCHANGED <<tested, green, clean, merged>>
    BY <1>1, <1>9 DEF ReviewIsLate, ThreadResolved, Outside, Quiet, PullRequest
  <2> QED BY <2>1, RecordStep DEF Passed
<1>10. CASE Help \/ GitHubMerges
  <2>1. UNCHANGED <<rec, tested, green, clean>>
    BY <1>10 DEF Help, GitHubMerges, Outside, disk
  <2>2. gh'.auto = gh.auto /\ (UNCHANGED merged \/ (merged' = TRUE /\ gh'.head = gh.head))
    BY <1>1, <1>10 DEF Help, GitHubMerges, Outside, Pushed, PullRequest
  <2>3. CASE UNCHANGED merged
    BY <1>1, <2>1, <2>2, <2>3 DEF Promise!Next, Promise!Push
  <2>4. CASE merged' = TRUE /\ gh'.head = gh.head
    BY <2>1, <2>2, <2>4 DEF Promise!Next, Promise!Merge
  <2> QED BY <2>2, <2>3, <2>4
<1>11. CASE EnableAutoMerge
  <2>1. UNCHANGED <<rec, tested, green, clean, merged>>
    BY <1>11 DEF EnableAutoMerge, disk, history
  <2>2. CASE UNCHANGED gh
    BY <2>1, <2>2, RecordStep DEF Passed
  <2>3. CASE gh.head = view.head /\ gh' = [gh EXCEPT !.auto = view.head]
    <3>1. gh.head \in Passed
      BY <1>11, <2>3 DEF Inv, Rest, Vetted, Passed, EnableAutoMerge
    <3>2. gh'.head = gh.head /\ gh'.auto = gh.head
      BY <1>1, <2>3 DEF PullRequest
    <3> QED BY <2>1, <3>1, <3>2 DEF Promise!Next, Promise!Promise, Passed
  <2> QED BY <1>11, <2>2, <2>3 DEF EnableAutoMerge
<1> QED BY <1>2, <1>3, <1>4, <1>5, <1>6, <1>7, <1>8, <1>9, <1>10, <1>11 DEF Next, Supervisor

\* Auto-merge is told to merge only a head that passed everything, and done
\* means merged: the life of a pull request implements MergePromise
\* (handlePostTurnMergeAndCompletion).
THEOREM PromiseIsKept == Spec => PromiseKept
<1>1. Init => Promise!Init
  <2> SUFFICES ASSUME Init PROVE Promise!Init
    OBVIOUS
  <2>1. gh.head = 1 /\ gh.auto = NoCommit /\ rec.state # "done" /\ 1 \in Commit
    BY PolicyAssumption DEF Init, DraftPullRequest, Commit
  <2>2. (rec.state = "done") = FALSE /\ tested \cap green \cap clean = {} /\ merged = FALSE
    BY <2>1 DEF Init
  <2> QED BY <2>1, <2>2 DEF Promise!Init
<1>2. Inv /\ Inv' /\ [Next]_vars => [Promise!Next]_(Promise!vars)
  BY StepKeepsPromise
<1> QED BY <1>1, <1>2, InvHolds, PTL DEF Spec, PromiseKept, Promise!Spec

=============================================================================

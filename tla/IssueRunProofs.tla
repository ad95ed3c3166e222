--------------------------- MODULE IssueRunProofs ---------------------------
(* The safety of an issue's run for every number of issues, every limit and  *)
(* any number of faults: what a cycle may rely on at each of its steps, and  *)
(* what a turn that died leaves behind.                                      *)
EXTENDS IssueRun, TLAPS

Guarded(r) == r.state \in OWNER_GUARDED_ACTIVE_STATES
AtWork == {"normalize", "resolve", "prepare", "hydrate", "publish", "opened", "infer",
           "begin", "mark"} \cup TurnPcs

\* The issue a cycle works on holds the reservation.
WorkReserved ==
    /\ pc \in AtWork => work \in Issue /\ active = work
    /\ pc \in {"clear", "unmark"} => work \in Issue

\* A turn has an attempt, a guarded state and, from its start, a marker.
TurnReady ==
    /\ pc = "begin" => rec[work].impl = 0 \/ branch[work] # "ahead"
    /\ pc = "mark" => rec[work].impl > 0
    /\ pc \in {"mark"} \cup TurnPcs => Guarded(rec[work])
    /\ pc \in TurnPcs => marker[work]

TurnKnown == TurnReady /\ \A i \in Issue : marker[i] => rec[i].impl > 0

\* A leftover marker no longer fits the journal once the journal was synced.
JournalSynced ==
    pc \in {"publish", "opened", "infer", "begin", "mark"} /\ marker[work] => moved[work]

\* A turn that died without a trace keeps the reservation and its marker.
LostHeld ==
    \A i \in cutShort :
        /\ pc \in {"idle", "reserve"}
        /\ active = i
        /\ marker[i] /\ ~moved[i] /\ Guarded(rec[i])

\* Nothing else looks like one.
HeldLost ==
    \A i \in Issue : marker[i] /\ ~moved[i] /\ Guarded(rec[i])
        => i \in cutShort \/ (pc \in TurnPcs /\ work = i)

\* A record that a recovery counted has attempts, and its context unless an
\* agent was started on it.
Waits(r) ==
    /\ r.state \in {"stabilizing", "failed"} => r.impl > 0
    /\ r.sig = "stale" => /\ r.impl > 0
                          /\ r.state \notin {"planning", "reproducing"}
                          /\ r.ctx \/ r.state = "stabilizing"
StaleWaits == \A i \in Issue : Waits(rec[i])

\* Such an agent's issue is reserved until the next cycle judges its turn.
StaleReserved ==
    \A i \in Issue : rec[i].sig = "stale" /\ ~rec[i].ctx =>
        active = i /\ pc \in {"idle", "reserve", "mark", "clear"} \cup TurnPcs

\* What counts as done is neither reserved past the check of the reservation nor
\* worked on.
DoneApart ==
    /\ pc \in {"unmark", "recover", "choose", "degraded", "select"} /\ active # None =>
          rec[active].state = "tracked"
    /\ pc \in AtWork => rec[work].state # "done"

\* A tracked pull request exists.
KnownPullRequest ==
    /\ \A i \in Issue : rec[i].pr => github[i].pr # "none"
    /\ pc \in {"opened", "openedTurn"} => github[work].pr # "none"

\* Who is past the budget check without attempts left has a recovery to pay.
Paid ==
    /\ pc \in {"prepare", "hydrate", "infer"} /\ rec[work].impl >= MaxImpl =>
          \/ pc # "infer" /\ rec[work].pr
          \/ hasStaleStabilizingNoPrRecoveryBudgetRemaining(rec[work])
    /\ OverBudgetIsRecovery

\* A pull request of the supervisor's is seen by the next lookup, and no step
\* between a lookup and a publication opens one.
OpenedOnce ==
    /\ \A i \in Issue : opened[i] <= 1 /\ (opened[i] > 0 => github[i].pr # "none")
    /\ pc \in {"publish", "infer", "begin", "mark", "turn", "returned", "publishTurn"} =>
          opened[work] = 0

RunInv == TypeOK /\ WorkReserved /\ TurnKnown /\ JournalSynced /\ LostHeld /\ HeldLost
          /\ StaleWaits /\ StaleReserved /\ KnownPullRequest /\ Paid /\ OpenedOnce
          /\ DoneApart
-----------------------------------------------------------------------------
(* What the patches of a record change and what they leave alone.            *)

\* applyFailureSignature touches the signature, its context and its count.
LEMMA SignatureFacts ==
    ASSUME NEW r \in Record, NEW sig \in Signature, NEW ctx \in BOOLEAN,
           NEW q \in applyFailureSignature(r, sig, ctx)
    PROVE  /\ q \in Record
           /\ q.state = r.state /\ q.impl = r.impl /\ q.pr = r.pr
           /\ q.sig = sig /\ q.ctx = ctx
<1>1. PICK n \in (IF r.sig = sig THEN {AtMost(r.repeats + 1, RepeatLimit)} ELSE {1})
                    \cup (IF sig = "other" THEN {1} ELSE {}) :
          q = [r EXCEPT !.sig = sig, !.ctx = ctx, !.repeats = n]
  BY DEF applyFailureSignature
<1>2. n \in Nat
  BY RunAssumption DEF AtMost, Record
<1> QED BY <1>1, <1>2 DEF Record

\* A blocked record keeps its attempts and its pull request.
LEMMA BlockedFacts ==
    ASSUME NEW r \in Record, NEW reason \in Reason, NEW why \in Why,
           NEW sig \in Signature, NEW ctx \in BOOLEAN, NEW q \in Blocked(r, reason, why, sig, ctx)
    PROVE  /\ q \in Record
           /\ q.state = "blocked" /\ q.impl = r.impl /\ q.pr = r.pr
           /\ q.sig = sig /\ q.ctx = ctx
<1> DEFINE p == [r EXCEPT !.state = "blocked", !.reason = reason, !.why = why]
<1>1. p \in Record /\ p.state = "blocked" /\ p.impl = r.impl /\ p.pr = r.pr
  BY DEF Record, RunState
<1>2. q \in applyFailureSignature(p, sig, ctx)
  BY DEF Blocked
<1> HIDE DEF p
<1> QED BY <1>1, <1>2, SignatureFacts

\* A failed record keeps its attempts and its pull request.
LEMMA FailedFacts ==
    ASSUME NEW r \in Record, NEW why \in Why, NEW q \in Failed(r, why)
    PROVE  /\ q \in Record
           /\ q.state = "failed" /\ q.impl = r.impl /\ q.pr = r.pr /\ q.sig = "other"
<1> DEFINE p == [r EXCEPT !.state = "failed", !.reason = "none", !.why = why,
                          !.timeouts = IF why = "timeout" THEN AtMost(@ + 1, TimeoutLimit) ELSE @]
<1>1. AtMost(r.timeouts + 1, TimeoutLimit) \in Nat
  BY RunAssumption DEF AtMost, Record
<1>2. p \in Record /\ p.state = "failed" /\ p.impl = r.impl /\ p.pr = r.pr
  BY <1>1 DEF Record, RunState, Reason
<1> DEFINE no == FALSE
<1>3. q \in applyFailureSignature(p, "other", no)
  BY DEF Failed
<1>4. "other" \in Signature /\ no \in BOOLEAN
  BY DEF Signature
<1> HIDE DEF p, no
<1> QED BY <1>2, <1>3, <1>4, SignatureFacts

\* A record that goes back to the queue keeps its attempts, and its signature
\* or none.
LEMMA QueuedFacts ==
    ASSUME NEW r \in Record
    PROVE  /\ Queued(r) \in Record /\ QueuedAfresh(r) \in Record
           /\ Queued(r).impl = r.impl /\ QueuedAfresh(r).impl = r.impl
           /\ Queued(r).pr = r.pr /\ QueuedAfresh(r).pr = r.pr
           /\ Queued(r).state = "queued" /\ QueuedAfresh(r).state = "queued"
           /\ Queued(r).sig = r.sig /\ Queued(r).ctx = r.ctx /\ QueuedAfresh(r).sig = "none"
<1> QED BY DEF Queued, QueuedAfresh, NoSignature, Record, RunState, Reason, Why, Signature

\* A record that leaves the lane keeps its attempts only.
LEMMA LeavingFacts ==
    ASSUME NEW r \in Record
    PROVE  /\ Tracked(r) \in Record
           /\ Tracked(r).impl = r.impl /\ Tracked(r).state = "tracked" /\ Tracked(r).sig = "none"
           /\ \A pr \in BOOLEAN :
                 /\ doneResetPatch(r, pr) \in Record
                 /\ doneResetPatch(r, pr).impl = r.impl
                 /\ doneResetPatch(r, pr).state = "done" /\ doneResetPatch(r, pr).sig = "none"
           /\ doneResetPatch(r, FALSE).pr => r.pr
<1> QED BY DEF doneResetPatch, Tracked, createIssueRecord, Record, RunState, Reason, Why, Signature

\* The count of stale recoveries is a count.
LEMMA StaleFacts ==
    ASSUME NEW r \in Record
    PROVE  getStaleStabilizingNoPrRecoveryCount(r) \in Nat
<1> QED BY DEF getStaleStabilizingNoPrRecoveryCount, Record

\* The state of a record without a pull request, by attempts and branch.
LEMMA InferFacts ==
    ASSUME NEW r \in Record, NEW b
    PROVE  /\ inferStateWithoutPullRequest(r, b) \in {"reproducing", "draft_pr", "stabilizing"}
           /\ (r.impl = 0 \/ b # "ahead") => inferStateWithoutPullRequest(r, b) # "draft_pr"
           /\ (inferStateWithoutPullRequest(r, b) # "draft_pr") => (r.impl = 0 \/ b # "ahead")
           /\ (r.impl # 0 /\ b # "ahead" /\ r.state \notin {"planning", "reproducing"})
                 => inferStateWithoutPullRequest(r, b) = "stabilizing"
           /\ inferStateWithoutPullRequest(r, b) = "stabilizing" => r.impl # 0
           /\ (r.impl # 0 /\ r.state \notin {"planning", "reproducing"})
                 => inferStateWithoutPullRequest(r, b) # "reproducing"
<1> QED BY DEF inferStateWithoutPullRequest

\* The reset before a turn keeps a recovery that waits, with its count.
LEMMA ResetFacts ==
    ASSUME NEW r \in Record, NEW next \in RunState,
           NEW q, q = resetNoPrLifecycleFailureTracking(r, next)
    PROVE  /\ q \in Record
           /\ q.state = next /\ q.impl = r.impl /\ q.pr = r.pr
           /\ q.sig = "stale" => q.ctx /\ r.sig = "stale"
           /\ (/\ next = "stabilizing" /\ r.ctx
               /\ hasStaleStabilizingNoPrRecoveryBudgetRemaining(r))
              => getStaleStabilizingNoPrRecoveryCount(q) = getStaleStabilizingNoPrRecoveryCount(r)
<1> DEFINE stale == getStaleStabilizingNoPrRecoveryCount(r)
           held == ~r.pr /\ r.ctx /\ r.sig # "none"
           kept == held /\ (r.repeats > 0 \/ stale > 0)
           sig == IF kept THEN r.sig ELSE "none"
           repeats == IF held THEN r.repeats ELSE 0
           count == IF shouldPreserveStaleTracking(r, next) THEN stale ELSE 0
<1>1. q = [r EXCEPT !.state = next, !.reason = "none", !.ctx = kept, !.sig = sig,
                    !.repeats = repeats, !.stale = count]
  BY DEF resetNoPrLifecycleFailureTracking
<1>2. kept \in BOOLEAN /\ sig \in Signature /\ repeats \in Nat /\ count \in Nat
  BY StaleFacts DEF Record, Signature
<1>3. /\ q \in Record
      /\ q.state = next /\ q.impl = r.impl /\ q.pr = r.pr
      /\ q.ctx = kept /\ q.sig = sig /\ q.repeats = repeats /\ q.stale = count
  <2> HIDE DEF kept, sig, repeats, count
  <2> QED BY <1>1, <1>2 DEF Record, Reason
<1>4. ASSUME next = "stabilizing", r.ctx, hasStaleStabilizingNoPrRecoveryBudgetRemaining(r)
      PROVE  getStaleStabilizingNoPrRecoveryCount(q) = stale
  <2>1. ~r.pr /\ r.state = "queued" /\ stale > 0 /\ stale \in Nat
    BY <1>4, StaleFacts, RunAssumption DEF hasStaleStabilizingNoPrRecoveryBudgetRemaining
  <2>2. r.sig = "stale"
    BY <2>1 DEF getStaleStabilizingNoPrRecoveryCount
  <2>3. sig = "stale" /\ count = stale
    BY <1>4, <2>1, <2>2 DEF shouldPreserveStaleTracking
  <2> QED BY <1>3, <2>1, <2>3 DEF getStaleStabilizingNoPrRecoveryCount
<1> QED BY <1>3, <1>4

\* The outcome of a turn that published nothing.
LEMMA CompletedFacts ==
    ASSUME NEW r \in Record, NEW next \in RunState, NEW q, q = Completed(r, next)
    PROVE  /\ q \in Record
           /\ q.state = next /\ q.impl = r.impl /\ q.pr = r.pr
           /\ q.sig = "stale" => next = "stabilizing"
<1> DEFINE sig == IF shouldPreserveStaleTracking(r, next) THEN r.sig ELSE "none"
           count == IF shouldPreserveStaleTracking(r, next)
                    THEN getStaleStabilizingNoPrRecoveryCount(r) ELSE 0
           no == FALSE
           zero == 0
<1> DEFINE p == [r EXCEPT !.state = next, !.reason = "none", !.why = "none"]
<1>1. q = [p EXCEPT !.ctx = no, !.repeats = zero, !.sig = sig, !.stale = count]
  BY DEF Completed
<1>2. sig \in Signature /\ count \in Nat /\ no \in BOOLEAN /\ zero \in Nat
  BY StaleFacts DEF Record, Signature
<1>3. sig = "stale" => next = "stabilizing"
  BY DEF shouldPreserveStaleTracking
<1>4. p \in Record /\ p.state = next /\ p.impl = r.impl /\ p.pr = r.pr
  BY DEF Record, Reason, Why
<1> HIDE DEF sig, count, no, zero, p
<1>5. q.state = next /\ q.impl = r.impl /\ q.pr = r.pr /\ q.sig = sig
  BY <1>1, <1>4 DEF Record
<1>6. q \in Record
  BY <1>1, <1>2, <1>4 DEF Record
<1> QED BY <1>3, <1>5, <1>6

\* An abandoned reservation goes back to the queue, to the operator or stays
\* what it is, and a stale recovery carries its context.
LEMMA AbandonedFacts ==
    ASSUME TypeOK, NEW i \in Issue, Waits(rec[i]), NEW q \in Abandoned(i)
    PROVE  /\ q \in Record
           /\ q.impl = rec[i].impl /\ (q.pr => rec[i].pr) /\ Waits(q)
           /\ q.sig = "stale" => q.ctx
           /\ q.state = rec[i].state \/ q.state \in {"queued", "blocked"}
<1> DEFINE r == rec[i]
           yes == TRUE
           no == FALSE
           zero == 0
           stale == getStaleStabilizingNoPrRecoveryCount(r)
           more == stale + 1
           bare == [r EXCEPT !.sig = "none", !.repeats = zero]
           counted == [r EXCEPT !.why = "none", !.pr = no, !.sig = "stale", !.ctx = yes,
                                !.repeats = zero, !.stale = more]
<1>1. r \in Record /\ stale \in Nat /\ more \in Nat /\ zero \in Nat /\ yes \in BOOLEAN /\ no \in BOOLEAN
  BY StaleFacts DEF TypeOK
<1>2. {"none", "stale"} \subseteq Signature /\ {"none", "manual_review"} \subseteq Reason
      /\ "none" \in Why /\ {"queued", "blocked"} \subseteq RunState
  BY DEF Signature, Reason, Why, RunState
<1>3. \/ r.state # "stabilizing" /\ q = [r EXCEPT !.reason = "none", !.stale = stale]
      \/ r.sig # "stale" /\ q = [r EXCEPT !.reason = "none", !.stale = zero]
      \/ q = [bare EXCEPT !.reason = "none", !.ctx = no, !.stale = zero]
      \/ r.state = "stabilizing" /\ q = [counted EXCEPT !.state = "blocked", !.reason = "manual_review"]
      \/ r.state = "stabilizing" /\ q = [counted EXCEPT !.state = "queued", !.reason = "none"]
      \/ q = [bare EXCEPT !.state = "blocked", !.reason = "manual_review", !.why = "none",
                          !.pr = no, !.ctx = yes, !.stale = zero]
  BY DEF Abandoned, NoSignature
<1>4. yes /\ ~no
  OBVIOUS
<1>5. Waits(r)
  OBVIOUS
<1> SUFFICES /\ q \in Record
             /\ q.impl = r.impl /\ (q.pr => r.pr) /\ Waits(q)
             /\ q.sig = "stale" => q.ctx
             /\ q.state = r.state \/ q.state \in {"queued", "blocked"}
  OBVIOUS
<1> HIDE DEF r, stale, more, yes, no, zero
<1>6. /\ bare \in Record /\ bare.impl = r.impl /\ bare.pr = r.pr /\ bare.state = r.state
      /\ bare.sig = "none"
  BY <1>1, <1>2 DEF Record
<1>7. /\ counted \in Record /\ counted.impl = r.impl /\ counted.pr = no /\ counted.state = r.state
      /\ counted.sig = "stale" /\ counted.ctx = yes
  BY <1>1, <1>2 DEF Record
<1> HIDE DEF bare, counted
<1>8. CASE \/ r.state # "stabilizing" /\ q = [r EXCEPT !.reason = "none", !.stale = stale]
           \/ r.sig # "stale" /\ q = [r EXCEPT !.reason = "none", !.stale = zero]
  <2>1. q \in Record
    BY <1>1, <1>2, <1>8 DEF Record
  <2>2. q.impl = r.impl /\ q.pr = r.pr /\ q.state = r.state /\ q.sig = r.sig /\ q.ctx = r.ctx
    BY <1>1, <1>8 DEF Record
  <2> QED BY <1>5, <1>8, <2>1, <2>2 DEF Waits
<1>9. CASE q = [bare EXCEPT !.reason = "none", !.ctx = no, !.stale = zero]
  BY <1>1, <1>2, <1>5, <1>6, <1>9 DEF Record, Waits
<1>10. CASE \/ r.state = "stabilizing" /\ q = [counted EXCEPT !.state = "blocked", !.reason = "manual_review"]
            \/ r.state = "stabilizing" /\ q = [counted EXCEPT !.state = "queued", !.reason = "none"]
  BY <1>1, <1>2, <1>4, <1>5, <1>7, <1>10 DEF Record, Waits
<1>11. CASE q = [bare EXCEPT !.state = "blocked", !.reason = "manual_review", !.why = "none",
                             !.pr = no, !.ctx = yes, !.stale = zero]
  BY <1>1, <1>2, <1>4, <1>6, <1>11 DEF Record, Waits
<1> QED BY <1>3, <1>8, <1>9, <1>10, <1>11

\* A failed record without a pull request stays, waits as a counted recovery,
\* starts afresh or is put before the operator.
LEMMA FailedNoPrFacts ==
    ASSUME TypeOK, NEW i \in Issue, Waits(rec[i]), rec[i].state = "failed",
           NEW q \in FailedNoPr(i), q # rec[i]
    PROVE  /\ q \in Record
           /\ q.impl = rec[i].impl /\ q.pr = rec[i].pr /\ Waits(q)
           /\ q.sig = "stale" => q.ctx
           /\ q.state \in {"queued", "blocked"}
<1> DEFINE r == rec[i]
           yes == TRUE
           zero == 0
           one == 1
           more == r.stale + 1
           fresh == QueuedAfresh(r)
           counted == [r EXCEPT !.why = "none", !.sig = "stale", !.ctx = yes,
                                !.repeats = zero, !.stale = more]
<1>1. /\ r \in Record /\ more \in Nat /\ zero \in Nat /\ one \in Nat /\ yes \in BOOLEAN
      /\ r.stale \in Nat
  BY DEF TypeOK, Record
<1>2. {"stale", "other"} \subseteq Signature /\ {"none", "manual_review"} \subseteq Reason
      /\ "none" \in Why /\ {"queued", "blocked"} \subseteq RunState
  BY DEF Signature, Reason, Why, RunState
<1>3. \/ q = [counted EXCEPT !.state = "blocked", !.reason = "manual_review"]
      \/ q = [counted EXCEPT !.state = "queued", !.reason = "none"]
      \/ q = [fresh EXCEPT !.stale = one]
      \/ \E b \in Blocked(r, "manual_review", "none", "other", yes) :
            q = [b EXCEPT !.stale = zero] \/ q = [b EXCEPT !.stale = r.stale]
  <2> DEFINE review(s) == {[b EXCEPT !.stale = s] : b \in Blocked(r, "manual_review", "none", "other", yes)}
             stopped == [counted EXCEPT !.state = "blocked", !.reason = "manual_review"]
             requeued == [counted EXCEPT !.state = "queued", !.reason = "none"]
             afresh == [fresh EXCEPT !.stale = one]
  <2>1. q \in {r, stopped, requeued, afresh} \cup review(zero) \cup review(r.stale)
    <3>1. FailedNoPr(i) \subseteq {r, stopped, requeued, afresh} \cup review(zero) \cup review(r.stale)
      <4> DEFINE recovered == IF more >= RepeatLimit THEN stopped ELSE requeued
                 satisfied == review(zero) \cup (IF ~shouldAutoRetryTimeout(r) THEN {}
                                                 ELSE IF r.stale > 0 THEN review(r.stale) ELSE {afresh})
                 byBranch == CASE branch[i] = "ahead" -> {recovered} \cup satisfied
                               [] branch[i] = "dirty" -> IF shouldAutoRetryTimeout(r) THEN {r} ELSE review(zero)
                               [] branch[i] = "empty" -> satisfied
      <4>1. FailedNoPr(i) = IF r.why = "codex_failed" \/ r.stale >= RepeatLimit THEN {r}
                            ELSE byBranch \cup review(zero)
        BY DEF FailedNoPr
      <4>2. branch[i] \in {"ahead", "dirty", "empty"}
        BY DEF TypeOK, Branch
      <4>3. recovered \in {stopped, requeued}
        OBVIOUS
      <4>4. satisfied \subseteq {afresh} \cup review(zero) \cup review(r.stale)
        <5> HIDE DEF review, afresh
        <5> QED OBVIOUS
      <4> HIDE DEF recovered, satisfied, review, afresh, stopped, requeued
      <4>5. byBranch \subseteq {r, stopped, requeued, afresh} \cup review(zero) \cup review(r.stale)
        BY <4>2, <4>3, <4>4
      <4> HIDE DEF byBranch
      <4> QED BY <4>1, <4>5
    <3> QED BY <3>1
  <2> QED BY <2>1
<1>4. yes
  OBVIOUS
<1>5. fresh \in Record /\ fresh.impl = r.impl /\ fresh.pr = r.pr /\ fresh.state = "queued" /\ fresh.sig = "none"
  BY <1>1, QueuedFacts
<1>10. r.impl > 0
  BY DEF Waits
<1> SUFFICES /\ q \in Record
             /\ q.impl = r.impl /\ q.pr = r.pr /\ Waits(q)
             /\ q.sig = "stale" => q.ctx
             /\ q.state \in {"queued", "blocked"}
  OBVIOUS
<1> HIDE DEF r, more, yes, zero, one, fresh
<1>6. /\ counted \in Record /\ counted.impl = r.impl /\ counted.pr = r.pr
      /\ counted.sig = "stale" /\ counted.ctx = yes
  BY <1>1, <1>2 DEF Record
<1> HIDE DEF counted
<1>7. CASE \/ q = [counted EXCEPT !.state = "blocked", !.reason = "manual_review"]
           \/ q = [counted EXCEPT !.state = "queued", !.reason = "none"]
  BY <1>2, <1>4, <1>6, <1>7, <1>10 DEF Record, Waits
<1>8. CASE q = [fresh EXCEPT !.stale = one]
  BY <1>1, <1>5, <1>8 DEF Record, Waits
<1>9. ASSUME NEW b \in Blocked(r, "manual_review", "none", "other", yes),
             q = [b EXCEPT !.stale = zero] \/ q = [b EXCEPT !.stale = r.stale]
      PROVE  /\ q \in Record
             /\ q.impl = r.impl /\ q.pr = r.pr /\ Waits(q)
             /\ q.sig = "stale" => q.ctx
             /\ q.state = "blocked"
  <2>1. /\ b \in Record /\ b.state = "blocked" /\ b.impl = r.impl /\ b.pr = r.pr
        /\ b.ctx = yes /\ b.sig = "other"
    BY <1>1, <1>2, BlockedFacts
  <2> QED BY <1>1, <1>4, <1>9, <2>1 DEF Record, Waits
<1> QED BY <1>3, <1>7, <1>8, <1>9

\* What a recovery of the prelude makes of a record.
LEMMA RecoveredFacts ==
    ASSUME TypeOK, NEW i \in Issue, Waits(rec[i]), NEW q \in Recovered(i), q # rec[i]
    PROVE  /\ q \in Record
           /\ q.impl = rec[i].impl /\ Waits(q)
           /\ q.sig = "stale" => q.ctx
           /\ q.pr => rec[i].pr \/ github[i].pr = "merged"
           /\ q.state \in {"queued", "blocked", "done"}
<1> DEFINE r == rec[i]
           yes == TRUE
           no == FALSE
           zero == 0
           bare == [r EXCEPT !.sig = "none", !.repeats = zero]
<1>1. r \in Record /\ yes \in BOOLEAN /\ no \in BOOLEAN /\ zero \in Nat
  BY DEF TypeOK
<1>2. \/ github[i].pr = "merged" /\ q = doneResetPatch(r, yes)
      \/ q = doneResetPatch(r, no)
      \/ r.state = "failed" /\ q \in FailedNoPr(i)
      \/ q = QueuedAfresh(r)
      \/ r.state = "blocked" /\ q = Queued(r)
      \/ q = [bare EXCEPT !.state = "blocked", !.reason = "manual_review", !.why = "none",
                          !.ctx = yes, !.stale = zero]
  BY DEF Recovered, DoneNoPr, BlockedNoPr, NoSignature
<1>3. yes /\ ~no
  OBVIOUS
<1>4. "none" \in Signature /\ "manual_review" \in Reason /\ "none" \in Why /\ "blocked" \in RunState
  BY DEF Signature, Reason, Why, RunState
<1>5. CASE r.state = "failed" /\ q \in FailedNoPr(i)
  BY <1>5, FailedNoPrFacts
<1>6. Waits(r)
  OBVIOUS
<1>10. doneResetPatch(r, no).pr => r.pr
  BY <1>1, LeavingFacts
<1> SUFFICES ASSUME ~(r.state = "failed" /\ q \in FailedNoPr(i))
             PROVE  /\ q \in Record
                    /\ q.impl = r.impl /\ Waits(q)
                    /\ q.sig = "stale" => q.ctx
                    /\ q.pr => r.pr \/ github[i].pr = "merged"
                    /\ q.state \in {"queued", "blocked", "done"}
  BY <1>5
<1> HIDE DEF r, yes, no, zero
<1>7. CASE q = doneResetPatch(r, no) \/ (github[i].pr = "merged" /\ q = doneResetPatch(r, yes))
  <2>1. /\ q \in Record /\ q.impl = r.impl /\ q.state = "done" /\ q.sig = "none"
    <3>1. CASE q = doneResetPatch(r, no)
      BY <1>1, <3>1, LeavingFacts
    <3>2. CASE q = doneResetPatch(r, yes)
      BY <1>1, <3>2, LeavingFacts
    <3> QED BY <1>7, <3>1, <3>2
  <2>2. q.pr => r.pr \/ github[i].pr = "merged"
    BY <1>7, <1>10
  <2> QED BY <2>1, <2>2 DEF Waits
<1>8. CASE q = QueuedAfresh(r) \/ (r.state = "blocked" /\ q = Queued(r))
  BY <1>1, <1>6, <1>8, QueuedFacts DEF Waits
<1>9. CASE q = [bare EXCEPT !.state = "blocked", !.reason = "manual_review", !.why = "none",
                            !.ctx = yes, !.stale = zero]
  <2>1. bare \in Record /\ bare.impl = r.impl /\ bare.pr = r.pr /\ bare.sig = "none"
    BY <1>1, <1>4 DEF Record
  <2> HIDE DEF bare
  <2> QED BY <1>1, <1>3, <1>4, <1>9, <2>1 DEF Record, Waits
<1> QED BY <1>2, <1>7, <1>8, <1>9
-----------------------------------------------------------------------------
(* The ways through the prelude.                                             *)

Recovering == Recover \/ RecoverMerged \/ RecoverDegraded
Choosing == Select \/ Choose \/ ChooseDegraded

\* A recovery leaves the cycle where it was, or ends it, and gives a reservation
\* up or keeps one that is not done.
LEMMA RecoveringFacts ==
    ASSUME Recovering
    PROVE  /\ pc = "recover"
           /\ UNCHANGED <<marker, moved, branch, github, helps, cutShort, opened>>
           /\ \/ pc' = "idle" /\ work' = None /\ interrupted' = FALSE /\ retried' = FALSE
              \/ pc' \in {"choose", "degraded", "select"} /\ UNCHANGED <<work, interrupted, retried>>
           /\ active' = None \/ (active' = active /\ rec'[active].state # "done")
           /\ faults' = faults \/ (faults < MaxFaults /\ faults' = faults + 1)
<1> USE DEF At, GoTo, EndCycle
<1>1. CASE Recover
  BY <1>1 DEF Recover
<1>2. CASE RecoverMerged
  BY <1>2 DEF RecoverMerged, Release, history
<1>3. CASE RecoverDegraded
  BY <1>3 DEF RecoverDegraded
<1> QED BY <1>1, <1>2, <1>3 DEF Recovering

\* It changes a record as the recoveries of the inventory do, if at all.
LEMMA RecoveringRecords ==
    ASSUME TypeOK, Recovering
    PROVE  /\ rec' = [i \in Issue |-> rec'[i]]
           /\ \A i \in Issue : rec'[i] = rec[i] \/ rec'[i] \in Recovered(i)
           /\ edited' \in [Issue -> {"no", "comment", "body"}]
<1>1. CASE Recover
  <2>1. rec' = [i \in Issue |-> rec'[i]] /\ \A i \in Issue : rec'[i] = rec[i] \/ rec'[i] \in Recovered(i)
    BY <1>1 DEF Recover
  <2>2. edited' = [i \in Issue |-> IF rec'[i] # rec[i] THEN "no" ELSE edited[i]]
    BY <1>1 DEF Recover
  <2> QED BY <2>1, <2>2 DEF TypeOK
<1>2. CASE RecoverMerged
  <2>1. active \in Issue /\ Touch(active, {doneResetPatch(rec[active], TRUE)})
    BY <1>2 DEF RecoverMerged, ReservedMerged, TypeOK
  <2>2. Recovered(active) = {doneResetPatch(rec[active], TRUE)}
    BY <1>2 DEF RecoverMerged, ReservedMerged, Recovered
  <2> DEFINE q == doneResetPatch(rec[active], TRUE)
  <2> HIDE DEF q
  <2>3. rec' = [rec EXCEPT ![active] = q] /\ edited' = [edited EXCEPT ![active] = "no"]
    BY <2>1 DEF Touch, q
  <2>4. q \in Recovered(active)
    BY <2>2 DEF q
  <2> QED BY <2>1, <2>3, <2>4 DEF TypeOK
<1>3. CASE RecoverDegraded
  <2>1. ASSUME NEW i \in Issue
        PROVE  RecoveredDegraded(i) \subseteq {rec[i]} \cup Recovered(i)
    <3>1. CASE i = active /\ ReservedMerged
      BY <3>1 DEF RecoveredDegraded, ReservedMerged, Recovered
    <3>2. CASE ~(i = active /\ ReservedMerged)
      BY <3>2 DEF RecoveredDegraded
    <3> QED BY <3>1, <3>2
  <2>2. rec' = [i \in Issue |-> rec'[i]] /\ \A i \in Issue : rec'[i] \in RecoveredDegraded(i)
    BY <1>3 DEF RecoverDegraded
  <2>3. edited' = [i \in Issue |-> IF rec'[i] # rec[i] THEN "no" ELSE edited[i]]
    BY <1>3 DEF RecoverDegraded
  <2> QED BY <2>1, <2>2, <2>3 DEF TypeOK
<1> QED BY <1>1, <1>2, <1>3 DEF Recovering

\* A choice keeps the reservation there is, or makes one of an eligible issue; a
\* record that it puts back loses the reservation.
LEMMA ChoosingFacts ==
    ASSUME Choosing
    PROVE  /\ pc \in {"choose", "degraded", "select"}
           /\ UNCHANGED <<marker, moved, branch, github, history>>
           /\ \/ /\ pc' = "idle" /\ work' = None /\ interrupted' = FALSE /\ retried' = FALSE
                 /\ active' \in {active, None}
              \/ /\ pc' \in {"normalize", "resolve"} /\ ~interrupted
                 /\ UNCHANGED <<rec, edited, interrupted, retried>>
                 /\ work' = active'
                 /\ IF active = None THEN active' \in Eligible /\ active' \in Issue ELSE active' = active
           /\ \/ UNCHANGED <<rec, edited>>
              \/ \E i \in Eligible \cup {active} :
                    (active = None => i \in Eligible /\ i \in Issue)
                    /\ (active # None => i = active) /\ Touch(i, {PutBack(rec[i])})
<1> USE DEF At, GoTo, EndCycle, Take, Release
<1>1. CASE Select \/ Choose
  BY <1>1 DEF Select, Choose, SelectFor, Selectable, Eligible, world
<1>2. CASE ChooseDegraded
  BY <1>2 DEF ChooseDegraded, Eligible
<1> QED BY <1>1, <1>2 DEF Choosing
-----------------------------------------------------------------------------
(* What a step may make of a record.                                         *)

\* Only these steps give a record a guarded state.
MayGuard == \/ pc \in {"infer", "begin"}
            \/ pc = "prepare" /\ rec[work].impl = 0
            \/ pc = "returned" /\ moved[work]

Fit(i, q) ==
    /\ q \in Record /\ Waits(q)
    /\ q.pr => github[i].pr # "none"
    /\ rec[i].impl > 0 => q.impl > 0
    /\ Guarded(q) => Guarded(rec[i]) \/ (i = work /\ MayGuard)
    /\ q = rec[i] \/ (q.sig = "stale" => q.ctx) \/ (i = work /\ pc \in {"begin", "returned"})

Fits == rec' \in [Issue -> Record] /\ \A i \in Issue : Fit(i, rec'[i])

\* A record that a step leaves alone fits.
LEMMA KeptFits ==
    ASSUME RunInv, NEW i \in Issue
    PROVE  Fit(i, rec[i])
<1> QED BY DEF RunInv, TypeOK, StaleWaits, KnownPullRequest, Fit

\* A step that changes no record.
LEMMA UnchangedFits ==
    ASSUME RunInv, UNCHANGED rec
    PROVE  Fits
<1> QED BY KeptFits DEF RunInv, TypeOK, Fits

\* A touch of one record with something that fits.
LEMMA TouchFits ==
    ASSUME RunInv, NEW i \in Issue, NEW S, Touch(i, S), \A q \in S : Fit(i, q)
    PROVE  Fits
<1>1. PICK q \in S : rec' = [rec EXCEPT ![i] = q]
  BY DEF Touch
<1>2. Fit(i, q) /\ q \in Record
  BY DEF Fit
<1>3. rec \in [Issue -> Record]
  BY DEF RunInv, TypeOK
<1>4. rec' \in [Issue -> Record] /\ rec'[i] = q /\ \A j \in Issue \ {i} : rec'[j] = rec[j]
  BY <1>1, <1>2, <1>3
<1> QED BY <1>2, <1>4, KeptFits DEF Fits

\* A record that stops or waits, with the attempts it had, fits.
LEMMA StoppedFits ==
    ASSUME RunInv, NEW i \in Issue, NEW q \in Record,
           q.state \in {"blocked", "failed", "queued", "done"},
           q.impl = rec[i].impl, q.pr => rec[i].pr \/ github[i].pr # "none",
           q.state = "failed" => q.impl > 0,
           q.sig = "stale" => q.ctx /\ q.impl > 0
    PROVE  Fit(i, q)
<1> QED BY DEF RunInv, KnownPullRequest, Fit, Waits, Guarded, OWNER_GUARDED_ACTIVE_STATES

\* What Blocked makes of a record fits.
LEMMA BlockedFits ==
    ASSUME RunInv, NEW i \in Issue, NEW reason \in Reason, NEW why \in Why,
           NEW sig \in Signature \ {"stale"}, NEW ctx \in BOOLEAN,
           NEW q \in Blocked(rec[i], reason, why, sig, ctx)
    PROVE  Fit(i, q)
<1>1. rec[i] \in Record
  BY DEF RunInv, TypeOK
<1>2. q \in Record /\ q.state = "blocked" /\ q.impl = rec[i].impl /\ q.pr = rec[i].pr /\ q.sig = sig
  BY <1>1, BlockedFacts
<1> QED BY <1>2, StoppedFits

\* What Failed makes of a record fits.
LEMMA FailedFits ==
    ASSUME RunInv, NEW i \in Issue, rec[i].impl > 0, NEW why \in Why, NEW q \in Failed(rec[i], why)
    PROVE  Fit(i, q)
<1>1. rec[i] \in Record
  BY DEF RunInv, TypeOK
<1>2. q \in Record /\ q.state = "failed" /\ q.impl = rec[i].impl /\ q.pr = rec[i].pr /\ q.sig = "other"
  BY <1>1, FailedFacts
<1> QED BY <1>2, StoppedFits

\* A record may be tracked once its pull request exists.
LEMMA TrackedFits ==
    ASSUME RunInv, NEW i \in Issue, github[i].pr # "none"
    PROVE  Fit(i, Tracked(rec[i]))
<1>1. rec[i] \in Record
  BY DEF RunInv, TypeOK
<1> QED BY <1>1, LeavingFacts DEF Fit, Waits, Guarded, OWNER_GUARDED_ACTIVE_STATES

\* A stopped record may go back to the queue.
LEMMA QueuedFits ==
    ASSUME RunInv, NEW i \in Issue, rec[i].state \in {"blocked", "failed"}
    PROVE  Fit(i, Queued(rec[i]))
<1>1. rec[i] \in Record /\ Waits(rec[i])
  BY DEF RunInv, TypeOK, StaleWaits
<1> QED BY <1>1, QueuedFacts, StoppedFits DEF Waits

\* The names of the data a patch may use.
LEMMA Names ==
    /\ {"none", "handoff_missing", "manual_review", "verification", "unknown", "manual_pr_closed"} \subseteq Reason
    /\ {"none", "timeout", "command_error", "codex_exit", "codex_failed", "verify"} \subseteq Why
    /\ {"none", "handoff-missing", "no-handoff", "other"} \subseteq Signature \ {"stale"}
    /\ {TRUE, FALSE} \subseteq BOOLEAN
<1> QED BY DEF Reason, Why, Signature

\* The cycle's own issue.
LEMMA Working ==
    ASSUME RunInv, pc \in AtWork \cup {"clear", "unmark"}
    PROVE  work \in Issue /\ rec[work] \in Record
<1> QED BY DEF RunInv, TypeOK, WorkReserved

\* Gates of publication block a record.
LEMMA GateFits ==
    ASSUME RunInv, pc \in AtWork, GateBlocks
    PROVE  Fits
<1>1. work \in Issue
  BY Working
<1>2. PICK why \in {"verify", "none"} : Touch(work, Blocked(rec[work], "verification", why, "other", TRUE))
  BY DEF GateBlocks
<1> DEFINE S == Blocked(rec[work], "verification", why, "other", TRUE)
<1>3. \A q \in S : Fit(work, q)
  BY <1>1, BlockedFits, Names
<1> HIDE DEF S
<1>4. Touch(work, S)
  BY <1>2 DEF S
<1> QED BY <1>1, <1>3, <1>4, TouchFits

\* Outcomes that fail the record fit.
LEMMA FailingFits ==
    ASSUME RunInv, pc \in AtWork, rec[work].impl > 0,
           NEW why \in Why, Touch(work, Failed(rec[work], why))
    PROVE  Fits
<1>1. work \in Issue
  BY Working
<1>2. \A q \in Failed(rec[work], why) : Fit(work, q)
  BY <1>1, FailedFits
<1> QED BY <1>1, <1>2, TouchFits

\* A turn has an attempt.
LEMMA TurnHasAttempt ==
    ASSUME RunInv, pc \in {"mark"} \cup TurnPcs
    PROVE  /\ work \in Issue /\ pc \in AtWork /\ rec[work].impl > 0
<1> QED BY Working DEF RunInv, TurnKnown, TurnReady, AtWork, TurnPcs

\* Outcomes that block the record fit.
LEMMA BlockingFits ==
    ASSUME RunInv, NEW i \in Issue, NEW reason \in Reason, NEW why \in Why,
           NEW sig \in Signature \ {"stale"}, NEW ctx \in BOOLEAN,
           Touch(i, Blocked(rec[i], reason, why, sig, ctx))
    PROVE  Fits
<1>1. \A q \in Blocked(rec[i], reason, why, sig, ctx) : Fit(i, q)
  BY BlockedFits
<1> QED BY <1>1, TouchFits

\* A touch of one record with one value.
LEMMA OneFits ==
    ASSUME RunInv, NEW i \in Issue, NEW q, Touch(i, {q}), Fit(i, q)
    PROVE  Fits
<1> QED BY TouchFits

\* The prelude's steps.
LEMMA AuthFailsFits ==
    ASSUME RunInv, AuthFails
    PROVE  Fits
<1>1. CASE active = None
  BY <1>1, UnchangedFits DEF AuthFails
<1>2. CASE active # None
  <2>1. active \in Issue /\ Touch(active, Blocked(rec[active], "unknown", "command_error", "other", FALSE))
    BY <1>2 DEF AuthFails, RunInv, TypeOK
  <2>2. "unknown" \in Reason /\ "command_error" \in Why /\ "other" \in Signature \ {"stale"} /\ FALSE \in BOOLEAN
    BY Names
  <2> QED BY <2>1, <2>2, BlockingFits
<1> QED BY <1>1, <1>2

\* The report of an interrupted turn stops the record.
LEMMA ReportFits ==
    ASSUME RunInv, NEW i \in Issue, ReportInterrupted(i)
    PROVE  Fits
<1> DEFINE yes == TRUE
           zero == 0
           B == Blocked(rec[i], "handoff_missing", "none", "handoff-missing", yes)
           S == {[r EXCEPT !.stale = zero] : r \in B}
<1>1. Touch(i, S)
  BY DEF ReportInterrupted
<1>2. ASSUME NEW b \in B
      PROVE  Fit(i, [b EXCEPT !.stale = zero])
  <2>1. rec[i] \in Record /\ yes \in BOOLEAN
    BY DEF RunInv, TypeOK
  <2>2. /\ b \in Record /\ b.state = "blocked" /\ b.impl = rec[i].impl /\ b.pr = rec[i].pr
        /\ b.sig = "handoff-missing"
    <3>1. /\ "handoff_missing" \in Reason /\ "none" \in Why /\ "handoff-missing" \in Signature
          /\ b \in Blocked(rec[i], "handoff_missing", "none", "handoff-missing", yes)
      BY Names
    <3> HIDE DEF yes
    <3> QED BY <2>1, <3>1, BlockedFacts
  <2>3. zero \in Nat
    OBVIOUS
  <2> DEFINE q == [b EXCEPT !.stale = zero]
  <2>4. /\ q \in Record /\ q.state = "blocked" /\ q.impl = rec[i].impl /\ q.pr = rec[i].pr
        /\ q.sig = "handoff-missing"
    <3> HIDE DEF zero, B
    <3> QED BY <2>2, <2>3 DEF Record
  <2> HIDE DEF q
  <2>5. Fit(i, q)
    BY <2>4, StoppedFits
  <2> QED BY <2>5 DEF q
<1>3. \A q \in S : Fit(i, q)
  <2> HIDE DEF B
  <2> QED BY <1>2
<1> HIDE DEF S
<1> QED BY <1>1, <1>3, TouchFits

\* An abandoned reservation gives no record a guarded state.
LEMMA AbandonFits ==
    ASSUME RunInv, NEW i \in Issue, Abandon(i)
    PROVE  Fits
<1>1. ASSUME NEW q \in Abandoned(i)
      PROVE  Fit(i, q)
  <2>1. TypeOK /\ Waits(rec[i]) /\ rec[i] \in Record
    BY DEF RunInv, StaleWaits, TypeOK
  <2>2. /\ q \in Record /\ q.impl = rec[i].impl /\ (q.pr => rec[i].pr) /\ Waits(q)
        /\ q.sig = "stale" => q.ctx
        /\ q.state = rec[i].state \/ q.state \in {"queued", "blocked"}
    BY <2>1, AbandonedFacts
  <2> QED BY <2>2 DEF RunInv, KnownPullRequest, Fit, Guarded, OWNER_GUARDED_ACTIVE_STATES
<1>2. Touch(i, Abandoned(i))
  BY DEF Abandon
<1> QED BY <1>1, <1>2, TouchFits

\* The three ways of reconcileStaleActiveIssueReservation.
LEMMA ReserveFits ==
    ASSUME RunInv, Reserve
    PROVE  Fits
<1>1. CASE KeepOrDrop
  BY <1>1, UnchangedFits DEF KeepOrDrop
<1>2. CASE active # None /\ ReportInterrupted(active)
  BY <1>2, ReportFits DEF RunInv, TypeOK
<1>3. CASE active # None /\ Abandon(active)
  BY <1>3, AbandonFits DEF RunInv, TypeOK
<1> QED BY <1>1, <1>2, <1>3 DEF Reserve

\* The prelude's recoveries, whichever issues they reached.
LEMMA RecoverFits ==
    ASSUME RunInv, Recovering
    PROVE  Fits
<1>1. /\ \A i \in Issue : rec'[i] = rec[i] \/ rec'[i] \in Recovered(i)
      /\ rec' = [i \in Issue |-> rec'[i]]
  BY RecoveringRecords DEF RunInv
<1>2. ASSUME NEW i \in Issue
      PROVE  Fit(i, rec'[i])
  <2>1. CASE rec'[i] = rec[i]
    BY <2>1, KeptFits
  <2>2. CASE rec'[i] # rec[i]
    <3>1. TypeOK /\ Waits(rec[i])
      BY DEF RunInv, StaleWaits
    <3> DEFINE q == rec'[i]
    <3>2. q \in Recovered(i) /\ q # rec[i]
      BY <1>1, <2>2
    <3> HIDE DEF q
    <3>3. /\ q \in Record /\ q.impl = rec[i].impl /\ Waits(q)
          /\ q.sig = "stale" => q.ctx
          /\ q.pr => rec[i].pr \/ github[i].pr = "merged"
          /\ q.state \in {"queued", "blocked", "done"}
      BY <3>1, <3>2, RecoveredFacts
    <3>4. Fit(i, q)
      BY <3>3 DEF RunInv, KnownPullRequest, Fit, Guarded, OWNER_GUARDED_ACTIVE_STATES
    <3> QED BY <3>4 DEF q
  <2> QED BY <2>1, <2>2
<1>3. \A i \in Issue : rec'[i] \in Record
  BY <1>2 DEF Fit
<1>4. rec' \in [Issue -> Record]
  BY <1>1, <1>3
<1> QED BY <1>2, <1>4 DEF Fits

\* A record is put back as it was but for its state.
LEMMA ChoosingFits ==
    ASSUME RunInv, Choosing
    PROVE  Fits
<1>1. CASE UNCHANGED rec
  BY <1>1, UnchangedFits
<1>2. ASSUME NEW i, i \in Issue, Touch(i, {PutBack(rec[i])})
      PROVE  Fits
  <2> DEFINE r == rec[i]
             why == IF r.why = "verify" THEN "none" ELSE r.why
             q == [r EXCEPT !.state = "queued", !.why = why]
  <2>1. r \in Record /\ Waits(r) /\ (r.sig = "stale" => r.ctx)
    BY <1>2, ChoosingFacts DEF RunInv, TypeOK, StaleWaits, StaleReserved, TurnPcs
  <2>2. why \in Why /\ "queued" \in RunState
    BY <2>1, Names DEF Record, RunState
  <2> HIDE DEF why
  <2>3. /\ q \in Record /\ q.state = "queued" /\ q.impl = r.impl /\ q.pr = r.pr
        /\ q.sig = r.sig /\ q.ctx = r.ctx
    BY <2>1, <2>2 DEF Record
  <2>4. PutBack(r) = q
    BY DEF PutBack, why
  <2> HIDE DEF q
  <2>5. Fit(i, q)
    BY <1>2, <2>1, <2>3, StoppedFits DEF Waits
  <2> QED BY <1>2, <2>4, <2>5, OneFits
<1>3. UNCHANGED rec \/ \E i \in Issue : Touch(i, {PutBack(rec[i])})
  BY ChoosingFacts DEF RunInv, TypeOK
<1> QED BY <1>1, <1>2, <1>3

\* The steps of the issue phase.
LEMMA NormalizeFits ==
    ASSUME RunInv, Normalize
    PROVE  Fits
<1> DEFINE r == rec[work]
           p == Queued(r)
           more == p.verifs + 1
           q == [p EXCEPT !.reason = "verification", !.verifs = more]
<1>1. work \in Issue /\ r \in Record /\ Waits(r)
  BY Working DEF Normalize, At, AtWork, RunInv, StaleWaits
<1>2. CASE UNCHANGED rec
  BY <1>2, UnchangedFits
<1>3. CASE shouldAutoRetryTimeout(r) /\ Touch(work, {p})
  <2>1. r.state = "failed"
    BY <1>3 DEF shouldAutoRetryTimeout
  <2> QED BY <1>1, <1>3, <2>1, QueuedFits, OneFits
<1>4. CASE shouldAutoRetryBlockedVerification(r) /\ Touch(work, {q})
  <2>1. r.state = "blocked"
    BY <1>4 DEF shouldAutoRetryBlockedVerification
  <2>2. /\ p \in Record /\ p.state = "queued" /\ p.impl = r.impl /\ p.pr = r.pr
        /\ p.sig = r.sig /\ p.ctx = r.ctx
    BY <1>1, QueuedFacts
  <2>3. more \in Nat /\ "verification" \in Reason
    <3> HIDE DEF p
    <3> QED BY <2>2 DEF Record, Reason
  <2>4. /\ q \in Record /\ q.state = "queued" /\ q.impl = r.impl /\ q.pr = r.pr
        /\ q.sig = r.sig /\ q.ctx = r.ctx
    <3> HIDE DEF p, more
    <3> QED BY <2>2, <2>3 DEF Record
  <2>5. Touch(work, {q})
    BY <1>4
  <2> HIDE DEF q
  <2>6. Fit(work, q)
    BY <1>1, <2>1, <2>4, StoppedFits DEF Waits
  <2> QED BY <1>1, <2>5, <2>6, OneFits
<1>5. \/ UNCHANGED rec
      \/ shouldAutoRetryTimeout(r) /\ Touch(work, {p})
      \/ shouldAutoRetryBlockedVerification(r) /\ Touch(work, {q})
  BY DEF Normalize
<1> QED BY <1>2, <1>3, <1>4, <1>5

\* A closed issue is done, an exhausted one fails.
LEMMA ResolveFits ==
    ASSUME RunInv, Resolve
    PROVE  Fits
<1> DEFINE r == rec[work]
           q == [r EXCEPT !.state = "done"]
<1>1. work \in Issue /\ r \in Record /\ pc \in AtWork /\ pc = "resolve" /\ Waits(r)
      /\ (r.sig = "stale" => r.ctx)
  BY Working DEF Resolve, At, AtWork, RunInv, StaleWaits, StaleReserved, TurnPcs
<1>2. CASE UNCHANGED rec
  BY <1>2, UnchangedFits
<1>3. CASE Touch(work, {q})
  <2>1. /\ q \in Record /\ q.state = "done" /\ q.impl = r.impl /\ q.pr = r.pr
        /\ q.sig = r.sig /\ q.ctx = r.ctx
    BY <1>1 DEF Record, RunState
  <2>2. Fit(work, q)
    <3> HIDE DEF q
    <3> QED BY <1>1, <2>1 DEF RunInv, KnownPullRequest, Fit, Waits, Guarded, OWNER_GUARDED_ACTIVE_STATES
  <2> HIDE DEF q
  <2> QED BY <1>1, <1>3, <2>2, OneFits
<1>4. CASE ~hasAttemptBudget(r) /\ Touch(work, Failed(r, "command_error"))
  <2>1. r.impl > 0
    BY <1>1, <1>4, RunAssumption DEF hasAttemptBudget, Record
  <2> QED BY <1>1, <1>4, <2>1, FailingFits, Names
<1> QED BY <1>2, <1>3, <1>4 DEF Resolve

\* Only a record without attempts is planned; any other keeps what its
\* recovery counted.
LEMMA PrepareFits ==
    ASSUME RunInv, Prepare
    PROVE  /\ Fits
           /\ rec'[work].impl = rec[work].impl
           /\ rec[work].impl # 0 => /\ rec'[work].state = rec[work].state
                                    /\ rec'[work].sig = rec[work].sig
                                    /\ rec'[work].stale = rec[work].stale
                                    /\ rec'[work].repeats = rec[work].repeats
           /\ rec'[work].pr = rec[work].pr
<1> DEFINE r == rec[work]
           next == IF r.impl = 0 THEN "planning" ELSE r.state
           q == [r EXCEPT !.state = next, !.why = "none", !.reason = "none"]
<1>1. work \in Issue /\ r \in Record /\ pc \in AtWork /\ pc = "prepare" /\ rec \in [Issue -> Record]
      /\ Waits(r) /\ (r.pr => github[work].pr # "none") /\ (r.sig = "stale" => r.ctx)
  BY Working DEF Prepare, At, AtWork, RunInv, TypeOK, StaleWaits, KnownPullRequest, StaleReserved, TurnPcs
<1>2. Touch(work, {q})
  BY DEF Prepare
<1>3. next \in RunState /\ "none" \in Why /\ "none" \in Reason
      /\ (next = r.state \/ (next = "planning" /\ r.impl = 0))
      /\ (r.impl # 0 => next = r.state)
  BY <1>1 DEF Record, RunState, Why, Reason
<1> HIDE DEF next
<1>4. /\ q \in Record /\ q.state = next /\ q.impl = r.impl /\ q.pr = r.pr
      /\ q.sig = r.sig /\ q.ctx = r.ctx /\ q.stale = r.stale /\ q.repeats = r.repeats
  BY <1>1, <1>3 DEF Record
<1> HIDE DEF q
<1>5. Waits(q)
  BY <1>1, <1>3, <1>4 DEF Waits
<1>6. Guarded(q) => Guarded(r) \/ MayGuard
  BY <1>1, <1>3, <1>4 DEF Guarded, MayGuard
<1>7. Fit(work, q)
  BY <1>1, <1>4, <1>5, <1>6 DEF Fit
<1>8. rec'[work] = q
  BY <1>1, <1>2 DEF Touch
<1> QED BY <1>1, <1>2, <1>3, <1>4, <1>7, <1>8, OneFits

\* What GitHub says of the branch tracks or stops the record.
LEMMA HydrateFits ==
    ASSUME RunInv, Hydrate
    PROVE  Fits
<1> DEFINE r == rec[work]
           yes == TRUE
           q == [r EXCEPT !.state = "done", !.pr = yes]
           B == Blocked(r, "manual_pr_closed", "none", "other", FALSE)
           S == {[b EXCEPT !.pr = yes] : b \in B}
<1>1. work \in Issue /\ r \in Record /\ pc \in AtWork /\ yes \in BOOLEAN /\ Waits(r)
      /\ (r.sig = "stale" => r.ctx)
  BY Working DEF Hydrate, At, AtWork, RunInv, StaleWaits, StaleReserved, TurnPcs
<1>2. CASE UNCHANGED rec
  BY <1>2, UnchangedFits
<1>3. CASE github[work].pr = "open" /\ Touch(work, {Tracked(r)})
  BY <1>1, <1>3, TrackedFits, OneFits
<1>4. CASE github[work].pr = "merged" /\ Touch(work, {q})
  <2>1. /\ q \in Record /\ q.state = "done" /\ q.impl = r.impl
        /\ q.sig = r.sig /\ q.ctx = r.ctx
    <3> HIDE DEF yes
    <3> QED BY <1>1 DEF Record, RunState
  <2>2. Fit(work, q)
    <3> HIDE DEF q
    <3> QED BY <1>1, <1>4, <2>1 DEF Fit, Waits, Guarded, OWNER_GUARDED_ACTIVE_STATES
  <2>3. Touch(work, {q})
    BY <1>4
  <2> HIDE DEF q
  <2> QED BY <1>1, <2>2, <2>3, OneFits
<1>5. CASE github[work].pr = "closed" /\ Touch(work, S)
  <2>1. ASSUME NEW b \in B
        PROVE  Fit(work, [b EXCEPT !.pr = yes])
    <3> DEFINE p == [b EXCEPT !.pr = yes]
    <3>1. b \in Record /\ b.state = "blocked" /\ b.impl = r.impl /\ b.sig = "other"
      <4> DEFINE no == FALSE
      <4>1. no \in BOOLEAN /\ b \in Blocked(r, "manual_pr_closed", "none", "other", no)
        OBVIOUS
      <4>2. "manual_pr_closed" \in Reason /\ "none" \in Why /\ "other" \in Signature
        BY Names
      <4> HIDE DEF no
      <4> QED BY <1>1, <4>1, <4>2, BlockedFacts
    <3>2. p \in Record /\ p.state = "blocked" /\ p.impl = r.impl /\ p.sig = "other"
      <4> HIDE DEF yes, B
      <4> QED BY <1>1, <3>1 DEF Record
    <3> HIDE DEF p
    <3>3. Fit(work, p)
      BY <1>1, <1>5, <3>2 DEF Fit, Waits, Guarded, OWNER_GUARDED_ACTIVE_STATES
    <3> QED BY <3>3 DEF p
  <2>2. \A p \in S : Fit(work, p)
    <3> HIDE DEF B
    <3> QED BY <2>1
  <2>3. Touch(work, S)
    BY <1>5
  <2> HIDE DEF S
  <2> QED BY <1>1, <2>2, <2>3, TouchFits
<1>6. CASE GateBlocks
  BY <1>1, <1>6, GateFits
<1> QED BY <1>2, <1>3, <1>4, <1>5, <1>6 DEF Hydrate

\* A refused pull request fails the turn.
LEMMA PublishRefusedFits ==
    ASSUME RunInv, PublishRefused
    PROVE  Fits
<1>1. CASE UNCHANGED rec
  BY <1>1, UnchangedFits
<1>2. CASE pc = "publishTurn" /\ Touch(work, Failed(rec[work], "command_error"))
  BY <1>2, FailingFits, TurnHasAttempt, Names DEF TurnPcs
<1> QED BY <1>1, <1>2 DEF PublishRefused

\* The new pull request exists before its number is saved.
LEMMA TrackOpenedFits ==
    ASSUME RunInv, TrackOpened
    PROVE  Fits
<1>1. work \in Issue /\ github[work].pr # "none"
  BY Working DEF TrackOpened, AtWork, TurnPcs, RunInv, KnownPullRequest
<1>2. Touch(work, {Tracked(rec[work])})
  BY DEF TrackOpened
<1> QED BY <1>1, <1>2, TrackedFits, OneFits

\* The state a turn starts with; it is guarded unless the branch awaits its draft.
LEMMA InferFits ==
    ASSUME RunInv, Infer
    PROVE  Fits
<1> DEFINE r == rec[work]
           next == inferStateWithoutPullRequest(r, branch[work])
           q == resetNoPrLifecycleFailureTracking(r, next)
<1>1. work \in Issue /\ r \in Record /\ pc = "infer" /\ Waits(r)
  BY Working DEF Infer, At, AtWork, RunInv, StaleWaits
<1>2. /\ next \in RunState /\ next \in {"reproducing", "draft_pr", "stabilizing"}
      /\ next = "stabilizing" => r.impl > 0
      /\ r.sig = "stale" => r.impl > 0 /\ next # "reproducing"
  BY <1>1, InferFacts DEF RunState, Record, Waits
<1>3. /\ q \in Record /\ q.impl = r.impl /\ q.pr = r.pr /\ q.state = next
      /\ q.sig = "stale" => q.ctx /\ r.sig = "stale"
  BY <1>1, <1>2, ResetFacts
<1>4. Touch(work, {q})
  BY DEF Infer
<1> HIDE DEF q, next
<1>5. Fit(work, q)
  BY <1>1, <1>2, <1>3 DEF RunInv, KnownPullRequest, Fit, Waits, MayGuard
<1> QED BY <1>1, <1>4, <1>5, OneFits

\* The attempt is counted before the agent starts.
LEMMA BeginTurnFits ==
    ASSUME RunInv, BeginTurn
    PROVE  Fits /\ rec'[work].impl > 0 /\ Guarded(rec'[work])
<1> DEFINE r == rec[work]
           no == FALSE
           next == inferStateWithoutPullRequest(r, branch[work])
           more == AtMost(r.impl + 1, ImplCap)
           q == [r EXCEPT !.state = next, !.impl = more, !.ctx = no, !.reason = "none"]
<1>1. work \in Issue /\ r \in Record /\ pc = "begin" /\ no \in BOOLEAN /\ rec \in [Issue -> Record]
      /\ Waits(r)
  BY Working DEF BeginTurn, At, AtWork, RunInv, TypeOK, StaleWaits
<1>2. /\ next \in {"reproducing", "stabilizing"} /\ next \in RunState
      /\ r.sig = "stale" => next = "stabilizing"
  BY <1>1, InferFacts DEF RunInv, TurnKnown, TurnReady, RunState, Waits, Record
<1>3. more \in Nat /\ more > 0
  BY <1>1, RunAssumption DEF AtMost, ImplCap, Record
<1>4. Touch(work, {q})
  BY DEF BeginTurn
<1> HIDE DEF next, more, no
<1>5. q \in Record /\ q.state = next /\ q.impl = more /\ q.pr = r.pr /\ q.sig = r.sig
  BY <1>1, <1>2, <1>3 DEF Record, Reason
<1> HIDE DEF q
<1>6. Fit(work, q)
  BY <1>1, <1>2, <1>3, <1>5 DEF RunInv, KnownPullRequest, Fit, Waits, MayGuard
<1>7. rec'[work] = q
  BY <1>1, <1>4 DEF Touch
<1>8. Guarded(q)
  BY <1>2, <1>5 DEF Guarded, OWNER_GUARDED_ACTIVE_STATES
<1> QED BY <1>1, <1>3, <1>4, <1>5, <1>6, <1>7, <1>8, OneFits

\* The ways a turn may end.
LEMMA NoHandoffFits ==
    ASSUME RunInv, NoHandoff
    PROVE  Fits
<1>1. work \in Issue
  BY Working DEF NoHandoff, At, AtWork, TurnPcs
<1>2. Touch(work, Blocked(rec[work], "handoff_missing", "none", "no-handoff", TRUE))
  BY DEF NoHandoff, Conclude
<1>3. "handoff_missing" \in Reason /\ "none" \in Why /\ "no-handoff" \in Signature \ {"stale"} /\ TRUE \in BOOLEAN
  BY Names
<1> QED BY <1>1, <1>2, <1>3, BlockingFits

\* A failed turn fails the record.
LEMMA TurnFailsFits ==
    ASSUME RunInv, TurnFails \/ TurnThrows
    PROVE  Fits
<1>1. PICK why \in {"timeout", "command_error", "codex_exit"} : Touch(work, Failed(rec[work], why))
  BY DEF TurnFails, TurnThrows, Conclude
<1>2. why \in Why /\ pc \in AtWork /\ rec[work].impl > 0
  BY Names, TurnHasAttempt DEF TurnFails, TurnThrows, At, TurnPcs
<1> QED BY <1>1, <1>2, FailingFits

\* A stop the agent asked for.
LEMMA HintedStopFits ==
    ASSUME RunInv, HintedStop
    PROVE  Fits
<1>1. pc \in AtWork /\ work \in Issue /\ rec[work].impl > 0
  BY TurnHasAttempt DEF HintedStop, At, TurnPcs
<1>2. CASE Touch(work, Failed(rec[work], "codex_failed"))
  BY <1>1, <1>2, FailingFits, Names
<1>3. ASSUME NEW reason \in {"verification", "unknown", "manual_review", "handoff_missing"},
             NEW why \in {"verify", "none"},
             Touch(work, Blocked(rec[work], reason, why, "other", TRUE))
      PROVE  Fits
  <2>1. reason \in Reason /\ why \in Why /\ "other" \in Signature \ {"stale"} /\ TRUE \in BOOLEAN
    BY Names
  <2> QED BY <1>1, <1>3, <2>1, BlockingFits
<1> QED BY <1>2, <1>3 DEF HintedStop, Conclude

\* A refusal blocks, queues a repair or has the agent try once more in the
\* same state.
LEMMA GateRefusesFits ==
    ASSUME RunInv, GateRefuses
    PROVE  /\ Fits
           /\ pc' = "mark" => rec'[work].state = rec[work].state /\ rec'[work].impl = rec[work].impl
<1> DEFINE r == rec[work]
           yes == TRUE
           again == [r EXCEPT !.state = "repairing", !.reason = "none", !.why = "none"]
           once == [r EXCEPT !.why = "none"]
           A == applyFailureSignature(again, "other", yes)
           O == applyFailureSignature(once, "other", yes)
<1>1. work \in Issue /\ r \in Record /\ pc \in AtWork /\ pc = "returned" /\ moved[work]
      /\ yes \in BOOLEAN /\ "other" \in Signature \ {"stale"} /\ rec \in [Issue -> Record]
      /\ r.impl > 0
  BY Working, TurnHasAttempt, Names DEF GateRefuses, At, AtWork, TurnPcs, RunInv, TypeOK
<1>2. CASE GateBlocks /\ pc' = "clear"
  BY <1>1, <1>2, GateFits
<1>3. CASE Touch(work, A) /\ pc' = "clear"
  <2>1. again \in Record /\ again.impl = r.impl /\ again.pr = r.pr /\ again.state = "repairing"
    BY <1>1 DEF Record, RunState, Reason, Why
  <2>2. ASSUME NEW q \in A
        PROVE  Fit(work, q)
    <3>1. /\ q \in Record /\ q.state = "repairing" /\ q.impl = r.impl /\ q.pr = r.pr /\ q.sig = "other"
      <4> HIDE DEF again, yes
      <4> QED BY <1>1, <2>1, SignatureFacts
    <3> QED BY <1>1, <3>1 DEF RunInv, KnownPullRequest, Fit, Waits, MayGuard
  <2>3. Touch(work, A)
    BY <1>3
  <2> HIDE DEF A
  <2> QED BY <1>1, <1>3, <2>2, <2>3, TouchFits
<1>4. CASE Touch(work, O)
  <2>1. once \in Record /\ once.impl = r.impl /\ once.pr = r.pr /\ once.state = r.state
    BY <1>1 DEF Record, Why
  <2>2. ASSUME NEW q \in O
        PROVE  Fit(work, q) /\ q.state = r.state /\ q.impl = r.impl
    <3>1. /\ q \in Record /\ q.state = r.state /\ q.impl = r.impl /\ q.pr = r.pr /\ q.sig = "other"
      <4> HIDE DEF once, yes
      <4> QED BY <1>1, <2>1, SignatureFacts
    <3> QED BY <1>1, <3>1 DEF RunInv, KnownPullRequest, Fit, Waits, MayGuard
  <2>3. Touch(work, O)
    BY <1>4
  <2> HIDE DEF O
  <2>4. rec'[work] \in O
    BY <1>1, <2>3 DEF Touch
  <2> QED BY <1>1, <2>2, <2>3, <2>4, TouchFits
<1> QED BY <1>2, <1>3, <1>4 DEF GateRefuses, GoTo

\* A turn that passes its gates, with or without a pull request.
LEMMA CompleteFits ==
    ASSUME RunInv, Complete
    PROVE  Fits
<1>1. work \in Issue /\ rec[work] \in Record /\ pc = "returned" /\ moved[work] /\ branch[work] \in Branch
      /\ rec[work].impl > 0
  BY Working, TurnHasAttempt DEF Complete, At, AtWork, TurnPcs, RunInv, TypeOK
<1>2. CASE github[work].pr = "open" /\ Touch(work, {Tracked(rec[work])})
  BY <1>1, <1>2, TrackedFits, OneFits
<1>3. CASE UNCHANGED rec
  BY <1>3, UnchangedFits
<1>4. ASSUME NEW hint \in Hints,
             Touch(work, {Completed(rec[work],
                             IF hint = "none" THEN inferStateWithoutPullRequest(rec[work], branch[work])
                             ELSE hint)})
      PROVE  Fits
  <2> DEFINE next == IF hint = "none" THEN inferStateWithoutPullRequest(rec[work], branch[work]) ELSE hint
             q == Completed(rec[work], next)
  <2>1. next \in RunState
    <3>1. inferStateWithoutPullRequest(rec[work], branch[work]) \in RunState
      BY <1>1, InferFacts DEF RunState
    <3> QED BY <3>1 DEF Hints, RunState
  <2> HIDE DEF next
  <2>2. q \in Record /\ q.state = next /\ q.impl = rec[work].impl /\ q.pr = rec[work].pr
        /\ (q.sig = "stale" => next = "stabilizing")
    BY <1>1, <2>1, CompletedFacts
  <2>3. Touch(work, {q})
    BY <1>4 DEF next
  <2> HIDE DEF q
  <2>4. Fit(work, q)
    BY <1>1, <2>2 DEF RunInv, KnownPullRequest, Fit, Waits, MayGuard
  <2> QED BY <1>1, <2>3, <2>4, OneFits
<1> QED BY <1>2, <1>3, <1>4 DEF Complete, Conclude

\* An operator's requeue.
LEMMA RequeueFits ==
    ASSUME RunInv, NEW i \in Issue, OperatorRequeue(i)
    PROVE  Fits
<1> DEFINE r == rec[i]
           no == FALSE
           zero == 0
           p == Queued(r)
           clean == [p EXCEPT !.sig = "none", !.repeats = zero]
           q == [clean EXCEPT !.ctx = no, !.timeouts = zero, !.verifs = zero]
<1>1. r \in Record /\ no \in BOOLEAN /\ zero \in Nat /\ "none" \in Signature
  BY Names DEF RunInv, TypeOK
<1>2. CASE Touch(i, {p})
  BY <1>2, QueuedFits, OneFits DEF OperatorRequeue
<1>3. CASE Touch(i, {q})
  <2>1. p \in Record /\ p.state = "queued" /\ p.impl = r.impl /\ p.pr = r.pr
    BY <1>1, QueuedFacts
  <2>2. clean \in Record /\ clean.state = "queued" /\ clean.impl = r.impl /\ clean.pr = r.pr
        /\ clean.sig = "none"
    <3> HIDE DEF p, zero
    <3> QED BY <1>1, <2>1 DEF Record
  <2>3. q \in Record /\ q.state = "queued" /\ q.impl = r.impl /\ q.pr = r.pr /\ q.sig = "none"
    <3> HIDE DEF clean, zero, no
    <3> QED BY <1>1, <2>2 DEF Record
  <2>4. Touch(i, {q})
    BY <1>3
  <2> HIDE DEF q
  <2>5. Fit(i, q)
    BY <1>1, <2>3, StoppedFits
  <2> QED BY <2>4, <2>5, OneFits
<1>4. Touch(i, {p}) \/ Touch(i, {q})
  BY DEF OperatorRequeue, NoSignature
<1> QED BY <1>2, <1>3, <1>4

\* What any step makes of the records.
LEMMA RecordStep ==
    ASSUME RunInv, [Next]_vars
    PROVE  Fits
<1>1. CASE UNCHANGED rec
  BY <1>1, UnchangedFits
<1>2. CASE AuthFails \/ Reserve \/ Recovering \/ Choosing \/ Normalize \/ Resolve
  BY <1>2, AuthFailsFits, ReserveFits, RecoverFits, ChoosingFits, NormalizeFits, ResolveFits
<1>3. CASE Prepare \/ Hydrate \/ PublishRefused \/ TrackOpened \/ Infer \/ BeginTurn
  BY <1>3, PrepareFits, HydrateFits, PublishRefusedFits, TrackOpenedFits, InferFits, BeginTurnFits
<1>4. CASE NoHandoff \/ TurnFails \/ TurnThrows \/ HintedStop \/ GateRefuses \/ Complete
  BY <1>4, NoHandoffFits, TurnFailsFits, HintedStopFits, GateRefusesFits, CompleteFits
<1>5. ASSUME NEW i \in Issue, OperatorRequeue(i)
      PROVE  Fits
  BY <1>5, RequeueFits
<1>6. CASE \/ StartCycle \/ Unmark \/ Publish \/ Mark \/ AgentWorks \/ Clear \/ Abort
           \/ \E i \in Issue : \/ EditIssue(i) \/ CloseIssue(i) \/ OpenPullRequest(i)
                               \/ MergePullRequest(i) \/ ClosePullRequest(i)
           \/ UNCHANGED vars
  <2>1. UNCHANGED rec
    BY <1>6 DEF StartCycle, Unmark, Publish, Mark, AgentWorks, Clear, Abort, EditIssue, CloseIssue,
            OpenPullRequest, MergePullRequest, ClosePullRequest, vars, disk
  <2> QED BY <2>1, <1>1
<1> QED BY <1>2, <1>3, <1>4, <1>5, <1>6 DEF Next, CycleStep, Recovering, Choosing, TurnStep, Fault, Outside
-----------------------------------------------------------------------------
(* The invariant, conjunct by conjunct.                                      *)

\* The first state.
LEMMA InitRun ==
    ASSUME Init
    PROVE  RunInv
<1>1. createIssueRecord \in Record
  BY DEF createIssueRecord, Record, RunState, Reason, Why, Signature
<1>2. createIssueRecord.sig = "none" /\ ~createIssueRecord.pr /\ createIssueRecord.state = "queued"
  BY DEF createIssueRecord
<1>3. TypeOK
  <2>1. github \in [Issue -> [open : BOOLEAN, pr : PullRequest]]
    <3>1. [open |-> TRUE, pr |-> "none"] \in [open : BOOLEAN, pr : PullRequest]
      BY DEF PullRequest
    <3> QED BY <3>1 DEF Init
  <2>2. faults \in 0..MaxFaults /\ helps \in 0..MaxHelp
    BY RunAssumption DEF Init
  <2>3. rec \in [Issue -> Record]
    BY <1>1 DEF Init
  <2> QED BY <2>1, <2>2, <2>3 DEF Init, TypeOK, Pcs, Branch
<1>4. \A i \in Issue : ~marker[i] /\ rec[i] = createIssueRecord
  BY DEF Init
<1>5. pc = "idle" /\ cutShort = {} /\ \A i \in Issue : opened[i] = 0
  BY DEF Init
<1> QED BY <1>2, <1>3, <1>4, <1>5
    DEF RunInv, WorkReserved, TurnReady, TurnKnown, JournalSynced, LostHeld, HeldLost, StaleWaits, Waits,
        KnownPullRequest, Paid, OverBudgetIsRecovery, OpenedOnce, StaleReserved, DoneApart, AtWork, TurnPcs

\* A touch keeps the record newer than the issue, or not.
LEMMA TouchEdited ==
    ASSUME TypeOK, NEW i, NEW S, Touch(i, S)
    PROVE  edited' \in [Issue -> {"no", "comment", "body"}]
<1> QED BY DEF TypeOK, Touch

\* Bounded counters stay within their bounds.
LEMMA Counted ==
    /\ \A n \in 0..MaxFaults : n < MaxFaults => n + 1 \in 0..MaxFaults
    /\ \A n \in 0..MaxHelp : n < MaxHelp => n + 1 \in 0..MaxHelp
<1> QED BY RunAssumption

\* Types, action by action.
LEMMA TypeStep ==
    ASSUME RunInv, [Next]_vars
    PROVE  TypeOK'
<1>1. TypeOK /\ rec' \in [Issue -> Record]
  BY RecordStep DEF RunInv, Fits
<1> USE DEF TypeOK, disk, world, cycle, history, At, GoTo, EndCycle, Release
<1>2. CASE AuthFails
  BY <1>1, <1>2, TouchEdited, Counted DEF AuthFails
<1>3. CASE StartCycle
  BY <1>1, <1>3 DEF StartCycle, Pcs
<1>4. CASE Reserve
  <2>1. CASE KeepOrDrop
    BY <1>1, <1>4, <2>1 DEF Reserve, KeepOrDrop, Pcs
  <2>2. CASE active \in Issue /\ ReportInterrupted(active)
    BY <1>1, <1>4, <2>2, TouchEdited DEF Reserve, ReportInterrupted, Pcs
  <2>3. CASE active \in Issue /\ Abandon(active)
    BY <1>1, <1>4, <2>3, TouchEdited DEF Reserve, Abandon, Pcs
  <2> QED BY <1>1, <1>4, <2>1, <2>2, <2>3 DEF Reserve
<1>5. CASE Unmark
  BY <1>1, <1>5 DEF Unmark, ClearMarker, Pcs
<1>6. CASE Recovering
  <2>1. edited' \in [Issue -> {"no", "comment", "body"}]
    BY <1>1, <1>6, RecoveringRecords
  <2>2. active' \in Issue \cup {None} /\ pc' \in Pcs /\ work' \in Issue \cup {None}
        /\ interrupted' \in BOOLEAN /\ retried' \in BOOLEAN
    BY <1>1, <1>6, RecoveringFacts DEF Pcs
  <2>3. faults' \in 0..MaxFaults
    BY <1>1, <1>6, Counted, RecoveringFacts
  <2> QED BY <1>1, <1>6, <2>1, <2>2, <2>3, RecoveringFacts
<1>7. CASE Choosing
  <2>2. edited' \in [Issue -> {"no", "comment", "body"}]
    BY <1>1, <1>7, TouchEdited, ChoosingFacts
  <2>1. active' \in Issue \cup {None} /\ pc' \in Pcs /\ work' \in Issue \cup {None}
        /\ interrupted' \in BOOLEAN /\ retried' \in BOOLEAN
    BY <1>1, <1>7, ChoosingFacts DEF Pcs
  <2> QED BY <1>1, <1>7, <2>1, <2>2, ChoosingFacts
<1>8. CASE Normalize
  BY <1>1, <1>8, TouchEdited DEF Normalize, Pcs
<1>9. CASE Resolve
  BY <1>1, <1>9, TouchEdited DEF Resolve, Pcs
<1>10. CASE Prepare
  BY <1>1, <1>10, TouchEdited DEF Prepare, Pcs
<1>11. CASE Hydrate
  <2>1. edited' \in [Issue -> {"no", "comment", "body"}]
    BY <1>1, <1>11, TouchEdited DEF Hydrate, GateBlocks
  <2>2. moved' \in [Issue -> BOOLEAN]
    BY <1>1, <1>11, Working DEF Hydrate, SyncJournal, AtWork
  <2>3. active' \in Issue \cup {None} /\ pc' \in Pcs /\ work' \in Issue \cup {None}
        /\ interrupted' \in BOOLEAN /\ retried' \in BOOLEAN
    BY <1>1, <1>11 DEF Hydrate, Pcs
  <2> QED BY <1>1, <1>11, <2>1, <2>2, <2>3 DEF Hydrate
<1>12. CASE Publish
  <2>1. github' \in [Issue -> [open : BOOLEAN, pr : PullRequest]]
    BY <1>1, <1>12 DEF Publish, PullRequest
  <2>2. opened' \in [Issue -> Nat]
    <3>1. opened' = [opened EXCEPT ![work] = opened[work] + 1] /\ work \in Issue
      BY <1>12, Working DEF Publish, AtWork, TurnPcs
    <3> QED BY <1>1, <3>1
  <2> QED BY <1>1, <1>12, <2>1, <2>2 DEF Publish, Pcs
<1>13. CASE PublishRefused
  BY <1>1, <1>13, TouchEdited DEF PublishRefused, Pcs
<1>14. CASE TrackOpened
  BY <1>1, <1>14, TouchEdited DEF TrackOpened, Pcs
<1>15. CASE Infer
  BY <1>1, <1>15, TouchEdited DEF Infer, Pcs
<1>16. CASE BeginTurn
  BY <1>1, <1>16, TouchEdited DEF BeginTurn, Pcs
<1>17. CASE Mark
  BY <1>1, <1>17 DEF Mark, Pcs
<1>18. CASE AgentWorks
  BY <1>1, <1>18 DEF AgentWorks, Pcs
<1>19. CASE NoHandoff
  BY <1>1, <1>19, TouchEdited DEF NoHandoff, Conclude, Pcs
<1>20. CASE TurnFails
  BY <1>1, <1>20, TouchEdited DEF TurnFails, Conclude, Pcs
<1>21. CASE HintedStop
  BY <1>1, <1>21, TouchEdited DEF HintedStop, Conclude, Pcs
<1>22. CASE TurnThrows
  BY <1>1, <1>22, TouchEdited, Counted DEF TurnThrows, Pcs
<1>23. CASE GateRefuses
  BY <1>1, <1>23, TouchEdited DEF GateRefuses, GateBlocks, Pcs
<1>24. CASE Complete
  BY <1>1, <1>24, TouchEdited DEF Complete, Conclude, Pcs
<1>25. CASE Clear
  BY <1>1, <1>25 DEF Clear, ClearMarker, Pcs
<1>26. CASE Abort
  <2>1. cutShort' \subseteq Issue
    BY <1>1, <1>26, Working DEF Abort, AtWork
  <2> QED BY <1>1, <1>26, <2>1, Counted DEF Abort, Pcs
<1>27. ASSUME NEW i \in Issue, OperatorRequeue(i)
      PROVE  TypeOK'
  BY <1>1, <1>27, TouchEdited, Counted DEF OperatorRequeue, PullRequest
<1>28. ASSUME NEW i \in Issue, EditIssue(i)
      PROVE  TypeOK'
  BY <1>1, <1>28, Counted DEF EditIssue, PullRequest
<1>29. ASSUME NEW i \in Issue, CloseIssue(i)
      PROVE  TypeOK'
  BY <1>1, <1>29 DEF CloseIssue, PullRequest
<1>30. ASSUME NEW i \in Issue, OpenPullRequest(i)
      PROVE  TypeOK'
  BY <1>1, <1>30, Counted DEF OpenPullRequest, PullRequest
<1>31. ASSUME NEW i \in Issue, MergePullRequest(i)
      PROVE  TypeOK'
  <2>1. PICK closes \in BOOLEAN :
            github' = [github EXCEPT ![i] = [open |-> github[i].open /\ ~closes, pr |-> "merged"]]
    BY <1>31 DEF MergePullRequest
  <2>2. [open |-> github[i].open /\ ~closes, pr |-> "merged"] \in [open : BOOLEAN, pr : PullRequest]
    BY <1>1 DEF PullRequest
  <2>3. github' \in [Issue -> [open : BOOLEAN, pr : PullRequest]]
    BY <1>1, <2>1, <2>2
  <2> QED BY <1>1, <1>31, <2>3 DEF MergePullRequest
<1>32. ASSUME NEW i \in Issue, ClosePullRequest(i)
      PROVE  TypeOK'
  BY <1>1, <1>32 DEF ClosePullRequest, PullRequest
<1>33. CASE UNCHANGED vars
  BY <1>1, <1>33 DEF vars
<1> QED BY <1>2, <1>3, <1>4, <1>5, <1>6, <1>7, <1>8, <1>9, <1>10, <1>11, <1>12, <1>13, <1>14, <1>15, <1>16, <1>17, <1>18, <1>19, <1>20, <1>21, <1>22, <1>23, <1>24, <1>25, <1>26, <1>27, <1>28, <1>29, <1>30, <1>31, <1>32, <1>33
    DEF Next, CycleStep, Recovering, Choosing, TurnStep, Fault, Outside

\* What happens around a cycle does not touch it.
LEMMA OutsideFacts ==
    ASSUME Outside \/ UNCHANGED vars
    PROVE  /\ UNCHANGED <<active, marker, moved, branch, pc, work, interrupted, retried>>
           /\ pc # "idle" => UNCHANGED <<rec, cutShort>>
<1> QED BY DEF Outside, OperatorRequeue, EditIssue, CloseIssue, OpenPullRequest, MergePullRequest,
               ClosePullRequest, vars, disk, world, cycle, history, At

\* From selection to the end of its turn an issue holds the reservation.
LEMMA WorkReservedStep ==
    ASSUME RunInv, [Next]_vars
    PROVE  WorkReserved'
<1>1. TypeOK /\ WorkReserved
  BY DEF RunInv
<1> USE DEF WorkReserved, AtWork, TurnPcs, At, GoTo, EndCycle, Release
<1>2. CASE StartCycle \/ AuthFails \/ Recovering \/ Unmark \/ Clear \/ Abort
  BY <1>1, <1>2, RecoveringFacts DEF StartCycle, AuthFails, Unmark, Clear, Abort, cycle
<1>3. CASE Reserve
  BY <1>1, <1>3 DEF Reserve, KeepOrDrop, ReportInterrupted, Abandon, TypeOK
<1>4. CASE Choosing
  BY <1>1, <1>4, RunAssumption, ChoosingFacts DEF TypeOK
<1>5. CASE Normalize \/ Resolve \/ Prepare \/ Infer \/ BeginTurn
  BY <1>1, <1>5 DEF Normalize, Resolve, Prepare, Infer, BeginTurn
<1>6. CASE Hydrate
  BY <1>1, <1>6 DEF Hydrate
<1>7. CASE Publish \/ PublishRefused \/ TrackOpened
  BY <1>1, <1>7 DEF Publish, PublishRefused, TrackOpened, disk
<1>8. CASE Mark \/ AgentWorks \/ NoHandoff \/ TurnFails \/ HintedStop \/ TurnThrows
  BY <1>1, <1>8 DEF Mark, AgentWorks, NoHandoff, TurnFails, HintedStop, TurnThrows, Conclude
<1>9. CASE GateRefuses \/ Complete
  BY <1>1, <1>9 DEF GateRefuses, Complete, Conclude
<1>10. CASE Outside \/ UNCHANGED vars
  BY <1>1, <1>10, OutsideFacts
<1> QED BY <1>2, <1>3, <1>4, <1>5, <1>6, <1>7, <1>8, <1>9, <1>10
    DEF Next, CycleStep, Recovering, Choosing, TurnStep, Fault

\* Once a pull request exists it exists for ever.
LEMMA PullRequestStays ==
    ASSUME TypeOK, [Next]_vars, NEW i \in Issue, github[i].pr # "none"
    PROVE  github'[i].pr # "none"
<1>1. CASE UNCHANGED github
  BY <1>1
<1>2. CASE Publish
  BY <1>2 DEF Publish, TypeOK
<1>3. ASSUME NEW j \in Issue,
             \/ OpenPullRequest(j) \/ CloseIssue(j) \/ MergePullRequest(j) \/ ClosePullRequest(j)
      PROVE  github'[i].pr # "none"
  BY <1>3 DEF OpenPullRequest, CloseIssue, MergePullRequest, ClosePullRequest, TypeOK
<1> QED BY <1>1, <1>2, <1>3, RecoveringFacts, ChoosingFacts
    DEF Next, CycleStep, Recovering, Choosing, TurnStep, Fault, Outside, AuthFails, StartCycle, Reserve,
        KeepOrDrop, ReportInterrupted, Abandon, Unmark, Normalize, Resolve, Prepare, Hydrate,
        PublishRefused, TrackOpened, Infer, BeginTurn, Mark, AgentWorks, Conclude, NoHandoff, TurnFails,
        HintedStop, TurnThrows, GateRefuses, Complete, Clear, Abort, OperatorRequeue, EditIssue, vars,
        world, disk

\* What a record knows of its pull request, and of its recovery, stays true.
LEMMA KnownPullRequestStep ==
    ASSUME RunInv, [Next]_vars
    PROVE  KnownPullRequest' /\ StaleWaits'
<1>1. TypeOK /\ WorkReserved /\ Fits
  BY RecordStep DEF RunInv
<1>2. ASSUME NEW i \in Issue
      PROVE  Waits(rec'[i]) /\ (rec'[i].pr => github'[i].pr # "none")
  BY <1>1, PullRequestStays DEF Fits, Fit
<1>3. ASSUME pc' \in {"opened", "openedTurn"}
      PROVE  github'[work'].pr # "none"
  <2>1. CASE Publish
    BY <1>1, <1>3, <2>1, Working DEF Publish, TypeOK, GoTo, AtWork, TurnPcs
  <2>2. CASE pc' = pc /\ work' = work
    BY <1>1, <1>3, <2>2, Working, PullRequestStays DEF AtWork, TurnPcs, RunInv, KnownPullRequest
  <2>3. Publish \/ (pc' = pc /\ work' = work)
    <3> USE DEF At, GoTo, EndCycle, TurnPcs
    <3>1. ~(StartCycle \/ Recovering \/ Unmark \/ Clear \/ Abort)
      BY <1>3, RecoveringFacts DEF StartCycle, Unmark, Clear, Abort
    <3>2. ~(Reserve \/ Choosing \/ Normalize \/ Resolve \/ Prepare \/ Infer \/ BeginTurn)
      BY <1>3, ChoosingFacts
          DEF Reserve, KeepOrDrop, ReportInterrupted, Abandon, Normalize, Resolve, Prepare, Infer, BeginTurn
    <3>3. ~(Hydrate \/ PublishRefused \/ TrackOpened)
      BY <1>3 DEF Hydrate, PublishRefused, TrackOpened
    <3>4. ~(Mark \/ AgentWorks \/ NoHandoff \/ TurnFails \/ HintedStop \/ TurnThrows)
      BY <1>3 DEF Mark, AgentWorks, NoHandoff, TurnFails, HintedStop, TurnThrows, Conclude
    <3>5. ~(GateRefuses \/ Complete)
      BY <1>3 DEF GateRefuses, Complete, Conclude
    <3>6. CASE AuthFails
      BY <3>6 DEF AuthFails, cycle
    <3>7. CASE Outside \/ UNCHANGED vars
      BY <3>7, OutsideFacts
    <3> QED BY <3>1, <3>2, <3>3, <3>4, <3>5, <3>6, <3>7 DEF Next, CycleStep, Recovering, Choosing, TurnStep, Fault
  <2> QED BY <2>1, <2>2, <2>3
<1> QED BY <1>2, <1>3 DEF KnownPullRequest, StaleWaits

\* What a step does to markers and to the counted attempts behind them.
LEMMA MarkedCounted ==
    ASSUME RunInv, [Next]_vars, NEW i \in Issue, marker'[i]
    PROVE  rec'[i].impl > 0
<1>1. TypeOK /\ Fits /\ TurnKnown /\ WorkReserved
  BY RecordStep DEF RunInv
<1>2. CASE marker[i]
  BY <1>1, <1>2 DEF TurnKnown, Fits, Fit
<1>3. CASE Mark
  <2>1. work \in Issue /\ rec[work].impl > 0 /\ (i = work \/ marker[i])
    BY <1>1, <1>3, Working DEF Mark, At, AtWork, TurnKnown, TurnReady, TypeOK
  <2> QED BY <1>1, <1>2, <2>1 DEF Fits, Fit
<1>4. CASE Unmark \/ Clear
  <2>1. marker[i]
    BY <1>1, <1>4 DEF Unmark, Clear, ClearMarker, TypeOK
  <2> QED BY <2>1, <1>2
<1>5. CASE UNCHANGED marker
  BY <1>2, <1>5
<1> QED BY <1>3, <1>4, <1>5, OutsideFacts, RecoveringFacts, ChoosingFacts
    DEF Next, CycleStep, Recovering, Choosing, TurnStep, Fault, AuthFails, StartCycle, Reserve, KeepOrDrop,
        ReportInterrupted, Abandon, Normalize, Resolve, Prepare, Hydrate, Publish, PublishRefused,
        TrackOpened, Infer, BeginTurn, AgentWorks, Conclude, NoHandoff, TurnFails, HintedStop, TurnThrows,
        GateRefuses, Complete, Abort, disk

\* The turn begins in the state it was inferred.
LEMMA InferKeeps ==
    ASSUME RunInv, Infer
    PROVE  /\ rec'[work].impl = rec[work].impl
           /\ pc' = "begin" => rec[work].impl = 0 \/ branch[work] # "ahead"
           /\ (pc' = "begin" /\ rec[work].impl # 0 /\ rec[work].ctx
               /\ hasStaleStabilizingNoPrRecoveryBudgetRemaining(rec[work]))
              => getStaleStabilizingNoPrRecoveryCount(rec'[work])
                    = getStaleStabilizingNoPrRecoveryCount(rec[work])
<1> DEFINE r == rec[work]
           next == inferStateWithoutPullRequest(r, branch[work])
           q == resetNoPrLifecycleFailureTracking(r, next)
<1>1. work \in Issue /\ r \in Record /\ rec \in [Issue -> Record]
  BY Working DEF Infer, At, AtWork, RunInv, TypeOK
<1>2. next \in RunState
  BY <1>1, InferFacts DEF RunState
<1>3. /\ q.impl = r.impl
      /\ (next = "stabilizing" /\ r.ctx /\ hasStaleStabilizingNoPrRecoveryBudgetRemaining(r))
            => getStaleStabilizingNoPrRecoveryCount(q) = getStaleStabilizingNoPrRecoveryCount(r)
  BY <1>1, <1>2, ResetFacts
<1>4. Touch(work, {q}) /\ (pc' = "begin" => next # "draft_pr")
  BY DEF Infer, EndCycle
<1>5. rec'[work] = q
  <2> HIDE DEF q
  <2> QED BY <1>1, <1>4 DEF Touch
<1>6. pc' = "begin" => r.impl = 0 \/ branch[work] # "ahead"
  BY <1>1, <1>4, InferFacts
<1>7. (pc' = "begin" /\ r.impl # 0 /\ hasStaleStabilizingNoPrRecoveryBudgetRemaining(r))
         => next = "stabilizing"
  BY <1>1, <1>6, InferFacts DEF hasStaleStabilizingNoPrRecoveryBudgetRemaining
<1> HIDE DEF q, next
<1> QED BY <1>3, <1>5, <1>6, <1>7

\* Each step before the agent starts leaves what the next relies on.
LEMMA TurnKnownStep ==
    ASSUME RunInv, [Next]_vars
    PROVE  TurnKnown'
<1>1. TypeOK /\ Fits /\ TurnKnown /\ WorkReserved
  BY RecordStep DEF RunInv
<1>2. \A i \in Issue : marker'[i] => rec'[i].impl > 0
  BY MarkedCounted
<1> SUFFICES TurnReady'
  BY <1>2 DEF TurnKnown
<1> USE DEF At, GoTo, EndCycle, TurnPcs, TurnReady, Guarded
<1>3. ASSUME pc' \notin {"begin", "mark"} \cup TurnPcs
      PROVE  TurnReady'
  BY <1>3
<1>4. CASE StartCycle \/ Recovering \/ Unmark \/ Clear \/ Abort
  BY <1>3, <1>4, RecoveringFacts DEF StartCycle, Unmark, Clear, Abort
<1>5. CASE Reserve \/ Choosing \/ Normalize \/ Resolve \/ Prepare
  BY <1>3, <1>5, ChoosingFacts DEF Reserve, KeepOrDrop, ReportInterrupted, Abandon, Normalize, Resolve, Prepare
<1>6. CASE Hydrate \/ PublishRefused \/ TrackOpened
  BY <1>3, <1>6 DEF Hydrate, PublishRefused, TrackOpened
<1>7. CASE Infer
  <2>1. pc' = "idle" \/ (UNCHANGED <<branch, work>> /\ pc' = "begin")
    BY <1>7 DEF Infer
  <2> QED BY <1>3, <1>7, <2>1, InferKeeps
<1>8. CASE BeginTurn
  BY <1>8, BeginTurnFits DEF BeginTurn
<1>9. CASE Mark
  BY <1>1, <1>9, Working DEF Mark, AtWork, TypeOK, TurnKnown
<1>10. CASE AgentWorks
  BY <1>1, <1>10 DEF AgentWorks, TurnKnown
<1>11. CASE NoHandoff \/ TurnFails \/ HintedStop \/ TurnThrows
  BY <1>3, <1>11 DEF NoHandoff, TurnFails, HintedStop, TurnThrows, Conclude
<1>12. CASE GateRefuses
  <2>1. CASE pc' # "mark"
    BY <1>3, <1>12, <2>1 DEF GateRefuses
  <2>2. CASE pc' = "mark"
    <3>1. rec'[work].state = rec[work].state /\ rec'[work].impl = rec[work].impl
      BY <1>12, <2>2, GateRefusesFits
    <3>2. work' = work /\ pc = "returned" /\ work \in Issue
      BY <1>12, <2>2, Working DEF GateRefuses, AtWork
    <3>3. Guarded(rec[work]) /\ rec[work].impl > 0
      BY <1>1, <3>2 DEF TurnKnown
    <3> QED BY <2>2, <3>1, <3>2, <3>3 DEF Guarded
  <2> QED BY <2>1, <2>2
<1>13. CASE Complete
  BY <1>1, <1>3, <1>13 DEF Complete, Conclude, TurnKnown
<1>14. CASE Publish
  BY <1>1, <1>3, <1>14 DEF Publish, disk, TurnKnown
<1>15. CASE AuthFails
  BY <1>3, <1>15 DEF AuthFails, cycle
<1>16. CASE Outside \/ UNCHANGED vars
  BY <1>1, <1>3, <1>16, OutsideFacts DEF TurnKnown
<1> HIDE DEF TurnReady
<1> QED BY <1>4, <1>5, <1>6, <1>7, <1>8, <1>9, <1>10, <1>11, <1>12, <1>13, <1>14, <1>15, <1>16
    DEF Next, CycleStep, Recovering, Choosing, TurnStep, Fault

\* Nobody restores the journal between its sync and the next marker.
LEMMA JournalSyncedStep ==
    ASSUME RunInv, [Next]_vars
    PROVE  JournalSynced'
<1>1. TypeOK /\ JournalSynced /\ WorkReserved
  BY DEF RunInv
<1> USE DEF At, GoTo, EndCycle, TurnPcs, JournalSynced
<1>2. CASE StartCycle \/ AuthFails \/ Recovering \/ Unmark \/ Clear \/ Abort
  BY <1>2, RecoveringFacts DEF StartCycle, AuthFails, Unmark, Clear, Abort, cycle
<1>3. CASE Reserve \/ Choosing \/ Normalize \/ Resolve \/ Prepare
  BY <1>3, ChoosingFacts DEF Reserve, KeepOrDrop, ReportInterrupted, Abandon, Normalize, Resolve, Prepare
<1>4. CASE Hydrate
  BY <1>1, <1>4, Working DEF Hydrate, SyncJournal, AtWork, TypeOK
<1>5. CASE PublishRefused \/ TrackOpened \/ Infer \/ BeginTurn
  BY <1>1, <1>5 DEF PublishRefused, TrackOpened, Infer, BeginTurn
<1>6. CASE Publish
  BY <1>1, <1>6 DEF Publish, disk
<1>7. CASE Mark \/ AgentWorks \/ NoHandoff \/ TurnFails \/ HintedStop \/ TurnThrows
  BY <1>7 DEF Mark, AgentWorks, NoHandoff, TurnFails, HintedStop, TurnThrows, Conclude
<1>8. CASE GateRefuses \/ Complete
  BY <1>8 DEF GateRefuses, Complete, Conclude
<1>9. CASE Outside \/ UNCHANGED vars
  BY <1>1, <1>9, OutsideFacts
<1> QED BY <1>2, <1>3, <1>4, <1>5, <1>6, <1>7, <1>8, <1>9
    DEF Next, CycleStep, Recovering, Choosing, TurnStep, Fault

\* What the endings of a turn and the reports of the prelude leave of a record.
LEMMA StoppedRecord ==
    ASSUME RunInv, NEW i \in Issue, NEW S, Touch(i, S), \A q \in S : ~Guarded(q)
    PROVE  ~Guarded(rec'[i])
<1> QED BY DEF Touch, RunInv, TypeOK

\* A turn that ends leaves no guarded record.
LEMMA EndingFacts ==
    ASSUME RunInv, work \in Issue,
           \/ NoHandoff \/ TurnFails \/ TurnThrows \/ TrackOpened
           \/ (PublishRefused /\ pc = "publishTurn")
    PROVE  ~Guarded(rec'[work])
<1>1. rec[work] \in Record
  BY DEF RunInv, TypeOK
<1>2. ASSUME NEW why \in Why, NEW q \in Failed(rec[work], why)
      PROVE  ~Guarded(q)
  BY <1>1, <1>2, FailedFacts DEF Guarded, OWNER_GUARDED_ACTIVE_STATES
<1>3. CASE NoHandoff
  <2>1. Touch(work, Blocked(rec[work], "handoff_missing", "none", "no-handoff", TRUE))
    BY <1>3 DEF NoHandoff, Conclude
  <2>2. /\ "handoff_missing" \in Reason /\ "none" \in Why /\ "no-handoff" \in Signature
        /\ TRUE \in BOOLEAN
    BY Names
  <2>3. ASSUME NEW q \in Blocked(rec[work], "handoff_missing", "none", "no-handoff", TRUE)
        PROVE  ~Guarded(q)
    <3> DEFINE yes == TRUE
    <3>1. q \in Blocked(rec[work], "handoff_missing", "none", "no-handoff", yes) /\ yes \in BOOLEAN
      OBVIOUS
    <3> HIDE DEF yes
    <3>2. q.state = "blocked"
      BY <1>1, <2>2, <3>1, BlockedFacts
    <3> QED BY <3>2 DEF Guarded, OWNER_GUARDED_ACTIVE_STATES
  <2> QED BY <2>1, <2>3, StoppedRecord
<1>4. CASE TurnFails \/ TurnThrows \/ (PublishRefused /\ pc = "publishTurn")
  <2>1. PICK why \in {"timeout", "command_error", "codex_exit"} : Touch(work, Failed(rec[work], why))
    BY <1>4 DEF TurnFails, TurnThrows, PublishRefused, Conclude
  <2>2. \A q \in Failed(rec[work], why) : ~Guarded(q)
    BY <1>2, Names
  <2> QED BY <2>1, <2>2, StoppedRecord
<1>5. CASE TrackOpened
  <2>1. Touch(work, {Tracked(rec[work])})
    BY <1>5 DEF TrackOpened
  <2>2. ~Guarded(Tracked(rec[work]))
    BY <1>1, LeavingFacts DEF Guarded, OWNER_GUARDED_ACTIVE_STATES
  <2> QED BY <2>1, <2>2, StoppedRecord
<1> QED BY <1>3, <1>4, <1>5

\* Nor does a report, nor a pause for want of authentication.
LEMMA ReportedFacts ==
    ASSUME RunInv, active \in Issue, AuthFails \/ ReportInterrupted(active)
    PROVE  ~Guarded(rec'[active])
<1> DEFINE no == FALSE
           yes == TRUE
           zero == 0
           A == Blocked(rec[active], "unknown", "command_error", "other", no)
           B == Blocked(rec[active], "handoff_missing", "none", "handoff-missing", yes)
           S == {[r EXCEPT !.stale = zero] : r \in B}
<1>1. rec[active] \in Record /\ no \in BOOLEAN /\ yes \in BOOLEAN
  BY DEF RunInv, TypeOK
<1>2. "blocked" \notin OWNER_GUARDED_ACTIVE_STATES
  BY DEF OWNER_GUARDED_ACTIVE_STATES
<1>3. CASE AuthFails
  <2>1. Touch(active, A)
    BY <1>3, RunAssumption DEF AuthFails
  <2>2. \A q \in A : q.state = "blocked"
    <3> HIDE DEF no
    <3> QED BY <1>1, BlockedFacts, Names
  <2> HIDE DEF A
  <2> QED BY <1>2, <2>1, <2>2, StoppedRecord DEF Guarded
<1>4. CASE ReportInterrupted(active)
  <2>1. Touch(active, S)
    BY <1>4 DEF ReportInterrupted
  <2>2. \A b \in B : b \in Record /\ b.state = "blocked"
    <3> HIDE DEF yes
    <3> QED BY <1>1, BlockedFacts, Names
  <2>3. \A q \in S : q.state = "blocked"
    <3> HIDE DEF B, zero
    <3> QED BY <2>2 DEF Record
  <2> HIDE DEF S
  <2> QED BY <1>2, <2>1, <2>3, StoppedRecord DEF Guarded
<1> QED BY <1>3, <1>4

\* A lost turn is carried to the reservation check of the next cycle that gets
\* there, and to no further point.
LEMMA LostHeldStep ==
    ASSUME RunInv, [Next]_vars
    PROVE  LostHeld'
<1>1. TypeOK /\ LostHeld /\ WorkReserved /\ TurnKnown
  BY DEF RunInv
<1>2. pc \notin {"idle", "reserve"} => cutShort = {}
  BY <1>1 DEF LostHeld
<1>3. cutShort # {} => active \in Issue /\ cutShort = {active}
  BY <1>1 DEF LostHeld, TypeOK
<1> USE DEF At, GoTo, EndCycle, TurnPcs
<1>4. ASSUME cutShort' = {}
      PROVE  LostHeld'
  BY <1>4 DEF LostHeld
<1>5. CASE pc \notin {"idle", "reserve"} /\ ~Abort
  <2>1. cutShort' = {}
    BY <1>2, <1>5, RecoveringFacts, ChoosingFacts
        DEF Next, CycleStep, Recovering, Choosing, TurnStep, Fault, Outside, AuthFails, StartCycle,
            Reserve, Unmark, Normalize, Resolve, Prepare, Hydrate, Publish, PublishRefused, TrackOpened,
            Infer, BeginTurn, Mark, AgentWorks, Conclude, NoHandoff, TurnFails, HintedStop, TurnThrows,
            GateRefuses, Complete, Clear, OperatorRequeue, EditIssue, OpenPullRequest, CloseIssue,
            MergePullRequest, ClosePullRequest, history, vars
  <2> QED BY <1>4, <2>1
<1>6. CASE Abort
  <2>1. UNCHANGED disk /\ pc' = "idle"
    BY <1>6 DEF Abort
  <2>2. CASE cutShort' = cutShort
    BY <1>1, <2>1, <2>2 DEF LostHeld, disk, Guarded
  <2>3. CASE pc \in TurnPcs /\ ~moved[work] /\ cutShort' = cutShort \cup {work}
    <3>1. cutShort' = {work} /\ active = work /\ marker[work] /\ Guarded(rec[work])
      BY <1>1, <1>2, <2>3 DEF WorkReserved, TurnKnown, TurnReady, AtWork
    <3> QED BY <2>1, <2>3, <3>1 DEF LostHeld, disk, Guarded
  <2> QED BY <1>6, <2>2, <2>3 DEF Abort
<1>7. CASE StartCycle
  BY <1>1, <1>7 DEF StartCycle, LostHeld, disk, history, Guarded
<1>8. CASE AuthFails
  BY <1>3, <1>4, <1>8, RunAssumption DEF AuthFails
<1>9. CASE Reserve
  <2>1. CASE cutShort = {}
    BY <1>4, <1>9, <2>1 DEF Reserve, KeepOrDrop, ReportInterrupted, Abandon, history
  <2>2. CASE cutShort # {}
    <3>1. active # None /\ Guarded(rec[active]) /\ InterruptedTurn(active)
      BY <1>1, <1>3, <2>2, RunAssumption DEF LostHeld, InterruptedTurn
    <3>2. cutShort' = cutShort \ {active}
      BY <1>9, <3>1 DEF Reserve, Guarded, ReportInterrupted
    <3> QED BY <1>3, <1>4, <3>2
  <2> QED BY <2>1, <2>2
<1>10. ASSUME NEW j \in Issue, OperatorRequeue(j)
       PROVE  LostHeld'
  <2>1. j # active /\ cutShort' \subseteq cutShort /\ UNCHANGED <<active, marker, moved, pc>>
    BY <1>10 DEF OperatorRequeue, cycle
  <2>2. \A i \in Issue \ {j} : rec'[i] = rec[i]
    BY <1>1, <1>10 DEF OperatorRequeue, Touch, TypeOK
  <2> QED BY <1>1, <1>3, <2>1, <2>2 DEF LostHeld, Guarded
<1>11. CASE \/ UNCHANGED vars
            \/ \E i \in Issue : \/ EditIssue(i) \/ OpenPullRequest(i) \/ CloseIssue(i)
                                \/ MergePullRequest(i) \/ ClosePullRequest(i)
  <2>1. UNCHANGED <<rec, active, marker, moved, pc, cutShort>>
    BY <1>11 DEF vars, disk, cycle, history, EditIssue, OpenPullRequest, CloseIssue,
                 MergePullRequest, ClosePullRequest
  <2> QED BY <1>1, <2>1 DEF LostHeld, Guarded
<1>12. CASE pc \in {"idle", "reserve"} /\ CycleStep
  <2>1. StartCycle \/ Reserve
    BY <1>12, RecoveringFacts, ChoosingFacts
        DEF CycleStep, Recovering, Choosing, TurnStep, Unmark, Normalize, Resolve, Prepare, Hydrate,
            Publish, PublishRefused, TrackOpened, Infer, BeginTurn, Mark, AgentWorks, NoHandoff, TurnFails,
            HintedStop, GateRefuses, Complete, Clear
  <2> QED BY <1>7, <1>9, <2>1
<1>13. CASE pc \in {"idle", "reserve"} /\ (TurnThrows \/ RecoverDegraded)
  BY <1>13 DEF TurnThrows, RecoverDegraded
<1> QED BY <1>5, <1>6, <1>8, <1>10, <1>11, <1>12, <1>13 DEF Next, Fault, Outside

\* A guarded record whose marker still fits its journal is a lost turn, or the
\* turn of this cycle.
LEMMA HeldLostStep ==
    ASSUME RunInv, [Next]_vars
    PROVE  HeldLost'
<1>1. TypeOK /\ Fits /\ LostHeld /\ HeldLost /\ WorkReserved /\ TurnKnown /\ JournalSynced
  BY RecordStep DEF RunInv
<1> SUFFICES ASSUME NEW i \in Issue, marker'[i], ~moved'[i], Guarded(rec'[i])
             PROVE  i \in cutShort' \/ (pc' \in TurnPcs /\ work' = i)
  BY DEF HeldLost, Guarded
<1> USE DEF At, GoTo, EndCycle, TurnPcs
<1>2. CASE Mark
  <2>1. CASE i = work
    BY <1>2, <2>1 DEF Mark
  <2>2. CASE i # work
    <3>1. marker[i] /\ ~moved[i] /\ rec' = rec
      BY <1>1, <1>2, <2>2 DEF Mark, TypeOK
    <3> QED BY <1>1, <1>2, <3>1 DEF Mark, HeldLost, LostHeld, Guarded
  <2> QED BY <2>1, <2>2
<1>3. CASE AgentWorks
  <2>1. CASE i = work
    BY <1>3, <2>1 DEF AgentWorks
  <2>2. CASE i # work
    <3>1. marker[i] /\ ~moved[i] /\ rec' = rec
      BY <1>1, <1>3, <2>2 DEF AgentWorks, TypeOK
    <3> QED BY <1>1, <1>3, <2>2, <3>1 DEF AgentWorks, HeldLost, LostHeld, Guarded
  <2> QED BY <2>1, <2>2
\* Everywhere else nothing becomes such a record.
<1>4. CASE ~Mark /\ ~AgentWorks
  <2>1. marker[i] /\ ~moved[i]
    <3>1. CASE Unmark \/ Clear
      BY <1>1, <3>1 DEF Unmark, Clear, ClearMarker, TypeOK
    <3>2. CASE Hydrate
      BY <1>1, <3>2 DEF Hydrate, SyncJournal, TypeOK
    <3>3. CASE UNCHANGED <<marker, moved>>
      BY <3>3
    <3> QED BY <1>4, <3>1, <3>2, <3>3, OutsideFacts, RecoveringFacts, ChoosingFacts
        DEF Next, CycleStep, Recovering, Choosing, TurnStep, Fault, AuthFails, StartCycle, Reserve,
            KeepOrDrop, ReportInterrupted, Abandon, Normalize, Resolve, Prepare, Publish, PublishRefused,
            TrackOpened, Infer, BeginTurn, Conclude, NoHandoff, TurnFails, HintedStop, TurnThrows,
            GateRefuses, Complete, Abort, disk
  <2>2. Guarded(rec[i])
    <3>1. i = work /\ MayGuard => FALSE
      BY <1>1, <2>1 DEF MayGuard, JournalSynced, TurnKnown
    <3> QED BY <1>1, <3>1 DEF Fits, Fit
  <2>3. i \in cutShort \/ (pc \in TurnPcs /\ work = i)
    BY <1>1, <2>1, <2>2 DEF HeldLost
  <2>4. CASE i \in cutShort
    <3>1. active = i /\ pc \in {"idle", "reserve"} /\ InterruptedTurn(i)
      BY <1>1, <2>1, <2>4 DEF LostHeld, InterruptedTurn
    <3>2. ~(AuthFails \/ ReportInterrupted(active))
      BY <3>1, ReportedFacts
    <3>3. CASE Reserve
      BY <3>1, <3>2, <3>3, <2>2, RunAssumption DEF Reserve, Guarded
    <3>4. CASE Outside \/ UNCHANGED vars
      BY <2>4, <3>1, <3>4
         DEF Outside, OperatorRequeue, EditIssue, CloseIssue, OpenPullRequest, MergePullRequest,
             ClosePullRequest, vars, history
    <3>5. CASE StartCycle \/ Abort
      BY <2>4, <3>1, <3>5 DEF StartCycle, Abort, history
    <3>6. ~(\/ Unmark \/ Recovering \/ Choosing \/ Normalize \/ Resolve \/ Prepare \/ Hydrate \/ Publish
            \/ PublishRefused \/ TrackOpened \/ Infer \/ BeginTurn \/ NoHandoff \/ TurnFails
            \/ HintedStop \/ TurnThrows \/ GateRefuses \/ Complete \/ Clear)
      BY <3>1, RecoveringFacts, ChoosingFacts
          DEF Unmark, Normalize, Resolve, Prepare, Hydrate, Publish, PublishRefused, TrackOpened, Infer,
              BeginTurn, NoHandoff, TurnFails, HintedStop, TurnThrows, GateRefuses, Complete, Clear
    <3> QED BY <1>4, <3>2, <3>3, <3>4, <3>5, <3>6 DEF Next, CycleStep, Recovering, Choosing, TurnStep, Fault
  <2>5. CASE pc \in TurnPcs /\ work = i
    <3>1. ~(\/ NoHandoff \/ TurnFails \/ TurnThrows \/ TrackOpened
            \/ (PublishRefused /\ pc = "publishTurn"))
      BY <2>5, EndingFacts
    <3>2. ~(HintedStop \/ GateRefuses \/ Complete)
      BY <2>1, <2>5 DEF HintedStop, GateRefuses, Complete
    <3>3. CASE Publish
      BY <2>5, <3>3 DEF Publish
    <3>4. CASE Abort
      BY <2>1, <2>5, <3>4 DEF Abort
    <3>5. CASE Outside \/ UNCHANGED vars
      BY <2>5, <3>5, OutsideFacts
    <3>6. ~(\/ AuthFails \/ StartCycle \/ Reserve \/ Unmark \/ Recovering \/ Choosing \/ Normalize \/ Resolve
            \/ Prepare \/ Hydrate \/ Infer \/ BeginTurn \/ Clear)
      BY <2>5, RecoveringFacts, ChoosingFacts
          DEF AuthFails, StartCycle, Reserve, Unmark, Normalize, Resolve, Prepare, Hydrate, Infer,
              BeginTurn, Clear
    <3>7. PublishRefused => pc = "publishTurn"
      BY <2>5 DEF PublishRefused
    <3> QED BY <1>4, <3>1, <3>2, <3>3, <3>4, <3>5, <3>6, <3>7
        DEF Next, CycleStep, Recovering, Choosing, TurnStep, Fault
  <2> QED BY <2>3, <2>4, <2>5
<1> QED BY <1>2, <1>3, <1>4

\* Over the budget only a counted recovery gets past each step to its turn.
LEMMA PaidStep ==
    ASSUME RunInv, [Next]_vars
    PROVE  Paid'
<1>1. TypeOK /\ Paid /\ WorkReserved /\ StaleWaits /\ KnownPullRequest
  BY DEF RunInv
<1> USE DEF At, GoTo, EndCycle, TurnPcs
<1>2. ASSUME pc' \notin {"prepare", "hydrate", "infer", "begin"}
      PROVE  Paid'
  BY <1>2 DEF Paid, OverBudgetIsRecovery
<1>3. CASE StartCycle \/ AuthFails \/ Recovering \/ Unmark \/ Clear \/ Abort
  <2>1. pc' \notin {"prepare", "hydrate", "infer", "begin"}
    BY <1>3, RecoveringFacts DEF StartCycle, AuthFails, Unmark, Clear, Abort, cycle
  <2> QED BY <1>2, <2>1
<1>4. CASE Reserve \/ Choosing \/ Normalize
  <2>1. pc' \notin {"prepare", "hydrate", "infer", "begin"}
    BY <1>4, ChoosingFacts DEF Reserve, KeepOrDrop, ReportInterrupted, Abandon, Normalize
  <2> QED BY <1>2, <2>1
<1>5. CASE Publish \/ PublishRefused \/ TrackOpened \/ BeginTurn
  <2>1. pc' \notin {"prepare", "hydrate", "infer", "begin"}
    BY <1>5 DEF Publish, PublishRefused, TrackOpened, BeginTurn
  <2> QED BY <1>2, <2>1
<1>6. CASE Mark \/ AgentWorks \/ NoHandoff \/ TurnFails \/ HintedStop \/ TurnThrows
  <2>1. pc' \notin {"prepare", "hydrate", "infer", "begin"}
    BY <1>6 DEF Mark, AgentWorks, NoHandoff, TurnFails, HintedStop, TurnThrows, Conclude
  <2> QED BY <1>2, <2>1
<1>7. CASE GateRefuses \/ Complete
  <2>1. pc' \notin {"prepare", "hydrate", "infer", "begin"}
    BY <1>7 DEF GateRefuses, Complete, Conclude
  <2> QED BY <1>2, <2>1
<1>8. CASE Resolve
  <2>1. CASE pc' = "idle"
    BY <1>2, <2>1
  <2>2. CASE pc' = "prepare" /\ rec' = rec /\ work' = work /\ hasAttemptBudget(rec[work])
    <3>1. rec[work] \in Record
      BY <1>8, Working DEF Resolve, AtWork
    <3>2. rec[work].impl >= MaxImpl => rec[work].pr \/ hasStaleStabilizingNoPrRecoveryBudgetRemaining(rec[work])
      BY <2>2, <3>1, RunAssumption DEF hasAttemptBudget, Record
    <3> QED BY <2>2, <3>2
        DEF Paid, OverBudgetIsRecovery, hasStaleStabilizingNoPrRecoveryBudgetRemaining,
            getStaleStabilizingNoPrRecoveryCount
  <2> QED BY <1>8, <2>1, <2>2 DEF Resolve
<1>9. CASE Prepare
  <2>1. pc = "prepare" /\ pc' = "hydrate" /\ work' = work /\ rec[work] \in Record
    BY <1>9, Working DEF Prepare, AtWork
  <2>2. rec[work].impl >= MaxImpl => rec[work].impl # 0
    BY <2>1, RunAssumption DEF Record
  <2>3. rec[work].impl >= MaxImpl =>
           rec[work].pr \/ hasStaleStabilizingNoPrRecoveryBudgetRemaining(rec[work])
    BY <1>1, <2>1 DEF Paid
  <2>4. rec'[work].impl >= MaxImpl =>
           rec'[work].pr \/ hasStaleStabilizingNoPrRecoveryBudgetRemaining(rec'[work])
    BY <1>9, <2>2, <2>3, PrepareFits
       DEF hasStaleStabilizingNoPrRecoveryBudgetRemaining, getStaleStabilizingNoPrRecoveryCount
  <2> QED BY <2>1, <2>4
      DEF Paid, OverBudgetIsRecovery, hasStaleStabilizingNoPrRecoveryBudgetRemaining,
          getStaleStabilizingNoPrRecoveryCount
<1>10. CASE Hydrate
  <2>1. CASE pc' \in {"idle", "publish"}
    BY <1>2, <2>1
  <2>2. CASE pc' = "infer" /\ work' = work /\ rec' = rec /\ github[work].pr = "none"
    <3>1. work \in Issue /\ pc = "hydrate"
      BY <1>10, Working DEF Hydrate, AtWork
    <3>2. rec[work].impl >= MaxImpl => hasStaleStabilizingNoPrRecoveryBudgetRemaining(rec[work])
      BY <1>1, <2>2, <3>1 DEF Paid, KnownPullRequest
    <3> QED BY <2>2, <3>2
        DEF Paid, OverBudgetIsRecovery, hasStaleStabilizingNoPrRecoveryBudgetRemaining,
            getStaleStabilizingNoPrRecoveryCount
  <2> QED BY <1>10, <2>1, <2>2 DEF Hydrate
<1>11. CASE Infer
  <2>1. CASE pc' = "idle"
    BY <1>2, <2>1
  <2>2. CASE pc' = "begin" /\ work' = work
    <3> DEFINE r == rec[work]
    <3>1. work \in Issue /\ r \in Record /\ pc = "infer" /\ Waits(r)
      BY <1>1, <1>11, Working DEF Infer, AtWork, StaleWaits
    <3>2. rec'[work].impl = r.impl
      BY <1>11, InferKeeps
    <3>3. ASSUME r.impl >= MaxImpl
          PROVE  getStaleStabilizingNoPrRecoveryCount(rec'[work]) \in 1..(RepeatLimit - 1)
      <4>1. hasStaleStabilizingNoPrRecoveryBudgetRemaining(r) /\ r.impl # 0
        BY <1>1, <3>1, <3>3, RunAssumption DEF Paid, Record
      <4>2. r.state = "queued" /\ getStaleStabilizingNoPrRecoveryCount(r) \in 1..(RepeatLimit - 1)
        BY <4>1 DEF hasStaleStabilizingNoPrRecoveryBudgetRemaining
      <4>3. r.sig = "stale"
        BY <4>2, RunAssumption DEF getStaleStabilizingNoPrRecoveryCount
      <4>4. r.ctx
        BY <3>1, <4>2, <4>3 DEF Waits
      <4> QED BY <1>11, <2>2, <4>1, <4>2, <4>4, InferKeeps
    <3> QED BY <2>2, <3>2, <3>3 DEF Paid, OverBudgetIsRecovery, getStaleStabilizingNoPrRecoveryCount
  <2> QED BY <1>11, <2>1, <2>2 DEF Infer
<1>12. CASE Outside \/ UNCHANGED vars
  <2>1. pc' = pc /\ work' = work /\ (pc # "idle" => rec' = rec)
    BY <1>12, OutsideFacts
  <2>2. CASE pc = "idle"
    BY <1>2, <2>1, <2>2
  <2>3. CASE pc # "idle"
    BY <1>1, <2>1, <2>3
       DEF Paid, OverBudgetIsRecovery, hasStaleStabilizingNoPrRecoveryBudgetRemaining,
           getStaleStabilizingNoPrRecoveryCount
  <2> QED BY <2>2, <2>3
<1> QED BY <1>3, <1>4, <1>5, <1>6, <1>7, <1>8, <1>9, <1>10, <1>11, <1>12
    DEF Next, CycleStep, Recovering, Choosing, TurnStep, Fault

\* Of the supervisor's own pull requests an issue has one at most.
LEMMA OpenedOnceStep ==
    ASSUME RunInv, [Next]_vars
    PROVE  OpenedOnce'
<1>1. TypeOK /\ OpenedOnce /\ WorkReserved
  BY DEF RunInv
<1>2. \A i \in Issue : github[i].pr # "none" => github'[i].pr # "none"
  BY <1>1, PullRequestStays
<1> USE DEF At, GoTo, EndCycle, TurnPcs
<1>3. CASE Publish
  <2>1. work \in Issue /\ opened[work] = 0 /\ pc' \in {"opened", "openedTurn"}
    BY <1>1, <1>3, Working DEF Publish, OpenedOnce, AtWork
  <2>2. opened' = [opened EXCEPT ![work] = opened[work] + 1] /\ github'[work].pr = "open"
    BY <1>1, <1>3, <2>1 DEF Publish, TypeOK
  <2>3. ASSUME NEW i \in Issue
        PROVE  opened'[i] <= 1 /\ (opened'[i] > 0 => github'[i].pr # "none")
    <3>1. CASE i = work
      BY <1>1, <2>1, <2>2, <3>1 DEF TypeOK
    <3>2. CASE i # work
      BY <1>1, <1>2, <2>1, <2>2, <3>2 DEF TypeOK, OpenedOnce
    <3> QED BY <3>1, <3>2
  <2> QED BY <2>1, <2>3 DEF OpenedOnce
<1>4. ASSUME UNCHANGED opened,
             \/ pc' \notin {"publish", "infer", "begin", "mark", "turn", "returned", "publishTurn"}
             \/ opened[work'] = 0
      PROVE  OpenedOnce'
  BY <1>1, <1>2, <1>4 DEF OpenedOnce
<1>5. CASE StartCycle \/ AuthFails \/ Recovering \/ Unmark \/ Clear \/ Abort
  BY <1>4, <1>5, RecoveringFacts DEF StartCycle, AuthFails, Unmark, Clear, Abort, cycle, history
<1>6. CASE Reserve \/ Choosing \/ Normalize \/ Resolve \/ Prepare
  BY <1>4, <1>6, ChoosingFacts
      DEF Reserve, KeepOrDrop, ReportInterrupted, Abandon, Normalize, Resolve, Prepare, history
<1>7. CASE Hydrate
  <2>1. UNCHANGED opened
    BY <1>7 DEF Hydrate, history
  <2>2. CASE pc' = "idle"
    BY <1>4, <2>1, <2>2
  <2>3. CASE github[work].pr = "none" /\ work' = work
    <3>1. opened[work] = 0
      BY <1>1, <1>7, <2>3, Working DEF Hydrate, AtWork, OpenedOnce, TypeOK
    <3> QED BY <1>4, <2>1, <2>3, <3>1
  <2> QED BY <1>7, <2>2, <2>3 DEF Hydrate
<1>8. CASE PublishRefused \/ TrackOpened \/ Infer \/ BeginTurn \/ Mark \/ AgentWorks
  BY <1>1, <1>4, <1>8 DEF PublishRefused, TrackOpened, Infer, BeginTurn, Mark, AgentWorks, history, OpenedOnce
<1>9. CASE NoHandoff \/ TurnFails \/ HintedStop \/ TurnThrows
  BY <1>4, <1>9 DEF NoHandoff, TurnFails, HintedStop, TurnThrows, Conclude, history
<1>10. CASE GateRefuses \/ Complete
  BY <1>1, <1>4, <1>10 DEF GateRefuses, Complete, Conclude, history, OpenedOnce
<1>11. CASE Outside \/ UNCHANGED vars
  <2>1. UNCHANGED opened
    BY <1>11 DEF Outside, OperatorRequeue, EditIssue, CloseIssue, OpenPullRequest, MergePullRequest,
                 ClosePullRequest, vars, history
  <2> QED BY <1>1, <1>4, <1>11, <2>1, OutsideFacts DEF OpenedOnce
<1> QED BY <1>3, <1>5, <1>6, <1>7, <1>8, <1>9, <1>10, <1>11
    DEF Next, CycleStep, Recovering, Choosing, TurnStep, Fault

\* Failing a record takes its stale recovery away.
LEMMA ThrownSignature ==
    ASSUME RunInv, TurnThrows
    PROVE  rec'[work].sig = "other"
<1>1. work \in Issue /\ rec[work] \in Record /\ rec \in [Issue -> Record]
  BY Working DEF TurnThrows, AtWork, TurnPcs, RunInv, TypeOK
<1>2. PICK why \in {"timeout", "command_error"} : Touch(work, Failed(rec[work], why))
  BY DEF TurnThrows
<1>3. PICK q \in Failed(rec[work], why) : rec' = [rec EXCEPT ![work] = q]
  BY <1>2 DEF Touch
<1>4. q.sig = "other"
  BY <1>1, Names, FailedFacts
<1> QED BY <1>1, <1>3, <1>4

\* An issue whose recovered record lost its context is that of the running turn,
\* or of the last one until the reservation is judged.
LEMMA StaleReservedStep ==
    ASSUME RunInv, [Next]_vars
    PROVE  StaleReserved'
<1>1. TypeOK /\ Fits /\ StaleWaits /\ StaleReserved /\ WorkReserved /\ TurnKnown
  BY RecordStep DEF RunInv
<1> USE DEF At, GoTo, EndCycle, TurnPcs
<1> SUFFICES ASSUME NEW i \in Issue, rec'[i].sig = "stale", ~rec'[i].ctx
             PROVE  active' = i /\ pc' \in {"idle", "reserve", "mark", "clear"} \cup TurnPcs
  BY DEF StaleReserved
<1>2. rec'[i] = rec[i] \/ (i = work /\ pc \in {"begin", "returned"})
  BY <1>1 DEF Fits, Fit
<1>3. CASE i = work /\ pc \in {"begin", "returned"}
  <2>1. active = i /\ (pc = "returned" => pc \in TurnPcs)
    BY <1>1, <1>3 DEF WorkReserved, AtWork
  <2>2. CASE BeginTurn \/ NoHandoff \/ TurnFails \/ HintedStop \/ GateRefuses \/ Complete
    BY <2>1, <2>2 DEF BeginTurn, NoHandoff, TurnFails, HintedStop, GateRefuses, Complete, Conclude
  <2>3. ~TurnThrows
    BY <1>3, ThrownSignature
  <2>4. CASE Abort
    BY <2>1, <2>4 DEF Abort, disk
  <2>5. CASE Outside \/ UNCHANGED vars
    <3>1. UNCHANGED <<rec, active, pc>>
      BY <1>3, <2>5, OutsideFacts
    <3> QED BY <1>1, <3>1 DEF StaleReserved
  <2>6. ~(\/ AuthFails \/ StartCycle \/ Reserve \/ Unmark \/ Recovering \/ Choosing \/ Normalize
          \/ Resolve \/ Prepare \/ Hydrate \/ Publish \/ PublishRefused \/ TrackOpened \/ Infer
          \/ Mark \/ AgentWorks \/ Clear)
    BY <1>3, RecoveringFacts, ChoosingFacts
        DEF AuthFails, StartCycle, Reserve, Unmark, Normalize, Resolve, Prepare, Hydrate, Publish,
            PublishRefused, TrackOpened, Infer, Mark, AgentWorks, Clear
  <2> QED BY <2>2, <2>3, <2>4, <2>5, <2>6 DEF Next, CycleStep, Recovering, Choosing, TurnStep, Fault
<1>4. CASE rec'[i] = rec[i]
  <2>1. active = i /\ pc \in {"idle", "reserve", "mark", "clear"} \cup TurnPcs
    BY <1>1, <1>4 DEF StaleReserved
  <2>2. Guarded(rec[i]) /\ i # None
    BY <1>1, <1>4, RunAssumption DEF StaleWaits, Waits, Guarded, OWNER_GUARDED_ACTIVE_STATES
  <2>3. pc \in {"mark"} \cup TurnPcs => work = i
    BY <1>1, <2>1 DEF WorkReserved, AtWork
  <2>4. CASE StartCycle \/ Clear \/ Abort
    BY <2>1, <2>4 DEF StartCycle, Clear, Abort, disk
  <2>5. ~AuthFails
    BY <1>4, <2>1, <2>2, ReportedFacts
  <2>6. ~Reserve
    <3>1. ~ReportInterrupted(active)
      BY <1>4, <2>1, <2>2, ReportedFacts
    <3>2. ~Abandon(active)
      <4>1. ASSUME Abandon(active)
            PROVE  rec'[i] \in Abandoned(i)
        BY <1>1, <2>1, <4>1 DEF Abandon, Touch, TypeOK
      <4>2. Waits(rec[i])
        BY <1>1 DEF StaleWaits
      <4> DEFINE q == rec'[i]
      <4>3. q.sig = "stale" /\ ~q.ctx
        OBVIOUS
      <4> HIDE DEF q
      <4>4. q \in Abandoned(i) => FALSE
        BY <1>1, <4>2, <4>3, AbandonedFacts
      <4> QED BY <4>1, <4>4 DEF q
    <3> QED BY <2>1, <2>2, <3>1, <3>2 DEF Reserve, Guarded
  <2>7. ~(\/ NoHandoff \/ TurnFails \/ TurnThrows \/ TrackOpened
          \/ (PublishRefused /\ pc = "publishTurn"))
    <3>1. ~Guarded(rec'[work]) => work # i
      BY <1>4, <2>2
    <3> QED BY <2>1, <2>3, <3>1, EndingFacts
          DEF NoHandoff, TurnFails, TurnThrows, TrackOpened, PublishRefused
  <2>8. CASE Mark \/ AgentWorks \/ HintedStop \/ GateRefuses \/ Complete \/ Publish
    BY <2>1, <2>8 DEF Mark, AgentWorks, HintedStop, GateRefuses, Complete, Publish, Conclude, disk
  <2>9. CASE Outside \/ UNCHANGED vars
    BY <2>1, <2>9, OutsideFacts
  <2>10. ~(\/ Unmark \/ Recovering \/ Choosing \/ Normalize \/ Resolve \/ Prepare \/ Hydrate
           \/ (PublishRefused /\ pc # "publishTurn") \/ Infer \/ BeginTurn)
    BY <2>1, RecoveringFacts, ChoosingFacts
        DEF Unmark, Normalize, Resolve, Prepare, Hydrate, PublishRefused, Infer, BeginTurn
  <2> QED BY <2>4, <2>5, <2>6, <2>7, <2>8, <2>9, <2>10
        DEF Next, CycleStep, Recovering, Choosing, TurnStep, Fault
<1> QED BY <1>2, <1>3, <1>4

\* A recovery leaves a tracked record alone unless it is done.
LEMMA TrackedStays ==
    ASSUME TypeOK, Recovering, NEW i \in Issue, rec[i].state = "tracked"
    PROVE  rec'[i].state \in {"tracked", "done"}
<1>1. rec[i] \in Record
  BY DEF TypeOK
<1>2. Recovered(i) \subseteq {rec[i], doneResetPatch(rec[i], TRUE), doneResetPatch(rec[i], FALSE)}
  BY DEF Recovered
<1>3. \A pr \in BOOLEAN : doneResetPatch(rec[i], pr).state = "done"
  BY <1>1, LeavingFacts
<1>4. /\ doneResetPatch(rec[i], TRUE).state = "done"
      /\ doneResetPatch(rec[i], FALSE).state = "done"
  BY DEF doneResetPatch
<1>5. rec'[i] = rec[i] \/ rec'[i] \in Recovered(i)
  BY RecoveringRecords
<1> QED BY <1>2, <1>4, <1>5

\* What is eligible is not done.
LEMMA EligibleIsNotDone ==
    ASSUME NEW i \in Eligible
    PROVE  rec[i].state # "done"
<1> QED BY DEF Eligible, isEligibleForSelection, Terminal, shouldAutoRetryTimeout,
               shouldAutoRetryBlockedVerification, shouldAutoRetryHandoffMissing

\* Nothing that is done is reserved where the prelude writes, nor worked on.
LEMMA DoneApartStep ==
    ASSUME RunInv, [Next]_vars
    PROVE  DoneApart'
<1>1. TypeOK /\ DoneApart /\ WorkReserved /\ TurnKnown
  BY DEF RunInv
<1> DEFINE Prelude == {"unmark", "recover", "choose", "degraded", "select"}
<1> USE DEF At, GoTo, EndCycle, TurnPcs
<1>2. ASSUME pc' \notin Prelude, pc' \notin AtWork
      PROVE  DoneApart'
  BY <1>2 DEF DoneApart
<1>3. ASSUME pc' \in AtWork, rec'[work'].state # "done"
      PROVE  DoneApart'
  BY <1>3 DEF DoneApart, AtWork
<1>4. ASSUME pc' \in Prelude, active' # None => rec'[active'].state = "tracked"
      PROVE  DoneApart'
  BY <1>4 DEF DoneApart, AtWork
<1> HIDE DEF Prelude
<1>5. CASE StartCycle \/ Clear \/ Abort \/ TrackOpened
  BY <1>2, <1>5 DEF StartCycle, Clear, Abort, TrackOpened, AtWork, Prelude
<1>6. CASE AuthFails
  BY <1>2, <1>6 DEF AuthFails, cycle, AtWork, Prelude
<1>7. CASE NoHandoff \/ TurnFails \/ HintedStop \/ TurnThrows
  BY <1>2, <1>7 DEF NoHandoff, TurnFails, HintedStop, TurnThrows, Conclude, AtWork, Prelude
<1>8. CASE Reserve
  <2>1. pc' \in {"recover", "unmark"} /\ (active' # None => rec'[active'].state = "tracked")
    BY <1>8 DEF Reserve, KeepOrDrop, ReportInterrupted, Abandon, Release
  <2> QED BY <1>4, <2>1 DEF Prelude
<1>9. CASE Unmark
  BY <1>1, <1>4, <1>9 DEF Unmark, DoneApart, Prelude
<1>10. CASE Recovering
  <2>1. CASE pc' = "idle"
    BY <1>2, <2>1 DEF AtWork, Prelude
  <2>2. CASE pc' \in {"choose", "degraded", "select"}
    <3>1. ASSUME active' # None
          PROVE  rec'[active'].state = "tracked"
      <4>1. active' = active /\ active \in Issue /\ rec'[active].state # "done" /\ pc = "recover"
        BY <1>1, <1>10, <3>1, RecoveringFacts DEF TypeOK
      <4>2. rec[active].state = "tracked"
        BY <1>1, <3>1, <4>1 DEF DoneApart
      <4> QED BY <1>1, <1>10, <4>1, <4>2, TrackedStays
    <3> QED BY <1>4, <2>2, <3>1 DEF Prelude
  <2> QED BY <1>10, <2>1, <2>2, RecoveringFacts
<1>11. CASE Choosing
  <2>1. CASE pc' = "idle"
    BY <1>2, <2>1 DEF AtWork, Prelude
  <2>2. CASE pc' # "idle"
    <3>1. /\ pc' \in {"normalize", "resolve"} /\ rec' = rec /\ work' = active'
          /\ IF active = None THEN active' \in Eligible ELSE active' = active
      BY <1>11, <2>2, ChoosingFacts
    <3>2. CASE active = None
      BY <1>3, <3>1, <3>2, EligibleIsNotDone DEF AtWork
    <3>3. CASE active # None
      <4>1. rec[active].state = "tracked"
        BY <1>1, <1>11, <3>3, ChoosingFacts DEF DoneApart
      <4> QED BY <1>3, <3>1, <3>3, <4>1 DEF AtWork
    <3> QED BY <3>2, <3>3
  <2> QED BY <2>1, <2>2
<1>12. CASE Normalize
  <2>1. work \in Issue /\ rec[work] \in Record /\ rec[work].state # "done" /\ pc' = "resolve" /\ work' = work
    BY <1>1, <1>12, Working DEF Normalize, DoneApart, AtWork
  <2> DEFINE q == [Queued(rec[work]) EXCEPT !.reason = "verification", !.verifs = rec[work].verifs + 1]
  <2>2. Queued(rec[work]).state = "queued" /\ q.state = "queued"
    BY DEF Queued
  <2>3. rec' = rec \/ Touch(work, {Queued(rec[work])}) \/ Touch(work, {q})
    BY <1>12 DEF Normalize, Queued
  <2> HIDE DEF q
  <2>4. rec'[work].state # "done"
    BY <1>1, <2>1, <2>2, <2>3 DEF Touch, TypeOK
  <2> QED BY <1>3, <2>1, <2>4 DEF AtWork
<1>13. CASE Resolve \/ Hydrate \/ Complete
  <2>1. \/ pc' \in {"idle", "clear"}
        \/ pc \in AtWork /\ pc' \in AtWork /\ rec' = rec /\ work' = work
    BY <1>13 DEF Resolve, Hydrate, Complete, Conclude, AtWork
  <2>2. CASE pc' \in {"idle", "clear"}
    BY <1>2, <2>2 DEF AtWork, Prelude
  <2>3. CASE pc \in AtWork /\ pc' \in AtWork /\ rec' = rec /\ work' = work
    BY <1>1, <1>3, <2>3 DEF DoneApart
  <2> QED BY <2>1, <2>2, <2>3
<1>14. CASE Prepare
  <2>1. work \in Issue /\ rec[work].state # "done" /\ pc' = "hydrate" /\ work' = work
    BY <1>1, <1>14, Working DEF Prepare, DoneApart, AtWork
  <2> DEFINE q == [rec[work] EXCEPT !.state = IF rec[work].impl = 0 THEN "planning" ELSE rec[work].state,
                                    !.why = "none", !.reason = "none"]
  <2>2. rec[work] \in Record /\ Touch(work, {q})
    BY <1>1, <1>14, <2>1 DEF Prepare, TypeOK
  <2>3. q.state # "done"
    BY <2>1, <2>2 DEF Record
  <2> HIDE DEF q
  <2>4. rec'[work].state # "done"
    BY <1>1, <2>1, <2>2, <2>3 DEF Touch, TypeOK
  <2> QED BY <1>3, <2>1, <2>4 DEF AtWork
<1>15. CASE Publish \/ Mark \/ AgentWorks
  <2>1. pc \in AtWork /\ pc' \in AtWork /\ rec' = rec /\ work' = work
    BY <1>15 DEF Publish, Mark, AgentWorks, AtWork, disk
  <2> QED BY <1>1, <1>3, <2>1 DEF DoneApart
<1>16. CASE PublishRefused
  BY <1>2, <1>16 DEF PublishRefused, AtWork, Prelude
<1>17. CASE Infer
  <2>1. work \in Issue /\ rec[work] \in Record
    BY <1>17, Working DEF Infer, AtWork
  <2> DEFINE next == inferStateWithoutPullRequest(rec[work], branch[work])
             q == resetNoPrLifecycleFailureTracking(rec[work], next)
  <2>2. next \in RunState /\ next # "done" /\ Touch(work, {q})
    BY <1>17, <2>1, InferFacts DEF Infer, RunState
  <2>3. q.state = next
    BY <2>1, <2>2, ResetFacts
  <2>4. pc' = "idle" \/ (pc' = "begin" /\ work' = work)
    BY <1>17 DEF Infer
  <2> HIDE DEF q, next
  <2>5. rec'[work].state # "done"
    BY <1>1, <2>1, <2>2, <2>3 DEF Touch, TypeOK
  <2>6. CASE pc' = "idle"
    BY <1>2, <2>6 DEF AtWork, Prelude
  <2> QED BY <1>3, <2>4, <2>5, <2>6 DEF AtWork
<1>18. CASE BeginTurn
  <2>1. pc' = "mark" /\ work' = work /\ Guarded(rec'[work])
    BY <1>18, BeginTurnFits DEF BeginTurn
  <2> QED BY <1>3, <2>1 DEF AtWork, Guarded, OWNER_GUARDED_ACTIVE_STATES
<1>19. CASE GateRefuses
  <2>1. CASE pc' = "mark"
    <3>1. rec'[work].state = rec[work].state /\ work' = work /\ pc = "returned"
      BY <1>19, <2>1, GateRefusesFits DEF GateRefuses
    <3> QED BY <1>1, <1>3, <2>1, <3>1 DEF DoneApart, AtWork
  <2>2. CASE pc' # "mark"
    BY <1>2, <1>19, <2>2 DEF GateRefuses, AtWork, Prelude
  <2> QED BY <2>1, <2>2
<1>20. CASE Outside \/ UNCHANGED vars
  <2>1. UNCHANGED <<active, pc, work>> /\ (pc # "idle" => rec' = rec)
    BY <1>20, OutsideFacts
  <2> QED BY <1>1, <2>1 DEF DoneApart, AtWork
<1> QED BY <1>5, <1>6, <1>7, <1>8, <1>9, <1>10, <1>11, <1>12, <1>13, <1>14, <1>15, <1>16, <1>17, <1>18,
           <1>19, <1>20 DEF Next, CycleStep, Recovering, Choosing, TurnStep, Fault

\* Every step keeps the invariant.
LEMMA RunInvStep ==
    ASSUME RunInv, [Next]_vars
    PROVE  RunInv'
<1> QED BY TypeStep, WorkReservedStep, TurnKnownStep, JournalSyncedStep, LostHeldStep, HeldLostStep,
           KnownPullRequestStep, PaidStep, OpenedOnceStep, StaleReservedStep, DoneApartStep DEF RunInv
-----------------------------------------------------------------------------
\* The invariant holds in every state of a run, whatever crashes, requeues and
\* edits fall between two saves.
THEOREM RunInvariant == Spec => []RunInv
<1>1. Init => RunInv
  BY InitRun
<1>2. RunInv /\ [Next]_vars => RunInv'
  BY RunInvStep
<1> QED BY <1>1, <1>2, PTL DEF Spec

\* Records, markers and the cycle keep their types: no patch of a record leaves
\* a field without a value (core/types.ts, IssueRunRecord).
THEOREM RunTypes == Spec => []TypeOK
<1>1. RunInv => TypeOK
  BY DEF RunInv
<1> QED BY <1>1, RunInvariant, PTL

\* For any number of issues and any number of crashes, the agent is not started
\* while a turn that died without a trace is unreported
\* (recovery-active-reconciliation.ts:156).
THEOREM LostTurnsFirst == Spec => []NoSilentRerun
<1>1. RunInv => NoSilentRerun
  BY DEF RunInv, LostHeld, NoSilentRerun, TurnPcs
<1> QED BY <1>1, RunInvariant, PTL

\* What the report rests on, for any issues and crashes: until it is reported a
\* lost turn keeps reservation and marker, and between two turns no other issue's
\* marker looks like one (recovery-active-reconciliation.ts:57).
THEOREM LossesKept == Spec => [](LostHeld /\ HeldLost)
<1>1. RunInv => LostHeld /\ HeldLost
  BY DEF RunInv
<1> QED BY <1>1, RunInvariant, PTL

\* For every limit: an attempt beyond the budget is one that a counted stale
\* recovery pays for (supervisor.ts:562).
THEOREM BudgetKept == Spec => []OverBudgetIsRecovery
<1>1. RunInv => OverBudgetIsRecovery
  BY DEF RunInv, Paid
<1> QED BY <1>1, RunInvariant, PTL

\* Only a turn that died without a trace is reported as one
\* (recovery-active-reconciliation.ts:57).
THEOREM AlarmsTrue == Spec => NoFalseAlarm
<1>1. ASSUME RunInv, [Next]_vars
      PROVE  [interrupted' /\ ~interrupted => active \in cutShort]_vars
  <2> SUFFICES ASSUME interrupted', ~interrupted
               PROVE  active \in cutShort
    OBVIOUS
  <2> USE DEF GoTo, EndCycle
  <2>1. CASE Reserve
    <3>1. active # None /\ Guarded(rec[active]) /\ InterruptedTurn(active) /\ pc = "reserve"
      BY <2>1 DEF Reserve, KeepOrDrop, ReportInterrupted, Abandon, Guarded, At
    <3> QED BY <1>1, <3>1 DEF RunInv, HeldLost, TypeOK, InterruptedTurn, TurnPcs
  <2>2. CASE ~Reserve
    <3>1. ~(StartCycle \/ AuthFails \/ Unmark \/ Recovering \/ Choosing \/ Normalize \/ Resolve \/ Prepare)
      BY RecoveringFacts, ChoosingFacts DEF StartCycle, AuthFails, Unmark, Normalize, Resolve, Prepare, cycle
    <3>2. ~(Hydrate \/ Publish \/ PublishRefused \/ TrackOpened \/ Infer \/ BeginTurn \/ Mark \/ AgentWorks)
      BY DEF Hydrate, Publish, PublishRefused, TrackOpened, Infer, BeginTurn, Mark, AgentWorks
    <3>3. ~(NoHandoff \/ TurnFails \/ HintedStop \/ TurnThrows \/ GateRefuses \/ Complete \/ Clear \/ Abort)
      BY DEF NoHandoff, TurnFails, HintedStop, TurnThrows, GateRefuses, Complete, Conclude, Clear, Abort
    <3>4. ~(Outside \/ UNCHANGED vars)
      BY OutsideFacts
    <3> QED BY <1>1, <2>2, <3>1, <3>2, <3>3, <3>4 DEF Next, CycleStep, Recovering, Choosing, TurnStep, Fault
  <2> QED BY <2>1, <2>2
<1> QED BY <1>1, RunInvariant, PTL DEF Spec, NoFalseAlarm

\* The supervisor opens one pull request for an issue at most, whatever dies
\* between its creation and the save of its number
\* (run-once-issue-preparation.ts:336).
THEOREM PullRequestOnce == Spec => []OnePullRequest
<1>1. RunInv => OnePullRequest
  BY DEF RunInv, OpenedOnce, OnePullRequest
<1> QED BY <1>1, RunInvariant, PTL

\* For any number of issues, and however many inventories fail: while an open issue
\* counts as done on the agent's word its record is left as it is, put before the
\* operator, or settled by a pull request (recovery-historical-reconciliation.ts:292).
THEOREM ClaimsAreKept == Spec => ClaimsRest
<1>1. ASSUME RunInv, [Next]_vars
      PROVE  [\A i \in Issue : Claimed(i) =>
                 rec'[i] = rec[i] \/ rec'[i].state = "blocked" \/ rec'[i].pr]_vars
  <2> SUFFICES ASSUME NEW i \in Issue, Claimed(i)
               PROVE  rec'[i] = rec[i] \/ rec'[i].state = "blocked" \/ rec'[i].pr
    OBVIOUS
  <2>1. TypeOK /\ DoneApart /\ WorkReserved
    BY <1>1 DEF RunInv
  <2>2. ASSUME NEW j \in Issue, j # i, NEW S, Touch(j, S)
        PROVE  rec'[i] = rec[i]
    BY <2>1, <2>2 DEF Touch, TypeOK
  <2>3. pc \in AtWork => work \in Issue /\ work # i
    BY <2>1 DEF WorkReserved, DoneApart, Claimed
  <2> USE DEF At
  <2>4. CASE UNCHANGED rec
    BY <2>4
  <2>5. CASE AuthFails
    <3> DEFINE no == FALSE
               B == Blocked(rec[active], "unknown", "command_error", "other", no)
    <3>1. CASE active = i
      <4>1. Touch(i, B) /\ rec[i] \in Record
        BY <2>1, <2>5, <3>1, RunAssumption DEF AuthFails, TypeOK
      <4>2. \A q \in B : q.state = "blocked"
        <5>1. no \in BOOLEAN
          OBVIOUS
        <5> HIDE DEF no
        <5> QED BY <3>1, <4>1, <5>1, BlockedFacts, Names
      <4> HIDE DEF B
      <4> QED BY <2>1, <4>1, <4>2 DEF Touch, TypeOK
    <3>2. CASE active # i
      BY <2>1, <2>2, <2>5, <3>2 DEF AuthFails, TypeOK
    <3> QED BY <3>1, <3>2
  <2>6. CASE Reserve
    <3>1. rec[i].state \notin OWNER_GUARDED_ACTIVE_STATES
      BY DEF Claimed, OWNER_GUARDED_ACTIVE_STATES
    <3>2. CASE KeepOrDrop
      BY <3>2 DEF KeepOrDrop
    <3>3. CASE active # None /\ active # i /\ (ReportInterrupted(active) \/ Abandon(active))
      BY <2>1, <2>2, <3>3 DEF ReportInterrupted, Abandon, TypeOK
    <3> QED BY <2>6, <3>1, <3>2, <3>3 DEF Reserve
  <2>7. CASE Recovering
    <3>1. Recovered(i) = DoneNoPr(i)
      BY DEF Recovered, Claimed
    <3>2. rec'[i] = rec[i] \/ rec'[i] \in DoneNoPr(i)
      BY <2>1, <2>7, <3>1, RecoveringRecords
    <3>3. rec[i] \in Record
      BY <2>1 DEF TypeOK
    <3>4. ASSUME NEW q \in DoneNoPr(i)
          PROVE  q.state = "blocked"
      BY <3>3, <3>4 DEF DoneNoPr, NoSignature, Record
    <3> QED BY <3>2, <3>4
  <2>8. CASE Choosing
    <3>1. pc \in {"choose", "degraded", "select"}
      BY <2>8, ChoosingFacts
    <3>2. active # i
      BY <2>1, <3>1, RunAssumption DEF DoneApart, Claimed
    <3>3. i \notin Eligible
      BY EligibleIsNotDone DEF Claimed
    <3>4. UNCHANGED rec \/ \E j \in Issue : j # i /\ Touch(j, {PutBack(rec[j])})
      BY <2>1, <2>8, <3>2, <3>3, ChoosingFacts DEF TypeOK
    <3> QED BY <2>2, <3>4
  <2>9. CASE Normalize \/ Resolve \/ Prepare \/ Hydrate
    BY <2>2, <2>3, <2>9 DEF Normalize, Resolve, Prepare, Hydrate, GateBlocks, AtWork
  <2>10. CASE PublishRefused \/ TrackOpened \/ Infer \/ BeginTurn
    <3>1. pc \in AtWork
      BY <2>10 DEF PublishRefused, TrackOpened, Infer, BeginTurn, AtWork, TurnPcs
    <3> QED BY <2>2, <2>3, <2>10, <3>1 DEF PublishRefused, TrackOpened, Infer, BeginTurn
  <2>11. CASE NoHandoff \/ TurnFails \/ HintedStop \/ TurnThrows \/ GateRefuses \/ Complete
    <3>1. pc \in AtWork
      BY <2>11 DEF NoHandoff, TurnFails, HintedStop, TurnThrows, GateRefuses, Complete, AtWork, TurnPcs
    <3> QED BY <2>2, <2>3, <2>11, <3>1
          DEF NoHandoff, TurnFails, HintedStop, TurnThrows, GateRefuses, GateBlocks, Complete, Conclude
  <2>12. ASSUME NEW j \in Issue, OperatorRequeue(j)
         PROVE  rec'[i] = rec[i]
    <3>1. j # i
      BY <2>12 DEF OperatorRequeue, Claimed
    <3> QED BY <2>2, <2>12, <3>1 DEF OperatorRequeue
  <2>13. CASE \/ StartCycle \/ Unmark \/ Publish \/ Mark \/ AgentWorks \/ Clear \/ Abort \/ UNCHANGED vars
              \/ \E j \in Issue : \/ EditIssue(j) \/ CloseIssue(j) \/ OpenPullRequest(j)
                                  \/ MergePullRequest(j) \/ ClosePullRequest(j)
    <3>1. UNCHANGED rec
      BY <2>13 DEF StartCycle, Unmark, Publish, Mark, AgentWorks, Clear, Abort, EditIssue, CloseIssue,
                   OpenPullRequest, MergePullRequest, ClosePullRequest, vars, disk
    <3> QED BY <3>1
  <2> QED BY <1>1, <2>5, <2>6, <2>7, <2>8, <2>9, <2>10, <2>11, <2>12, <2>13
        DEF Next, CycleStep, Recovering, Choosing, TurnStep, Fault, Outside
<1> QED BY <1>1, RunInvariant, PTL DEF Spec, ClaimsRest
-----------------------------------------------------------------------------
\* A cycle that reported a loss goes through the recoveries and ends.
AlarmEnds == interrupted => pc \in {"unmark", "recover", "choose", "degraded", "select"}

LEMMA AlarmEndsStep ==
    ASSUME RunInv, AlarmEnds, [Next]_vars
    PROVE  AlarmEnds'
<1> USE DEF AlarmEnds, At, GoTo, EndCycle
<1>1. CASE Reserve
  <2>1. CASE KeepOrDrop
    BY <1>1, <2>1 DEF Reserve, KeepOrDrop
  <2>2. CASE ReportInterrupted(active)
    BY <2>2 DEF ReportInterrupted
  <2>3. CASE Abandon(active)
    BY <1>1, <2>3 DEF Reserve, Abandon
  <2> QED BY <1>1, <2>1, <2>2, <2>3 DEF Reserve
<1>2. CASE StartCycle \/ AuthFails \/ Unmark \/ Recovering \/ Choosing
  BY <1>2, RecoveringFacts, ChoosingFacts DEF StartCycle, AuthFails, Unmark, cycle
<1>3. CASE Clear \/ Abort
  BY <1>3 DEF Clear, Abort
<1>4. CASE Normalize \/ Resolve \/ Prepare \/ Hydrate \/ Publish \/ PublishRefused \/ TrackOpened
  BY <1>4 DEF Normalize, Resolve, Prepare, Hydrate, Publish, PublishRefused, TrackOpened
<1>5. CASE Infer \/ BeginTurn \/ Mark \/ AgentWorks \/ NoHandoff \/ TurnFails \/ HintedStop \/ TurnThrows
  BY <1>5 DEF Infer, BeginTurn, Mark, AgentWorks, NoHandoff, TurnFails, HintedStop, TurnThrows,
              Conclude, TurnPcs
<1>6. CASE GateRefuses \/ Complete
  BY <1>6 DEF GateRefuses, Complete, Conclude
<1>7. CASE Outside \/ UNCHANGED vars
  BY <1>7, OutsideFacts
<1> QED BY <1>1, <1>2, <1>3, <1>4, <1>5, <1>6, <1>7 DEF Next, CycleStep, Recovering, Choosing, TurnStep, Fault

\* Past the reservation no step but a death changes what is lost, and the
\* reservation is kept or given up.
LEMMA PastReservation ==
    ASSUME RunInv, [Next]_vars, pc \notin {"idle", "reserve", "choose", "degraded", "select"}, ~Abort
    PROVE  /\ cutShort = {} /\ cutShort' = {}
           /\ active' = active \/ active' = None
           /\ interrupted' = interrupted \/ interrupted' = FALSE
<1>1. cutShort = {}
  BY DEF RunInv, LostHeld
<1> USE DEF At, GoTo, EndCycle, Release, disk, cycle, history
<1>2. CASE Unmark \/ Recovering \/ Normalize \/ Resolve \/ Prepare
  BY <1>1, <1>2, RecoveringFacts DEF Unmark, Normalize, Resolve, Prepare
<1>3. CASE Hydrate \/ Publish \/ PublishRefused \/ TrackOpened \/ Infer
  BY <1>1, <1>3 DEF Hydrate, Publish, PublishRefused, TrackOpened, Infer
<1>4. CASE BeginTurn \/ Mark \/ AgentWorks \/ NoHandoff \/ TurnFails \/ HintedStop \/ TurnThrows
  BY <1>1, <1>4 DEF BeginTurn, Mark, AgentWorks, NoHandoff, TurnFails, HintedStop, TurnThrows, Conclude
<1>5. CASE GateRefuses \/ Complete \/ Clear
  BY <1>1, <1>5 DEF GateRefuses, Complete, Clear, Conclude
<1>6. CASE Outside \/ UNCHANGED vars
  BY <1>1, <1>6, OutsideFacts DEF vars
<1>7. ~(AuthFails \/ StartCycle \/ Reserve \/ Choosing)
  BY ChoosingFacts DEF AuthFails, StartCycle, Reserve
<1> QED BY <1>2, <1>3, <1>4, <1>5, <1>6, <1>7 DEF Next, CycleStep, Recovering, Choosing, TurnStep, Fault

\* Every step of a cycle, a fault or the outside is a step of the ledger, or none.
LEMMA LedgerStep ==
    ASSUME RunInv, AlarmEnds, [Next]_vars
    PROVE  Ledger!Next \/ UNCHANGED <<active, Phase, interrupted>>
<1> DEFINE Turning == {"mark"} \cup TurnPcs
<1>1. TypeOK /\ LostHeld /\ HeldLost /\ WorkReserved
  BY DEF RunInv
<1>2. cutShort # {} => active \in Issue /\ cutShort = {active} /\ pc \in {"idle", "reserve"}
  BY <1>1 DEF LostHeld, TypeOK
<1>3. pc \in {"idle", "reserve"} => ~interrupted /\ pc \notin Turning
  BY DEF AlarmEnds, TurnPcs
<1>4. ASSUME cutShort = {}, cutShort' = {}, pc' \notin Turning,
             active' = active \/ active' = None,
             interrupted' = interrupted \/ interrupted' = FALSE
      PROVE  Ledger!End
  BY <1>4 DEF Phase, Ledger!End, Ledger!Quiet
<1> USE DEF At, GoTo, EndCycle
<1>5. CASE pc \notin {"idle", "reserve", "choose", "degraded", "select"} /\ ~Abort
  <2>1. /\ cutShort = {} /\ cutShort' = {}
        /\ active' = active \/ active' = None
        /\ interrupted' = interrupted \/ interrupted' = FALSE
    BY <1>5, PastReservation
  <2>2. CASE pc' \notin Turning
    BY <1>4, <2>1, <2>2 DEF Ledger!Next
  <2>3. CASE pc' \in Turning /\ pc \in Turning
    <3>1. Mark \/ AgentWorks \/ GateRefuses \/ Complete \/ Publish \/ Outside \/ UNCHANGED vars
      BY <1>5, <2>3, RecoveringFacts, ChoosingFacts
          DEF Next, CycleStep, Recovering, Choosing, TurnStep, Fault, AuthFails, StartCycle, Reserve,
              Unmark, Normalize, Resolve, Prepare, Hydrate, PublishRefused, TrackOpened, Infer, BeginTurn,
              NoHandoff, TurnFails, HintedStop, TurnThrows, Conclude, Clear, TurnPcs
    <3>2. UNCHANGED <<active, interrupted>>
      BY <3>1, OutsideFacts
         DEF Mark, AgentWorks, GateRefuses, Complete, Conclude, Publish, disk
    <3> QED BY <2>1, <2>3, <3>2 DEF Phase
  <2>4. CASE pc' \in Turning /\ pc \notin Turning
    <3>1. BeginTurn
      BY <1>5, <2>4, OutsideFacts, RecoveringFacts, ChoosingFacts
          DEF Next, CycleStep, Recovering, Choosing, TurnStep, Fault, AuthFails, StartCycle, Reserve,
              Unmark, Normalize, Resolve, Prepare, Hydrate, Publish, PublishRefused, TrackOpened, Infer,
              Mark, AgentWorks, NoHandoff, TurnFails, HintedStop, TurnThrows, GateRefuses, Complete,
              Conclude, Clear, TurnPcs
    <3>2. pc = "begin" /\ pc' = "mark" /\ UNCHANGED <<active, interrupted>>
      BY <3>1 DEF BeginTurn
    <3>3. active # None /\ ~interrupted
      BY <1>1, <3>2, RunAssumption DEF WorkReserved, AtWork, AlarmEnds
    <3>4. Phase = "rest" /\ Phase' = "turn"
      BY <2>1, <3>2 DEF Phase, TurnPcs
    <3> QED BY <3>2, <3>3, <3>4 DEF Ledger!Start, Ledger!Next
  <2> QED BY <2>2, <2>3, <2>4
<1>6. CASE Abort
  <2>1. pc' = "idle" /\ interrupted' = FALSE /\ active' = active /\ pc # "idle" /\ pc' \notin Turning
    BY <1>6 DEF Abort, disk, TurnPcs
  <2>2. CASE cutShort' = cutShort /\ cutShort = {}
    BY <1>4, <2>1, <2>2 DEF Ledger!Next
  <2>3. CASE cutShort' = cutShort /\ cutShort # {}
    <3>1. interrupted = FALSE
      BY <1>1, <1>2, <1>3, <2>3 DEF TypeOK
    <3>2. Phase = "lost" /\ Phase' = "lost"
      BY <2>3 DEF Phase
    <3> QED BY <2>1, <3>1, <3>2
  <2>4. CASE pc \in TurnPcs /\ ~moved[work] /\ cutShort' = cutShort \cup {work}
    <3>1. Phase = "turn" /\ Phase' = "lost"
      BY <1>2, <2>4 DEF Phase, TurnPcs
    <3>2. ~interrupted
      BY <2>4 DEF AlarmEnds, TurnPcs
    <3> QED BY <1>1, <1>6, <2>1, <3>1, <3>2 DEF Ledger!Die, Ledger!Next, Abort, TypeOK
  <2> QED BY <1>6, <2>2, <2>3, <2>4 DEF Abort
<1>7. CASE StartCycle
  <2>1. pc = "idle" /\ pc' = "reserve" /\ UNCHANGED <<cutShort, active, interrupted>>
    BY <1>7 DEF StartCycle, disk, history
  <2> QED BY <2>1 DEF Phase, TurnPcs
<1>8. CASE AuthFails
  <2>1. pc = "idle" /\ UNCHANGED <<active, pc, interrupted>>
    BY <1>8 DEF AuthFails, cycle
  <2>2. cutShort = {} => cutShort' = {}
    BY <1>8 DEF AuthFails
  <2>3. cutShort # {} => cutShort' = {}
    BY <1>2, <1>8, RunAssumption DEF AuthFails
  <2>4. CASE cutShort = {}
    BY <2>1, <2>2, <2>4 DEF Phase
  <2>5. CASE cutShort # {}
    BY <1>3, <2>1, <2>3, <2>5 DEF Phase, Ledger!Excuse, Ledger!Next
  <2> QED BY <2>4, <2>5
<1>9. CASE Reserve
  <2>1. pc = "reserve" /\ pc' \notin Turning
    BY <1>9 DEF Reserve, KeepOrDrop, ReportInterrupted, Abandon, TurnPcs
  <2>2. CASE KeepOrDrop /\ (active = None \/ ~Guarded(rec[active]))
    <3>1. cutShort = {}
      BY <1>1, <1>2, <2>2, RunAssumption DEF LostHeld
    <3> QED BY <1>4, <2>1, <2>2, <3>1 DEF KeepOrDrop, history, Ledger!Next
  <2>3. CASE ReportInterrupted(active) /\ active # None /\ Guarded(rec[active]) /\ InterruptedTurn(active)
    <3>1. active \in cutShort
      BY <1>1, <2>1, <2>3 DEF HeldLost, InterruptedTurn, TypeOK, TurnPcs
    <3>2. cutShort # {} /\ cutShort' = {}
      BY <1>2, <2>3, <3>1 DEF ReportInterrupted
    <3>3. Phase = "lost" /\ Phase' = "rest"
      BY <2>1, <3>2 DEF Phase
    <3>4. active' = None /\ interrupted' = TRUE
      BY <2>3 DEF ReportInterrupted, Release
    <3> QED BY <3>3, <3>4 DEF Ledger!Report, Ledger!Next
  <2>4. CASE Abandon(active) /\ ~InterruptedTurn(active)
    <3>1. cutShort = {}
      BY <1>1, <1>2, <2>4 DEF LostHeld, InterruptedTurn
    <3> QED BY <1>4, <2>1, <2>4, <3>1 DEF Abandon, Release, history, Ledger!Next
  <2> QED BY <1>9, <2>2, <2>3, <2>4 DEF Reserve, Guarded
<1>10. CASE Choosing
  <2>1. cutShort = {} /\ cutShort' = {} /\ pc \in {"choose", "degraded", "select"} /\ pc' \notin Turning
    BY <1>2, <1>10, ChoosingFacts DEF history, TurnPcs
  <2>2. CASE active' = active \/ active' = None
    <3>1. interrupted' = interrupted \/ interrupted' = FALSE
      BY <1>10, ChoosingFacts
    <3> QED BY <1>4, <2>1, <2>2, <3>1 DEF Ledger!Next
  <2>3. CASE active' # active /\ active' # None
    <3>1. active = None /\ active' \in Issue /\ ~interrupted /\ interrupted' = interrupted
      BY <1>10, <2>3, ChoosingFacts
    <3>2. Phase = "rest" /\ Phase' = "rest"
      BY <2>1 DEF Phase, TurnPcs
    <3> QED BY <3>1, <3>2 DEF Ledger!Reserve, Ledger!Next
  <2> QED BY <2>2, <2>3
<1>11. CASE Outside \/ UNCHANGED vars
  <2>1. UNCHANGED <<active, pc, interrupted>>
    BY <1>11, OutsideFacts
  <2>2. cutShort' = cutShort
    <3>1. ASSUME NEW i \in Issue, OperatorRequeue(i)
          PROVE  cutShort' = cutShort
      BY <1>2, <3>1 DEF OperatorRequeue
    <3>2. ASSUME NEW i \in Issue,
                 EditIssue(i) \/ OpenPullRequest(i) \/ CloseIssue(i) \/ MergePullRequest(i)
                    \/ ClosePullRequest(i)
          PROVE  cutShort' = cutShort
      BY <3>2 DEF EditIssue, OpenPullRequest, CloseIssue, MergePullRequest, ClosePullRequest, history
    <3> QED BY <1>11, <3>1, <3>2 DEF Outside, vars, history
  <2> QED BY <2>1, <2>2 DEF Phase
<1>12. CASE pc \in {"idle", "reserve"} /\ CycleStep
  <2>1. StartCycle \/ Reserve
    BY <1>12, RecoveringFacts, ChoosingFacts
        DEF CycleStep, Recovering, Choosing, TurnStep, Unmark, Normalize, Resolve, Prepare, Hydrate,
            Publish, PublishRefused, TrackOpened, Infer, BeginTurn, Mark, AgentWorks, NoHandoff, TurnFails,
            HintedStop, GateRefuses, Complete, Clear
  <2> QED BY <1>7, <1>9, <2>1
<1>13. CASE pc \in {"choose", "degraded", "select"} /\ CycleStep
  <2>1. Choosing
    BY <1>13, RecoveringFacts
        DEF CycleStep, Recovering, Choosing, TurnStep, StartCycle, Reserve, Unmark, Normalize, Resolve,
            Prepare, Hydrate, Publish, PublishRefused, TrackOpened, Infer, BeginTurn, Mark, AgentWorks,
            NoHandoff, TurnFails, HintedStop, GateRefuses, Complete, Clear
  <2> QED BY <1>10, <2>1
<1>14. CASE pc \in {"idle", "reserve", "choose", "degraded", "select"} /\ (TurnThrows \/ RecoverDegraded)
  BY <1>14 DEF TurnThrows, RecoverDegraded, TurnPcs
<1> QED BY <1>5, <1>6, <1>8, <1>11, <1>12, <1>13, <1>14 DEF Next, Fault

\* For any number of issues, any limits and any faults a run keeps the ledger:
\* one reserved issue, an agent on it only, and a turn that died without a trace
\* settled before the reservation moves or an agent starts again
\* (recovery-active-reconciliation.ts:156).
THEOREM RunKeepsLedger == Spec => ImplementsLedger
<1>1. Init => Ledger!Init /\ AlarmEnds
  BY DEF Init, Ledger!Init, AlarmEnds, Phase, TurnPcs
<1>2. RunInv /\ AlarmEnds /\ [Next]_vars => AlarmEnds'
  BY AlarmEndsStep
<1>3. RunInv /\ AlarmEnds /\ [Next]_vars => [Ledger!Next]_<<active, Phase, interrupted>>
  BY LedgerStep
<1> QED BY RunInvariant, <1>1, <1>2, <1>3, PTL DEF Spec, ImplementsLedger, Ledger!Spec
\* How far a step brings a cycle, told from the places it leads from and to.
LEMMA NearerFacts ==
    ASSUME pc \in Pcs \ {"idle"}, retried \in BOOLEAN, pc' \in Pcs,
           \/ pc' = "idle"
           \/ retried' = retried /\ Farthest[pc'] < Farthest[pc]
           \/ pc = "returned" /\ pc' = "mark" /\ ~retried /\ retried' = TRUE
    PROVE  StepsLeft' < StepsLeft
<1>1. Farthest[pc] \in Nat \ {0} /\ Farthest[pc'] \in Nat
  BY DEF Pcs, Farthest
<1>2. Farthest["idle"] = 0 /\ Farthest["returned"] = 4 /\ Farthest["mark"] = 6
  BY DEF Farthest
<1>3. CASE pc' = "idle"
  BY <1>1, <1>2, <1>3 DEF StepsLeft
<1>4. CASE pc' # "idle" /\ retried' = retried /\ Farthest[pc'] < Farthest[pc]
  BY <1>1, <1>4 DEF StepsLeft
<1>5. CASE pc = "returned" /\ pc' = "mark" /\ ~retried /\ retried' = TRUE
  BY <1>2, <1>5 DEF StepsLeft
<1> QED BY <1>3, <1>4, <1>5

\* Every step of a cycle and every fault leads on, and nothing else touches it.
LEMMA CycleStepAdvances ==
    ASSUME TypeOK, pc # "idle", [Next]_vars
    PROVE  StepsLeft' < StepsLeft \/ UNCHANGED <<disk, cycle>>
<1> USE DEF At, GoTo, EndCycle
<1>1. pc \in Pcs \ {"idle"} /\ retried \in BOOLEAN
  BY DEF TypeOK
<1>2. CASE Abort \/ Clear \/ pc' = "idle"
  BY <1>1, <1>2, NearerFacts DEF Abort, Clear, Pcs
<1>3. CASE Reserve \/ Unmark \/ Recovering \/ Choosing
  <2>1. CASE Reserve
    <3>1. pc = "reserve" /\ pc' \in {"recover", "unmark"} /\ retried' = retried
      BY <2>1 DEF Reserve, KeepOrDrop, ReportInterrupted, Abandon
    <3> QED BY <1>1, <3>1, NearerFacts DEF Farthest, Pcs
  <2>2. CASE Unmark
    BY <1>1, <2>2, NearerFacts DEF Unmark, Farthest, Pcs
  <2>3. CASE Recovering
    <3>1. /\ pc = "recover"
          /\ pc' = "idle" \/ (pc' \in {"choose", "degraded", "select"} /\ retried' = retried)
      BY <2>3, RecoveringFacts
    <3> QED BY <1>1, <3>1, NearerFacts DEF Farthest, Pcs
  <2>4. CASE Choosing
    <3>1. /\ pc \in {"choose", "degraded", "select"}
          /\ pc' = "idle" \/ (pc' \in {"normalize", "resolve"} /\ retried' = retried)
      BY <2>4, ChoosingFacts
    <3>2. pc' \in Pcs /\ (pc' = "idle" \/ (retried' = retried /\ Farthest[pc'] < Farthest[pc]))
      BY <3>1 DEF Farthest, Pcs
    <3> QED BY <1>1, <3>2, NearerFacts
  <2> QED BY <1>3, <2>1, <2>2, <2>3, <2>4
<1>4. CASE Normalize \/ Resolve \/ Prepare \/ Hydrate \/ Infer
  <2>1. \/ pc = "normalize" /\ pc' = "resolve" /\ retried' = retried
        \/ pc = "resolve" /\ pc' = "prepare" /\ retried' = retried
        \/ pc = "prepare" /\ pc' = "hydrate" /\ retried' = retried
        \/ pc = "hydrate" /\ pc' \in {"publish", "infer"} /\ retried' = retried
        \/ pc = "infer" /\ pc' = "begin" /\ retried' = retried
        \/ pc' = "idle"
    BY <1>4 DEF Normalize, Resolve, Prepare, Hydrate, Infer
  <2>2. pc' \in Pcs /\ (pc' = "idle" \/ (retried' = retried /\ Farthest[pc'] < Farthest[pc]))
    BY <2>1 DEF Farthest, Pcs
  <2> QED BY <1>1, <2>2, NearerFacts
<1>5. CASE Publish \/ PublishRefused \/ TrackOpened
  <2>1. \/ pc = "publish" /\ pc' = "opened" /\ retried' = retried
        \/ pc = "publishTurn" /\ pc' \in {"openedTurn", "clear"} /\ retried' = retried
        \/ pc = "openedTurn" /\ pc' = "clear" /\ retried' = retried
        \/ pc' = "idle"
    BY <1>5 DEF Publish, PublishRefused, TrackOpened
  <2>2. pc' \in Pcs /\ (pc' = "idle" \/ (retried' = retried /\ Farthest[pc'] < Farthest[pc]))
    BY <2>1 DEF Farthest, Pcs
  <2> QED BY <1>1, <2>2, NearerFacts
<1>6. CASE BeginTurn \/ Mark \/ AgentWorks
  <2>1. \/ pc = "begin" /\ pc' = "mark" /\ retried' = retried
        \/ pc = "mark" /\ pc' = "turn" /\ retried' = retried
        \/ pc = "turn" /\ pc' = "returned" /\ retried' = retried
    BY <1>6 DEF BeginTurn, Mark, AgentWorks
  <2>2. pc' \in Pcs /\ (pc' = "idle" \/ (retried' = retried /\ Farthest[pc'] < Farthest[pc]))
    BY <2>1 DEF Farthest, Pcs
  <2> QED BY <1>1, <2>2, NearerFacts
<1>7. CASE NoHandoff \/ TurnFails \/ HintedStop \/ Complete \/ GateRefuses
  <2>1. CASE pc = "returned" /\ pc' \in {"clear", "publishTurn"} /\ retried' = retried
    <3>1. pc' \in Pcs /\ Farthest[pc'] < Farthest[pc]
      BY <2>1 DEF Farthest, Pcs
    <3> QED BY <1>1, <2>1, <3>1, NearerFacts
  <2>2. CASE pc = "returned" /\ pc' = "mark" /\ ~retried /\ retried' = TRUE
    BY <1>1, <2>2, NearerFacts DEF Pcs
  <2>3. NoHandoff \/ TurnFails \/ HintedStop \/ Complete
           => pc = "returned" /\ pc' \in {"clear", "publishTurn"} /\ retried' = retried
    BY DEF NoHandoff, TurnFails, HintedStop, Complete, Conclude
  <2>4. GateRefuses => \/ pc = "returned" /\ pc' = "clear" /\ retried' = retried
                       \/ pc = "returned" /\ pc' = "mark" /\ ~retried /\ retried' = TRUE
    BY DEF GateRefuses, RetryLeft
  <2> QED BY <1>7, <2>1, <2>2, <2>3, <2>4
<1>8. CASE TurnThrows
  <2>1. pc \in {"mark"} \cup TurnPcs /\ pc' = "clear" /\ retried' = retried
    BY <1>8 DEF TurnThrows
  <2> QED BY <1>1, <2>1, NearerFacts DEF Farthest, Pcs, TurnPcs
<1>9. CASE Outside \/ UNCHANGED vars
  <2>1. ASSUME NEW i \in Issue, OperatorRequeue(i)
        PROVE  FALSE
    BY <2>1 DEF OperatorRequeue
  <2>2. ASSUME NEW i \in Issue,
               EditIssue(i) \/ OpenPullRequest(i) \/ CloseIssue(i) \/ MergePullRequest(i)
                  \/ ClosePullRequest(i)
        PROVE  UNCHANGED <<disk, cycle>>
    BY <2>2 DEF EditIssue, OpenPullRequest, CloseIssue, MergePullRequest, ClosePullRequest
  <2> QED BY <1>9, <2>1, <2>2 DEF Outside, vars
<1>10. StartCycle \/ AuthFails => FALSE
  BY DEF StartCycle, AuthFails
<1> QED
  BY <1>2, <1>3, <1>4, <1>5, <1>6, <1>7, <1>8, <1>9, <1>10
      DEF Next, CycleStep, Recovering, Choosing, TurnStep, Fault

\* For any number of issues and whatever fails, a cycle ends at most nineteen
\* steps after it began and nothing else writes what it works on meanwhile, so
\* the next cycle, and with it every recovery of the prelude, is always a
\* bounded way off (run-once-turn-execution.ts:669).
THEOREM CyclesEnd == Spec => CycleAdvances
<1>1. TypeOK /\ [Next]_vars => [pc # "idle" => StepsLeft' < StepsLeft \/ UNCHANGED <<disk, cycle>>]_vars
  BY CycleStepAdvances
<1> QED BY RunTypes, <1>1, PTL DEF Spec, CycleAdvances
=============================================================================

------------------------------ MODULE IssueRun ------------------------------
(***************************************************************************)
(* One issue at a time from selection through agent turns to its draft     *)
(* pull request: the cycle of src/supervisor/supervisor.ts (runOnce), the  *)
(* recoveries of its prelude and everything that can cut a cycle short.    *)
(*                                                                         *)
(* Everything that survives a crash is here: the record of each issue in   *)
(* the state file, the reservation, the interrupted-turn marker and the    *)
(* journal in the workspace, the branch, and GitHub.  A step of a cycle    *)
(* ends in a save, so a crash falls between two steps.  The run lock, the  *)
(* issue locks and the atomicity of a save are those of FileLock and       *)
(* StateStore; a lock of a dead process is stale for the next cycle.       *)
(*                                                                         *)
(* Once a pull request is tracked the record leaves this module: its       *)
(* states are one state, "tracked", until GitHub merges or closes it.      *)
(* Issues are well-formed, trusted and independent of each other.          *)
(***************************************************************************)
EXTENDS Naturals, FiniteSets

CONSTANTS Issue,
          None,
          MaxImpl,      \* maxImplementationAttemptsPerIssue
          RepeatLimit,  \* sameFailureSignatureRepeatLimit
          TimeoutLimit, \* timeoutRetryLimit
          VerifyLimit,  \* blockedVerificationRetryLimit
          DraftAfter,   \* draftPrAfterAttempt
          MaxFaults,    \* bound: crashes, authentication and listing failures
          MaxHelp       \* bound: requeues, edits and pull requests by hand

ASSUME RunAssumption ==
    /\ None \notin Issue
    /\ {MaxImpl, RepeatLimit, DraftAfter} \subseteq Nat \ {0}
    /\ {TimeoutLimit, VerifyLimit, MaxFaults, MaxHelp} \subseteq Nat

\* The run states of core/types.ts that the no-PR lane tells apart.
\* "repairing" stands for every other guarded state, "draft_pr" for every
\* lifecycle state of a record without a pull request.
RunState == {"queued", "planning", "reproducing", "stabilizing", "repairing",
             "draft_pr", "tracked", "blocked", "failed", "done"}
Terminal == {"blocked", "failed", "done"}
OWNER_GUARDED_ACTIVE_STATES == {"planning", "reproducing", "stabilizing", "repairing"}
Reason == {"none", "handoff_missing", "manual_review", "verification", "unknown",
           "manual_pr_closed"}
\* last_failure_kind of a failed record; "verify" is a blocked record whose
\* last_error isVerificationBlockedMessage recognises.
Why == {"none", "timeout", "command_error", "codex_exit", "codex_failed", "verify"}
\* last_failure_signature; "other" is any that the supervisor only compares.
Signature == {"none", "stale", "handoff-missing", "no-handoff", "other"}
Branch == {"empty", "dirty", "ahead"}
PullRequest == {"none", "open", "merged", "closed"}

Record == [state : RunState, reason : Reason, why : Why, sig : Signature,
           ctx : BOOLEAN,                \* last_failure_context.category = "blocked"
           pr : BOOLEAN,                 \* pr_number is set
           impl : Nat, timeouts : Nat, verifs : Nat, repeats : Nat, stale : Nat]

VARIABLES rec,         \* SupervisorStateFile.issues
          active,      \* activeIssueNumber
          edited,      \* GitHub update of the issue since the record was touched
          marker,      \* the interrupted-turn marker exists in the workspace
          moved,       \* ... and the journal differs from its fingerprint
          branch,      \* the issue branch against the default branch
          github,      \* the issue is open; the pull request of its branch
          pc,          \* where the cycle is
          work,        \* the issue whose workspace the cycle is using
          interrupted, \* this cycle reported an interrupted turn
          retried,     \* usedSameTurnPathRepairRetry
          faults,
          helps,
          cutShort,    \* history: issues whose turn died without a trace and
                       \* was not reported yet
          opened       \* history: pull requests the supervisor opened

disk == <<rec, active, marker, moved>>
world == <<edited, branch, github>>
cycle == <<pc, work, interrupted, retried>>
history == <<faults, helps, cutShort, opened>>
vars == <<disk, world, cycle, history>>

Pcs == {"idle", "reserve", "unmark", "recover", "choose", "degraded", "select", "normalize",
        "resolve", "prepare", "hydrate", "publish", "opened", "infer", "begin", "mark", "turn",
        "returned", "publishTurn", "openedTurn", "clear"}
TurnPcs == {"turn", "returned", "publishTurn", "openedTurn"}

TypeOK ==
    /\ rec \in [Issue -> Record]
    /\ active \in Issue \cup {None}
    /\ edited \in [Issue -> {"no", "comment", "body"}]
    /\ marker \in [Issue -> BOOLEAN]
    /\ moved \in [Issue -> BOOLEAN]
    /\ branch \in [Issue -> Branch]
    /\ github \in [Issue -> [open : BOOLEAN, pr : PullRequest]]
    /\ pc \in Pcs
    /\ work \in Issue \cup {None}
    /\ interrupted \in BOOLEAN
    /\ retried \in BOOLEAN
    /\ faults \in 0..MaxFaults
    /\ helps \in 0..MaxHelp
    /\ cutShort \subseteq Issue
    /\ opened \in [Issue -> Nat]

createIssueRecord ==
    [state |-> "queued", reason |-> "none", why |-> "none", sig |-> "none", ctx |-> FALSE,
     pr |-> FALSE, impl |-> 0, timeouts |-> 0, verifs |-> 0, repeats |-> 0, stale |-> 0]

Init ==
    /\ rec = [i \in Issue |-> createIssueRecord]
    /\ active = None
    /\ edited = [i \in Issue |-> "no"]
    /\ marker = [i \in Issue |-> FALSE]
    /\ moved = [i \in Issue |-> FALSE]
    /\ branch = [i \in Issue |-> "empty"]
    /\ github = [i \in Issue |-> [open |-> TRUE, pr |-> "none"]]
    /\ pc = "idle"
    /\ work = None
    /\ interrupted = FALSE
    /\ retried = FALSE
    /\ faults = 0
    /\ helps = 0
    /\ cutShort = {}
    /\ opened = [i \in Issue |-> 0]
-----------------------------------------------------------------------------
\* Records.  A patch that may count a repeated signature is a set of records.

\* Attempts are compared with zero and the two limits only.
ImplCap == MaxImpl + DraftAfter

AtMost(n, bound) == IF n > bound THEN bound ELSE n

\* applyFailureSignature with a failure context of category "blocked" or not.
applyFailureSignature(r, sig, ctx) ==
    {[r EXCEPT !.sig = sig, !.ctx = ctx, !.repeats = n] :
        n \in (IF r.sig = sig THEN {AtMost(r.repeats + 1, RepeatLimit)} ELSE {1})
              \cup (IF sig = "other" THEN {1} ELSE {})}

NoSignature(r) == [r EXCEPT !.sig = "none", !.repeats = 0]

Blocked(r, reason, why, sig, ctx) ==
    applyFailureSignature([r EXCEPT !.state = "blocked", !.reason = reason, !.why = why], sig, ctx)

Failed(r, why) ==
    applyFailureSignature(
        [r EXCEPT !.state = "failed", !.reason = "none", !.why = why,
                  !.timeouts = IF why = "timeout" THEN AtMost(@ + 1, TimeoutLimit) ELSE @],
        "other", FALSE)

Queued(r) == [r EXCEPT !.state = "queued", !.reason = "none", !.why = "none"]

\* A record goes back to the queue without what was held against it.
QueuedAfresh(r) == [NoSignature(Queued(r)) EXCEPT !.ctx = FALSE, !.stale = 0]

\* Put back because the inventory failed: only the last error is replaced.
PutBack(r) == [r EXCEPT !.state = "queued", !.why = IF @ = "verify" THEN "none" ELSE @]

doneResetPatch(r, pr) == [createIssueRecord EXCEPT !.state = "done", !.impl = r.impl, !.pr = r.pr \/ pr]

Tracked(r) == [createIssueRecord EXCEPT !.state = "tracked", !.impl = r.impl, !.pr = TRUE]

getStaleStabilizingNoPrRecoveryCount(r) ==
    IF r.sig # "stale" THEN 0 ELSE IF r.stale > 0 THEN r.stale ELSE r.repeats

shouldAutoRetryTimeout(r) ==
    r.state = "failed" /\ r.why = "timeout" /\ r.timeouts < TimeoutLimit

shouldAutoRetryBlockedVerification(r) ==
    /\ r.state = "blocked" /\ r.why = "verify"
    /\ r.impl < MaxImpl /\ r.verifs < VerifyLimit /\ r.repeats < RepeatLimit

shouldAutoRetryHandoffMissing(r) ==
    /\ r.state = "blocked" /\ r.reason = "handoff_missing" /\ ~r.pr
    /\ r.impl < MaxImpl /\ r.repeats < RepeatLimit

isEligibleForSelection(r) ==
    \/ r.state \notin Terminal
    \/ shouldAutoRetryTimeout(r)
    \/ shouldAutoRetryBlockedVerification(r)
    \/ shouldAutoRetryHandoffMissing(r)

\* Mutant: the recoveries of a stale record are not counted.
StaleRecordsExempt(r) == ~r.pr /\ getStaleStabilizingNoPrRecoveryCount(r) > 0

hasStaleStabilizingNoPrRecoveryBudgetRemaining(r) ==
    ~r.pr /\ r.state = "queued" /\ getStaleStabilizingNoPrRecoveryCount(r) \in 1..(RepeatLimit - 1)

inferStateWithoutPullRequest(r, b) ==
    IF r.impl = 0 THEN "reproducing"
    ELSE IF b = "ahead" THEN "draft_pr"
    ELSE IF r.state \in {"planning", "reproducing"} THEN "reproducing"
    ELSE "stabilizing"

shouldPreserveStaleTracking(r, next) ==
    /\ ~r.pr /\ r.state \in {"queued", "stabilizing"} /\ next = "stabilizing"
    /\ getStaleStabilizingNoPrRecoveryCount(r) > 0

resetNoPrLifecycleFailureTracking(r, next) ==
    LET stale == getStaleStabilizingNoPrRecoveryCount(r)
        held == ~r.pr /\ r.ctx /\ r.sig # "none"
        kept == held /\ (r.repeats > 0 \/ stale > 0)
    IN [r EXCEPT !.state = next, !.reason = "none", !.ctx = kept,
                 !.sig = IF kept THEN @ ELSE "none",
                 !.repeats = IF held THEN @ ELSE 0,
                 !.stale = IF shouldPreserveStaleTracking(r, next) THEN stale ELSE 0]
-----------------------------------------------------------------------------
\* stateStore.touch and the save behind it: the record is newer than any edit.
Touch(i, records) ==
    /\ \E r \in records : rec' = [rec EXCEPT ![i] = r]
    /\ edited' = [edited EXCEPT ![i] = "no"]

At(where) == pc = where
GoTo(where) == pc' = where /\ UNCHANGED <<work, interrupted, retried>>
EndCycle == pc' = "idle" /\ work' = None /\ interrupted' = FALSE /\ retried' = FALSE
Release == active' = None

\* handleAuthFailure: no authentication, no cycle; an active issue is paused.
AuthFails ==
    /\ At("idle")
    /\ faults < MaxFaults
    /\ faults' = faults + 1
    /\ IF active = None
       THEN UNCHANGED <<rec, edited, cutShort>>
       ELSE /\ Touch(active, Blocked(rec[active], "unknown", "command_error", "other", FALSE))
            /\ cutShort' = cutShort \ {active}
    /\ UNCHANGED <<active, marker, moved, branch, github, cycle, helps, opened>>

StartCycle ==
    /\ At("idle")
    /\ GoTo("reserve")
    /\ UNCHANGED <<disk, world, history>>

\* reconcileStaleActiveIssueReservation, by the state of the active record.

KeepOrDrop ==
    /\ active' = IF active # None /\ rec[active].pr /\ rec[active].state = "tracked"
                 THEN active ELSE None
    /\ GoTo("recover")
    /\ UNCHANGED <<rec, edited, marker, moved, branch, github, history>>

\* Mutant: the marker is not looked at.
NeverReported(i) == FALSE

\* Mutant: the journal is not compared with the marker's fingerprint.
MarkerAlone(i) == marker[i]

\* detectDurableTurnUpdateSince found nothing newer than the marker.
InterruptedTurn(i) == marker[i] /\ ~moved[i]

ReportInterrupted(i) ==
    /\ Touch(i, {[r EXCEPT !.stale = 0] :
                    r \in Blocked(rec[i], "handoff_missing", "none", "handoff-missing", TRUE)})
    /\ Release
    /\ pc' = "unmark"
    /\ work' = i
    /\ interrupted' = TRUE
    /\ cutShort' = cutShort \ {i}
    /\ UNCHANGED <<marker, moved, branch, github, retried, faults, helps, opened>>

\* The record of an abandoned reservation once its marker is no obstacle.
Abandoned(i) ==
    LET r == rec[i]
        stale == getStaleStabilizingNoPrRecoveryCount(r)
        counted == [r EXCEPT !.why = "none", !.pr = FALSE, !.sig = "stale", !.ctx = TRUE,
                             !.repeats = 0, !.stale = stale + 1]
        retry == IF stale + 1 >= RepeatLimit
                 THEN [counted EXCEPT !.state = "blocked", !.reason = "manual_review"]
                 ELSE [counted EXCEPT !.state = "queued", !.reason = "none"]
        satisfied == [NoSignature(r) EXCEPT !.state = "blocked", !.reason = "manual_review",
                                            !.why = "none", !.pr = FALSE, !.ctx = TRUE, !.stale = 0]
    IN IF r.state # "stabilizing" THEN {[r EXCEPT !.reason = "none", !.stale = stale]}
       ELSE IF github[i].pr # "none"
       THEN {IF r.sig = "stale" THEN [NoSignature(r) EXCEPT !.reason = "none", !.ctx = FALSE, !.stale = 0]
                          ELSE [r EXCEPT !.reason = "none", !.stale = 0]}
       ELSE {retry} \cup (IF branch[i] = "dirty" THEN {} ELSE {satisfied})

Abandon(i) ==
    /\ Touch(i, Abandoned(i))
    /\ Release
    /\ pc' = IF marker[i] THEN "unmark" ELSE "recover"
    /\ work' = IF marker[i] THEN i ELSE None
    /\ UNCHANGED <<marker, moved, branch, github, interrupted, retried, history>>

\* Mutant: a reservation is given up without a look at the marker.
ReserveUnlooked == At("reserve") /\ KeepOrDrop

Reserve ==
    /\ At("reserve")
    /\ IF active = None \/ rec[active].state \notin OWNER_GUARDED_ACTIVE_STATES
       THEN KeepOrDrop
       ELSE IF InterruptedTurn(active) THEN ReportInterrupted(active) ELSE Abandon(active)

\* clearInterruptedTurnMarker, after the save that used the marker.
ClearMarker ==
    /\ marker' = [marker EXCEPT ![work] = FALSE]
    /\ moved' = [moved EXCEPT ![work] = FALSE]

Unmark ==
    /\ At("unmark")
    /\ ClearMarker
    /\ pc' = "recover"
    /\ work' = None
    /\ UNCHANGED <<rec, active, world, interrupted, retried, history>>
-----------------------------------------------------------------------------
\* The rest of the prelude, issue by issue.

FailedNoPr(i) ==
    LET r == rec[i]
        counted == [r EXCEPT !.why = "none", !.sig = "stale", !.ctx = TRUE, !.repeats = 0,
                             !.stale = @ + 1]
        recovered == IF r.stale + 1 >= RepeatLimit
                     THEN [counted EXCEPT !.state = "blocked", !.reason = "manual_review"]
                     ELSE [counted EXCEPT !.state = "queued", !.reason = "none"]
        review(stale) == {[q EXCEPT !.stale = stale] :
                             q \in Blocked(r, "manual_review", "none", "other", TRUE)}
        \* Nothing to show for the attempts, but was the runtime to blame?
        satisfied == review(0) \cup (IF ~shouldAutoRetryTimeout(r) THEN {}
                                     ELSE IF r.stale > 0 THEN review(r.stale)
                                     ELSE {[QueuedAfresh(r) EXCEPT !.stale = 1]})
        byBranch == CASE branch[i] = "ahead" -> {recovered} \cup satisfied
                      [] branch[i] = "dirty" -> IF shouldAutoRetryTimeout(r) THEN {r} ELSE review(0)
                      [] branch[i] = "empty" -> satisfied
    IN IF r.why = "codex_failed" \/ r.stale >= RepeatLimit THEN {r}
       ELSE byBranch \cup review(0)   \* git may fail to tell

\* reconcileRecoverableBlockedIssueStates and the definition change it shares
\* with reconcileStaleFailedIssueStates; an edit counts only if the record had
\* a fingerprint of the definition.
BlockedNoPr(i) ==
    LET r == rec[i] IN
    IF shouldAutoRetryHandoffMissing(r) THEN {Queued(r)}
    ELSE IF r.reason = "manual_review" /\ r.sig = "stale" /\ edited[i] # "no" THEN {QueuedAfresh(r)}
    ELSE IF edited[i] = "body" THEN {r, QueuedAfresh(r)} ELSE {r}

\* Mutant: a done record is believed.
BelieveDone(i) == {rec[i]}

\* reconcileStaleDoneIssueStates.
DoneNoPr(i) ==
    {[NoSignature(rec[i]) EXCEPT !.state = "blocked", !.reason = "manual_review", !.why = "none",
                                 !.ctx = TRUE, !.stale = 0]}

Recovered(i) ==
    LET r == rec[i] IN
    CASE github[i].pr = "merged" /\ (r.pr \/ ~github[i].open) -> {doneResetPatch(r, TRUE)}
      [] github[i].pr # "merged" /\ ~github[i].open -> {doneResetPatch(r, FALSE)}
      [] github[i].open /\ ~r.pr /\ r.state = "failed" ->
            FailedNoPr(i) \cup (IF edited[i] = "body" THEN {QueuedAfresh(r)} ELSE {})
      [] github[i].open /\ ~r.pr /\ r.state = "done" -> DoneNoPr(i)
      [] github[i].open /\ ~r.pr /\ r.state = "blocked" ->
            IF interrupted THEN {r} ELSE BlockedNoPr(i)
      [] OTHER -> {r}

\* The pull request of the reserved issue has been merged.
ReservedMerged == active # None /\ rec[active].pr /\ github[active].pr = "merged"

\* The prelude reaches the issues in some order; a crash finds some of them done.
Recover ==
    /\ At("recover")
    /\ ~ReservedMerged
    /\ \E reached \in SUBSET Issue :
          LET after == [i \in Issue |-> IF i \in reached THEN Recovered(i) ELSE {rec[i]}] IN
          /\ \E next \in [Issue -> UNION {after[i] : i \in Issue}] :
                /\ \A i \in Issue : next[i] \in after[i]
                /\ rec' = next
                /\ edited' = [i \in Issue |-> IF next[i] # rec[i] THEN "no" ELSE edited[i]]
                /\ active' = IF active # None /\ next[active].state = "done" THEN None ELSE active
          /\ IF reached = Issue
             THEN GoTo("select") /\ UNCHANGED faults
             ELSE EndCycle /\ faults < MaxFaults /\ faults' = faults + 1
    /\ UNCHANGED <<marker, moved, branch, github, helps, cutShort, opened>>

\* The fast path of a merged reservation: the prelude returns without the other
\* recoveries, and the next issue is chosen as its record stands.
RecoverMerged ==
    /\ At("recover")
    /\ ReservedMerged
    /\ Touch(active, {doneResetPatch(rec[active], TRUE)})
    /\ Release
    /\ GoTo("choose")
    /\ UNCHANGED <<marker, moved, branch, github, history>>

\* Without the inventory, asked for issue by issue: the merge of the reserved
\* issue and the failed records, if the failure allows it and GitHub answers.
RecoveredDegraded(i) ==
    {rec[i]} \cup
    (CASE i = active /\ ReservedMerged -> {doneResetPatch(rec[i], TRUE)}
       [] github[i].open /\ ~rec[i].pr /\ rec[i].state = "failed" -> Recovered(i)
       [] OTHER -> {})

\* listAllIssues throws: no record that counts as done is questioned, none that
\* is blocked is requeued, and the cycle goes on.
RecoverDegraded ==
    /\ At("recover")
    /\ faults < MaxFaults
    /\ faults' = faults + 1
    /\ \E next \in [Issue -> UNION {RecoveredDegraded(i) : i \in Issue}] :
          /\ \A i \in Issue : next[i] \in RecoveredDegraded(i)
          /\ rec' = next
          /\ edited' = [i \in Issue |-> IF next[i] # rec[i] THEN "no" ELSE edited[i]]
          /\ active' = IF active # None /\ next[active].state = "done" THEN None ELSE active
    /\ GoTo("degraded")
    /\ UNCHANGED <<marker, moved, branch, github, helps, cutShort, opened>>

\* selectIssueRecord: the reserved issue, or an open one that is eligible.
Eligible == {i \in Issue : isEligibleForSelection(rec[i])}
Selectable == IF active = None THEN {i \in Eligible : github[i].open} ELSE {active}

Take(i, where) ==
    /\ active' = i
    /\ work' = i
    /\ pc' = where
    /\ UNCHANGED <<interrupted, retried>>

\* An interrupted turn ends the cycle, and so does an empty queue; otherwise
\* the issue is reserved, in the prelude or by the issue phase.
SelectFor(where) ==
    /\ IF interrupted \/ Selectable = {}
       THEN EndCycle /\ UNCHANGED active
       ELSE \E i \in Selectable : Take(i, where)
    /\ UNCHANGED <<rec, marker, moved, world, history>>

Select == At("select") /\ SelectFor("normalize")
Choose == At("choose") /\ SelectFor("resolve")

\* Without an inventory the reserved issue goes on; a new one comes from the last
\* snapshot, which may know it as open still, or from candidates that may fail to
\* load: in the prelude, or in the issue phase if the failure was not a transient
\* one.  If the failure allows neither, the record is put back to start over.
ChooseDegraded ==
    /\ At("degraded")
    /\ \/ /\ interrupted \/ active = None
          /\ EndCycle
          /\ UNCHANGED <<rec, edited, active>>
       \/ /\ ~interrupted
          /\ \E i \in (IF active = None THEN Eligible ELSE {active}) :
                \/ /\ \E where \in {"normalize", "resolve"} : Take(i, where)
                   /\ UNCHANGED <<rec, edited>>
                \/ /\ ~rec[i].pr
                   /\ Touch(i, {PutBack(rec[i])})
                   /\ Release
                   /\ EndCycle
    /\ UNCHANGED <<marker, moved, branch, github, history>>
-----------------------------------------------------------------------------
\* The issue phase.  From here on `work` is the active issue.

\* normalizeActiveIssueRecordForExecution.
Normalize ==
    /\ At("normalize")
    /\ LET r == rec[work] IN
       IF shouldAutoRetryTimeout(r) THEN Touch(work, {Queued(r)})
       ELSE IF shouldAutoRetryBlockedVerification(r)
       THEN Touch(work, {[Queued(r) EXCEPT !.reason = "verification", !.verifs = @ + 1]})
       ELSE UNCHANGED <<rec, edited>>
    /\ GoTo("resolve")
    /\ UNCHANGED <<active, marker, moved, branch, github, history>>

\* An attempt is allowed by the budget, or by what is left of the stale
\* recovery's own; tracked records count on the repair lane.
hasAttemptBudget(r) ==
    r.pr \/ r.impl < MaxImpl \/ hasStaleStabilizingNoPrRecoveryBudgetRemaining(r)

\* resolveRunnableIssueContext and the budget check: a closed issue restarts
\* the cycle, an exhausted one ends it.
Resolve ==
    /\ At("resolve")
    /\ LET r == rec[work] IN
       IF ~github[work].open
       THEN Touch(work, {[r EXCEPT !.state = "done"]}) /\ Release /\ EndCycle
       ELSE IF ~hasAttemptBudget(r)
       THEN Touch(work, Failed(r, "command_error")) /\ Release /\ EndCycle
       ELSE GoTo("prepare") /\ UNCHANGED <<rec, edited, active>>
    /\ UNCHANGED <<marker, moved, branch, github, history>>

\* prepareWorkspaceContext, up to its save.
Prepare ==
    /\ At("prepare")
    /\ Touch(work, {[rec[work] EXCEPT !.state = IF rec[work].impl = 0 THEN "planning" ELSE @,
                                      !.why = "none", !.reason = "none"]})
    /\ GoTo("hydrate")
    /\ UNCHANGED <<active, marker, moved, branch, github, history>>

\* syncJournal writes the record's new state into the journal.
SyncJournal == moved' = [moved EXCEPT ![work] = marker[work]]

\* Mutant: one attempt more than the threshold.
PublishableLate(i) == branch[i] = "ahead" /\ rec[i].impl > DraftAfter

Publishable(i) == branch[i] = "ahead" /\ rec[i].impl >= DraftAfter

\* Mutant: the branch's pull requests are not looked up.
HydrateUnresolved ==
    /\ At("hydrate")
    /\ SyncJournal
    /\ IF Publishable(work) THEN GoTo("publish") ELSE GoTo("infer")
    /\ UNCHANGED <<rec, active, marker, world, history>>

\* A gate of publication fails: path hygiene, workspace preparation, local CI.
GateBlocks ==
    \E why \in {"verify", "none"} :
        Touch(work, Blocked(rec[work], "verification", why, "other", TRUE))

\* hydratePullRequestContext, with the journal sync before it: what GitHub says
\* of the branch decides, and a branch worth publishing goes through its gates.
Hydrate ==
    /\ At("hydrate")
    /\ SyncJournal
    /\ LET r == rec[work]  seen == github[work].pr IN
       \/ /\ seen = "open"
          /\ Touch(work, {Tracked(r)})
          /\ EndCycle
          /\ UNCHANGED active
       \/ /\ seen = "merged"
          /\ Touch(work, {[r EXCEPT !.state = "done", !.pr = TRUE]})
          /\ Release
          /\ EndCycle
       \/ /\ seen = "closed"
          /\ Touch(work, {[b EXCEPT !.pr = TRUE] :
                             b \in Blocked(r, "manual_pr_closed", "none", "other", FALSE)})
          /\ Release
          /\ EndCycle
       \/ /\ branch[work] # "empty"
          /\ GateBlocks
          /\ EndCycle
          /\ UNCHANGED active
       \/ /\ seen = "none"
          /\ GoTo(IF Publishable(work) THEN "publish" ELSE "infer")
          /\ UNCHANGED <<rec, edited, active>>
    /\ UNCHANGED <<marker, branch, github, history>>

\* createPullRequest.
Publish ==
    /\ pc \in {"publish", "publishTurn"}
    /\ github[work].pr # "open"
    /\ github' = [github EXCEPT ![work].pr = "open"]
    /\ opened' = [opened EXCEPT ![work] = @ + 1]
    /\ GoTo(IF pc = "publish" THEN "opened" ELSE "openedTurn")
    /\ UNCHANGED <<disk, edited, branch, faults, helps, cutShort>>

\* GitHub refuses a second pull request for a branch, and createPullRequest
\* throws: out of runOnce, or within the turn.
PublishRefused ==
    /\ pc \in {"publish", "publishTurn"}
    /\ github[work].pr = "open"
    /\ IF pc = "publish"
       THEN EndCycle /\ UNCHANGED <<rec, edited, active>>
       ELSE /\ Touch(work, Failed(rec[work], "command_error"))
            /\ Release
            /\ GoTo("clear")
    /\ UNCHANGED <<marker, moved, branch, github, history>>

\* The number of the new pull request reaches the state file.
TrackOpened ==
    /\ pc \in {"opened", "openedTurn"}
    /\ Touch(work, {Tracked(rec[work])})
    /\ IF pc = "opened" THEN EndCycle ELSE GoTo("clear")
    /\ UNCHANGED <<active, marker, moved, branch, github, history>>

\* runPreparedIssueFlow without a pull request; shouldRunCodex is false for
\* draft_pr, and then the cycle ends with the reservation kept.
Infer ==
    /\ At("infer")
    /\ LET next == inferStateWithoutPullRequest(rec[work], branch[work]) IN
       /\ Touch(work, {resetNoPrLifecycleFailureTracking(rec[work], next)})
       /\ IF next = "draft_pr" THEN EndCycle ELSE GoTo("begin")
    /\ UNCHANGED <<active, marker, moved, branch, github, history>>
-----------------------------------------------------------------------------
\* The turn.

\* executeCodexTurn counts the attempt before the agent starts.
BeginTurn ==
    /\ At("begin")
    /\ LET r == rec[work] IN
       Touch(work, {[r EXCEPT !.state = inferStateWithoutPullRequest(r, branch[work]),
                              !.impl = AtMost(@ + 1, ImplCap), !.ctx = FALSE, !.reason = "none"]})
    /\ GoTo("mark")
    /\ UNCHANGED <<active, marker, moved, branch, github, history>>

\* writeInterruptedTurnMarker, with the journal as it is.
Mark ==
    /\ At("mark")
    /\ marker' = [marker EXCEPT ![work] = TRUE]
    /\ moved' = [moved EXCEPT ![work] = FALSE]
    /\ GoTo("turn")
    /\ UNCHANGED <<rec, active, world, history>>

\* The agent works on the branch and perhaps on the journal; an abort at
\* "returned" is also an abort in the middle of that work.
AgentWorks ==
    /\ At("turn")
    /\ \E left \in Branch : branch' = [branch EXCEPT ![work] = left]
    /\ \E wrote \in BOOLEAN : moved' = [moved EXCEPT ![work] = wrote]
    /\ GoTo("returned")
    /\ UNCHANGED <<rec, active, marker, edited, github, history>>

\* A turn that ends here: its outcome is saved, its marker not yet cleared.
Conclude(records) ==
    /\ Touch(work, records)
    /\ GoTo("clear")
    /\ UNCHANGED <<marker, moved, branch, github, history>>

\* persistMissingCodexJournalHandoff.
NoHandoff ==
    /\ At("returned")
    /\ ~moved[work]
    /\ Conclude(Blocked(rec[work], "handoff_missing", "none", "no-handoff", TRUE))
    /\ UNCHANGED active

\* persistCodexTurnExecutionFailure, persistCodexTurnExitFailure.
TurnFails ==
    /\ At("returned")
    /\ \E why \in {"timeout", "command_error", "codex_exit"} : Conclude(Failed(rec[work], why))
    /\ UNCHANGED active

\* persistHintedCodexTurnState.
HintedStop ==
    /\ At("returned")
    /\ moved[work]
    /\ \/ Conclude(Failed(rec[work], "codex_failed"))
       \/ \E reason \in {"verification", "unknown", "manual_review", "handoff_missing"},
             why \in {"verify", "none"} :
             Conclude(Blocked(rec[work], reason, why, "other", TRUE))
    /\ UNCHANGED active

\* recoverUnexpectedCodexTurnFailure: something threw, the issue is given up.
TurnThrows ==
    /\ pc \in {"mark"} \cup TurnPcs
    /\ faults < MaxFaults
    /\ faults' = faults + 1
    /\ \E why \in {"timeout", "command_error"} : Touch(work, Failed(rec[work], why))
    /\ Release
    /\ GoTo("clear")
    /\ UNCHANGED <<marker, moved, branch, github, helps, cutShort, opened>>

\* Mutant: the repair within a turn is not remembered.
RetryAgain == TRUE

\* usedSameTurnPathRepairRetry: the findings go back to the agent once a turn.
RetryLeft == ~retried

\* The path-hygiene gate before the push or the publication gate refuses; it
\* may queue a repair instead, or hand the findings to the agent once more.
GateRefuses ==
    /\ At("returned")
    /\ moved[work]
    /\ branch[work] # "dirty"
    /\ \/ /\ GateBlocks
          /\ GoTo("clear")
       \/ /\ Touch(work, applyFailureSignature([rec[work] EXCEPT !.state = "repairing", !.reason = "none",
                                                                 !.why = "none"], "other", TRUE))
          /\ GoTo("clear")
       \/ /\ RetryLeft /\ branch[work] = "ahead"
          /\ Touch(work, applyFailureSignature([rec[work] EXCEPT !.why = "none"], "other", TRUE))
          /\ pc' = "mark"
          /\ retried' = TRUE
          /\ UNCHANGED <<work, interrupted>>
    /\ UNCHANGED <<active, marker, moved, branch, github, history>>

\* Mutant: the parser of the turn's output passes any word on.
HintsUnchecked == {"none", "queued", "reproducing", "stabilizing", "repairing", "done", "merged"}

\* The states an agent may hint at, and no hint at all.
Hints == {"none", "queued", "reproducing", "stabilizing", "repairing", "draft_pr", "done"}

Completed(r, next) ==
    LET kept == shouldPreserveStaleTracking(r, next)
    IN [r EXCEPT !.state = next, !.reason = "none", !.why = "none", !.ctx = FALSE, !.repeats = 0,
                 !.sig = IF kept THEN @ ELSE "none",
                 !.stale = IF kept THEN getStaleStabilizingNoPrRecoveryCount(r) ELSE 0]

\* applyCodexTurnPublicationGate passes, then the outcome of the turn.
Complete ==
    /\ At("returned")
    /\ moved[work]
    /\ \/ /\ github[work].pr = "open"
          /\ Conclude({Tracked(rec[work])})
       \/ /\ github[work].pr # "open"
          /\ Publishable(work)
          /\ GoTo("publishTurn")
          /\ UNCHANGED <<rec, edited, marker, moved, branch, github, history>>
       \/ /\ github[work].pr # "open"
          /\ ~Publishable(work)
          /\ \E hint \in Hints :
                Conclude({Completed(rec[work],
                             IF hint = "none" THEN inferStateWithoutPullRequest(rec[work], branch[work])
                             ELSE hint)})
    /\ UNCHANGED active

\* The finally block of executeCodexTurnPhase ends the turn and the cycle.
Clear ==
    /\ At("clear")
    /\ ClearMarker
    /\ EndCycle
    /\ UNCHANGED <<rec, active, world, history>>
-----------------------------------------------------------------------------
\* What happens to a cycle and around it.

\* The process dies, or a step outside the turn throws out of runOnce.
Abort ==
    /\ pc # "idle"
    /\ faults < MaxFaults
    /\ faults' = faults + 1
    /\ EndCycle
    /\ cutShort' = IF pc \in TurnPcs /\ ~moved[work] THEN cutShort \cup {work} ELSE cutShort
    /\ UNCHANGED <<disk, world, helps, opened>>

\* requeueIssueForOperator, between two cycles.
OperatorRequeue(i) ==
    /\ At("idle")
    /\ helps < MaxHelp
    /\ helps' = helps + 1
    /\ i # active
    /\ ~rec[i].pr
    /\ rec[i].state \in {"blocked", "failed"}
    /\ Touch(i, {IF rec[i].reason = "verification"
                 THEN [NoSignature(Queued(rec[i])) EXCEPT !.ctx = FALSE, !.timeouts = 0, !.verifs = 0]
                 ELSE Queued(rec[i])})
    /\ cutShort' = cutShort \ {i}
    /\ UNCHANGED <<active, marker, moved, branch, github, cycle, faults, opened>>

\* People write on GitHub at any time.
EditIssue(i) ==
    /\ helps < MaxHelp
    /\ helps' = helps + 1
    /\ edited' \in {[edited EXCEPT ![i] = what] : what \in {"comment", "body"}}
    /\ UNCHANGED <<disk, branch, github, cycle, faults, cutShort, opened>>

\* The agent, or a person, opens the pull request by hand.
OpenPullRequest(i) ==
    /\ helps < MaxHelp
    /\ helps' = helps + 1
    /\ github[i].pr = "none"
    /\ branch[i] # "empty"
    /\ github' = [github EXCEPT ![i].pr = "open"]
    /\ UNCHANGED <<disk, edited, branch, cycle, faults, cutShort, opened>>

CloseIssue(i) ==
    /\ github[i].open
    /\ github' = [github EXCEPT ![i].open = FALSE]
    /\ UNCHANGED <<disk, edited, branch, cycle, history>>

\* GitHub closes the issue with the merge if the pull request says so.
MergePullRequest(i) ==
    /\ github[i].pr = "open"
    /\ \E closes \in BOOLEAN :
          github' = [github EXCEPT ![i] = [open |-> @.open /\ ~closes, pr |-> "merged"]]
    /\ UNCHANGED <<disk, edited, branch, cycle, history>>

ClosePullRequest(i) ==
    /\ github[i].pr = "open"
    /\ github' = [github EXCEPT ![i].pr = "closed"]
    /\ UNCHANGED <<disk, edited, branch, cycle, history>>

TurnStep == BeginTurn \/ Mark \/ AgentWorks \/ NoHandoff \/ TurnFails \/ HintedStop
            \/ GateRefuses \/ Complete \/ Clear

CycleStep == StartCycle \/ Reserve \/ Unmark \/ Recover \/ RecoverMerged \/ Select \/ Choose
             \/ ChooseDegraded \/ Normalize \/ Resolve \/ Prepare \/ Hydrate \/ Publish
             \/ PublishRefused \/ TrackOpened \/ Infer \/ TurnStep

Fault == AuthFails \/ RecoverDegraded \/ TurnThrows \/ Abort

Outside == \E i \in Issue :
    \/ OperatorRequeue(i) \/ EditIssue(i) \/ CloseIssue(i)
    \/ OpenPullRequest(i) \/ MergePullRequest(i) \/ ClosePullRequest(i)

Next == CycleStep \/ Fault \/ Outside

Spec == Init /\ [][Next]_vars

\* The loop of the command line runs one cycle after the other.
FairSpec == Spec /\ WF_vars(CycleStep)
-----------------------------------------------------------------------------
\* Beyond the attempt budget the agent is started only while a counted stale
\* recovery pays for it, whatever crashes, failures and requeues the record
\* went through since the budget was checked (supervisor.ts:562).
OverBudgetIsRecovery ==
    pc = "begin" /\ rec[work].impl >= MaxImpl =>
        getStaleStabilizingNoPrRecoveryCount(rec[work]) \in 1..(RepeatLimit - 1)

\* A turn that died without a trace is put before the operator before the
\* agent is started again, on that issue or on another: the reservation and the
\* marker outlive the crash until it is (recovery-active-reconciliation.ts:156).
NoSilentRerun == pc \in {"mark"} \cup TurnPcs => cutShort = {}

\* Only a turn that died without a trace is reported as one: a handoff in the
\* journal or a saved outcome is never thrown away
\* (recovery-active-reconciliation.ts:57).
NoFalseAlarm == [][interrupted' /\ ~interrupted => active \in cutShort]_vars

\* The record, the reservation, the marker and the journal together keep the
\* ledger of TurnLedger: no crash, retry, requeue or pause between two saves
\* starts an agent over an unreported loss, moves the reservation away from it,
\* or reports a turn that left a trace (recovery-active-reconciliation.ts:156).
Phase == IF cutShort # {} THEN "lost"
         ELSE IF pc \in {"mark"} \cup TurnPcs THEN "turn" ELSE "rest"
Ledger == INSTANCE TurnLedger WITH holder <- active, phase <- Phase, alarm <- interrupted
ImplementsLedger == Ledger!Spec

\* The most steps a cycle may still take: the longest way from each of its
\* places to the end, and once more through the turn for the one repair.
Farthest == [idle |-> 0, clear |-> 1, opened |-> 1, openedTurn |-> 2, publishTurn |-> 3,
             returned |-> 4, turn |-> 5, mark |-> 6, begin |-> 7, infer |-> 8, publish |-> 8,
             hydrate |-> 9, prepare |-> 10, resolve |-> 11, normalize |-> 12, select |-> 13,
             choose |-> 13, degraded |-> 13, recover |-> 14, unmark |-> 15, reserve |-> 16]
StepsLeft == IF pc = "idle" \/ retried THEN Farthest[pc] ELSE Farthest[pc] + 3

\* A cycle, once begun, gets nearer to its end with every step it takes, whatever
\* fails, throws, is refused or is repaired on the way, and while it lasts nobody
\* else writes the state file, the marker or the journal (run-once-turn-execution.ts:669).
CycleAdvances == [][pc # "idle" => StepsLeft' < StepsLeft \/ UNCHANGED <<disk, cycle>>]_vars

\* The supervisor opens at most one pull request for an issue, whatever happens between its
\* creation and the save of its number (run-once-issue-preparation.ts:336).
OnePullRequest == \A i \in Issue : opened[i] <= 1

Claimed(i) == github[i].open /\ rec[i].state = "done" /\ ~rec[i].pr

\* An open issue does not count as done for good on the word of the agent alone: the
\* cycles that list no inventory, or return early for a merged one, leave the claim
\* as it is, but a later one questions it (recovery-historical-reconciliation.ts:292).
DoneIsEarned == \A i \in Issue : Claimed(i) ~> ~Claimed(i)

\* Until then nothing is done for the issue: the claim is only put before the
\* operator, or settled by GitHub (recovery-historical-reconciliation.ts:292).
ClaimsRest == [][\A i \in Issue : Claimed(i) =>
                    rec'[i] = rec[i] \/ rec'[i].state = "blocked" \/ rec'[i].pr]_vars

\* A turn that died without a trace is brought to the operator in the end,
\* however the following cycles die (recovery-active-reconciliation.ts:156).
LossIsReported == \A i \in Issue : i \in cutShort ~> i \notin cutShort

DraftPending(i) == /\ github[i].open /\ github[i].pr = "none"
                   /\ rec[i].state = "draft_pr" /\ branch[i] = "ahead"

\* A branch whose record asks for its draft pull request gets it, or the issue
\* leaves the lane (run-once-issue-preparation.ts:472).
DraftIsPublished == \A i \in Issue : DraftPending(i) ~> ~DraftPending(i)

\* "Implementation attempt limit." (core/config-field-posture.ts:107): the
\* agent is not started for ever.
AttemptsRunOut == <>[](pc # "turn")
=============================================================================

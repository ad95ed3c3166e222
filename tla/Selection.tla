------------------------------ MODULE Selection -----------------------------
(***************************************************************************)
(* Which issue runs next: one run of the supervisor (runOnce) from the     *)
(* issue inventory through the recoveries and the reservation to the       *)
(* checks before a turn, restarts without delay included.                  *)
(*                                                                         *)
(* The cycle decides by four views of the same issues that need not agree: *)
(* the inventory, which is reused for five minutes; the candidate list,    *)
(* read when an issue is chosen; the issue itself, read after it was       *)
(* reserved; and the record in the state file.  People edit, label, close  *)
(* and reopen issues at any time, listings fail, and the process may die   *)
(* between two saves.                                                      *)
(*                                                                         *)
(* A turn is what IssueRun and TrackedPr make of it: "running" stands for  *)
(* their states of an issue without a pull request that an agent works on, *)
(* "tracked" for those of one with a pull request, and "stopped" for       *)
(* failed and for blocked other than for requirements.  Clarification and  *)
(* trust blocks are left out: selection and recovery judge them alike.     *)
(***************************************************************************)
EXTENDS Naturals, FiniteSets

CONSTANTS Issue,     \* issue numbers; the oldest issue has the lowest
          Epic,      \* the one with child issues, skipped by its title prefix
          Before,    \* what an issue that waits depends on, or comes after
          PerCycle,  \* defaultMaxRecordsPerCycle of the merged closures
          MaxFaults, \* bound: crashes and failed reads other than listings
          MaxHelp    \* bound: what people change on GitHub

ASSUME SelectionAssumption ==
    /\ Issue \subseteq Nat \ {0} /\ IsFiniteSet(Issue)
    /\ Epic \in Issue
    /\ Before \in [Issue -> SUBSET (Issue \ {Epic})]
    /\ PerCycle \in Nat \ {0}
    /\ {MaxFaults, MaxHelp} \subseteq Nat

None == 0
Children == Issue \ {Epic}

\* The body of an issue: no sequencing, "Depends on", an "Execution order"
\* above 1, required sections missing, or complete but with metadata that
\* validateIssueMetadataSyntax refuses.
Body == {"free", "depends", "order", "missing", "malformed"}
GitHubIssue == [open : BOOLEAN, label : BOOLEAN, body : Body]
RunState == {"none", "queued", "running", "tracked", "requirements", "stopped", "done"}
Record == [state : RunState, tried : BOOLEAN, pr : BOOLEAN]
Failure == {"none", "bounded", "transient", "lasting"}
NoInventory == <<>>

\* The issues that some issue waits for.
Awaited == UNION {Before[i] : i \in Issue}

VARIABLES gh,        \* the issues on GitHub
          merged,    \* issues whose pull request is merged
          rec,       \* SupervisorStateFile.issues
          active,    \* activeIssueNumber
          failure,   \* inventory_refresh_failure
          cursor,    \* merged_issue_closures_last_processed_issue_number
          inventory, \* cachedFullIssueInventory: what listAllIssues returned last
          pc,        \* where the cycle is
          work,      \* the issue being resolved
          seen,      \* the body getIssue returned for it
          targeted,  \* shouldUseDegradedTargetedDependencyCheck
          faults,
          helps,
          clear,     \* history: issues others wait for that were no candidate
                      \* at some time since the issue at hand was read
                     \* at some time of this pass
          starts     \* history: issues without a pull request started since
                     \* the last good listing, under a transient failure

file == <<rec, active, failure, cursor>>
world == <<gh, merged>>
cycle == <<pc, work, seen, targeted>>
history == <<clear, starts>>
bounds == <<faults, helps>>
vars == <<file, world, inventory, cycle, history, bounds>>

Pcs == {"idle", "reservation", "list", "degraded", "bounded", "trackedMerged", "closures",
        "staleDone", "blocked", "reserve", "epics", "epicsSave", "resolve", "fetch", "order",
        "begin", "turn"}

\* A reservation without a record of its issue would be dropped as stale.
TypeOK ==
    /\ gh \in [Issue -> GitHubIssue]
    /\ merged \subseteq Issue
    /\ rec \in [Issue -> Record]
    /\ active \in Issue \cup {None}
    /\ active # None => rec[active].state # "none"
    /\ failure \in Failure
    /\ cursor \in Issue \cup {None}
    /\ inventory \in {NoInventory} \cup [Issue -> [open : BOOLEAN, body : Body]]
    /\ pc \in Pcs
    /\ work \in Issue \cup {None}
    /\ seen \in Body
    /\ targeted \in BOOLEAN
    /\ faults \in 0..MaxFaults
    /\ helps \in 0..MaxHelp
    /\ clear \subseteq Awaited
    /\ starts \in 0..2

createIssueRecord == [state |-> "none", tried |-> FALSE, pr |-> FALSE]

Init ==
    /\ \E waits \in {"depends", "order"}, closed \in SUBSET Children :
          gh = [i \in Issue |-> [open |-> i \notin closed, label |-> TRUE,
                                 body |-> IF Before[i] = {} THEN "free" ELSE waits]]
    /\ merged = {}
    /\ rec = [i \in Issue |-> createIssueRecord]
    /\ active = None
    /\ failure = "none"
    /\ cursor = None
    /\ inventory = NoInventory
    /\ pc = "idle"
    /\ work = None
    /\ seen = "free"
    /\ targeted = FALSE
    /\ faults = 0
    /\ helps = 0
    /\ clear = {}
    /\ starts = 0
-----------------------------------------------------------------------------
\* The rules of selection.

\* listCandidateIssues: the open issues that carry the label, read now.  The
\* epic is among them and is skipped.
Candidates == {i \in Children : gh[i].open /\ gh[i].label}

isEligibleForSelection(r) == r.state \in {"none", "queued", "running", "tracked"}

\* Mutant: the inventory of the cycle stands in for the candidate list.
BlockedByInventory(i, body) ==
    body \in {"depends", "order"} /\ \E d \in Before[i] : inventory # NoInventory /\ inventory[d].open

\* Candidates are open, so a dependency or predecessor among them blocks; one
\* that is not among them does not.
findBlockingIssue(i, body) ==
    body \in {"depends", "order"} /\ Before[i] \cap Candidates # {}

\* selectIssueRecord without a current record: the first that may run.
Selected ==
    LET runnable == {i \in Candidates : /\ ~findBlockingIssue(i, gh[i].body)
                                        /\ isEligibleForSelection(rec[i])}
    IN IF runnable = {} THEN None ELSE CHOOSE i \in runnable : \A j \in runnable : i <= j

\* evaluateDegradedActiveIssueDependencies
DegradedBlocks(i, body) ==
    \/ body = "order"
    \/ body = "depends" /\ \E d \in Before[i] : gh[d].open \/ rec[d].state # "done"

\* isFreshInventorySnapshot: whether the snapshot of the last good listing is
\* under an hour old is a choice wherever it is looked at.

\* Mutant: every transient failure with a fresh snapshot permits a selection.
PermittedEachTime(kind, fresh) == kind = "transient" /\ fresh

\* canUseSnapshotBackedSelectionAfterInventoryRefreshFailure
SnapshotBacked(kind, fresh) == kind = "transient" /\ fresh /\ failure = "none"

\* canContinueBoundedAfterInventoryRefreshFailure
canContinueBounded(fresh) == failure = "bounded" /\ fresh

\* canProceedWithDegradedContinuationAfterInventoryRefreshFailure
canContinueActive(fresh) == failure \in {"none", "lasting"} \/ canContinueBounded(fresh)

\* shouldEnforceExecutionReady
shouldEnforceExecutionReady(r) == ~r.pr /\ ~r.tried
-----------------------------------------------------------------------------
At(where) == pc = where
GoTo(where) == pc' = where /\ UNCHANGED <<work, seen, targeted>>
Forget == work' = None /\ seen' = "free" /\ targeted' = FALSE
EndCycle == pc' = "idle" /\ Forget /\ clear' = {}
Restart == pc' = "reservation" /\ Forget /\ clear' = {}
Release(S) == active' = IF active \in S THEN None ELSE active
WithState(S, s) == rec' = [i \in Issue |-> IF i \in S THEN [rec[i] EXCEPT !.state = s] ELSE rec[i]]

StartCycle ==
    /\ At("idle")
    /\ Restart
    /\ UNCHANGED <<file, world, inventory, starts, bounds>>

\* reconcileStaleActiveIssueReservation, no other session holding the issue: a
\* pull request keeps its reservation unless a repair turn died with it, a
\* dead turn is queued again or, after too many, left to the operator.
StaleReservation ==
    /\ At("reservation")
    /\ IF active # None /\ rec[active].state = "tracked"
       THEN active' \in {active, None} /\ UNCHANGED rec
       ELSE /\ active' = None
            /\ IF active # None /\ rec[active].state = "running"
               THEN \E s \in {"running", "queued", "stopped"} : WithState({active}, s)
               ELSE UNCHANGED rec
    /\ GoTo("list")
    /\ UNCHANGED <<failure, cursor, world, inventory, history, bounds>>

\* persistInventoryRefreshState of a good listing.
Listed ==
    /\ failure' = "none"
    /\ starts' = 0
    /\ GoTo("trackedMerged")
    /\ UNCHANGED <<rec, active, cursor, world, clear, bounds>>

\* listLoopIssueInventory, when the cache is empty or past
\* FULL_ISSUE_INVENTORY_REUSE_TTL_MS: how old it is, is a choice.
Refresh ==
    /\ At("list")
    /\ inventory' = [i \in Issue |-> [open |-> gh[i].open, body |-> gh[i].body]]
    /\ Listed

\* ... and within it; the snapshot is dated anew all the same.
Reuse ==
    /\ At("list")
    /\ inventory # NoInventory
    /\ Listed
    /\ UNCHANGED inventory

\* A listing fails for a reason isTransientGitHubCommandFailure knows or not.
ListingFails ==
    /\ At("list")
    /\ \E kind \in {"transient", "lasting"}, fresh \in BOOLEAN :
          failure' = IF SnapshotBacked(kind, fresh) THEN "bounded" ELSE kind
    /\ inventory' = NoInventory
    /\ GoTo("degraded")
    /\ UNCHANGED <<rec, active, cursor, world, history, bounds>>

\* The recoveries that need no inventory: the merged pull request of the
\* active issue, and stopped pull requests, which TrackedPr describes.
Degraded ==
    /\ At("degraded")
    /\ \/ /\ \E fresh \in BOOLEAN : ~canContinueActive(fresh)
          /\ UNCHANGED <<rec, active>>
       \/ /\ \E fresh \in BOOLEAN : canContinueActive(fresh)
          /\ IF active \in merged /\ rec[active].pr
             THEN WithState({active}, "done") /\ active' = None
             ELSE /\ \E S \in SUBSET {i \in Issue : rec[i].state = "stopped" /\ rec[i].pr} :
                        WithState(S, "tracked")
                  /\ UNCHANGED active
    /\ GoTo("bounded")
    /\ UNCHANGED <<failure, cursor, world, inventory, history, bounds>>

\* Mutant: the reservation is saved and the new record is not.
ReservedOnly(i) == active' = i /\ UNCHANGED rec

Reserved(i) ==
    /\ active' = i
    /\ rec' = [rec EXCEPT ![i].state = IF @ = "none" THEN "queued" ELSE @]

\* reserveRunnableIssueSelection; without an issue the reservation is saved
\* as none, which it was.
ReserveSelection(otherwise) ==
    IF active = None /\ Selected # None
    THEN Reserved(Selected) /\ GoTo("resolve")
    ELSE GoTo(otherwise) /\ UNCHANGED <<rec, active>>

BoundedSelection ==
    /\ At("bounded")
    /\ \E fresh \in BOOLEAN :
          IF canContinueBounded(fresh)
          THEN ReserveSelection("resolve")
          ELSE GoTo("resolve") /\ UNCHANGED <<rec, active>>
    /\ UNCHANGED <<failure, cursor, world, inventory, history, bounds>>

\* reconcileTrackedMergedButOpenIssues; when that finishes the active issue
\* the prelude ends early.
TrackedMerged ==
    /\ At("trackedMerged")
    /\ LET mergedNow == {i \in merged : rec[i].pr /\ rec[i].state # "done"} IN
       IF active \in mergedNow
       THEN WithState({active}, "done") /\ active' = None /\ GoTo("resolve")
       ELSE WithState(mergedNow, "done") /\ UNCHANGED active /\ GoTo("closures")
    /\ UNCHANGED <<failure, cursor, world, inventory, history, bounds>>

\* Mutant: a record that is blocked or failed is not taken up.
RunningOnly ==
    {i \in Issue : ~inventory[i].open /\ isEligibleForSelection(rec[i]) /\ rec[i].state # "none"}

\* Records that shouldRevalidateMergedIssueClosureRecord takes up; renewing
\* the recovery reason of a merged and done one is left out.
RevalidationEligible ==
    {i \in Issue : /\ ~inventory[i].open /\ rec[i].state # "none"
                   /\ (active = i \/ rec[i].state # "done" \/ ~rec[i].pr)}

\* prioritizeMergedIssueClosureRecords: the active one, then those behind the
\* last one processed, then the rest.
Place(S, i) == IF i = active THEN 0
               ELSE IF i > (IF active \in S THEN active ELSE cursor) THEN 1 ELSE 2
Earlier(S, i, j) == \/ Place(S, i) < Place(S, j)
                    \/ Place(S, i) = Place(S, j) /\ i < j
Rank(S, i) == Cardinality({j \in S : Earlier(S, j, i)})

\* The records that fit into this cycle, and the one the next resumes behind.
Processed(S) == {i \in S : Rank(S, i) < PerCycle}
ResumeAfter(S) ==
    IF Cardinality(S) <= PerCycle THEN None
    ELSE CHOOSE i \in Processed(S) : \A j \in Processed(S) : Rank(S, j) <= Rank(S, i)

\* reconcileMergedIssueClosures
MergedClosures ==
    /\ At("closures")
    /\ LET processed == Processed(RevalidationEligible)
       IN /\ rec' = [i \in Issue |-> IF i \notin processed THEN rec[i]
                                     ELSE [rec[i] EXCEPT !.state = "done", !.pr = @ \/ i \in merged]]
          /\ Release(processed)
          /\ cursor' = ResumeAfter(RevalidationEligible)
    /\ GoTo("staleDone")
    /\ UNCHANGED <<failure, world, inventory, history, bounds>>

\* reconcileStaleDoneIssueStates: done without a pull request, and open as
\* the inventory has it.
StaleDone ==
    /\ At("staleDone")
    /\ LET S == {i \in Issue : rec[i].state = "done" /\ ~rec[i].pr /\ inventory[i].open} IN
       WithState(S, "stopped") /\ Release(S)
    /\ GoTo("blocked")
    /\ UNCHANGED <<failure, cursor, world, inventory, history, bounds>>

\* Mutant: any blocked definition is tried again.
TriedAgain(i) == inventory[i].open

\* lintExecutionReadyIssueBody, of the body in the inventory.
RequirementsRecovered(i) == inventory[i].open /\ inventory[i].body # "missing"

\* reconcileRecoverableBlockedIssueStates.  Whether a stopped issue may go on
\* depends on its branch, its pull request or an edit, which are not here.
RecoverBlocked ==
    /\ At("blocked")
    /\ LET ready == {i \in Issue : rec[i].state = "requirements" /\ RequirementsRecovered(i)}
           stopped == {i \in Issue : rec[i].state = "stopped" /\ inventory[i].open}
       IN \E again \in SUBSET stopped :
             rec' = [i \in Issue |->
                        IF i \in ready \cup again
                        THEN [rec[i] EXCEPT !.state =
                                 IF i \in again /\ rec[i].pr THEN "tracked" ELSE "queued"]
                        ELSE rec[i]]
    /\ GoTo("reserve")
    /\ UNCHANGED <<active, failure, cursor, world, inventory, history, bounds>>

\* An issue reserved here ends the prelude: epics wait.
ReserveNext ==
    /\ At("reserve")
    /\ ReserveSelection("epics")
    /\ UNCHANGED <<failure, cursor, world, inventory, history, bounds>>

\* Mutant: a child counts once the supervisor has finished it.
ChildrenFinished == \A i \in Children : rec[i].state = "done" /\ rec[i].pr

\* findParentIssuesReadyToClose
ParentReadyToClose == \A i \in Children : ~inventory[i].open

\* reconcileParentEpicClosures: GitHub first, the record after.
CloseEpic ==
    /\ At("epics")
    /\ IF inventory[Epic].open /\ ParentReadyToClose
       THEN gh' = [gh EXCEPT ![Epic].open = FALSE] /\ GoTo("epicsSave")
       ELSE UNCHANGED gh /\ GoTo("resolve")
    /\ UNCHANGED <<file, merged, inventory, history, bounds>>

SaveEpic ==
    /\ At("epicsSave")
    /\ WithState({Epic}, "done")
    /\ Release({Epic})
    /\ GoTo("resolve")
    /\ UNCHANGED <<failure, cursor, world, inventory, history, bounds>>
-----------------------------------------------------------------------------
\* resolveRunnableIssueContext.

\* The issue is taken off the reservation and the cycle starts over.
PutBack(i, s) == WithState({i}, s) /\ active' = None /\ Restart

\* selectIssueRecord, the degraded refusal and the saved reservation.
Resolve ==
    /\ At("resolve")
    /\ LET keep == active # None /\ (failure # "none" \/ isEligibleForSelection(rec[active]))
           i == IF keep THEN active ELSE Selected
       IN \E fresh \in BOOLEAN :
             IF i = None
             THEN active' = None /\ EndCycle /\ UNCHANGED rec
             ELSE IF ~rec[i].pr /\ ~canContinueActive(fresh)
             THEN PutBack(i, "queued")
             ELSE /\ Reserved(i)
                  /\ work' = i
                  /\ targeted' = (failure # "none" /\ active = i)
                  /\ pc' = "fetch"
                  /\ UNCHANGED <<seen, clear>>
    /\ UNCHANGED <<failure, cursor, world, inventory, starts, bounds>>

\* getIssue, and what the issue itself says.
Fetch ==
    /\ At("fetch")
    /\ LET issue == gh[work] IN
       IF ~issue.open THEN PutBack(work, "done")
       ELSE IF \/ issue.body = "missing" /\ shouldEnforceExecutionReady(rec[work])
               \/ issue.body = "malformed"
       THEN PutBack(work, "requirements")
       ELSE /\ seen' = issue.body
            /\ pc' = "order"
            /\ clear' = Awaited \ Candidates
            /\ UNCHANGED <<rec, active, work, targeted>>
    /\ UNCHANGED <<failure, cursor, world, inventory, starts, bounds>>

\* Dependencies and predecessors, from GitHub once more.
CheckOrder ==
    /\ At("order")
    /\ IF IF targeted THEN DegradedBlocks(work, seen) ELSE findBlockingIssue(work, seen)
       THEN PutBack(work, "queued")
       ELSE pc' = "begin" /\ targeted' = FALSE /\ UNCHANGED <<rec, active, work, seen, clear>>
    /\ UNCHANGED <<failure, cursor, world, inventory, starts, bounds>>

\* The agent starts.
Begin ==
    /\ At("begin")
    /\ rec' = [rec EXCEPT ![work].state = IF @ = "tracked" THEN @ ELSE "running",
                          ![work].tried = TRUE]
    /\ starts' = IF ~rec[work].pr /\ failure \in {"bounded", "transient"} /\ starts < 2
                 THEN starts + 1 ELSE starts
    /\ pc' = "turn"
    /\ seen' = "free"
    /\ clear' = {}
    /\ UNCHANGED <<active, failure, cursor, world, inventory, work, targeted, bounds>>

\* It stops for now, opens or keeps a pull request, or is stopped.
EndTurn ==
    /\ At("turn")
    /\ \E s \in {"running", "tracked", "stopped"} :
          /\ rec[work].pr => s # "running"
          /\ rec' = [rec EXCEPT ![work].state = s, ![work].pr = @ \/ s = "tracked"]
          /\ active' \in IF s = "stopped" THEN {active, None} ELSE {active}
    /\ EndCycle
    /\ UNCHANGED <<failure, cursor, world, inventory, starts, bounds>>
-----------------------------------------------------------------------------
\* The world.

Noted == clear' = IF pc \in {"order", "begin"} THEN clear \cup (Awaited \ Candidates') ELSE {}

\* The process dies, and its cache with it.
Crash ==
    /\ faults < MaxFaults
    /\ ~At("idle")
    /\ faults' = faults + 1
    /\ inventory' = NoInventory
    /\ EndCycle
    /\ UNCHANGED <<file, world, starts, helps>>

\* A call to GitHub other than the inventory fails and ends the cycle.
ReadFails ==
    /\ faults < MaxFaults
    /\ pc \in {"reserve", "bounded", "closures", "epics", "resolve", "fetch", "order"}
    /\ faults' = faults + 1
    /\ EndCycle
    /\ UNCHANGED <<file, world, inventory, starts, helps>>

\* People edit, label, close and reopen; an issue closed by its merged pull
\* request stays closed.
Help(i) ==
    /\ helps < MaxHelp
    /\ helps' = helps + 1
    /\ \/ \E body \in Body : i # Epic /\ gh[i].open /\ gh' = [gh EXCEPT ![i].body = body]
       \/ i # Epic /\ gh[i].open /\ gh' = [gh EXCEPT ![i].label = ~@]
       \/ i \notin merged /\ gh' = [gh EXCEPT ![i].open = ~@]
    /\ Noted
    /\ UNCHANGED <<file, merged, inventory, cycle, faults, starts>>

\* The pull request is merged and closes its issue.
Merge(i) ==
    /\ rec[i].pr /\ i \notin merged /\ gh[i].open
    /\ merged' = merged \cup {i}
    /\ gh' = [gh EXCEPT ![i].open = FALSE]
    /\ Noted
    /\ UNCHANGED <<file, inventory, cycle, starts, bounds>>
-----------------------------------------------------------------------------
Supervisor ==
    \/ StartCycle \/ StaleReservation \/ Refresh \/ Reuse \/ ListingFails
    \/ Degraded \/ BoundedSelection \/ TrackedMerged \/ MergedClosures \/ StaleDone
    \/ RecoverBlocked \/ ReserveNext \/ CloseEpic \/ SaveEpic \/ Resolve \/ Fetch \/ CheckOrder \/ Begin \/ EndTurn

Environment ==
    \/ Crash \/ ReadFails
    \/ \E i \in Issue : Help(i) \/ Merge(i)

Next == Supervisor \/ Environment

Spec == Init /\ [][Next]_vars

\* The loop keeps running cycles and a turn has a time limit.  The cache runs
\* out, and GitHub, asked again and again for the inventory, sometimes answers.
Fairness == WF_vars(Supervisor) /\ SF_vars(Refresh)

FairSpec == Spec /\ Fairness
-----------------------------------------------------------------------------
\* An agent starts on an issue that waits for others only if each of those
\* was closed or no candidate at some time since it was read itself: nothing
\* the selection or an earlier pass has seen lets it start too soon, the check
\* right before the turn asks again (run-once-issue-selection.ts:868).
DependentWaits ==
    At("begin") /\ seen \in {"depends", "order"} => Before[work] \subseteq clear

\* Between two good listings, transient failures let at most one issue
\* without a pull request start, whatever restarts and crashes come between
\* (inventory-refresh-state.ts, "bounded" continuation).
BoundedStart == starts <= 1

\* A run that restarts its cycle without delay comes to an end, or an issue
\* stays complete but malformed: that one is requeued by its recovery and
\* blocked by its selection for ever (supervisor-run-once-runtime.ts).
CycleReturns ==
    pc # "idle" ~> (pc = "idle" \/ \E i \in Issue : gh[i].body = "malformed")

\* The record of an issue that stays closed ends up done, although the cached
\* inventory may take it back to a block on the way and only PerCycle records
\* are looked at in one cycle (recovery-historical-reconciliation.ts).
ClosedIsDone ==
    \A i \in Issue :
        ~gh[i].open /\ rec[i].state # "none" ~> gh[i].open \/ rec[i].state = "done"

\* An epic whose children are closed is closed, by whomever they were closed
\* and whether or not they have a record
\* (recovery-parent-epic-reconciliation.ts).
EpicCloses ==
    (\A i \in Children : ~gh[i].open) ~> (~gh[Epic].open \/ \E i \in Children : gh[i].open)
=============================================================================

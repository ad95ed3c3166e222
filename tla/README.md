# Durable-Loop in TLA+

Durable-Loop is a supervisor that takes GitHub issues one at a time, lets a coding agent work on each in its own git
worktree, and turns the work into a draft pull request that it reviews, repairs and merges. It is meant to be killed
and restarted at any moment: what it knows is in a state file, in lock files, in a marker and a journal in the
worktree, on the branch and on GitHub, and every cycle starts by working out what the last one left behind.

These modules model that: the locks, the state file and the worktrees, the choice of the next issue, its run up to a
pull request, the agent's processes, the pull request up to its merge, the second opinion of the decision kernel, and
the advice that the reports give about a stopped pull request. They are written from the code under `src/src`; all
paths below are relative to `src/src` unless they start with `docs`.

## Parts of the system

| part | state it keeps | operations | what makes it correct |
|---|---|---|---|
| File locks (`core/lock.ts`) | one file per lock: pid, host, user, label | `acquireFileLock`, `inspectFileLock`, `release` | one holder; a dead holder's file is reclaimed, a live holder's is not |
| State file (`core/state-store*.ts`, `core/utils.ts`) | all issue records, the reservation, quarantine findings | load, save, quarantine, reset | nothing saved is lost; damage is kept as evidence and is never an empty start |
| Sessions (`supervisor/supervisor-loop-controller.ts`, `supervisor-mutation-runtime.ts`, `supervisor-run-once-runtime.ts`) | the run lock | a cycle, requeue, reset, prune, read-only reports | cycles and mutations exclude each other |
| Cycle (`supervisor/supervisor.ts`, `run-once-cycle-prelude.ts`) | the reservation `activeIssueNumber` | prelude, selection, issue phase | an interrupted cycle is accounted for before the next one acts |
| Recoveries (`recovery-*.ts`) | records of other issues | stale reservation, failed without PR, blocked, done, merged, tracked PR | a record agrees with GitHub again without losing what must be reported |
| Issue phase (`run-once-issue-*.ts`, `supervisor/prepared-issue-runner.ts`) | the active record | budget, workspace, pull request lookup, gates | attempts bounded; one pull request per issue |
| Agent turn (`run-once-turn-execution.ts`, `turn-execution-*.ts`, `interrupted-turn-marker.ts`) | marker, journal, record | mark, run, classify, gate, publish, save, unmark | every ending of a turn is told from a turn that died |
| Pull request lifecycle (`pull-request-state*.ts`, `post-turn-*.ts`, `supervisor/supervisor-lifecycle.ts`) | review waits, head SHAs, repair counts | infer the state, promote, merge | acts on the head it checked; merges once |
| Review requests (`codex-connector-*.ts`, `review-*.ts`) | requests per head, processed threads | request, observe, time out | one request per head |
| Selection (`run-once-issue-selection.ts`, `inventory-refresh-state.ts`, `issue-metadata/`) | inventory status | order, dependencies, degraded mode | no dependent before its dependency |
| Workspaces (`core/workspace.ts`) | worktrees and branches | create, restore, clean up | no unpublished work removed |
| Agent runners (`core/command.ts`, `codex/`, `executors/`) | a child process, its timers and output | start, time out, signal, classify | an agent ends with its turn; the result says how |
| Decision kernel (`decision-kernel-v2*.ts`) | none | explain, compare | agrees with the supervisor on a merge, never goes ahead of it |
| SQLite backend, CLI, HTTP server, WebUI, doctor, metrics, replay | caches and reports | presentation, diagnosis | off the path of execution |

How they meet: the loop acquires the run lock, loads the state, runs the prelude, reserves an issue, takes its issue
lock, prepares the workspace, runs the agent under a session lock and saves after every change. Operator mutations
come from another process through the run lock; reports load the state without it. People change GitHub at any time.
Each save is one rename; each await before it is a place where the process may die or another process may act.

What is hard here, at its line, is the `hazards` list of `PROJECT.json`: the empty-file window of the lock and removal
by path; a mutation that returns its promise without awaiting it; a quarantine made of two renames; a crash at each
save of a turn; the counter of stale recoveries that exempts turns from the attempt budget while six paths reset or
reuse its fields; two guards that can both be false for one state; a look at a pull request that is two calls, so that
its halves may belong to two heads; a comment, a merge order or a promotion on GitHub before the save that remembers
it; an inventory cached for five minutes next to a candidate list read now; a cycle that starts over without delay; an
agent whose helpers outlive it, hold its pipes or ignore a signal while the timeout runs.

## Modules

| module | what it models |
|---|---|
| `LockPromise` | abstract: one owner at a time; a caller that is robbed of the lock goes on unaware |
| `FileLock` | one lock path, any callers in any processes on any hosts |
| `StateRegister` | abstract: a register that sessions only add to |
| `StateStore` | the state file, its quarantine, the run lock, the five kinds of session and the worktrees |
| `Selection` | which issue runs next: inventory, recoveries, reservation, dependencies, epics |
| `TurnLedger` | abstract: the agent works on the reserved issue only, a turn lost without a trace is a debt |
| `IssueRun` | cycles, recoveries and agent turns over issues without a pull request |
| `AgentTurn` | the agent of a turn and its helpers as processes, from the start to the result |
| `PullRequestPolicy` | what the supervisor concludes from one look at a pull request, as operators |
| `MergePromise` | abstract: auto-merge is enabled at a vetted head, done means merged |
| `TrackedPr` | a pull request from its draft to its merge |
| `DecisionKernel` | the second opinion, asked in every state of `TrackedPr` |
| `PullRequestReport` | what status, doctor and explain advise about a stopped pull request |
| `FileLockProofs`, `StateStoreProofs`, `SelectionProofs`, `IssueRunProofs`, `AgentTurnProofs`, `TrackedPrProofs`, `DecisionKernelProofs`, `PullRequestReportProofs` | the theorems |
| `MCFileLock`, `MCFileLockLocal`, `MCStateStore`, `MCSelection`, `MCIssueRun`, `MCAgentTurn`, `MCTrackedPr` | instances for TLC |

The state machines are layers. `IssueRun`, `TrackedPr` and `Selection` take from `StateStore` that a save is atomic and
that one cycle runs at a time; `StateStore` takes from `FileLock` that a lock whose holder nobody robbed excludes the
others. These two meet in `LockPromise`: the lock file implements it (`ImplementsLock`), and the run lock of the
sessions is an instance of it in which nobody is deceived (`AssumesLock`). `Selection` chooses an issue and sees of its
run only how it ends; `IssueRun` runs it until it has a pull request and calls it `tracked` from then on; `TrackedPr` is
that state opened up. `AgentTurn` opens up the step of `IssueRun` in which the agent works: its results are the endings
that `IssueRun` chooses from. Where a layer's promise has an exception (a robbed holder, a save that outlives its lock)
the upper layer is checked without that exception, and the exception is a finding of the lower one.

### FileLock

A client is one asynchronous call inside a process. `Open` is `open("wx")`, which leaves an empty file;
`WritePayload` fills it through the handle, so the payload is lost if someone has removed the name meanwhile;
`ReadLock`, `Judge` and `RemoveCondemned` are `inspectLockPayload`, whose removal is by path and hits whatever file is
there by then; `ReadOwn` and `RemoveOwn` are `release`, which compares only the pid. Pids are reused and collide
between hosts; `isPidAlive` is what `process.kill(pid, 0)` answers, and it takes EPERM for dead. `Crash` and `Start`
are the operating system. `robbed`, `current` and `undisturbed` are history variables: owners whose file someone
else removed, readers whose file is still the one they read, calls that nobody disturbed. As a `LockPromise`, its owners
are the callers that hold the lock unrobbed, the deceived those that hold it robbed (`Owners`, `Lock`).

### StateStore

A state is the set of edits it holds. A session reads the whole file into `memory`, changes it and saves the whole of
it. `AcquireRun` is the run lock of cycles and mutations, `StartReader` a report. `Read` is a load: missing is an empty
start, text that does not parse leads to `MoveAside`, `InstallMarker` and, if that rename fails, `RestoreOriginal`. A
cycle loads twice: `runSupervisorRunOnce` stops at a marker, the prelude's own load (`run-once-cycle-prelude.ts:100`)
does not ask, so a file that is quarantined between the two is worked on as an empty state. The load lock is per
process, as in the code, and a reset holds it across its save. `ReleaseBeforeSave` is the `finally` block of a mutation
that returned its promise un-awaited. Parsing, normalisation and the metrics rollup are left out.

`worktrees` are those on disk and `condemned` those a prune has judged. A cycle creates or reuses the worktree of its
issue (`EnsureWorkspace`) and removes those of done records (`CleanUpDone`); `pruneOrphanedWorkspacesForOperator` loads
the state, lists what no record of it names (`Condemn`) and then removes one after the other, by force (`RemoveOrphan`).
It is the third mutation whose promise is returned un-awaited. The grace period of a day, locks and unsafe paths are a
choice of `Condemn`; the three git commands of a removal are one step.

### IssueRun

`rec` is the state file's records, cut down to the fields some guard of this lane reads; `active` the reservation;
`marker` and `moved` the interrupted-turn marker and whether the journal still matches its fingerprint; `branch` what
git says of the branch (`empty`, `dirty`, or clean with commits: `ahead`); `github` the issue and its pull request.
`pc` walks through a cycle; each action ends with a save, so a crash (`Abort`) falls between two of them.

- Prelude: `AuthFails`, `Reserve` (`reconcileStaleActiveIssueReservation`: `ReportInterrupted`, `Abandon` or
  `KeepOrDrop`), `Unmark`, then one of three: `Recover` (merged, failed, done and blocked records, in any order,
  perhaps cut short); `RecoverMerged` (the pull request of the reserved issue was merged: the prelude returns early);
  `RecoverDegraded` (`listAllIssues` throws: at most the merge and the failed records are looked at, records that
  count as done or are blocked are left as they are, and the cycle goes on). Such a failure counts as a fault.
- Selection: `Select` in the prelude, `Choose` by the issue phase after an early return, `ChooseDegraded` without an
  inventory: the reserved issue goes on, a bounded or snapshot-backed start, or the record is put back (`PutBack`).
- Issue phase: `Normalize`, `Resolve` (budget), `Prepare`, `Hydrate` (what GitHub says of the branch, and
  the gates), `Publish` or `PublishRefused` (GitHub has an open one already), `TrackOpened`, `Infer`.
- Turn: `BeginTurn` counts the attempt, `Mark`, `AgentWorks` (any branch, any journal), then one of `NoHandoff`,
  `TurnFails`, `HintedStop`, `GateRefuses` (block, queue a repair, or one same-turn repair), `Complete`, and `Clear`.
- Around it: `TurnThrows` (`recoverUnexpectedCodexTurnFailure`), `Abort`, `OperatorRequeue`, `EditIssue`, `CloseIssue`,
  `OpenPullRequest` (by hand),
  `MergePullRequest`, `ClosePullRequest`.

Left out or joined: states with a tracked pull request are one state, `tracked`; implementing, repairing_ci and the
like are one state, `repairing`, since no guard of this lane tells them apart; requirements, labels, trust and
dependencies (issues are well formed and independent); the repeated-blocker counter; the provider-capacity signature,
which no code sets; the issue and session locks, which are stale by the time the next cycle looks, since a cycle that
is alive holds the run lock; journal syncs after an outcome was saved. An authentication failure that pauses the active
issue counts as putting it before the operator. Counters stop where nothing compares them any more (`AtMost`). A crash
ends the agent's work here; that an agent may outlive its supervisor and go on writing is modelled in `AgentTurn` only.

As a `TurnLedger`, `Phase` tells whether the agent rests, is in a turn or was lost in one (`cutShort`, a history
variable: the turns that died without a trace and were not settled yet), and `interrupted` is the alarm. `Excuse` of the
ledger is the pause of an authentication failure.

### AgentTurn

`Spawn` is `runCommand` with a timeout: a child that leads its own process group and writes into two pipes. `Fork`,
`LetGo` and `Exit` are what it and its helpers may do at any time: start others, in or out of the group, with or without
the pipes, deaf to SIGTERM or not. `TimeoutFires` and `KillFires` are the two timers, which signal the group; `Close` is
Node's "close", the child's exit and the end of its pipes, and `CommandOutcome`, `TurnOutcome`, `FailureKinds` and
`Return` are the layers up to the result of `runTurn`, with the order of their tests. `TidyFails` is the `finally` of
`runCodexTurn`. `Crash` leaves the processes and loses the timers. When the next turn may start after that is the
business of `IssueRun`, which puts the issue before the operator first; here it may start at once. Left out: Windows,
where only the child is signalled; pids used again; a `kill` that fails; session ids and the fields of the footer.

### PullRequestPolicy, TrackedPr, MergePromise

`PullRequestPolicy` has the decisions of `pull-request-state-policy.ts` and its neighbours: `inferStateFromPullRequest`
from the order in which the code asks (`BlockerState`, `OpenState`), the reason of a block, the request policy, the
patches a look leaves in the record, and `finalAutoMergeGuard`. The configuration is in its header: Codex Connector is
the only reviewer, a review of the current head is required, local CI is configured. Its unresolved threads are
must-fix, and beside a must-fix thread `staleConfiguredBotReviewThreads` is empty (`review-thread-reporting.ts:366`): so
an exhausted finding is a block for manual review, never `stale_review_bot`, and nothing waits beside it. A look that
requests a review tells threads of older commits from those of the head; the code tells them by the latest reviewed
commit it knows, which can lag behind the threads of the same look. Threads outdated by a push stay, as GitHub keeps
them unresolved; that some of them may be cleared as outdated residue (`pull-request-state-codex-residue-policy.ts:134`)
is left out.

In `TrackedPr`, `rec` is the record and `gh` the pull request; `view` is what the supervisor read of it last. A look is
`gh pr view` first (`Look`; `view` keeps what it tells, `Viewed`) and checks and threads later (`Snapshot`), with GitHub
free to move in between. `pc` walks through a cycle:

- Recoveries: `StartCycle`, `Reconcile` (merged, closed, stale failure, blocked), `CloseDone`.
- Issue phase: `Select` (also a block on threads of an older commit whose review is still to be requested), `Hydrate`,
  then the early review request, a repair turn, or what follows a turn.
- Request: `PostRequest` comments on GitHub, `SaveRequest` remembers it, `RequestFails` remembers that it failed.
- Turn: `Turn` (any commits, any claim, or it throws), `Publish` (a second pull request if the first was closed).
- Promotion: `PostTurn`, `LocalCiPasses` or `LocalCiFails` (the result is of the workspace's HEAD, the record binds it
  to the head that was read), `MarkReady`.
- Merge: `Refresh`, `ApplyLifecycle`, `LookAgain`, `Guard`, `EnableAutoMerge`, `SaveMerging`.
- Around it: `Crash`, checks, reviews, lateness, people (`Help`), `GitHubMerges`, `IssueEdited`.

`tested`, `green`, `clean`, `answered` and `merged` are history variables: what each commit has passed, whatever was
read of it. Through them `TrackedPr` implements `MergePromise`, which knows nothing of looks, records or requests.

Left out or joined: other review providers, local review, automatic resolution of stale bot threads, repeated review
requests and the counts of Codex Connector churn, the path gates before a promotion, grace and quiet periods. The
repeated-failure counter is a choice of the step that compares it, and so is whether a blocked record's failure is
another one, which counts its repairs anew (`RecoveredRecords`). Two other ways of selecting a blocked record are left
out: the retry of a verification block (`shouldAutoRetryBlockedVerification`) goes by key words that no block of this
model has in its message, and `shouldSelectCodexConnectorValidReviewRepair` by the artifacts of failed probes. A run
stopped without progress keeps the thread it was stopped for (`stopped`), because a recovery compares it with the
threads of the day (`Suppressed`); a follow-up comment on that thread, which lifts the stop, is left out.

### Selection

`gh` are the issues as they are, `inventory` the cached listing (reused within five minutes, how old it is being a
choice), `rec` the records, `active` the reservation and `failure` the inventory failure in the state file. A cycle goes
from `StaleReservation` to a listing (`Refresh`, `Reuse` or `ListingFails`), through the recoveries that judge by it
(`TrackedMerged`, `MergedClosures` with its limit per cycle and its cursor, `StaleDone`, `RecoverBlocked`) or past them
(`Degraded`, `BoundedSelection`), to `ReserveNext`, the epics (`CloseEpic`, `SaveEpic`), `Resolve`, `Fetch`,
`CheckOrder` and `Begin`. `PutBack` is the restart without delay. `clear` and `starts` are history variables: who was
out of the way at some time since the issue at hand was read, and how many issues were started since the last good
listing.

Left out: what a run does (`EndTurn` chooses among its outcomes), clarification and trust (judged alike by selection
and recovery), the reviewer's exceptions to eligibility, an issue lock held by another session.

### DecisionKernel

`selectReadOnlyDecision` and what it is computed from, the comparison with the supervisor, and the mode that takes
actions, as operators over a record and a pull request of `TrackedPr`. Two facts that `TrackedPr` leaves out are
quantified over: which commit was reviewed last, and whether the record already names the head as approved, which it
does only of a clean one. Assumed: checks run on every head; GitHub says CLEAN when they are green and nothing
conflicts. Advisories below must-fix, softened findings and residue proven stale are left out. `mark_stale_resolved`
has no definition: with Codex Connector as the only provider no input reaches it.

### PullRequestReport

`buildTrackedPrMismatch` and what it is computed from, as operators over a record and a pull request, with the line it
prints, its advice (run a cycle, fix the gate first) and its `recoverability`. `Recovered` of `TrackedPr` is what the
next cycle really does; `GoodAdvice` and `GoodSilence` compare the two. Left out: the wording and details of a report,
the remediation of stale bot threads (`residue`, a choice), the queued repair of a path gate.

## Runs

| run | what it asks | answer |
|---|---|---|
| `lock_safety` | it implements `LockPromise`; owners are visible, robbed by stale views only; giving up needs contention | holds |
| `lock_live` | a leftover is reclaimed while someone polls | holds |
| `lock_mutex` | one holder, as `core/lock.test.ts:34` has it | violated |
| `store_safety` | nothing saved is lost, damage is kept, no worktree is taken from its issue, implements the register | holds |
| `store_lost_update` | saves are never undone | violated |
| `store_bootstrap` | corruption is never an empty start, as `docs/architecture.md:19` has it | violated |
| `issue_one` | it keeps the `TurnLedger`; its cycles end; budget, one pull request; drafts get published, an unearned done is questioned | holds |
| `issue_draft_stuck` | a branch that waits for its draft gets it, `draftPrAfterAttempt` 2 | violated |
| `issue_unbounded_attempts` | the agent is not started for ever | violated |
| `tracked_pr` | what is merged passed everything, requests and turns come once, the kernel agrees, the reports advise well, it ends | holds |
| `agent_turn` | an agent ends with its turn, the result says how, every turn ends | holds |
| `selection` | dependencies, bounded degraded starts, every pass and every closed issue comes to its end | holds |

**Bounds.** `lock_safety`: three processes, two on one host, one on another that cleans up ambiguous owners, and two
pids. Three callers are the fewest for the worst case of the lock: one owns, one condemns what it read earlier, one
creates in between. `lock_live` and `lock_mutex`: two callers of a process that stays up and one of a process that
crashes. The store: two cycles, one mutation, one reset, one prune and one report in two processes, each running once
(they come to rest, so deadlock is not checked there); two sessions suffice for every pair that can collide, the fifth
is the foreign load that falls between two renames. `OneMutation` leaves out the behaviours in which the operator asks
for both a requeue and a prune; the two cycles are interchangeable. `issue_one`: two attempts and two repeats, so that
every counter passes zero, its middle and its limit; two faults (a crash in the recovery of a crash, or inventories that
fail twice in a row), one intervention (a requeue, an edit of the issue or a pull request opened by hand). It has one
issue: two that compete for the cycle are a case of `RunKeepsLedger`, which holds for any number, and so is what
`Choose` takes up after a merge. `agent_turn`: three turns and three processes, so an agent with two helpers, one of
which may hold a pipe while the other leaves the group, or an agent beside the one a dead supervisor left, with a helper
of either. `tracked_pr`: two commits, so that what was found of one head can be used for the other; two pull requests of
the branch; one repair; one crash or failed call and one intervention of a person. `selection`: an issue, one that waits
for it, and their epic, by "Depends on" or by order, each perhaps closed at the start; one closure per cycle, so that
the cursor matters; listings may fail at any time, other reads or the process once; people act once. Pull requests of
the issues may be merged at any time.

**Fairness.** `lock_live`: the event loop of a process that stays up runs each continuation, and the poll loop calls
again; nothing is assumed of the process that crashes. `LeftoverReclaimed` says that a leftover does not stay for ever.
`FairSpec` of `IssueRun`: the loop of the command line starts one cycle after another and each cycle goes on, one weak
fairness condition on `CycleStep`; that a turn comes back is `TurnReturns`, which names what it excepts. Faults, people
and the agent's choices are under none. `FairSpec` of `TrackedPr`: the same; since no step leaves `pc` alone but those
of the world, weak fairness on a change of `pc` (`Proceed`) says it (`OnlyTheCycleMoves` proves that), and `NeverStuck`
says that a cycle always has a step to take. GitHub, its bots and its people are under no fairness: checks may stay
pending and a review may never come. `Selection`: weak fairness of `Supervisor` likewise (a turn has a time limit), and
strong fairness of `Refresh`: the cache runs out, and GitHub, asked again and again for the inventory, sometimes
answers. `FairSpec` of `AgentTurn`: the event loop runs a timer that is due and delivers "close"; the agent and its
helpers owe nothing, not even their end. The other runs have no fairness and claim no liveness.

### What the runs say about the code

- *Locks.* Two callers can both hold a lock: the file is empty between `open` and `writeFile`, a second caller takes
  what does not parse for damage and removes it (`core/lock.ts:70`). What survives is proved: among owners nobody robbed
  there is at most one, its file names it, and nobody judges it stale.
- *State file.* `requeueIssueForOperator` and the reset are returned, not awaited, inside `try`/`finally`
  (`supervisor/supervisor-mutation-runtime.ts:124`, `:187`), so the run lock is free before the save and a cycle's save
  and the operator's can undo each other. As long as no save outlives its lock and nobody damages the file, no update
  is lost. Between the two renames of a quarantine (`core/state-store-json-backend.ts:80`) the path is missing, and a
  load by another process there, or any load after a crash there, starts from an empty state.
- *Worktrees.* The same holds of `pruneOrphanedWorkspacesForOperator` (`supervisor/supervisor-mutation-runtime.ts:145`):
  its removals go on when the run lock is free, by path and by force. A cycle that starts then may reserve the issue of
  a worktree on the list and reuse the worktree, which is removed under it. `NoWorktreeTaken` therefore excepts a
  session that has outlived its lock; it excepts a damaged file too, since a load between the two renames finds no
  record and takes every worktree for an orphan, and then only the grace period of a day protects them.
- *Turns.* A turn that died without a trace is reported before the agent is started again, on this issue or another,
  and nothing else is ever reported as one; there is one pull request per issue whatever dies between its creation and
  the save of its number; no turn exceeds the budget unless a counted stale recovery pays for it; an agent that claims
  "done" is not believed.
- *Agents.* When a turn is over its agent is gone, and so is whoever still held an output, unless the supervisor died
  during the turn: nothing tells the next one that the agent still runs (`core/command.ts:191`). A helper that keeps a
  pipe open delays the end of a turn whose agent has long exited with 0, and the timeout then makes it a failure
  (`core/command.ts:297`); one that also left the group delays it for ever, which is the exception of `TurnReturns`. A
  helper that ignores SIGTERM and holds no pipe survives: "close" clears the timer of SIGKILL. A temporary directory
  that cannot be removed turns any ending, a timeout too, into a `command_error` (`codex/codex-runner.ts:100`), so that
  the retries of a timeout do not apply.
- *Drafts.* With `draftPrAfterAttempt` above 1 a clean branch waits for ever: it is inferred `draft_pr`, no turn runs in
  that state (`supervisor/supervisor-lifecycle.ts:722`) and no pull request is opened below the threshold
  (`run-once-issue-preparation.ts:472`). With 1, the default, it is published.
- *Attempts.* The attempt limit does not bound the number of turns. After a crash-free turn that leaves the branch
  dirty the record stays `stabilizing`; the next cycle counts a stale recovery under its own failure signature and that
  pays for one more turn; a same-turn path repair overwrites the signature (`turn-execution-same-turn-repair.ts:131`),
  so the next recovery counts from one again.
- *Pull requests.* Auto-merge is enabled only at a head that passed local CI, its checks and the review, although a look
  may join two heads: `--match-head-commit` and the binding of each result to a head see to it. It stays enabled when
  something is pushed later (`MergePromise` says whose responsibility that is). Requests and repair turns come once for
  each head and finding; every merge is recorded; a healthy pull request is merged or before the operator.
  A review may be requested of a pull request that has just been merged, which takes its record from done back to
  `waiting_ci` (`post-turn-pull-request.ts:525`) until the next cycle: hence `Resume` in `MergePromise`. The count of
  repairs is zeroed whenever a recovery finds a different state, so `maxRepairAttemptsPerIssue` bounds the repairs in a
  row and not those of an issue.
- *Selection.* The cached inventory never lets a dependent start early, and transient failures let one issue start at
  most. The cache does mislead recoveries: a record that was just closed as done is taken back to a block
  (`recovery-support.ts:43`) and an epic is closed again each cycle until the cache runs out. `CycleReturns` has an
  exception: an issue complete in its sections but malformed is requeued by its recovery, which does not ask
  `validateIssueMetadataSyntax`, and blocked by its selection, which does, in one `runOnce` without end, and the issues
  behind it wait. A transient failure that persists restarts without delay too, which `SF_vars(Refresh)` excludes.
  The reports (`supervisor/supervisor-selection-readiness-summary.ts:441`) judge dependencies over all issues, selection
  over the candidates: a closed dependency without a record is reported as blocking while its dependent starts.
- *Kernel.* Decision Kernel v2 would merge exactly when the supervisor does and the record names the head as approved,
  on fresh facts only. Elsewhere they differ by design, and sometimes in tone: the comparison asks for a manual review
  of pull requests that merely wait.
- *Reports.* A stopped pull request is reported as the next cycle will find it, except for the stops named `Held`: the
  report says "run a one-shot supervisor cycle to refresh tracked PR state" (`supervisor/tracked-pr-mismatch.ts:537`) of
  a review that came too late for a head that has moved, which the recoveries leave blocked by intent
  (`supervisor/supervisor-recovery-reconciliation.test.ts:968`), and of a review loop stopped without progress, even as
  `recoverability=stale_but_recoverable`, although `recovery-tracked-pr-reconciliation.ts:144` keeps it stopped. The
  advice is about the next cycle only. Where the workspace was ahead of the head when local CI refused it, that cycle
  keeps the block and drops its evidence (`recovery-blocked-issue-reconciliation.ts:731`), so the one after it tries the
  promotion again although nothing was fixed.

## Proofs

`ConstAssumption`, `SessionAssumption` say only that the constants are sets, functions and distinct values,
`RunAssumption`, `PolicyAssumption` and `TrackedAssumption` that limits are natural numbers and some at least one,
`TurnAssumption` likewise, `SelectionAssumption` that issues are finitely many positive numbers and an epic is no
dependency.

**FileLockProofs**, for any callers, processes, hosts and pids. Exclusion among unrobbed owners is not inductive: one
must know where each owner's file is. `IInv` adds `OwnerFile` (an unrobbed owner's file is at the path, blank until it
is written, then with its live pid), `RobbedFile` (a robbed owner's is not), `BusyRuns` (a call in progress runs in a
live process) and `ViewOK` (what a judge read is what is there, if nobody touched it). From it `TypeCorrect`,
`ExclusiveUnlessRobbed`, `HoldersVisible` and `VerdictsSound`. `FileImplementsLock` is the refinement of `LockPromise`,
one case per action: `Open` finds the path free, so there is no unrobbed owner, and the one unlink that takes a file
from its owner takes it from that owner alone. `HoldersLoseToStaleViews` is about steps: `RobberUnlinks` shows that only
an unlink robs, and `IInv` what its caller can have believed. `GivesUpContended` needs `AloneOK`: an undisturbed call
finds on its second attempt what its first one left, which is nothing (`FirstAttemptGoesOn`). `CallsEnd` says that the
lock is wait-free: `Farthest` is how many steps of its own a caller may still have to take, eight at first, each step
takes one off, and no other caller's step adds any, because the retry comes once.

**StateStoreProofs**, for any sessions and processes. `SInv` says that, while the file is undamaged and no save has
outlived its lock, who works holds the run lock, has in memory everything the file has and only edits of its own beyond,
and nobody quarantines. From it `UpdatesSurvive`; and with `CommitStep` (such a step adds edits of one session)
`StoreImplementsRegister`, the refinement of `StateRegister` that the run checks too. `WorktreesSafe` needs one more
invariant, `ListUnrecorded`: what a prune has condemned has no record in its memory. `EvidenceStays` needs
none: of the steps that touch the quarantine, each adds to it (`QuarantinesOnce`), and the others leave it.
`SessionsAssumeLock` says what the module takes the run lock to be, a `LockPromise` without a robbery, in the words in
which `FileImplementsLock` proves it.

**IssueRunProofs**, for any number of issues, any limits and any number of faults and interventions. `RunInv` says what
each step of a cycle may rely on. `WorkReserved`: the issue it works on holds the reservation. `TurnKnown`: before the
agent starts the record has an attempt, a guarded state and, from then on, a marker. `JournalSynced`: a marker left over
from an earlier turn no longer fits the journal. `LostHeld`: a turn that died without a trace keeps its reservation, its
marker and its state until the next check, and `HeldLost`: nothing else looks like one. `StaleWaits`: a recovery that
waits in the queue still has the context that saves its count from the reset before the turn; a turn takes that context
away, and `StaleReserved`: then the issue keeps its reservation until the next check, so a cycle without an inventory
never puts such a record back. `DoneApart`: what counts as done is neither reserved past that check nor worked on.
`Paid`, `KnownPullRequest`, `OpenedOnce`: budget and pull requests at each step. Each depends on what every patch makes
of a record, which `Fits` bounds once for all of them (`RecordStep`): a patch never lowers attempts to zero, gives a
guarded state at four places only, and claims a pull request only if GitHub has one. From it `RunTypes`,
`LostTurnsFirst`, `LossesKept`, `BudgetKept`, `AlarmsTrue` and `PullRequestOnce`. An unearned "done" may stand through
any number of cycles without an inventory, so that it goes in the end is liveness (`DoneIsEarned`, model-checked);
`ClaimsAreKept` proves the safe half: until then nothing is done for the issue, it is only put before the operator or
settled by a pull request. `OnePullRequest` needs that every lookup sees what was opened before; that is how `github` is
modelled. `RunKeepsLedger`, the refinement of `TurnLedger`, needs `AlarmEnds` besides: a cycle that reported a loss only
goes through the recoveries and ends, so it starts nothing. `LostTurnsFirst` (`NoSilentRerun`) and `AlarmsTrue`
(`NoFalseAlarm`) are what the ledger says of one step; no run checks them apart from it. `CyclesEnd` bounds a cycle by
nineteen steps: `StepsLeft` counts the way to the end and one same-turn repair, the only step that leads back, and
without the flag `retried` it would not decrease.

**AgentTurnProofs**, for any set of processes and any number of turns. `NoAgentOutlivesItsTurn` needs `Born` (a process
has a turn that has begun), `OneChild` (a turn has one agent, its child) and `ChildGone` (an exit code means it does not
run); `VerdictIsTrue` needs `ResultLost`, `OutcomeFacts` and `KindFacts`, the order of the tests. `TurnReturns` is
liveness, but what could be wrong about it is not: `TurnsGoOn` says that a turn under way has a timer set, is closed, or
waits for a holder outside the group. `TurnChild` is the invariant: the child is in the group it leads, and nobody is
once both timers have fired. The others are `TurnTypes`, `AgentsEndWithTheirTurn` and `VerdictsAreTrue`.

**TrackedPrProofs**, for any number of commits, pull requests, repairs, faults and interventions. `Inv` is `TypeOK` with
`Verdicts` (a green or clean pull request has a head that was found so), `Vetted` (at the order to merge, the head that
was read has passed local CI and review, and its checks too if it is still the head: a branch that moved between the two
calls of a look never returns), `RequestKnown` (where a request is about to be posted GitHub has none for that head),
`TurnsRemembered`, `WorkKnown` and `TurnOpen` (the findings that had a turn are in the record, a turn starts on an open
pull request), `MergedKnown`, `NotDone` and `BudgetLeft`. The lemmas on the policy come first: `StateInferred` (no case
is missing), `DoneInferred`, `DueIsUnasked`, `RecoveryKeeps` (what every patch leaves of the record's history). From it
`TrackedTypes`, `LocalCiTrue`, `RequestedOnce`, `OneTurnEach`, `ClosedStays`, and by `StepKeepsPromise`, one case per
action, the refinement `PromiseIsKept`. `GateOnlyWhenDue` is the one guard of a step that `NeverStuck` cannot take for
granted: every other place has a branch for each case of what was read, and the second gate has one only for a head
without a result. `CyclesAdvance` bounds a cycle by fifteen steps. It needs `GateIsForReady`: the second gate is only
reached by a pull request that is ready, for else one that passes would lead back to the promotion. `OnlyTheCycleMoves`
is about what `FairSpec` assumes.

**SelectionProofs**, for any set of issues, dependencies and limits. `Inv` adds to `TypeOK`: `ClearNoted` (whoever
others wait for and is no candidate is in `clear`), `AtWork` (after a good listing there is an inventory and no
failure) and `OneStart` (a bounded failure has had no start yet, a transient one only issues with a pull request).
`LeastExists` and `ResumeKnown` show that the two `CHOOSE` of the selection and of the cursor find something.
`OrderHolds` is the step that lets an issue pass: whatever the check, its dependencies are no candidates then. From it
`SelectionTypes`, `DependentsWait` and `BoundedStarts`. `PassesAdvance` says that a pass takes at most fourteen steps or
gives back the issue it reserved (`BeginsAgain`); `CycleReturns` is left with the question how often it does that.

**DecisionKernelProofs** reduces the supervisor's rule (`SupervisorRule`) and the kernel's (`KernelRule`) to the same
facts, for every record and pull request, reachable or not: `KernelRuleIsTheGuard`, and so `KernelNeverAhead`.

**PullRequestReportProofs** does the same for diagnosis and recovery: both read the same state and reason off GitHub
(`SameReading`), a stop that no rule holds follows them (`RecoveryFollows`), one that agrees with them rests
(`RecoveryRests`). `GuidanceRule` puts the cases of the report beside these, whatever the record; `GuidanceIsGood`
follows by type correctness.

The bounds on cycles, passes and calls (`CyclesEnd`, `CyclesAdvance`, `PassesAdvance`, `CallsEnd`) are the safety side
of liveness: with a fair scheduler and no dead end, whatever was begun comes to its end, but for a pass that keeps
starting over. Of these only `CycleAdvances` of `IssueRun` is checked by a run too; the others, `SessionsAssumeLock` and
`OnlyTheCycleMoves` are theorems without a run.

Only model-checked: `NeverStuck`, which is `ENABLED`; and everything about liveness (`TurnReturns`, `LeftoverReclaimed`,
`LossIsReported`, `DraftIsPublished`, `DoneIsEarned`, `MergedIsRecorded`, `HealthyIsMerged`, `CycleReturns`,
`ClosedIsDone`, `EpicCloses`), which is out of the prover's reach.

## Not modelled

- *SQLite backend.* A save replaces all rows in one `BEGIN IMMEDIATE` transaction, so there is nothing between two
  renames. Rows that do not parse are dropped with a finding at the load and gone with the next save; that is a
  sequential fact about the load, the JSON backend is the default.
- *git inside a worktree.* References, rebases and pushes have their state in git; `IssueRun` keeps what the supervisor
  asks about a branch, `TrackedPr` its heads, `StateStore` which worktrees exist. A clean-up cut short leaves the branch
  behind, which the next creation takes up.
- *Local review, the wording of findings, other review providers.* Their verdicts are choices or fixed by the
  configuration above.
- *CLI, HTTP server, WebUI, doctor, setup, status, metrics, replay.* They present the state and change it through the
  sessions of `StateStore` only; of what they conclude, `PullRequestReport` has the diagnosis of a pull request.
- *Loop controller.* Poll intervals and the launcher of a managed restart; what they order is one cycle after another.

----------------------------- MODULE StateStore -----------------------------
(***************************************************************************)
(* The JSON state file and the sessions that read and write it: cycles of  *)
(* the supervisor, operator mutations, the reset of a quarantined file,    *)
(* the prune of orphaned worktrees and the read-only reports.              *)
(* src/core/state-store-json-backend.ts keeps the file,                    *)
(* src/supervisor/supervisor-mutation-runtime.ts and                       *)
(* supervisor-loop-controller.ts decide who may touch it and when.         *)
(*                                                                         *)
(* A state is the set of edits it contains.  A session loads the file into *)
(* memory, adds its edits and saves the whole of it with an atomic rename. *)
(* The run lock is the lock of FileLock, used here as the lock it promises *)
(* to be when nobody is robbed.                                            *)
(*                                                                         *)
(* Each cycle works on an issue of its own, so a worktree is known by the  *)
(* cycle that works in it.                                                 *)
(***************************************************************************)
EXTENDS FiniteSets

CONSTANTS Cycle,       \* sessions of runCycle
          Operator,    \* requeue and latch-release sessions
          Resetter,    \* reset-corrupt-json-state sessions
          Pruner,      \* prune-orphaned-workspaces sessions
          Reader,      \* status, doctor, explain: no run lock
          Proc,        \* operating system processes
          ProcOf,      \* the process of a session
          None

Session == Cycle \cup Operator \cup Resetter \cup Pruner \cup Reader
Locking == Session \ Reader

ASSUME SessionAssumption ==
    /\ ProcOf \in [Session -> Proc]
    /\ None \notin Session
    /\ Cycle \cap (Operator \cup Resetter \cup Pruner \cup Reader) = {}
    /\ Operator \cap (Resetter \cup Pruner \cup Reader) = {}
    /\ Resetter \cap (Pruner \cup Reader) = {}
    /\ Pruner \cap Reader = {}

\* A cycle saves its reservation before the turn and its outcome after it.
Edits(s) == IF s \in Cycle THEN {<<s, "reserve">>, <<s, "outcome">>}
            ELSE IF s \in Operator THEN {<<s, "requeue">>} ELSE {}
Edit == UNION {Edits(s) : s \in Session}

\* Contents of a file.
Missing == [kind |-> "missing", edits |-> {}]
Corrupt == [kind |-> "corrupt", edits |-> {}]
Marker == [kind |-> "marker", edits |-> {}]
State(edits) == [kind |-> "state", edits |-> edits]
Content == {Missing, Corrupt, Marker} \cup {State(E) : E \in SUBSET Edit}

VARIABLES stateFile,   \* contents at config.stateFile
          quarantined, \* contents of the quarantine file each session made
          runLock,     \* holder of supervisor/run
          loadLock,    \* per process: holder of StateStore.jsonLoadLocks
          pc,
          memory,      \* the state a session works on, as it loaded or changed it
          worktrees,   \* cycles whose worktree exists
          condemned,   \* worktrees each prune has listed for removal
          corrupted,   \* history: the state file was damaged from outside
          saved,       \* history: edits whose save returned
          outlived     \* history: sessions that released the run lock while
                       \* their save was still under way

vars == <<stateFile, quarantined, runLock, loadLock, pc, memory,
          worktrees, condemned, corrupted, saved, outlived>>
trees == <<worktrees, condemned>>

Pcs == {"idle", "load", "reload", "move", "install", "restore", "work", "saving",
        "prune", "release", "done"}

TypeOK ==
    /\ stateFile \in Content
    /\ quarantined \in [Session -> Content]
    /\ runLock \in Locking \cup {None}
    /\ loadLock \in [Proc -> Session \cup {None}]
    /\ pc \in [Session -> Pcs]
    /\ memory \in [Session -> Content]
    /\ worktrees \subseteq Cycle
    /\ condemned \in [Pruner -> SUBSET Cycle]
    /\ corrupted \in BOOLEAN
    /\ saved \subseteq Edit
    /\ outlived \subseteq Session

\* The file may be damaged already when the supervisor starts, and worktrees
\* may be left of issues it has no record of.
Init ==
    /\ stateFile \in {Missing, Corrupt, State({})}
    /\ quarantined = [s \in Session |-> Missing]
    /\ runLock = None
    /\ loadLock = [p \in Proc |-> None]
    /\ pc = [s \in Session |-> "idle"]
    /\ memory = [s \in Session |-> Missing]
    /\ worktrees \in SUBSET Cycle
    /\ condemned = [s \in Pruner |-> {}]
    /\ corrupted = (stateFile = Corrupt)
    /\ saved = {}
    /\ outlived = {}

\* Control moves on with c in memory; a session that ends or loads anew forgets
\* it.
Step(s, where, c) ==
    /\ pc' = [pc EXCEPT ![s] = where]
    /\ memory' = [memory EXCEPT ![s] = IF where \in {"reload", "release", "done"} THEN Missing ELSE c]
GoTo(s, where) == Step(s, where, memory[s])
LeaveLoad(s) == loadLock' = [loadLock EXCEPT ![ProcOf[s]] = None]
-----------------------------------------------------------------------------
\* Someone edits or damages the file behind the supervisor's back, once.
Damage ==
    /\ stateFile.kind = "state"
    /\ ~corrupted
    /\ stateFile' = Corrupt
    /\ corrupted' = TRUE
    /\ UNCHANGED <<quarantined, runLock, loadLock, pc, memory, saved, outlived, trees>>

\* Mutant: a busy lock is reported but not obeyed.
AcquireAnyway(s) ==
    /\ pc[s] = "idle"
    /\ s \in Locking
    /\ runLock' = s
    /\ GoTo(s, "load")
    /\ UNCHANGED <<stateFile, quarantined, loadLock, corrupted, saved, outlived, trees>>

\* runCycle and acquireMutationRunLock: the lock, or nothing at all.
AcquireRun(s) ==
    /\ pc[s] = "idle"
    /\ s \in Locking
    /\ IF runLock = None
       THEN runLock' = s /\ GoTo(s, "load")
       ELSE GoTo(s, "done") /\ UNCHANGED runLock
    /\ UNCHANGED <<stateFile, quarantined, loadLock, corrupted, saved, outlived, trees>>

\* Mutant: a report takes the run lock.
LockingReader(s) ==
    /\ pc[s] = "idle"
    /\ s \in Reader
    /\ runLock' = s
    /\ GoTo(s, "load")
    /\ UNCHANGED <<stateFile, quarantined, loadLock, corrupted, saved, outlived, trees>>

StartReader(s) ==
    /\ pc[s] = "idle"
    /\ s \in Reader
    /\ GoTo(s, "load")
    /\ UNCHANGED <<stateFile, quarantined, runLock, loadLock, corrupted, saved, outlived, trees>>

\* Where a session goes with the state it loaded: reports are done, a marker
\* stops cycles and mutations, everything else is worked on.  A cycle loads
\* twice, runSupervisorRunOnce to ask about the marker and its prelude to work.
AfterLoad(s, first, content) ==
    IF s \in Reader THEN "done"
    ELSE IF s \in Resetter THEN IF content = Marker THEN "saving" ELSE "release"
    ELSE IF first /\ content = Marker THEN "release"
    ELSE IF first /\ s \in Cycle THEN "reload" ELSE "work"

\* withJsonLoadLock and the read of loadFromJson or of
\* resetCorruptJsonStateFromJson.  A missing file is an empty bootstrap; text
\* that does not parse is quarantined by a load and refused by a reset.  The
\* second load of a cycle comes to the quarantine with nothing in memory.
Read(s) ==
    LET first == pc[s] = "load"
    IN
    /\ pc[s] \in {"load", "reload"}
    /\ loadLock[ProcOf[s]] = None
    /\ IF stateFile = Corrupt /\ s \notin Resetter
       THEN Step(s, "move", IF first THEN Corrupt ELSE Missing)
       ELSE Step(s, AfterLoad(s, first, stateFile), stateFile)
    /\ loadLock' = [loadLock EXCEPT ![ProcOf[s]] =
                       IF pc'[s] = "move" \/ (s \in Resetter /\ pc'[s] = "saving") THEN s ELSE None]
    /\ UNCHANGED <<stateFile, quarantined, runLock, corrupted, saved, outlived, trees>>

\* A load that throws: a report fails, a session releases its lock.
ThrowTo(s) == IF s \in Reader THEN "done" ELSE "release"

\* Mutant: the damaged file is removed instead of renamed.
RemoveAside(s) ==
    /\ pc[s] = "move"
    /\ stateFile' = Missing
    /\ GoTo(s, "install")
    /\ UNCHANGED <<quarantined, runLock, loadLock, corrupted, saved, outlived, trees>>

\* rename(stateFile, quarantinedFile), with the marker written to a temporary
\* file.  By now the path may hold something else, or nothing.
MoveAside(s) ==
    /\ pc[s] = "move"
    /\ IF stateFile = Missing
       THEN /\ GoTo(s, ThrowTo(s))
            /\ LeaveLoad(s)
            /\ UNCHANGED <<stateFile, quarantined>>
       ELSE /\ quarantined' = [quarantined EXCEPT ![s] = stateFile]
            /\ stateFile' = Missing
            /\ GoTo(s, "install")
            /\ UNCHANGED loadLock
    /\ UNCHANGED <<runLock, corrupted, saved, outlived, trees>>

\* rename(markerTempPath, stateFile), which may fail.
InstallMarker(s) ==
    /\ pc[s] = "install"
    /\ \/ /\ stateFile' = Marker
          /\ Step(s, AfterLoad(s, memory[s] = Corrupt, Marker), Marker)
          /\ LeaveLoad(s)
       \/ /\ GoTo(s, "restore")
          /\ UNCHANGED <<stateFile, loadLock>>
    /\ UNCHANGED <<quarantined, runLock, corrupted, saved, outlived, trees>>

\* rename(quarantinedFile, stateFile) after a failed install; it may fail too.
RestoreOriginal(s) ==
    /\ pc[s] = "restore"
    /\ \/ /\ stateFile' = quarantined[s]
          /\ quarantined' = [quarantined EXCEPT ![s] = Missing]
       \/ UNCHANGED <<stateFile, quarantined>>
    /\ GoTo(s, ThrowTo(s))
    /\ LeaveLoad(s)
    /\ UNCHANGED <<runLock, corrupted, saved, outlived, trees>>
-----------------------------------------------------------------------------
\* The outcome of a cycle comes after its reservation; requeue accepts only an
\* issue that a cycle has left blocked or failed.
Allowed(e, edits) ==
    /\ e[2] = "outcome" => <<e[1], "reserve">> \in edits
    /\ e[2] = "requeue" => \E c \in Cycle : <<c, "outcome">> \in edits

\* Mutant: the session saves its own change only.
WorkOnFresh(s) ==
    /\ pc[s] = "work"
    /\ \/ \E e \in Edits(s) \ memory[s].edits : Step(s, "saving", State({e}))
       \/ GoTo(s, "release")
    /\ UNCHANGED <<stateFile, quarantined, runLock, loadLock, corrupted, saved, outlived, trees>>

\* The in-memory part of a session: the next change, or the end of the session
\* (nothing to do, a rejected mutation, an error).
Work(s) ==
    /\ pc[s] = "work"
    /\ s \notin Pruner
    /\ \/ /\ \E e \in Edits(s) \ memory[s].edits :
                /\ Allowed(e, memory[s].edits)
                /\ Step(s, "saving", State(memory[s].edits \cup {e}))
       \/ GoTo(s, "release")
    /\ UNCHANGED <<stateFile, quarantined, runLock, loadLock, corrupted, saved, outlived, trees>>

\* The rename of writeFileAtomic: the whole state in memory replaces the file.
\* A cycle awaits it and goes on; the two kinds of mutation have returned the
\* promise already, so for them only the report is left.
Save(s) ==
    /\ pc[s] = "saving"
    /\ IF s \in Resetter
       THEN /\ stateFile' = State({})
            /\ LeaveLoad(s)
            /\ saved' = {}
       ELSE /\ stateFile' = memory[s]
            /\ saved' = saved \cup (Edits(s) \cap memory[s].edits)
            /\ UNCHANGED loadLock
    /\ GoTo(s, IF s \in Cycle
               THEN IF Edits(s) \subseteq memory[s].edits THEN "release" ELSE "work"
               ELSE IF runLock = s THEN "release" ELSE "done")
    /\ UNCHANGED <<quarantined, runLock, corrupted, outlived, trees>>

\* finally { await lock.release() } of a session whose work is over.
ReleaseRun(s) ==
    /\ pc[s] = "release"
    /\ runLock' = IF runLock = s THEN None ELSE runLock
    /\ GoTo(s, "done")
    /\ UNCHANGED <<stateFile, quarantined, loadLock, corrupted, saved, outlived, trees>>

\* `return requeueIssueForOperator(...)`, `return stateStore.reset...()` and
\* `return pruneOrphanedWorkspacesForOperator(...)` are not awaited inside the
\* try: the finally block releases the run lock while the save, even the read
\* of a reset, or all of a prune is still under way.
ReleaseBeforeSave(s) ==
    /\ runLock = s
    /\ \/ s \in Operator /\ pc[s] = "saving"
       \/ s \in Resetter /\ pc[s] \in {"load", "saving"}
       \/ s \in Pruner /\ pc[s] \in {"work", "prune"}
    /\ runLock' = None
    /\ outlived' = outlived \cup {s}
    /\ UNCHANGED <<stateFile, quarantined, loadLock, pc, memory, corrupted, saved, trees>>

-----------------------------------------------------------------------------
Has(edits, c, what) == <<c, what>> \in edits

\* A cycle at its issue: reserved, under the issue lock, in the worktree.
AtWork(c) ==
    /\ c \in worktrees
    /\ pc[c] \in {"work", "saving"}
    /\ Has(memory[c].edits, c, "reserve")

\* ensureWorkspace, once the reservation is saved: the worktree that is there
\* or a new one.
EnsureWorkspace(c) ==
    /\ pc[c] = "work"
    /\ Has(memory[c].edits, c, "reserve")
    /\ c \notin worktrees
    /\ worktrees' = worktrees \cup {c}
    /\ UNCHANGED <<stateFile, quarantined, runLock, loadLock, pc, memory, condemned,
                   corrupted, saved, outlived>>

\* cleanupExpiredDoneWorkspaces in the prelude of cycle d: the worktree of c,
\* whose outcome was done long enough ago or which is one too many.
CleanUpDone(d, c) ==
    /\ pc[d] = "work"
    /\ ~Has(memory[d].edits, d, "reserve")
    /\ c \in worktrees \ {d}
    /\ Has(memory[d].edits, c, "outcome")
    /\ worktrees' = worktrees \ {c}
    /\ UNCHANGED <<stateFile, quarantined, runLock, loadLock, pc, memory, condemned,
                   corrupted, saved, outlived>>

\* Mutant: records are not asked.
CondemnAny(s, c) ==
    /\ pc[s] = "work"
    /\ c \in worktrees \ condemned[s]
    /\ ~AtWork(c)
    /\ condemned' = [condemned EXCEPT ![s] = @ \cup {c}]
    /\ UNCHANGED <<stateFile, quarantined, runLock, loadLock, pc, memory, worktrees,
                   corrupted, saved, outlived>>

\* inspectOrphanedWorkspacePruneCandidates: no record names the worktree and
\* nobody holds its issue lock; it may be too recent or unsafe all the same.
Condemn(s, c) ==
    /\ pc[s] = "work"
    /\ c \in worktrees \ condemned[s]
    /\ ~Has(memory[s].edits, c, "reserve")
    /\ ~AtWork(c)
    /\ condemned' = [condemned EXCEPT ![s] = @ \cup {c}]
    /\ UNCHANGED <<stateFile, quarantined, runLock, loadLock, pc, memory, worktrees,
                   corrupted, saved, outlived>>

\* cleanupWorkspace of a worktree on the finished list: by path and by force,
\* and nothing is asked again.
RemoveOrphan(s, c) ==
    /\ pc[s] \in {"work", "prune"}
    /\ c \in condemned[s]
    /\ worktrees' = worktrees \ {c}
    /\ condemned' = [condemned EXCEPT ![s] = @ \ {c}]
    /\ GoTo(s, "prune")
    /\ UNCHANGED <<stateFile, quarantined, runLock, loadLock, corrupted, saved, outlived>>

\* The list is done with, or git fails.
EndPrune(s) ==
    /\ pc[s] \in {"work", "prune"}
    /\ condemned' = [condemned EXCEPT ![s] = {}]
    /\ GoTo(s, "release")
    /\ UNCHANGED <<stateFile, quarantined, runLock, loadLock, worktrees, corrupted, saved, outlived>>
-----------------------------------------------------------------------------
\* The process dies; its run lock is stale at once for the next caller.
Crash(p) ==
    LET its == {s \in Session : ProcOf[s] = p /\ pc[s] \notin {"idle", "done"}} IN
    /\ its # {}
    /\ pc' = [s \in Session |-> IF s \in its THEN "done" ELSE pc[s]]
    /\ memory' = [s \in Session |-> IF s \in its THEN Missing ELSE memory[s]]
    /\ runLock' = IF runLock \in its THEN None ELSE runLock
    /\ loadLock' = [loadLock EXCEPT ![p] = None]
    /\ condemned' = [s \in Pruner |-> IF s \in its THEN {} ELSE condemned[s]]
    /\ UNCHANGED <<stateFile, quarantined, worktrees, corrupted, saved, outlived>>

Next ==
    \/ Damage
    \/ \E s \in Session :
          \/ AcquireRun(s) \/ StartReader(s)
          \/ Read(s) \/ MoveAside(s) \/ InstallMarker(s) \/ RestoreOriginal(s)
          \/ Work(s) \/ Save(s) \/ ReleaseRun(s) \/ ReleaseBeforeSave(s)
    \/ \E c \in Cycle :
          \/ EnsureWorkspace(c)
          \/ \E d \in Cycle : CleanUpDone(d, c)
          \/ \E s \in Pruner : Condemn(s, c) \/ RemoveOrphan(s, c)
    \/ \E s \in Pruner : EndPrune(s)
    \/ \E p \in Proc : Crash(p)

Spec == Init /\ [][Next]_vars
-----------------------------------------------------------------------------
\* A save that returned is never undone by another session.  This is what the
\* refusal "Cannot run recovery action while supervisor is active" is for; a
\* mutation that outlives its lock breaks it.
SavesDurable == ~corrupted => saved \subseteq stateFile.edits

\* What the code does guarantee: on an undamaged file an update is lost only
\* once some mutation's save has outlived its run lock.
LostOnlyByOutlived == outlived = {} => SavesDurable

\* A worktree goes only when nobody works in it, and when the state file says
\* that its issue is over or has no record of it: as long as the file is
\* undamaged and no prune or save has outlived its run lock.
Intact == ~corrupted /\ outlived = {}
NoWorktreeTaken ==
    [][Intact => \A c \in worktrees \ worktrees' :
          /\ ~AtWork(c)
          /\ Has(stateFile.edits, c, "reserve") => Has(stateFile.edits, c, "outcome")]_vars

\* docs/architecture.md:19: a corrupted JSON state is not an empty bootstrap.
\* No session works from a missing file while the damaged payload sits in
\* quarantine.
CorruptionIsNoBootstrap ==
    (\E q \in Session : quarantined[q] = Corrupt)
        => \A s \in Locking : pc[s] = "work" => memory[s] # Missing

\* A payload set aside is never lost, whatever fails: damaged text disappears
\* only from the state path, under a save decided earlier or under a quarantine
\* that had set aside something else by mistake.
Evidence == stateFile = Corrupt \/ \E s \in Session : quarantined[s] = Corrupt
EvidenceKept ==
    [][Evidence /\ ~Evidence' =>
          /\ stateFile = Corrupt
          /\ \E s \in Session :
                \/ pc[s] = "saving" /\ stateFile' # Missing
                \/ pc[s] \in {"install", "restore"} /\ quarantined[s] # Corrupt]_vars

\* The state file implements the register: between two steps of the system the
\* edits at the path grow by edits of one session, or the promise is over.
Register == INSTANCE StateRegister WITH
    EditsOf <- [s \in Session |-> Edits(s)],
    committed <- IF Intact THEN stateFile.edits ELSE {},
    intact <- Intact
ImplementsRegister == Register!Spec

\* What the sessions assume of the run lock is what LockPromise gives while it
\* is kept: no session of this module is deceived.
RunLock == INSTANCE LockPromise WITH
    Caller <- Locking,
    owners <- IF runLock = None THEN {} ELSE {runLock},
    deceived <- {}
AssumesLock == RunLock!Spec
=============================================================================

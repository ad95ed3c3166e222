------------------------------ MODULE FileLock ------------------------------
(***************************************************************************)
(* The advisory file lock of src/core/lock.ts.  One instance stands for    *)
(* one lock path; the supervisor keeps one per loop, run, issue and        *)
(* session.  A client is one asynchronous caller inside an operating       *)
(* system process; every await of the code is a step boundary.             *)
(*                                                                         *)
(* The lock file is born empty (open with "wx") and gets its payload in a  *)
(* later write.  A reader that finds text that does not parse removes the  *)
(* file, whoever made it.  The removal of a stale file is a path removal   *)
(* made after the read that condemned it.                                  *)
(***************************************************************************)
EXTENDS Naturals

CONSTANTS Client,      \* asynchronous callers
          Proc,        \* operating system processes
          ProcOf,      \* the process a client runs in
          Home,        \* (host, user) pairs; a pid is probed inside one
          HomeOf,      \* where a process runs
          Pid,         \* process ids, reused freely by the system
          Forcing,     \* clients with allowAmbiguousOwnerCleanup
          None,        \* no file, no pid, nothing read
          Blank        \* contents of a created, unwritten lock file

ASSUME ConstAssumption ==
    /\ ProcOf \in [Client -> Proc]
    /\ HomeOf \in [Proc -> Home]
    /\ Forcing \subseteq Client
    /\ None \notin Pid
    /\ None \notin [by : Client, payload : [pid : Pid, home : Home] \cup {Blank}]
    /\ None \notin [pid : Pid, home : Home] \cup {Blank}
    /\ Blank \notin [pid : Pid, home : Home]

VARIABLES lockFile,    \* the file at the path: its maker and its contents
          pidOf,       \* pid of a running process, None when it is down
          pc,          \* where a client stands inside lock.ts
          op,          \* the exported function it called
          attempt,     \* the loop counter of acquireFileLock
          seen,        \* the payload its last read returned
          current,     \* history: clients whose read file is still there, unchanged
          undisturbed, \* history: clients whose call saw no one else touch the file
          robbed       \* history: owners whose file another client removed

vars == <<lockFile, pidOf, pc, op, attempt, seen, current, undisturbed, robbed>>

Payload == [pid : Pid, home : Home]
Files == [by : Client, payload : Payload \cup {Blank}]

\* A client between its own open("wx") and the end of its release.
OwningPcs == {"created", "held", "unlink"}
Owning(c) == pc[c] \in OwningPcs
\* What the caller believes: acquireFileLock returned acquired = true.
Holds(c) == pc[c] \in {"held", "unlink"}

Pcs == OwningPcs \cup {"idle", "open", "read", "judge", "remove"}

TypeOK ==
    /\ lockFile \in Files \cup {None}
    /\ pidOf \in [Proc -> Pid \cup {None}]
    /\ pc \in [Client -> Pcs]
    /\ op \in [Client -> {"acquire", "inspect"}]
    /\ attempt \in [Client -> 0..1]
    /\ seen \in [Client -> Payload \cup {Blank, None}]
    /\ current \subseteq Client
    /\ undisturbed \subseteq Client
    /\ robbed \subseteq Client

Running(c) == pidOf[ProcOf[c]] # None
OwnPayload(c) == [pid |-> pidOf[ProcOf[c]], home |-> HomeOf[ProcOf[c]]]

\* process.kill(pid, 0) run by c: true only for a process c's own user can
\* signal on c's own host.  A live process of another user answers EPERM and
\* of another host is not there, and the code takes both for dead.
isPidAlive(c, pid) ==
    \E p \in Proc : pidOf[p] = pid /\ HomeOf[p] = HomeOf[ProcOf[c]]

\* Mutant: the user is compared with the wrong field and never matches.
NeverLocal(c, payload) == FALSE

isClearlyStaleLocalLock(c, payload) == payload.home = HomeOf[ProcOf[c]]

-----------------------------------------------------------------------------
\* Bookkeeping shared by the actions.

Init ==
    /\ lockFile = None
    /\ pidOf \in [Proc -> Pid \cup {None}]
    /\ \A p, q \in Proc : p # q /\ HomeOf[p] = HomeOf[q] /\ pidOf[p] = pidOf[q]
                             => pidOf[p] = None
    /\ pc = [c \in Client |-> "idle"]
    /\ op = [c \in Client |-> "inspect"]
    /\ attempt = [c \in Client |-> 0]
    /\ seen = [c \in Client |-> None]
    /\ current = {}
    /\ undisturbed = {}
    /\ robbed = {}

\* c puts f at the path: every verdict reached on the old contents is outdated.
Put(c, f) ==
    /\ lockFile' = f
    /\ current' = {}
    /\ undisturbed' = undisturbed \cap {c}

\* fs.rm(lockPath, { force: true }) by c: a missing file is no error.
Unlink(c) ==
    /\ Put(c, None)
    /\ robbed' = (robbed \cup {d \in Client \ {c} : lockFile # None /\ lockFile.by = d /\ Owning(d)})
                    \ {c}

KeepFile == UNCHANGED <<lockFile, robbed>>

GoTo(c, where) == pc' = [pc EXCEPT ![c] = where]

\* The call returns or throws; its locals are gone.
Return(c) ==
    /\ GoTo(c, "idle")
    /\ seen' = [seen EXCEPT ![c] = None]
    /\ attempt' = [attempt EXCEPT ![c] = 0]

\* Mutants: the loop counter is not bounded; the loop has a single pass.
RetryForEver(c) ==
    /\ GoTo(c, "open")
    /\ attempt' = [attempt EXCEPT ![c] = @ + 1]
    /\ seen' = [seen EXCEPT ![c] = None]
NoRetry(c) == Return(c)

\* `continue` in the loop of acquireFileLock, or the return of a bare
\* inspectFileLock; after the second attempt the call gives up.
Retry(c) ==
    IF op[c] = "acquire" /\ attempt[c] = 0
    THEN /\ GoTo(c, "open")
         /\ attempt' = [attempt EXCEPT ![c] = 1]
         /\ seen' = [seen EXCEPT ![c] = None]
    ELSE Return(c)
-----------------------------------------------------------------------------
\* acquireFileLock or inspectFileLock is called.
Call(c, f) ==
    /\ pc[c] = "idle"
    /\ Running(c)
    /\ op' = [op EXCEPT ![c] = f]
    /\ GoTo(c, IF f = "acquire" THEN "open" ELSE "read")
    /\ undisturbed' = undisturbed \cup {c}
    /\ UNCHANGED <<lockFile, pidOf, attempt, seen, current, robbed>>

\* Mutant: the flag is "w", so an existing file is truncated.
OpenTruncates(c) ==
    /\ pc[c] = "open"
    /\ Put(c, [by |-> c, payload |-> Blank])
    /\ GoTo(c, "created")
    /\ UNCHANGED <<pidOf, op, attempt, seen, robbed>>

\* fs.open(lockPath, "wx"): creates an empty file, or fails with EEXIST.
Open(c) ==
    /\ pc[c] = "open"
    /\ IF lockFile = None
       THEN /\ Put(c, [by |-> c, payload |-> Blank])
            /\ GoTo(c, "created")
       ELSE /\ GoTo(c, "read")
            /\ UNCHANGED <<lockFile, current, undisturbed>>
    /\ UNCHANGED <<pidOf, op, attempt, seen, robbed>>

\* Mutant: the write is not awaited before the lock is reported acquired.
WriteForgotten(c) ==
    /\ pc[c] = "created"
    /\ GoTo(c, "held")
    /\ UNCHANGED <<lockFile, pidOf, op, attempt, seen, current, undisturbed, robbed>>

\* handle.writeFile and close.  The handle names the file c made: if another
\* client has removed it the payload goes to a file with no name.
WritePayload(c) ==
    /\ pc[c] = "created"
    /\ IF lockFile # None /\ lockFile.by = c
       THEN Put(c, [by |-> c, payload |-> OwnPayload(c)])
       ELSE UNCHANGED <<lockFile, current, undisturbed>>
    /\ GoTo(c, "held")
    /\ UNCHANGED <<pidOf, op, attempt, seen, robbed>>

\* The write fails (a full disk): not EEXIST, so acquireFileLock throws and
\* leaves the empty file behind.
WriteFails(c) ==
    /\ pc[c] = "created"
    /\ Return(c)
    /\ robbed' = robbed \ {c}
    /\ UNCHANGED <<lockFile, pidOf, op, current, undisturbed>>

\* inspectLockPayload reads the file.  A missing file is "missing"; a file
\* that does not parse is condemned at once.
ReadLock(c) ==
    /\ pc[c] = "read"
    /\ \/ /\ lockFile = None
          /\ Retry(c)
          /\ UNCHANGED current
       \/ /\ lockFile # None
          /\ seen' = [seen EXCEPT ![c] = lockFile.payload]
          /\ current' = current \cup {c}
          /\ GoTo(c, IF lockFile.payload = Blank THEN "remove" ELSE "judge")
          /\ UNCHANGED attempt
    /\ KeepFile
    /\ UNCHANGED <<pidOf, op, undisturbed>>

\* Mutant: the pid probe is dropped.
CondemnedWithoutProbe(c) ==
    isClearlyStaleLocalLock(c, seen[c]) \/ (op[c] = "acquire" /\ c \in Forcing)

\* The verdict on the payload read: a live pid or an ambiguous owner refuses,
\* a dead pid of this host and user is stale.  Only acquireFileLock honours
\* allowAmbiguousOwnerCleanup.
Condemned(c) ==
    /\ ~isPidAlive(c, seen[c].pid)
    /\ \/ isClearlyStaleLocalLock(c, seen[c])
       \/ op[c] = "acquire" /\ c \in Forcing

Judge(c) ==
    /\ pc[c] = "judge"
    /\ IF Condemned(c)
       THEN GoTo(c, "remove") /\ UNCHANGED <<attempt, seen>>
       ELSE Return(c)
    /\ KeepFile
    /\ UNCHANGED <<pidOf, op, current, undisturbed>>

\* fs.rm of whatever is at the path by now, then the next attempt.
RemoveCondemned(c) ==
    /\ pc[c] = "remove"
    /\ Unlink(c)
    /\ Retry(c)
    /\ UNCHANGED <<pidOf, op>>

\* release() reads the file: it goes on only if it finds its own pid.  The
\* host and the user are not compared, and an unparsable file throws.
ReadOwn(c) ==
    /\ pc[c] = "held"
    /\ IF lockFile # None /\ lockFile.payload # Blank
             /\ lockFile.payload.pid = pidOf[ProcOf[c]]
       THEN GoTo(c, "unlink") /\ UNCHANGED <<attempt, seen, robbed>>
       ELSE Return(c) /\ robbed' = robbed \ {c}
    /\ UNCHANGED <<lockFile, pidOf, op, current, undisturbed>>

RemoveOwn(c) ==
    /\ pc[c] = "unlink"
    /\ Unlink(c)
    /\ Return(c)
    /\ UNCHANGED <<pidOf, op>>

-----------------------------------------------------------------------------
\* The process dies at any await; its lock files stay.
Crash(p) ==
    LET its == {c \in Client : ProcOf[c] = p} IN
    /\ pidOf[p] # None
    /\ pidOf' = [pidOf EXCEPT ![p] = None]
    /\ pc' = [c \in Client |-> IF c \in its THEN "idle" ELSE pc[c]]
    /\ seen' = [c \in Client |-> IF c \in its THEN None ELSE seen[c]]
    /\ attempt' = [c \in Client |-> IF c \in its THEN 0 ELSE attempt[c]]
    /\ current' = current \ its
    /\ undisturbed' = undisturbed \ its
    /\ robbed' = robbed \ its
    /\ UNCHANGED <<lockFile, op>>

\* A new process: the system gives it a pid no process of the host has now.
Start(p) ==
    /\ pidOf[p] = None
    /\ \E pid \in Pid :
          /\ \A q \in Proc : HomeOf[q] = HomeOf[p] => pidOf[q] # pid
          /\ pidOf' = [pidOf EXCEPT ![p] = pid]
    /\ UNCHANGED <<lockFile, pc, op, attempt, seen, current, undisturbed, robbed>>

ClientStep(c) ==
    \/ Open(c)
    \/ WritePayload(c)
    \/ ReadLock(c)
    \/ Judge(c)
    \/ RemoveCondemned(c)
    \/ ReadOwn(c)
    \/ RemoveOwn(c)

Next ==
    \/ \E c \in Client : \/ \E f \in {"acquire", "inspect"} : Call(c, f)
                         \/ ClientStep(c)
                         \/ WriteFails(c)
    \/ \E p \in Proc : Crash(p) \/ Start(p)

Spec == Init /\ [][Next]_vars

\* The event loop of a process that stays up runs every continuation, and the
\* poll loop calls acquireFileLock again and again.
Fairness(Reliable) ==
    \A c \in {d \in Client : ProcOf[d] \in Reliable} :
        WF_vars(ClientStep(c)) /\ WF_vars(Call(c, "acquire"))
-----------------------------------------------------------------------------
\* Two clients hold the lock at once.  lock.test.ts:34 says a second caller is
\* refused while a live session holds it; the empty-file window and the removal
\* by path of a file condemned earlier break that.
MutualExclusion == \A c, d \in Client : Holds(c) /\ Holds(d) => c = d

\* What the lock does promise: among the owners whose file nobody else removed
\* there is at most one, whatever the crashes, restarts and failed writes.
UnrobbedExclusion ==
    \A c, d \in Client \ robbed : Owning(c) /\ Owning(d) => c = d

\* What the lock is to those who use it: an owner lets go, dies or is robbed
\* before there is another, a robbed caller never owns the lock again before
\* its call is over, whatever the crashes, restarts and failed writes.
Owners == {c \in Client \ robbed : Owning(c)}
Lock == INSTANCE LockPromise WITH Caller <- Client, owners <- Owners, deceived <- robbed
ImplementsLock == Lock!Spec

\* An unrobbed holder is visible: the file at the path is its own and carries
\* its live pid, so no later caller can judge it stale.
HolderVisible ==
    \A c \in Client \ robbed :
        Holds(c) => lockFile = [by |-> c, payload |-> OwnPayload(c)]

\* "failed to acquire lock after stale lock cleanup" needs contention: a call
\* that no other client disturbed never runs out of its two attempts.
GiveUp(c) == pc[c] \in {"read", "remove"} /\ op[c] = "acquire" /\ pc'[c] = "idle" /\ Running(c)'
GiveUpNeedsContention == [][\A c \in Client : GiveUp(c) => c \notin undisturbed]_vars

\* A caller that was told it has the lock, and whose payload reached the file,
\* loses it in three ways only: to a caller about to remove a file that has
\* already gone, to a forced clean-up, and to the release of a caller that was
\* robbed itself.  A second caller that just asks for the lock never takes it.
TakenFrom(c) == Holds(c) /\ c \in robbed' \ robbed
HolderLosesOnlyToStaleView ==
    [][\A c \in Client : TakenFrom(c) =>
          \E d \in Client \ {c} :
             \/ pc[d] = "remove" /\ (d \notin current \/ d \in Forcing)
             \/ pc[d] = "unlink" /\ d \in robbed]_vars

\* A file left by a dead process of the same user and host, or left empty by a
\* failed write, does not stay for ever once callers keep polling.
Leftover ==
    /\ lockFile # None
    /\ ~Owning(lockFile.by)
    /\ lockFile.payload # Blank =>
          \A p \in Proc : HomeOf[p] = lockFile.payload.home => pidOf[p] # lockFile.payload.pid
LeftoverReclaimed == ~<>[]Leftover
=============================================================================

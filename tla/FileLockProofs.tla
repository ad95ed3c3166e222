-------------------------- MODULE FileLockProofs ----------------------------
(* The safety of the lock for every number of callers, processes, hosts and  *)
(* pids.  The inductive invariant says where each owner's file is.           *)
EXTENDS FileLock, TLAPS

\* A call in progress runs in a process that is up.
BusyRuns == \A c \in Client : pc[c] # "idle" => Running(c)

\* An owner is robbed, or the file at the path is its own.
OwnerFile ==
    \A c \in Client : Owning(c) /\ c \notin robbed =>
        /\ lockFile # None
        /\ lockFile.by = c
        /\ pc[c] = "created" => lockFile.payload = Blank
        /\ Holds(c) => lockFile.payload = OwnPayload(c)

\* A robbed owner is an owner whose file is gone from the path.
RobbedFile ==
    \A c \in robbed : Owning(c) /\ (lockFile # None => lockFile.by # c)

\* What a client is judging, and is entitled to think it is still there.
ViewOK ==
    \A c \in Client :
        /\ pc[c] = "judge" => seen[c] \in Payload
        /\ c \in current /\ pc[c] \in {"judge", "remove"} =>
               lockFile # None /\ seen[c] = lockFile.payload

\* inspectLockPayload condemns a parsed payload only after its maker is gone:
\* as long as the file it read is still there, unchanged, no owner is behind it.
\* The cleanup of ambiguous owners is the only exception.
StaleVerdictSound ==
    \A c \in Client \ Forcing :
        (pc[c] = "remove" /\ seen[c] # Blank /\ c \in current)
            => lockFile # None /\ ~Owning(lockFile.by)

IInv == TypeOK /\ BusyRuns /\ OwnerFile /\ RobbedFile /\ ViewOK /\ StaleVerdictSound

LEMMA InitInv == Init => IInv
<1> SUFFICES ASSUME Init PROVE IInv OBVIOUS
<1> USE ConstAssumption DEF Init
<1>1. TypeOK BY DEF TypeOK, Pcs, OwningPcs
<1>2. BusyRuns BY DEF BusyRuns
<1>3. OwnerFile BY DEF OwnerFile, Owning, OwningPcs
<1>4. RobbedFile BY DEF RobbedFile
<1>5. ViewOK BY DEF ViewOK
<1>6. StaleVerdictSound BY DEF StaleVerdictSound
<1> QED BY <1>1, <1>2, <1>3, <1>4, <1>5, <1>6 DEF IInv

LEMMA TypeStep == TypeOK /\ BusyRuns /\ [Next]_vars => TypeOK'
<1> SUFFICES ASSUME TypeOK, BusyRuns, [Next]_vars PROVE TypeOK' OBVIOUS
<1> USE ConstAssumption DEF TypeOK, Pcs, OwningPcs
<1>1. ASSUME NEW c \in Client, NEW f \in {"acquire", "inspect"}, Call(c, f) PROVE TypeOK'
  BY <1>1 DEF Call, GoTo
<1>2. ASSUME NEW c \in Client, Open(c) PROVE TypeOK'
  BY <1>2 DEF Open, GoTo, Put, Files
<1>3. ASSUME NEW c \in Client, WritePayload(c) PROVE TypeOK'
  <2>1. OwnPayload(c) \in Payload
    BY <1>3 DEF WritePayload, BusyRuns, Running, OwnPayload, Payload
  <2> QED BY <1>3, <2>1 DEF WritePayload, GoTo, Put, Files
<1>4. ASSUME NEW c \in Client, WriteFails(c) PROVE TypeOK'
  BY <1>4 DEF WriteFails, Return, GoTo
<1>5. ASSUME NEW c \in Client, ReadLock(c) PROVE TypeOK'
  BY <1>5 DEF ReadLock, Retry, Return, GoTo, KeepFile, Files
<1>6. ASSUME NEW c \in Client, Judge(c) PROVE TypeOK'
  BY <1>6 DEF Judge, Return, GoTo, KeepFile
<1>7. ASSUME NEW c \in Client, RemoveCondemned(c) PROVE TypeOK'
  BY <1>7 DEF RemoveCondemned, Unlink, Put, Retry, Return, GoTo
<1>8. ASSUME NEW c \in Client, ReadOwn(c) PROVE TypeOK'
  BY <1>8 DEF ReadOwn, Return, GoTo
<1>9. ASSUME NEW c \in Client, RemoveOwn(c) PROVE TypeOK'
  BY <1>9 DEF RemoveOwn, Unlink, Put, Return, GoTo
<1>10. ASSUME NEW p \in Proc, Crash(p) PROVE TypeOK'
  BY <1>10 DEF Crash
<1>11. ASSUME NEW p \in Proc, Start(p) PROVE TypeOK'
  BY <1>11 DEF Start
<1>12. CASE UNCHANGED vars
  BY <1>12 DEF vars
<1> QED
  BY <1>1, <1>2, <1>3, <1>4, <1>5, <1>6, <1>7, <1>8, <1>9, <1>10, <1>11, <1>12
     DEF Next, ClientStep

LEMMA BusyStep == TypeOK /\ BusyRuns /\ [Next]_vars => BusyRuns'
<1> SUFFICES ASSUME TypeOK, BusyRuns, [Next]_vars PROVE BusyRuns' OBVIOUS
<1> USE ConstAssumption DEF TypeOK, BusyRuns, Running
<1>1. ASSUME NEW c \in Client, NEW f \in {"acquire", "inspect"}, Call(c, f) PROVE BusyRuns'
  BY <1>1 DEF Call, GoTo
<1>2. ASSUME NEW c \in Client, Open(c) \/ WritePayload(c) PROVE BusyRuns'
  BY <1>2 DEF Open, WritePayload, GoTo
<1>3. ASSUME NEW c \in Client, WriteFails(c) PROVE BusyRuns'
  BY <1>3 DEF WriteFails, Return, GoTo
<1>4. ASSUME NEW c \in Client, ReadLock(c) PROVE BusyRuns'
  BY <1>4 DEF ReadLock, Retry, Return, GoTo
<1>5. ASSUME NEW c \in Client, Judge(c) PROVE BusyRuns'
  BY <1>5 DEF Judge, Return, GoTo
<1>6. ASSUME NEW c \in Client, RemoveCondemned(c) PROVE BusyRuns'
  BY <1>6 DEF RemoveCondemned, Retry, Return, GoTo
<1>7. ASSUME NEW c \in Client, ReadOwn(c) \/ RemoveOwn(c) PROVE BusyRuns'
  BY <1>7 DEF ReadOwn, RemoveOwn, Return, GoTo
<1>8. ASSUME NEW p \in Proc, Crash(p) PROVE BusyRuns'
  BY <1>8 DEF Crash
<1>9. ASSUME NEW p \in Proc, Start(p) PROVE BusyRuns'
  BY <1>9 DEF Start
<1>10. CASE UNCHANGED vars
  BY <1>10 DEF vars
<1> QED
  BY <1>1, <1>2, <1>3, <1>4, <1>5, <1>6, <1>7, <1>8, <1>9, <1>10 DEF Next, ClientStep

LEMMA OwnerStep == TypeOK /\ BusyRuns /\ OwnerFile /\ RobbedFile /\ [Next]_vars => OwnerFile'
<1> SUFFICES ASSUME TypeOK, BusyRuns, OwnerFile, RobbedFile, [Next]_vars PROVE OwnerFile' OBVIOUS
<1> USE ConstAssumption DEF TypeOK, OwnerFile, Owning, Holds, OwningPcs, OwnPayload, RobbedFile, BusyRuns, Running
<1>1. ASSUME NEW c \in Client, NEW f \in {"acquire", "inspect"}, Call(c, f) PROVE OwnerFile'
  BY <1>1 DEF Call, GoTo
<1>2. ASSUME NEW c \in Client, Open(c) PROVE OwnerFile'
  BY <1>2 DEF Open, GoTo, Put
<1>3. ASSUME NEW c \in Client, WritePayload(c) PROVE OwnerFile'
  BY <1>3 DEF WritePayload, GoTo, Put
<1>4. ASSUME NEW c \in Client, WriteFails(c) PROVE OwnerFile'
  BY <1>4 DEF WriteFails, Return, GoTo
<1>5. ASSUME NEW c \in Client, ReadLock(c) PROVE OwnerFile'
  BY <1>5 DEF ReadLock, Retry, Return, GoTo, KeepFile
<1>6. ASSUME NEW c \in Client, Judge(c) PROVE OwnerFile'
  BY <1>6 DEF Judge, Return, GoTo, KeepFile
<1>7. ASSUME NEW c \in Client, RemoveCondemned(c) PROVE OwnerFile'
  <2> SUFFICES ASSUME NEW d \in Client, Owning(d)', d \notin robbed' PROVE FALSE
    OBVIOUS
  <2>1. d # c
    BY <1>7 DEF RemoveCondemned, Retry, Return, GoTo
  <2>2. Owning(d)
    BY <1>7, <2>1 DEF RemoveCondemned, Retry, Return, GoTo
  <2>3. d \notin robbed /\ ~(lockFile # None /\ lockFile.by = d)
    BY <1>7, <2>1, <2>2 DEF RemoveCondemned, Unlink
  <2> QED BY <2>2, <2>3
<1>8. ASSUME NEW c \in Client, ReadOwn(c) PROVE OwnerFile'
  BY <1>8 DEF ReadOwn, Return, GoTo
<1>9. ASSUME NEW c \in Client, RemoveOwn(c) PROVE OwnerFile'
  BY <1>9 DEF RemoveOwn, Unlink, Put, Return, GoTo
<1>10. ASSUME NEW p \in Proc, Crash(p) PROVE OwnerFile'
  BY <1>10 DEF Crash
<1>11. ASSUME NEW p \in Proc, Start(p) PROVE OwnerFile'
  BY <1>11 DEF Start
<1>12. CASE UNCHANGED vars
  BY <1>12 DEF vars, isPidAlive
<1> QED
  BY <1>1, <1>2, <1>3, <1>4, <1>5, <1>6, <1>7, <1>8, <1>9, <1>10, <1>11, <1>12
     DEF Next, ClientStep

LEMMA RobbedStep == TypeOK /\ OwnerFile /\ RobbedFile /\ [Next]_vars => RobbedFile'
<1> SUFFICES ASSUME TypeOK, OwnerFile, RobbedFile, [Next]_vars PROVE RobbedFile' OBVIOUS
<1> USE ConstAssumption DEF TypeOK, OwnerFile, Owning, OwningPcs, RobbedFile
<1>1. ASSUME NEW c \in Client, NEW f \in {"acquire", "inspect"}, Call(c, f) PROVE RobbedFile'
  BY <1>1 DEF Call, GoTo
<1>2. ASSUME NEW c \in Client, Open(c) PROVE RobbedFile'
  BY <1>2 DEF Open, GoTo, Put
<1>3. ASSUME NEW c \in Client, WritePayload(c) PROVE RobbedFile'
  BY <1>3 DEF WritePayload, GoTo, Put
<1>4. ASSUME NEW c \in Client, WriteFails(c) PROVE RobbedFile'
  BY <1>4 DEF WriteFails, Return, GoTo
<1>5. ASSUME NEW c \in Client, ReadLock(c) PROVE RobbedFile'
  BY <1>5 DEF ReadLock, Retry, Return, GoTo, KeepFile
<1>6. ASSUME NEW c \in Client, Judge(c) PROVE RobbedFile'
  BY <1>6 DEF Judge, Return, GoTo, KeepFile
<1>7. ASSUME NEW c \in Client, RemoveCondemned(c) PROVE RobbedFile'
  BY <1>7 DEF RemoveCondemned, Unlink, Put, Retry, Return, GoTo
<1>8. ASSUME NEW c \in Client, ReadOwn(c) PROVE RobbedFile'
  BY <1>8 DEF ReadOwn, Return, GoTo
<1>9. ASSUME NEW c \in Client, RemoveOwn(c) PROVE RobbedFile'
  BY <1>9 DEF RemoveOwn, Unlink, Put, Return, GoTo
<1>10. ASSUME NEW p \in Proc, Crash(p) PROVE RobbedFile'
  BY <1>10 DEF Crash
<1>11. ASSUME NEW p \in Proc, Start(p) PROVE RobbedFile'
  BY <1>11 DEF Start
<1>12. CASE UNCHANGED vars
  BY <1>12 DEF vars, isPidAlive
<1> QED
  BY <1>1, <1>2, <1>3, <1>4, <1>5, <1>6, <1>7, <1>8, <1>9, <1>10, <1>11, <1>12
     DEF Next, ClientStep

LEMMA ViewStep == TypeOK /\ ViewOK /\ [Next]_vars => ViewOK'
<1> SUFFICES ASSUME TypeOK, ViewOK, [Next]_vars PROVE ViewOK' OBVIOUS
<1> USE ConstAssumption DEF TypeOK, ViewOK, Files
<1>1. ASSUME NEW c \in Client, NEW f \in {"acquire", "inspect"}, Call(c, f) PROVE ViewOK'
  BY <1>1 DEF Call, GoTo
<1>2. ASSUME NEW c \in Client, Open(c) PROVE ViewOK'
  BY <1>2 DEF Open, GoTo, Put
<1>3. ASSUME NEW c \in Client, WritePayload(c) PROVE ViewOK'
  BY <1>3 DEF WritePayload, GoTo, Put
<1>4. ASSUME NEW c \in Client, WriteFails(c) PROVE ViewOK'
  BY <1>4 DEF WriteFails, Return, GoTo
<1>5. ASSUME NEW c \in Client, ReadLock(c) PROVE ViewOK'
  BY <1>5 DEF ReadLock, Retry, Return, GoTo, KeepFile
<1>6. ASSUME NEW c \in Client, Judge(c) PROVE ViewOK'
  BY <1>6 DEF Judge, Return, GoTo, KeepFile
<1>7. ASSUME NEW c \in Client, RemoveCondemned(c) PROVE ViewOK'
  BY <1>7 DEF RemoveCondemned, Unlink, Put, Retry, Return, GoTo
<1>8. ASSUME NEW c \in Client, ReadOwn(c) PROVE ViewOK'
  BY <1>8 DEF ReadOwn, Return, GoTo
<1>9. ASSUME NEW c \in Client, RemoveOwn(c) PROVE ViewOK'
  BY <1>9 DEF RemoveOwn, Unlink, Put, Return, GoTo
<1>10. ASSUME NEW p \in Proc, Crash(p) PROVE ViewOK'
  BY <1>10 DEF Crash
<1>11. ASSUME NEW p \in Proc, Start(p) PROVE ViewOK'
  BY <1>11 DEF Start
<1>12. CASE UNCHANGED vars
  BY <1>12 DEF vars, isPidAlive
<1> QED
  BY <1>1, <1>2, <1>3, <1>4, <1>5, <1>6, <1>7, <1>8, <1>9, <1>10, <1>11, <1>12
     DEF Next, ClientStep

\* The verdict of inspectLockPayload: while the file judged is still there, a
\* parsed payload is condemned only if its maker no longer owns it.
LEMMA JudgeSound ==
    ASSUME TypeOK, OwnerFile, RobbedFile, ViewOK,
           NEW c \in Client \ Forcing, pc[c] = "judge", Condemned(c), c \in current
    PROVE  lockFile # None /\ ~Owning(lockFile.by)
<1>1. lockFile # None /\ seen[c] = lockFile.payload /\ seen[c] \in Payload
  BY DEF ViewOK
<1>2. seen[c].home = HomeOf[ProcOf[c]] /\ ~isPidAlive(c, seen[c].pid)
  BY DEF Condemned, isClearlyStaleLocalLock
<1>3. lockFile.by \in Client
  BY <1>1 DEF TypeOK, Files
<1>4. ASSUME Owning(lockFile.by) PROVE FALSE
  <2> DEFINE d == lockFile.by
  <2>1. d \notin robbed
    BY <1>1 DEF RobbedFile
  <2>2. Holds(d)
    BY <1>1, <1>3, <1>4, <2>1, ConstAssumption
       DEF OwnerFile, Owning, OwningPcs, Holds, Payload
  <2>3. seen[c] = OwnPayload(d)
    BY <1>1, <1>3, <1>4, <2>1, <2>2 DEF OwnerFile
  <2>4. seen[c].pid = pidOf[ProcOf[d]] /\ seen[c].home = HomeOf[ProcOf[d]]
    BY <2>3 DEF OwnPayload
  <2>5. ProcOf[d] \in Proc
    BY <1>3, ConstAssumption
  <2> QED BY <1>2, <2>4, <2>5 DEF isPidAlive
<1> QED BY <1>1, <1>4

LEMMA StaleStep ==
    TypeOK /\ OwnerFile /\ RobbedFile /\ ViewOK /\ StaleVerdictSound /\ [Next]_vars
        => StaleVerdictSound'
<1> SUFFICES ASSUME TypeOK, OwnerFile, RobbedFile, ViewOK, StaleVerdictSound, [Next]_vars
             PROVE  StaleVerdictSound'
  OBVIOUS
<1> USE ConstAssumption DEF TypeOK, Files, StaleVerdictSound, Owning, OwningPcs
<1>1. ASSUME NEW c \in Client, NEW f \in {"acquire", "inspect"}, Call(c, f) PROVE StaleVerdictSound'
  BY <1>1 DEF Call, GoTo
<1>2. ASSUME NEW c \in Client, Open(c) PROVE StaleVerdictSound'
  BY <1>2 DEF Open, GoTo, Put
<1>3. ASSUME NEW c \in Client, WritePayload(c) PROVE StaleVerdictSound'
  BY <1>3 DEF WritePayload, GoTo, Put
<1>4. ASSUME NEW c \in Client, WriteFails(c) PROVE StaleVerdictSound'
  BY <1>4 DEF WriteFails, Return, GoTo
<1>5. ASSUME NEW c \in Client, ReadLock(c) PROVE StaleVerdictSound'
  BY <1>5 DEF ReadLock, Retry, Return, GoTo, KeepFile
<1>6. ASSUME NEW c \in Client, Judge(c) PROVE StaleVerdictSound'
  <2>1. CASE Condemned(c)
    <3> SUFFICES ASSUME NEW d \in Client \ Forcing, pc'[d] = "remove", seen'[d] # Blank, d \in current'
                 PROVE  lockFile' # None /\ ~Owning(lockFile.by)'
      BY DEF StaleVerdictSound
    <3>1. lockFile' = lockFile /\ seen' = seen /\ current' = current
      BY <1>6, <2>1 DEF Judge, KeepFile
    <3>2. lockFile # None /\ ~Owning(lockFile.by)
      <4>1. CASE d = c BY <1>6, <2>1, <3>1, <4>1, JudgeSound DEF Judge
      <4>2. CASE d # c BY <1>6, <2>1, <3>1, <4>2 DEF Judge, GoTo
      <4> QED BY <4>1, <4>2
    <3> QED BY <1>6, <2>1, <3>1, <3>2 DEF Judge, GoTo
  <2>2. CASE ~Condemned(c)
    BY <1>6, <2>2 DEF Judge, Return, GoTo, KeepFile
  <2> QED BY <2>1, <2>2
<1>7. ASSUME NEW c \in Client, RemoveCondemned(c) PROVE StaleVerdictSound'
  BY <1>7 DEF RemoveCondemned, Unlink, Put
<1>8. ASSUME NEW c \in Client, ReadOwn(c) PROVE StaleVerdictSound'
  BY <1>8 DEF ReadOwn, Return, GoTo
<1>9. ASSUME NEW c \in Client, RemoveOwn(c) PROVE StaleVerdictSound'
  BY <1>9 DEF RemoveOwn, Unlink, Put
<1>10. ASSUME NEW p \in Proc, Crash(p) PROVE StaleVerdictSound'
  BY <1>10 DEF Crash
<1>11. ASSUME NEW p \in Proc, Start(p) PROVE StaleVerdictSound'
  BY <1>11 DEF Start
<1>12. CASE UNCHANGED vars
  BY <1>12 DEF vars
<1> QED
  BY <1>1, <1>2, <1>3, <1>4, <1>5, <1>6, <1>7, <1>8, <1>9, <1>10, <1>11, <1>12
     DEF Next, ClientStep

\* The inductive invariant holds in every reachable state.
THEOREM Inductive == Spec => []IInv
<1>1. IInv /\ [Next]_vars => IInv'
  BY TypeStep, BusyStep, OwnerStep, RobbedStep, ViewStep, StaleStep DEF IInv
<1> QED BY InitInv, <1>1, PTL DEF Spec

\* Type correctness: the control of every caller stays inside the code's states
\* and the attempt counter inside its two passes.
THEOREM TypeCorrect == Spec => []TypeOK
<1>1. Init => TypeOK /\ BusyRuns BY InitInv DEF IInv
<1> QED BY <1>1, TypeStep, BusyStep, PTL DEF Spec

\* Among the owners whose file nobody else removed there is at most one, for
\* every set of callers, processes, hosts and pids and however they crash.
THEOREM ExclusiveUnlessRobbed == Spec => []UnrobbedExclusion
<1>1. IInv => UnrobbedExclusion
  BY DEF IInv, OwnerFile, UnrobbedExclusion
<1> QED BY Inductive, <1>1, PTL

\* Every step of lock.ts is a step of the lock it promises to be, or none.
LEMMA LockStep == IInv /\ [Next]_vars => [Lock!Next]_<<Owners, robbed>>
<1> SUFFICES ASSUME IInv, [Next]_vars
             PROVE  Lock!Next \/ UNCHANGED <<Owners, robbed>>
  OBVIOUS
<1> USE ConstAssumption DEF IInv, TypeOK
<1>1. ASSUME NEW c \in Client, NEW f \in {"acquire", "inspect"}, Call(c, f)
      PROVE  UNCHANGED <<Owners, robbed>>
  BY <1>1 DEF Call, GoTo, Owners, Owning, OwningPcs
<1>2. ASSUME NEW c \in Client, Open(c) PROVE Lock!Acquire(c) \/ UNCHANGED <<Owners, robbed>>
  <2>1. CASE lockFile = None
    <3>1. Owners = {}
      BY <2>1 DEF OwnerFile, Owners
    <3>2. c \notin robbed
      BY <1>2 DEF Open, RobbedFile, Owning, OwningPcs
    <3>3. Owners' = {c} /\ robbed' = robbed
      BY <1>2, <2>1, <3>1, <3>2 DEF Open, GoTo, Owners, Owning, OwningPcs
    <3> QED BY <3>1, <3>2, <3>3 DEF Lock!Acquire
  <2>2. CASE lockFile # None
    BY <1>2, <2>2 DEF Open, GoTo, Owners, Owning, OwningPcs
  <2> QED BY <2>1, <2>2
<1>3. ASSUME NEW c \in Client, WritePayload(c) PROVE UNCHANGED <<Owners, robbed>>
  BY <1>3 DEF WritePayload, GoTo, Owners, Owning, OwningPcs
<1>4. ASSUME NEW c \in Client, WriteFails(c) \/ ReadOwn(c) PROVE Lock!Leave
  BY <1>4 DEF WriteFails, ReadOwn, Return, GoTo, Lock!Leave, Owners, Owning, OwningPcs
<1>5. ASSUME NEW c \in Client, ReadLock(c) \/ Judge(c) PROVE UNCHANGED <<Owners, robbed>>
  BY <1>5 DEF ReadLock, Judge, Retry, Return, KeepFile, GoTo, Owners, Owning, OwningPcs
<1>6. ASSUME NEW c \in Client, RemoveCondemned(c) \/ RemoveOwn(c)
      PROVE  Lock!Leave \/ \E d \in Client : Lock!Rob(d)
  <2>1. /\ pc'[c] \in {"idle", "open"} /\ \A d \in Client \ {c} : pc'[d] = pc[d]
        /\ Unlink(c)
    BY <1>6 DEF RemoveCondemned, RemoveOwn, Retry, Return, GoTo
  <2>2. Owners' \subseteq Owners
    BY <2>1 DEF Unlink, RobbedFile, Owners, Owning, OwningPcs
  <2>3. CASE robbed' \subseteq robbed
    BY <2>2, <2>3 DEF Lock!Leave
  <2>4. ASSUME NEW d \in Client, d \in robbed' \ robbed PROVE Lock!Rob(d)
    <3>1. d # c /\ lockFile # None /\ lockFile.by = d /\ Owning(d)
      BY <2>1, <2>4 DEF Unlink
    <3>2. Owners = {d}
      BY <2>4, <3>1 DEF OwnerFile, Owners
    <3>3. Owners' = {} /\ d \in robbed' /\ robbed' \subseteq robbed \cup {d}
      BY <2>1, <2>2, <2>4, <3>1, <3>2 DEF Unlink, Owners
    <3> QED BY <3>2, <3>3 DEF Lock!Rob
  <2> QED BY <2>1, <2>3, <2>4 DEF Unlink
<1>7. ASSUME NEW p \in Proc, Crash(p) PROVE Lock!Leave
  BY <1>7 DEF Crash, RobbedFile, Lock!Leave, Owners, Owning, OwningPcs
<1>8. ASSUME NEW p \in Proc, Start(p) PROVE UNCHANGED <<Owners, robbed>>
  BY <1>8 DEF Start, Owners, Owning
<1>9. CASE UNCHANGED vars
  BY <1>9 DEF vars, Owners, Owning
<1> QED
  BY <1>1, <1>2, <1>3, <1>4, <1>5, <1>6, <1>7, <1>8, <1>9 DEF Next, ClientStep, Lock!Next

\* The lock file, with all its stale, empty and doubly removed states, is a lock
\* of LockPromise for every number of callers, processes, hosts and pids: what
\* StateStore takes its run lock to be.
THEOREM FileImplementsLock == Spec => ImplementsLock
<1>1. Init => Lock!Init
  BY DEF Init, Lock!Init, Owners, Owning, OwningPcs
<1> QED BY Inductive, LockStep, <1>1, PTL DEF Spec, ImplementsLock, Lock!Spec

\* An unrobbed holder's file is at the path and carries its live pid.
THEOREM HoldersVisible == Spec => []HolderVisible
<1>1. IInv => HolderVisible
  <2> SUFFICES ASSUME IInv, NEW c \in Client \ robbed, Holds(c)
               PROVE  lockFile = [by |-> c, payload |-> OwnPayload(c)]
    BY DEF HolderVisible
  <2>1. lockFile # None /\ lockFile.by = c /\ lockFile.payload = OwnPayload(c)
    BY DEF IInv, OwnerFile, Owning, OwningPcs, Holds
  <2>2. lockFile \in Files
    BY <2>1 DEF IInv, TypeOK
  <2> QED BY <2>1, <2>2 DEF Files
<1> QED BY Inductive, <1>1, PTL

\* A verdict of stale never meets a file, still unchanged, that has an owner.
THEOREM VerdictsSound == Spec => []StaleVerdictSound
<1>1. IInv => StaleVerdictSound BY DEF IInv
<1> QED BY Inductive, <1>1, PTL

\* What a call that nobody disturbed knows: its second attempt finds the path
\* free, because the first one has just removed what was there.
AloneOK ==
    \A c \in Client :
        /\ pc[c] = "idle" => attempt[c] = 0
        /\ c \in undisturbed /\ op[c] = "acquire" =>
              /\ pc[c] \in {"read", "judge", "remove"} => attempt[c] = 0
              /\ pc[c] = "read" => lockFile # None
              /\ pc[c] = "open" /\ attempt[c] = 1 => lockFile = None

LEMMA AloneStep == TypeOK /\ AloneOK /\ [Next]_vars => AloneOK'
<1> SUFFICES ASSUME TypeOK, AloneOK, [Next]_vars PROVE AloneOK' OBVIOUS
<1> USE ConstAssumption DEF TypeOK, AloneOK
<1>1. ASSUME NEW c \in Client, NEW f \in {"acquire", "inspect"}, Call(c, f) PROVE AloneOK'
  BY <1>1 DEF Call, GoTo
<1>2. ASSUME NEW c \in Client, Open(c) PROVE AloneOK'
  BY <1>2 DEF Open, GoTo, Put
<1>3. ASSUME NEW c \in Client, WritePayload(c) PROVE AloneOK'
  BY <1>3 DEF WritePayload, GoTo, Put
<1>4. ASSUME NEW c \in Client, WriteFails(c) PROVE AloneOK'
  BY <1>4 DEF WriteFails, Return, GoTo
<1>5. ASSUME NEW c \in Client, ReadLock(c) PROVE AloneOK'
  BY <1>5 DEF ReadLock, Retry, Return, GoTo, KeepFile
<1>6. ASSUME NEW c \in Client, Judge(c) PROVE AloneOK'
  BY <1>6 DEF Judge, Return, GoTo, KeepFile
<1>7. ASSUME NEW c \in Client, RemoveCondemned(c) PROVE AloneOK'
  BY <1>7 DEF RemoveCondemned, Unlink, Put, Retry, Return, GoTo
<1>8. ASSUME NEW c \in Client, ReadOwn(c) PROVE AloneOK'
  BY <1>8 DEF ReadOwn, Return, GoTo
<1>9. ASSUME NEW c \in Client, RemoveOwn(c) PROVE AloneOK'
  BY <1>9 DEF RemoveOwn, Unlink, Put, Return, GoTo
<1>10. ASSUME NEW p \in Proc, Crash(p) PROVE AloneOK'
  BY <1>10 DEF Crash
<1>11. ASSUME NEW p \in Proc, Start(p) PROVE AloneOK'
  BY <1>11 DEF Start
<1>12. CASE UNCHANGED vars
  BY <1>12 DEF vars
<1> QED
  BY <1>1, <1>2, <1>3, <1>4, <1>5, <1>6, <1>7, <1>8, <1>9, <1>10, <1>11, <1>12
     DEF Next, ClientStep

\* The step from "read" or "remove" of a call on its first attempt leads to the
\* second one; only the death of its process ends it there.
LEMMA FirstAttemptGoesOn ==
    ASSUME TypeOK, [Next]_vars, NEW c \in Client,
           pc[c] \in {"read", "remove"}, op[c] = "acquire", attempt[c] = 0, Running(c)'
    PROVE  pc'[c] # "idle"
<1> USE ConstAssumption DEF TypeOK
<1>1. ASSUME NEW d \in Client, ClientStep(d) \/ WriteFails(d) \/ \E f \in {"acquire", "inspect"} : Call(d, f)
      PROVE  pc'[c] # "idle"
  <2>1. CASE d = c
    BY <1>1, <2>1 DEF ClientStep, Open, WritePayload, WriteFails, ReadLock, Judge,
                      RemoveCondemned, ReadOwn, RemoveOwn, Call, Retry, GoTo
  <2>2. CASE d # c
    BY <1>1, <2>2 DEF ClientStep, Open, WritePayload, WriteFails, ReadLock, Judge,
                      RemoveCondemned, ReadOwn, RemoveOwn, Call, Retry, Return, GoTo
  <2> QED BY <2>1, <2>2
<1>2. ASSUME NEW p \in Proc, Crash(p) PROVE pc'[c] # "idle"
  BY <1>2 DEF Crash, Running
<1>3. ASSUME NEW p \in Proc, Start(p) PROVE pc'[c] # "idle"
  BY <1>3 DEF Start
<1>4. CASE UNCHANGED vars
  BY <1>4 DEF vars
<1> QED BY <1>1, <1>2, <1>3, <1>4 DEF Next

\* acquireFileLock gives up after its two attempts only if some other caller
\* touched the file during the call, whatever the callers, hosts and pids.
THEOREM GivesUpContended == Spec => GiveUpNeedsContention
<1>1. Init => TypeOK /\ AloneOK
  BY InitInv DEF IInv, Init, AloneOK
<1>2. TypeOK /\ AloneOK /\ [Next]_vars
          => (\A c \in Client : GiveUp(c) => c \notin undisturbed)
  BY FirstAttemptGoesOn DEF GiveUp, AloneOK
<1> QED BY <1>1, <1>2, AloneStep, TypeCorrect, PTL DEF Spec, GiveUpNeedsContention

\* Only the two removals of lock.ts can make an owner robbed.
LEMMA RobberUnlinks ==
    ASSUME TypeOK, [Next]_vars, NEW c \in Client, c \in robbed' \ robbed
    PROVE  \E d \in Client \ {c} :
              /\ RemoveCondemned(d) \/ RemoveOwn(d)
              /\ lockFile # None /\ lockFile.by = c
<1> USE ConstAssumption DEF TypeOK
<1>1. ASSUME NEW d \in Client, ClientStep(d) \/ WriteFails(d) \/ \E f \in {"acquire", "inspect"} : Call(d, f)
      PROVE  (RemoveCondemned(d) \/ RemoveOwn(d)) /\ d # c /\ lockFile # None /\ lockFile.by = c
  <2>1. CASE RemoveCondemned(d) \/ RemoveOwn(d)
    BY <2>1 DEF RemoveCondemned, RemoveOwn, Unlink
  <2>2. CASE Open(d) \/ WritePayload(d) \/ ReadLock(d) \/ Judge(d) \/ ReadOwn(d) \/ WriteFails(d)
    BY <2>2 DEF Open, WritePayload, WriteFails, ReadLock, Judge, ReadOwn, KeepFile
  <2>3. CASE \E f \in {"acquire", "inspect"} : Call(d, f)
    BY <2>3 DEF Call
  <2> QED BY <1>1, <2>1, <2>2, <2>3 DEF ClientStep
<1>2. ASSUME NEW p \in Proc, Crash(p) \/ Start(p) PROVE FALSE
  BY <1>2 DEF Crash, Start
<1>3. CASE UNCHANGED vars
  BY <1>3 DEF vars
<1> QED BY <1>1, <1>2, <1>3 DEF Next

\* A holder with a written payload loses its file to a caller whose view is
\* outdated, to a forced clean-up or to the release of a caller already robbed,
\* for every set of callers, hosts and pids: never to one that judges it.
THEOREM HoldersLoseToStaleViews == Spec => HolderLosesOnlyToStaleView
<1>1. ASSUME IInv, [Next]_vars, NEW c \in Client, TakenFrom(c)
      PROVE  \E d \in Client \ {c} :
                \/ pc[d] = "remove" /\ (d \notin current \/ d \in Forcing)
                \/ pc[d] = "unlink" /\ d \in robbed
  <2>1. Holds(c) /\ Owning(c) /\ c \notin robbed /\ TypeOK
    BY <1>1 DEF IInv, TakenFrom, Holds, Owning, OwningPcs
  <2>2. PICK d \in Client \ {c} :
           /\ RemoveCondemned(d) \/ RemoveOwn(d)
           /\ lockFile # None /\ lockFile.by = c
    BY <1>1, <2>1, RobberUnlinks DEF TakenFrom
  <2>3. lockFile.payload = OwnPayload(c)
    BY <1>1, <2>1 DEF IInv, OwnerFile
  <2>4. CASE RemoveOwn(d)
    <3>1. pc[d] = "unlink"
      BY <2>4 DEF RemoveOwn
    <3>2. d \in robbed
      BY <1>1, <2>2, <3>1 DEF IInv, OwnerFile, Owning, OwningPcs
    <3> QED BY <3>1, <3>2
  <2>5. CASE RemoveCondemned(d)
    <3>1. pc[d] = "remove"
      BY <2>5 DEF RemoveCondemned
    <3>2. ASSUME d \in current, d \notin Forcing PROVE FALSE
      <4>1. seen[d] = OwnPayload(c)
        BY <1>1, <2>3, <3>1, <3>2 DEF IInv, ViewOK
      <4>2. OwnPayload(c) # Blank
        <5>1. pc[c] # "idle"
          BY <2>1 DEF Holds
        <5>2. pidOf[ProcOf[c]] \in Pid
          BY <1>1, <2>1, <5>1, ConstAssumption DEF IInv, BusyRuns, Running, TypeOK
        <5>3. OwnPayload(c) \in Payload
          BY <5>2, ConstAssumption DEF OwnPayload, Payload
        <5> QED BY <5>3, ConstAssumption DEF Payload
      <4>3. ~Owning(lockFile.by)
        BY <1>1, <3>1, <3>2, <4>1, <4>2 DEF IInv, StaleVerdictSound
      <4> QED BY <2>1, <2>2, <4>3
    <3> QED BY <3>1, <3>2
  <2> QED BY <2>2, <2>4, <2>5
<1>2. IInv /\ [Next]_vars
          => (\A c \in Client : TakenFrom(c) =>
                 \E d \in Client \ {c} :
                    \/ pc[d] = "remove" /\ (d \notin current \/ d \in Forcing)
                    \/ pc[d] = "unlink" /\ d \in robbed)
  BY <1>1
<1> QED BY Inductive, <1>2, PTL DEF Spec, HolderLosesOnlyToStaleView

\* The most steps of a caller's own that are left to it, acquireFileLock and
\* release together: one second attempt, and no loop besides.
Farthest == [open |-> 4, read |-> 3, created |-> 3, judge |-> 2, held |-> 2, remove |-> 1,
             unlink |-> 1]
StepsLeft(c) == IF pc[c] = "idle" THEN 0
                ELSE IF attempt[c] = 0 THEN Farthest[pc[c]] + 4 ELSE Farthest[pc[c]]

\* A call under way gets nearer to its end, and nobody else moves it.
Advances(c) == pc[c] # "idle" => StepsLeft(c)' < StepsLeft(c) \/ UNCHANGED <<pc[c], attempt[c], seen[c]>>
CallAdvances == [][\A c \in Client : Advances(c)]_vars

LEMMA OwnStepAdvances ==
    ASSUME TypeOK, NEW c \in Client, ClientStep(c) \/ WriteFails(c)
    PROVE  StepsLeft(c)' < StepsLeft(c)
<1> USE DEF TypeOK, Pcs, OwningPcs, GoTo, Farthest
<1>1. CASE Open(c)
  <2>1. pc[c] = "open" /\ pc'[c] \in {"created", "read"} /\ attempt'[c] = attempt[c]
    BY <1>1 DEF Open
  <2> QED BY <2>1 DEF StepsLeft
<1>2. CASE WritePayload(c)
  <2>1. pc[c] = "created" /\ pc'[c] = "held" /\ attempt'[c] = attempt[c]
    BY <1>2 DEF WritePayload
  <2> QED BY <2>1 DEF StepsLeft
<1>3. CASE WriteFails(c)
  <2>1. pc[c] = "created" /\ pc'[c] = "idle"
    BY <1>3 DEF WriteFails, Return
  <2> QED BY <2>1 DEF StepsLeft
<1>4. CASE ReadLock(c)
  <2>1. \/ pc[c] = "read" /\ pc'[c] \in {"remove", "judge"} /\ attempt'[c] = attempt[c]
        \/ pc[c] = "read" /\ pc'[c] = "open" /\ attempt[c] = 0 /\ attempt'[c] = 1
        \/ pc[c] = "read" /\ pc'[c] = "idle"
    BY <1>4 DEF ReadLock, Retry, Return
  <2> QED BY <2>1 DEF StepsLeft
<1>5. CASE Judge(c)
  <2>1. \/ pc[c] = "judge" /\ pc'[c] = "remove" /\ attempt'[c] = attempt[c]
        \/ pc[c] = "judge" /\ pc'[c] = "idle"
    BY <1>5 DEF Judge, Return
  <2> QED BY <2>1 DEF StepsLeft
<1>6. CASE RemoveCondemned(c)
  <2>1. \/ pc[c] = "remove" /\ pc'[c] = "open" /\ attempt[c] = 0 /\ attempt'[c] = 1
        \/ pc[c] = "remove" /\ pc'[c] = "idle"
    BY <1>6 DEF RemoveCondemned, Retry, Return
  <2> QED BY <2>1 DEF StepsLeft
<1>7. CASE ReadOwn(c)
  <2>1. \/ pc[c] = "held" /\ pc'[c] = "unlink" /\ attempt'[c] = attempt[c]
        \/ pc[c] = "held" /\ pc'[c] = "idle"
    BY <1>7 DEF ReadOwn, Return
  <2> QED BY <2>1 DEF StepsLeft
<1>8. CASE RemoveOwn(c)
  <2>1. pc[c] = "unlink" /\ pc'[c] = "idle"
    BY <1>8 DEF RemoveOwn, Return
  <2> QED BY <2>1 DEF StepsLeft
<1> QED BY <1>1, <1>2, <1>3, <1>4, <1>5, <1>6, <1>7, <1>8 DEF ClientStep

LEMMA OthersLeave ==
    ASSUME TypeOK, NEW c \in Client, NEW d \in Client \ {c},
           ClientStep(d) \/ WriteFails(d) \/ \E f \in {"acquire", "inspect"} : Call(d, f)
    PROVE  UNCHANGED <<pc[c], attempt[c], seen[c]>>
<1> USE DEF TypeOK, GoTo
<1>1. CASE Open(d) \/ WritePayload(d) \/ WriteFails(d)
  BY <1>1 DEF Open, WritePayload, WriteFails, Return
<1>2. CASE ReadLock(d) \/ Judge(d)
  BY <1>2 DEF ReadLock, Judge, Retry, Return
<1>3. CASE RemoveCondemned(d) \/ ReadOwn(d) \/ RemoveOwn(d)
  BY <1>3 DEF RemoveCondemned, ReadOwn, RemoveOwn, Retry, Return
<1>4. CASE \E f \in {"acquire", "inspect"} : Call(d, f)
  BY <1>4 DEF Call
<1> QED BY <1>1, <1>2, <1>3, <1>4 DEF ClientStep

\* For any callers, hosts and pids the lock is wait-free: whoever calls it has
\* its answer after at most eight steps of its own, whatever the other callers
\* create, remove or leave behind meanwhile (core/lock.ts, acquireFileLock).
THEOREM CallsEnd == Spec => CallAdvances
<1>1. ASSUME TypeOK, [Next]_vars, NEW c \in Client PROVE Advances(c)
  <2> SUFFICES ASSUME pc[c] # "idle"
               PROVE  StepsLeft(c)' < StepsLeft(c) \/ UNCHANGED <<pc[c], attempt[c], seen[c]>>
    BY DEF Advances
  <2>1. ASSUME NEW d \in Client,
               ClientStep(d) \/ WriteFails(d) \/ \E f \in {"acquire", "inspect"} : Call(d, f)
        PROVE  StepsLeft(c)' < StepsLeft(c) \/ UNCHANGED <<pc[c], attempt[c], seen[c]>>
    <3>1. CASE d # c
      BY <1>1, <2>1, <3>1, OthersLeave
    <3>2. CASE d = c
      <4>1. ~\E f \in {"acquire", "inspect"} : Call(c, f)
        BY DEF Call
      <4> QED BY <1>1, <2>1, <3>2, <4>1, OwnStepAdvances
    <3> QED BY <3>1, <3>2
  <2>2. ASSUME NEW p \in Proc, Crash(p)
        PROVE  StepsLeft(c)' < StepsLeft(c) \/ UNCHANGED <<pc[c], attempt[c], seen[c]>>
    <3>1. CASE ProcOf[c] = p
      <4>1. pc'[c] = "idle" /\ StepsLeft(c)' = 0
        BY <2>2, <3>1 DEF Crash, StepsLeft
      <4>2. StepsLeft(c) > 0
        BY <1>1 DEF TypeOK, Pcs, OwningPcs, StepsLeft, Farthest
      <4> QED BY <4>1, <4>2
    <3>2. CASE ProcOf[c] # p
      BY <2>2, <3>2 DEF Crash
    <3> QED BY <3>1, <3>2
  <2>3. ASSUME NEW p \in Proc, Start(p) PROVE UNCHANGED <<pc[c], attempt[c], seen[c]>>
    BY <2>3 DEF Start
  <2>4. CASE UNCHANGED vars
    BY <2>4 DEF vars
  <2> QED BY <1>1, <2>1, <2>2, <2>3, <2>4 DEF Next
<1>2. TypeOK /\ [Next]_vars => (\A c \in Client : Advances(c))
  BY <1>1
<1> QED BY TypeCorrect, <1>2, PTL DEF Spec, CallAdvances
=============================================================================

-------------------------- MODULE StateStoreProofs --------------------------
(* While the file is undamaged and no save has outlived its run lock, the    *)
(* session that works holds the lock and has in memory everything the file   *)
(* has: hence no update is lost, and the file implements StateRegister.      *)
EXTENDS StateStore, TLAPS

\* The session working on a loaded state holds the run lock.
HolderWorks ==
    \A s \in Locking : pc[s] \in {"load", "reload", "work", "saving", "prune"} => runLock = s

\* What it has in memory is what the file has, and edits of its own.
MemoryCovers ==
    \A s \in Locking : pc[s] \in {"work", "saving", "prune"} =>
        /\ s \notin Resetter
        /\ stateFile.edits \subseteq memory[s].edits
        /\ memory[s].edits \subseteq stateFile.edits \cup Edits(s)
        /\ pc[s] = "saving" => memory[s] = State(memory[s].edits)

\* Nothing was ever unreadable, so nobody quarantines.
NeverQuarantines ==
    /\ stateFile.kind \in {"missing", "state"}
    /\ \A s \in Session : pc[s] \notin {"move", "install", "restore"}

Calm == HolderWorks /\ MemoryCovers /\ NeverQuarantines /\ saved \subseteq stateFile.edits

\* Readers never work on a state.
ReadersRead == \A s \in Reader : pc[s] \notin {"work", "saving", "prune", "release"}

\* A prune has listed only worktrees of which the state it read has no record.
ListUnrecorded ==
    \A s \in Pruner : \A c \in condemned[s] :
        pc[s] \in {"work", "prune"} /\ ~Has(memory[s].edits, c, "reserve")

SInv == TypeOK /\ ReadersRead /\ ListUnrecorded /\ (Intact => Calm)

LEMMA SessionFacts ==
    /\ Locking \subseteq Session /\ Reader \subseteq Session /\ Resetter \subseteq Session
    /\ \A s \in Session : s \in Locking \/ s \in Reader
    /\ \A s \in Locking : s \notin Reader
    /\ \A s \in Resetter : s \notin Cycle /\ s \notin Operator
    /\ Pruner \subseteq Locking /\ Cycle \subseteq Locking
    /\ \A s \in Pruner : s \notin Cycle /\ s \notin Operator /\ s \notin Resetter
    /\ None \notin Session
<1> QED BY SessionAssumption DEF Locking, Session

LEMMA EditFacts == \A s \in Session : Edits(s) \subseteq Edit
<1> QED BY DEF Edit

LEMMA StateFacts ==
    ASSUME NEW E PROVE State(E).edits = E /\ State(E).kind = "state"
<1> QED BY DEF State

LEMMA ContentFacts ==
    /\ Missing \in Content /\ Corrupt \in Content /\ Marker \in Content
    /\ \A E \in SUBSET Edit : State(E) \in Content
    /\ \A c \in Content : c.edits \subseteq Edit
    /\ \A c \in Content : c.kind = "state" => c = State(c.edits)
    /\ \A c \in Content : c.kind = "missing" => c = Missing
<1>1. Missing \in Content /\ Corrupt \in Content /\ Marker \in Content
  BY DEF Content
<1>2. \A E \in SUBSET Edit : State(E) \in Content
  BY DEF Content
<1>3. ASSUME NEW c \in Content
      PROVE  /\ c.edits \subseteq Edit
             /\ c.kind = "state" => c = State(c.edits)
             /\ c.kind = "missing" => c = Missing
  <2>1. CASE c \in {Missing, Corrupt, Marker}
    BY <2>1 DEF Missing, Corrupt, Marker
  <2>2. CASE \E E \in SUBSET Edit : c = State(E)
    BY <2>2, StateFacts
  <2> QED BY <2>1, <2>2 DEF Content
<1> QED BY <1>1, <1>2, <1>3

LEMMA InitSInv == Init => SInv
<1> SUFFICES ASSUME Init PROVE SInv OBVIOUS
<1> USE SessionFacts, ContentFacts DEF Init
<1>1. TypeOK
  BY DEF TypeOK, Pcs
<1>2. ReadersRead
  BY DEF ReadersRead
<1>3. ASSUME Intact PROVE Calm
  <2>1. stateFile.kind \in {"missing", "state"}
    <3>1. stateFile = Missing \/ stateFile = State({})
      BY <1>3 DEF Intact
    <3> QED BY <3>1, StateFacts DEF Missing
  <2> QED BY <2>1 DEF Calm, HolderWorks, MemoryCovers, NeverQuarantines
<1>4. ListUnrecorded
  BY DEF ListUnrecorded
<1> QED BY <1>1, <1>2, <1>3, <1>4 DEF SInv

\* Membership of the contents a step can leave in memory.
LEMMA StepType ==
    ASSUME TypeOK, NEW s \in Session, NEW where \in Pcs, NEW c \in Content, Step(s, where, c)
    PROVE  pc' \in [Session -> Pcs] /\ memory' \in [Session -> Content]
<1> QED BY ContentFacts DEF TypeOK, Step

LEMMA TypeStep == TypeOK /\ [Next]_vars => TypeOK'
<1> SUFFICES ASSUME TypeOK, [Next]_vars PROVE TypeOK' OBVIOUS
<1> USE SessionFacts, ContentFacts DEF TypeOK, trees
<1>a. /\ {"idle", "load", "reload", "move", "install", "restore", "work", "saving", "prune", "release", "done"} \subseteq Pcs
      /\ ProcOf \in [Session -> Proc]
      /\ \A s \in Session : s \in Locking => s \in Locking \cup {None}
  BY SessionAssumption DEF Pcs
<1>1. CASE Damage
  BY <1>1 DEF Damage
<1>2. ASSUME NEW s \in Session, AcquireRun(s) PROVE TypeOK'
  BY <1>2, <1>a, StepType DEF AcquireRun, GoTo
<1>3. ASSUME NEW s \in Session, StartReader(s) PROVE TypeOK'
  BY <1>3, <1>a, StepType DEF StartReader, GoTo
<1>4. ASSUME NEW s \in Session, Read(s) PROVE TypeOK'
  <2>1. \A first \in BOOLEAN : AfterLoad(s, first, stateFile) \in Pcs
    BY <1>a DEF AfterLoad
  <2>2. pc' \in [Session -> Pcs] /\ memory' \in [Session -> Content]
    <3>1. CASE stateFile = Corrupt /\ s \notin Resetter
      BY <1>4, <1>a, <3>1, StepType DEF Read
    <3>2. CASE ~(stateFile = Corrupt /\ s \notin Resetter)
      BY <1>4, <2>1, <3>2, StepType DEF Read
    <3> QED BY <3>1, <3>2
  <2> QED BY <1>4, <1>a, <2>2 DEF Read
<1>5. ASSUME NEW s \in Session, MoveAside(s) PROVE TypeOK'
  <2>1. ThrowTo(s) \in Pcs
    BY <1>a DEF ThrowTo
  <2>2. pc' \in [Session -> Pcs] /\ memory' \in [Session -> Content]
    BY <1>5, <1>a, <2>1, StepType DEF MoveAside, GoTo
  <2>3. stateFile' \in Content /\ quarantined' \in [Session -> Content]
    BY <1>5 DEF MoveAside
  <2>4. loadLock' \in [Proc -> Session \cup {None}]
    BY <1>5, <1>a DEF MoveAside, LeaveLoad
  <2> QED BY <1>5, <2>2, <2>3, <2>4 DEF MoveAside
<1>6. ASSUME NEW s \in Session, InstallMarker(s) PROVE TypeOK'
  <2>1. AfterLoad(s, memory[s] = Corrupt, Marker) \in Pcs
    BY <1>a DEF AfterLoad
  <2>2. pc' \in [Session -> Pcs] /\ memory' \in [Session -> Content]
    BY <1>6, <1>a, <2>1, StepType DEF InstallMarker, GoTo
  <2> QED BY <1>6, <1>a, <2>2 DEF InstallMarker, LeaveLoad
<1>7. ASSUME NEW s \in Session, RestoreOriginal(s) PROVE TypeOK'
  <2>1. ThrowTo(s) \in Pcs
    BY <1>a DEF ThrowTo
  <2>2. pc' \in [Session -> Pcs] /\ memory' \in [Session -> Content]
    BY <1>7, <2>1, StepType DEF RestoreOriginal, GoTo
  <2>3. stateFile' \in Content /\ quarantined' \in [Session -> Content]
    BY <1>7 DEF RestoreOriginal
  <2> QED BY <1>7, <1>a, <2>2, <2>3 DEF RestoreOriginal, LeaveLoad
<1>8. ASSUME NEW s \in Session, Work(s) PROVE TypeOK'
  <2>1. ASSUME NEW e \in Edits(s) PROVE State(memory[s].edits \cup {e}) \in Content
    BY <2>1, EditFacts
  <2>2. pc' \in [Session -> Pcs] /\ memory' \in [Session -> Content]
    BY <1>8, <1>a, <2>1, StepType DEF Work, GoTo
  <2> QED BY <1>8, <2>2 DEF Work
<1>9. ASSUME NEW s \in Session, Save(s) PROVE TypeOK'
  <2>1. pc' \in [Session -> Pcs] /\ memory' \in [Session -> Content]
    BY <1>9, <1>a, StepType DEF Save, GoTo
  <2> QED BY <1>9, <1>a, <2>1, EditFacts DEF Save, LeaveLoad
<1>10. ASSUME NEW s \in Session, ReleaseRun(s) PROVE TypeOK'
  BY <1>10, <1>a, StepType DEF ReleaseRun, GoTo
<1>11. ASSUME NEW s \in Session, ReleaseBeforeSave(s) PROVE TypeOK'
  BY <1>11, <1>a DEF ReleaseBeforeSave
<1>12. ASSUME NEW p \in Proc, Crash(p) PROVE TypeOK'
  BY <1>12, <1>a DEF Crash
<1>13. ASSUME NEW c \in Cycle, EnsureWorkspace(c) PROVE TypeOK'
  BY <1>13 DEF EnsureWorkspace
<1>14. ASSUME NEW c \in Cycle, NEW d \in Cycle, CleanUpDone(d, c) PROVE TypeOK'
  BY <1>14 DEF CleanUpDone
<1>15. ASSUME NEW c \in Cycle, NEW s \in Pruner, Condemn(s, c) PROVE TypeOK'
  BY <1>15 DEF Condemn
<1>16. ASSUME NEW c \in Cycle, NEW s \in Pruner, RemoveOrphan(s, c) PROVE TypeOK'
  <2>1. pc' \in [Session -> Pcs] /\ memory' \in [Session -> Content]
    BY <1>16, <1>a, StepType DEF RemoveOrphan, GoTo
  <2> QED BY <1>16, <2>1 DEF RemoveOrphan
<1>17. ASSUME NEW s \in Pruner, EndPrune(s) PROVE TypeOK'
  <2>1. pc' \in [Session -> Pcs] /\ memory' \in [Session -> Content]
    BY <1>17, <1>a, StepType DEF EndPrune, GoTo
  <2> QED BY <1>17, <2>1 DEF EndPrune
<1>18. CASE UNCHANGED vars
  BY <1>18 DEF vars
<1> QED
  BY <1>1, <1>2, <1>3, <1>4, <1>5, <1>6, <1>7, <1>8, <1>9, <1>10, <1>11, <1>12, <1>13, <1>14,
     <1>15, <1>16, <1>17, <1>18 DEF Next

LEMMA ReadersStep == TypeOK /\ ReadersRead /\ [Next]_vars => ReadersRead'
<1> SUFFICES ASSUME TypeOK, ReadersRead, [Next]_vars, NEW r \in Reader
             PROVE  pc'[r] \notin {"work", "saving", "prune", "release"}
  BY DEF ReadersRead
<1> USE SessionFacts DEF TypeOK, ReadersRead, Step, GoTo
<1>1. CASE Damage
  BY <1>1 DEF Damage
<1>2. ASSUME NEW s \in Session, AcquireRun(s) \/ StartReader(s) PROVE pc'[r] \notin {"work", "saving", "prune", "release"}
  BY <1>2 DEF AcquireRun, StartReader
<1>3. ASSUME NEW s \in Session, Read(s) PROVE pc'[r] \notin {"work", "saving", "prune", "release"}
  BY <1>3 DEF Read, AfterLoad
<1>4. ASSUME NEW s \in Session, MoveAside(s) \/ RestoreOriginal(s) PROVE pc'[r] \notin {"work", "saving", "prune", "release"}
  BY <1>4 DEF MoveAside, RestoreOriginal, ThrowTo
<1>5. ASSUME NEW s \in Session, InstallMarker(s) PROVE pc'[r] \notin {"work", "saving", "prune", "release"}
  BY <1>5 DEF InstallMarker, AfterLoad
<1>6. ASSUME NEW s \in Session, Work(s) \/ Save(s) \/ ReleaseRun(s) PROVE pc'[r] \notin {"work", "saving", "prune", "release"}
  BY <1>6 DEF Work, Save, ReleaseRun
<1>7. ASSUME NEW s \in Session, ReleaseBeforeSave(s) PROVE pc'[r] \notin {"work", "saving", "prune", "release"}
  BY <1>7 DEF ReleaseBeforeSave
<1>8. ASSUME NEW p \in Proc, Crash(p) PROVE pc'[r] \notin {"work", "saving", "prune", "release"}
  BY <1>8 DEF Crash
<1>9. ASSUME NEW s \in Pruner, NEW c \in Cycle, RemoveOrphan(s, c)
      PROVE  pc'[r] \notin {"work", "saving", "prune", "release"}
  BY <1>9 DEF RemoveOrphan
<1>10. ASSUME NEW s \in Pruner, EndPrune(s) PROVE pc'[r] \notin {"work", "saving", "prune", "release"}
  BY <1>10 DEF EndPrune
<1>11. CASE UNCHANGED <<pc>>
  BY <1>11
<1> QED
  BY <1>1, <1>2, <1>3, <1>4, <1>5, <1>6, <1>7, <1>8, <1>9, <1>10, <1>11
  DEF Next, vars, EnsureWorkspace, CleanUpDone, Condemn

\* The list outlives no change of the memory it was made from.
LEMMA ListStep == TypeOK /\ ListUnrecorded /\ [Next]_vars => ListUnrecorded'
<1> SUFFICES ASSUME TypeOK, ListUnrecorded, [Next]_vars,
                    NEW r \in Pruner, NEW c \in condemned'[r]
             PROVE  pc'[r] \in {"work", "prune"} /\ ~Has(memory'[r].edits, c, "reserve")
  BY DEF ListUnrecorded
<1> DEFINE Listed == pc'[r] \in {"work", "prune"} /\ ~Has(memory'[r].edits, c, "reserve")
<1> USE SessionFacts DEF TypeOK, trees
<1>1. ASSUME c \in condemned[r], pc'[r] = pc[r], memory'[r] = memory[r] PROVE Listed
  BY <1>1 DEF ListUnrecorded
<1>2. ASSUME NEW s \in Session, UNCHANGED condemned, s # r \/ pc[r] \notin {"work", "prune"},
             NEW where, NEW m, Step(s, where, m)
      PROVE  Listed
  <2>1. c \in condemned[r] /\ s # r
    BY <1>2 DEF ListUnrecorded
  <2> QED BY <1>1, <1>2, <2>1 DEF Step
<1>3. ASSUME NEW s \in Session,
             AcquireRun(s) \/ StartReader(s) \/ Read(s) \/ MoveAside(s) \/ InstallMarker(s)
                \/ RestoreOriginal(s) \/ Work(s) \/ Save(s) \/ ReleaseRun(s)
      PROVE  Listed
  <2>1. UNCHANGED condemned /\ (s # r \/ pc[r] \notin {"work", "prune"})
    BY <1>3 DEF AcquireRun, StartReader, Read, MoveAside, InstallMarker, RestoreOriginal, Work,
                Save, ReleaseRun
  <2>2. \E where, m : Step(s, where, m)
    BY <1>3 DEF AcquireRun, StartReader, Read, MoveAside, InstallMarker, RestoreOriginal, Work,
                Save, ReleaseRun, GoTo
  <2> QED BY <1>2, <2>1, <2>2
<1>4. ASSUME NEW s \in Session, ReleaseBeforeSave(s) PROVE Listed
  BY <1>1, <1>4 DEF ReleaseBeforeSave
<1>5. CASE Damage
  BY <1>1, <1>5 DEF Damage
<1>6. ASSUME NEW p \in Proc, Crash(p) PROVE Listed
  <2>1. /\ c \in condemned[r]
        /\ ~(ProcOf[r] = p /\ pc[r] \notin {"idle", "done"})
    BY <1>6 DEF Crash
  <2> QED BY <1>1, <1>6, <2>1 DEF Crash
<1>7. ASSUME NEW d \in Cycle, EnsureWorkspace(d) PROVE Listed
  BY <1>1, <1>7 DEF EnsureWorkspace
<1>8. ASSUME NEW d \in Cycle, NEW e \in Cycle, CleanUpDone(e, d) PROVE Listed
  BY <1>1, <1>8 DEF CleanUpDone
<1>9. ASSUME NEW d \in Cycle, NEW s \in Pruner, Condemn(s, d) PROVE Listed
  <2>1. CASE c \in condemned[r]
    BY <1>1, <1>9, <2>1 DEF Condemn
  <2>2. CASE c \notin condemned[r]
    <3>1. s = r /\ c = d
      BY <1>9, <2>2 DEF Condemn
    <3> QED BY <1>9, <3>1 DEF Condemn
  <2> QED BY <2>1, <2>2
<1>10. ASSUME NEW d \in Cycle, NEW s \in Pruner, RemoveOrphan(s, d) PROVE Listed
  <2>1. c \in condemned[r]
    BY <1>10 DEF RemoveOrphan
  <2>2. pc'[r] \in {"work", "prune"} /\ memory'[r] = memory[r]
    BY <1>10, <2>1 DEF RemoveOrphan, GoTo, Step, ListUnrecorded
  <2> QED BY <2>1, <2>2 DEF ListUnrecorded
<1>11. ASSUME NEW s \in Pruner, EndPrune(s) PROVE Listed
  <2>1. c \in condemned[r] /\ s # r
    BY <1>11 DEF EndPrune
  <2> QED BY <1>1, <1>11, <2>1 DEF EndPrune, GoTo, Step
<1>12. CASE UNCHANGED vars
  BY <1>1, <1>12 DEF vars
<1> QED
  BY <1>3, <1>4, <1>5, <1>6, <1>7, <1>8, <1>9, <1>10, <1>11, <1>12 DEF Next

\* The parts of Calm, one action at a time.
LEMMA CalmStep == SInv /\ [Next]_vars /\ Intact' => Calm'
<1> SUFFICES ASSUME SInv, [Next]_vars, Intact' PROVE Calm' OBVIOUS
<1> USE SessionFacts DEF Calm, HolderWorks, NeverQuarantines, trees
<1>i. Intact
  <2>1. CASE Damage BY <2>1 DEF Damage, Intact
  <2>2. ASSUME NEW s \in Session, ReleaseBeforeSave(s) PROVE Intact
    BY <2>2 DEF ReleaseBeforeSave, Intact
  <2>3. CASE UNCHANGED <<corrupted, outlived>> BY <2>3 DEF Intact
  <2> QED
    BY <2>1, <2>2, <2>3 DEF Next, vars, AcquireRun, StartReader, Read, MoveAside, InstallMarker,
         RestoreOriginal, Work, Save, ReleaseRun, Crash, EnsureWorkspace, CleanUpDone, Condemn,
         RemoveOrphan, EndPrune
<1>c. TypeOK /\ Calm /\ ReadersRead
  BY <1>i DEF SInv
<1>t. /\ stateFile \in Content /\ stateFile # Corrupt /\ stateFile # Marker
      /\ memory \in [Session -> Content] /\ pc \in [Session -> Pcs]
  BY <1>c DEF TypeOK, Corrupt, Marker
<1>1. ASSUME Damage PROVE Calm'
  BY <1>1 DEF Damage, Intact
<1>2. ASSUME NEW s \in Session, AcquireRun(s) PROVE Calm'
  BY <1>2, <1>c, <1>t DEF AcquireRun, GoTo, Step, MemoryCovers
<1>3. ASSUME NEW s \in Session, StartReader(s) PROVE Calm'
  BY <1>3, <1>c, <1>t DEF StartReader, GoTo, Step, MemoryCovers
<1>4. ASSUME NEW s \in Session, Read(s) PROVE Calm'
  <2>1. stateFile' = stateFile /\ saved' = saved /\ runLock' = runLock
    BY <1>4 DEF Read
  <2> DEFINE next == AfterLoad(s, pc[s] = "load", stateFile)
  <2>2. pc' = [pc EXCEPT ![s] = next]
    BY <1>4, <1>t DEF Read, Step
  <2>3. s \in Locking => next \in {"reload", "release", "work"}
    BY <1>t DEF AfterLoad
  <2>4. s \in Reader => next = "done"
    BY DEF AfterLoad
  <2>5. s \in Resetter => next = "release"
    BY <1>t, SessionAssumption DEF AfterLoad
  <2>a. next = "work" => memory'[s] = stateFile
    BY <1>4, <1>t DEF Read, Step
  <2> HIDE DEF next
  <2>6. HolderWorks'
    BY <1>4, <1>c, <1>t, <2>1, <2>2, <2>3 DEF Read
  <2>7. NeverQuarantines'
    BY <1>c, <1>t, <2>1, <2>2, <2>3, <2>4
  <2>8. MemoryCovers'
    <3> SUFFICES ASSUME NEW d \in Locking, pc'[d] \in {"work", "saving", "prune"}
                 PROVE  /\ d \notin Resetter
                        /\ stateFile'.edits \subseteq memory'[d].edits
                        /\ memory'[d].edits \subseteq stateFile'.edits \cup Edits(d)
                        /\ pc'[d] = "saving" => memory'[d] = State(memory'[d].edits)
      BY DEF MemoryCovers
    <3>1. CASE d = s
      <4>1. next = "work" /\ memory'[s] = stateFile
        BY <1>t, <2>2, <2>3, <2>a, <3>1
      <4> QED BY <1>t, <2>1, <2>2, <2>5, <3>1, <4>1
    <3>2. CASE d # s
      BY <1>4, <1>c, <1>t, <2>1, <2>2, <3>2 DEF Read, Step, MemoryCovers
    <3> QED BY <3>1, <3>2
  <2> QED BY <1>c, <2>1, <2>6, <2>7, <2>8
<1>5. ASSUME NEW s \in Session, MoveAside(s) \/ InstallMarker(s) \/ RestoreOriginal(s) PROVE Calm'
  BY <1>5, <1>c DEF MoveAside, InstallMarker, RestoreOriginal
<1>6. ASSUME NEW s \in Session, Work(s) PROVE Calm'
  <2>1. stateFile' = stateFile /\ saved' = saved /\ runLock' = runLock
    BY <1>6 DEF Work
  <2>2. s \in Locking
    BY <1>6, <1>c DEF Work, ReadersRead
  <2>3. CASE GoTo(s, "release")
    BY <1>6, <1>c, <1>t, <2>1, <2>3 DEF GoTo, Step, MemoryCovers
  <2>4. ASSUME NEW e \in Edits(s), Step(s, "saving", State(memory[s].edits \cup {e})) PROVE Calm'
    <3>1. /\ pc' = [pc EXCEPT ![s] = "saving"]
          /\ memory' = [memory EXCEPT ![s] = State(memory[s].edits \cup {e})]
      BY <2>4 DEF Step
    <3>2. MemoryCovers'
      <4> SUFFICES ASSUME NEW d \in Locking, pc'[d] \in {"work", "saving", "prune"}
                   PROVE  /\ d \notin Resetter
                          /\ stateFile'.edits \subseteq memory'[d].edits
                          /\ memory'[d].edits \subseteq stateFile'.edits \cup Edits(d)
                          /\ pc'[d] = "saving" => memory'[d] = State(memory'[d].edits)
        BY DEF MemoryCovers
      <4>1. CASE d = s
        <5>1. memory'[s].edits = memory[s].edits \cup {e}
          BY <1>t, <3>1, StateFacts
        <5>2. memory'[s] = State(memory'[s].edits)
          BY <1>t, <3>1, <5>1
        <5> QED BY <1>6, <1>c, <2>1, <2>2, <4>1, <5>1, <5>2 DEF Work, MemoryCovers
      <4>2. CASE d # s
        BY <1>c, <1>t, <2>1, <3>1, <4>2 DEF MemoryCovers
      <4> QED BY <4>1, <4>2
    <3> QED BY <1>6, <1>c, <1>t, <2>1, <2>2, <3>1, <3>2 DEF Work
  <2> QED BY <1>6, <2>3, <2>4 DEF Work
<1>7. ASSUME NEW s \in Session, Save(s) PROVE Calm'
  <2>1. s \in Locking /\ s \notin Resetter /\ runLock = s
    BY <1>7, <1>c DEF Save, ReadersRead, MemoryCovers
  <2>2. stateFile' = memory[s] /\ memory[s] = State(memory[s].edits)
    BY <1>7, <1>c, <2>1 DEF Save, MemoryCovers
  <2>3. stateFile.edits \subseteq memory[s].edits
    BY <1>7, <1>c, <2>1 DEF Save, MemoryCovers
  <2>4. saved' \subseteq stateFile'.edits
    BY <1>7, <1>c, <2>1, <2>2, <2>3 DEF Save
  <2>5. stateFile'.kind = "state"
    BY <2>2, StateFacts
  <2>6. \A d \in Locking \ {s} : pc[d] \notin {"load", "reload", "work", "saving", "prune"}
    BY <1>c, <2>1
  <2>7. /\ runLock' = runLock
        /\ pc'[s] \in {"release", "work", "done"}
        /\ \A d \in Session \ {s} : pc'[d] = pc[d]
        /\ pc'[s] = "work" => memory'[s] = memory[s]
    BY <1>7, <1>t DEF Save, GoTo, Step
  <2>8. MemoryCovers'
    BY <2>1, <2>2, <2>6, <2>7 DEF MemoryCovers
  <2>9. HolderWorks' /\ NeverQuarantines'
    BY <1>c, <2>1, <2>5, <2>7
  <2> QED BY <2>4, <2>8, <2>9
<1>8. ASSUME NEW s \in Session, ReleaseRun(s) PROVE Calm'
  BY <1>8, <1>c, <1>t DEF ReleaseRun, GoTo, Step, MemoryCovers
<1>9. ASSUME NEW s \in Session, ReleaseBeforeSave(s) PROVE Calm'
  BY <1>9, <1>c DEF ReleaseBeforeSave, Intact
<1>10. ASSUME NEW p \in Proc, Crash(p) PROVE Calm'
  BY <1>10, <1>c, <1>t DEF Crash, MemoryCovers
<1>11. ASSUME NEW s \in Pruner, NEW c \in Cycle, RemoveOrphan(s, c) PROVE Calm'
  BY <1>11, <1>c, <1>t DEF RemoveOrphan, GoTo, Step, MemoryCovers
<1>12. ASSUME NEW s \in Pruner, EndPrune(s) PROVE Calm'
  BY <1>12, <1>c, <1>t DEF EndPrune, GoTo, Step, MemoryCovers
<1>13. CASE UNCHANGED <<stateFile, runLock, pc, memory, saved>>
  BY <1>13, <1>c DEF MemoryCovers
<1> QED
  BY <1>1, <1>2, <1>3, <1>4, <1>5, <1>6, <1>7, <1>8, <1>9, <1>10, <1>11, <1>12, <1>13
  DEF Next, vars, EnsureWorkspace, CleanUpDone, Condemn

\* The strengthened invariant holds in every reachable state: while nothing was
\* damaged and no save outlived its lock, who works has in memory what the
\* file has.
THEOREM StoreInvariant == Spec => []SInv
<1>1. SInv /\ [Next]_vars => SInv'
  BY TypeStep, ReadersStep, ListStep, CalmStep DEF SInv
<1> QED BY InitSInv, <1>1, PTL DEF Spec

\* Every operation of every session keeps the types of the state file, the
\* sessions' memory and the worktrees, damage and crashes included.
THEOREM StoreTypes == Spec => []TypeOK
<1>1. SInv => TypeOK
  BY DEF SInv
<1> QED BY StoreInvariant, <1>1, PTL

\* On an undamaged file no save is undone before some mutation's save has
\* outlived the run lock, for every number of cycles, mutations, reports and
\* processes and wherever they crash.
THEOREM UpdatesSurvive == Spec => []LostOnlyByOutlived
<1>1. SInv => LostOnlyByOutlived
  BY DEF SInv, Intact, Calm, LostOnlyByOutlived, SavesDurable
<1> QED BY StoreInvariant, <1>1, PTL

\* A step that keeps the promise adds edits of one session to the file.
LEMMA CommitStep ==
    ASSUME SInv, [Next]_vars, Intact'
    PROVE  /\ Intact
           /\ \/ stateFile'.edits = stateFile.edits
              \/ \E s \in Session : \E E \in SUBSET Edits(s) : stateFile'.edits = stateFile.edits \cup E
<1>i. Intact
  <2>1. CASE Damage BY <2>1 DEF Damage, Intact
  <2>2. ASSUME NEW s \in Session, ReleaseBeforeSave(s) PROVE Intact
    BY <2>2 DEF ReleaseBeforeSave, Intact
  <2>3. CASE UNCHANGED <<corrupted, outlived>> BY <2>3 DEF Intact
  <2> QED
    BY <2>1, <2>2, <2>3 DEF Next, vars, AcquireRun, StartReader, Read, MoveAside, InstallMarker,
         RestoreOriginal, Work, Save, ReleaseRun, Crash, EnsureWorkspace, CleanUpDone, Condemn,
         RemoveOrphan, EndPrune
<1>c. Calm /\ ReadersRead
  BY <1>i DEF SInv
<1>1. ASSUME NEW s \in Session, Save(s)
      PROVE  \E E \in SUBSET Edits(s) : stateFile'.edits = stateFile.edits \cup E
  <2>1. s \in Locking /\ s \notin Resetter
    BY <1>1, <1>c, SessionFacts DEF Save, ReadersRead, Calm, MemoryCovers
  <2>2. /\ stateFile' = memory[s]
        /\ stateFile.edits \subseteq memory[s].edits
        /\ memory[s].edits \subseteq stateFile.edits \cup Edits(s)
    BY <1>1, <1>c, <2>1 DEF Save, Calm, MemoryCovers
  <2>3. /\ memory[s].edits \cap Edits(s) \in SUBSET Edits(s)
        /\ stateFile'.edits = stateFile.edits \cup (memory[s].edits \cap Edits(s))
    BY <2>2
  <2> QED BY <2>3
<1>2. CASE Damage
  BY <1>2 DEF Damage, Intact
<1>3. ASSUME NEW s \in Session, MoveAside(s) \/ InstallMarker(s) \/ RestoreOriginal(s) PROVE FALSE
  BY <1>3, <1>c DEF MoveAside, InstallMarker, RestoreOriginal, Calm, NeverQuarantines
<1>4. CASE UNCHANGED stateFile
  BY <1>i, <1>4
<1>5. \/ Damage
      \/ \E s \in Session : Save(s) \/ MoveAside(s) \/ InstallMarker(s) \/ RestoreOriginal(s)
      \/ UNCHANGED stateFile
  BY DEF Next, vars, AcquireRun, StartReader, Read, Work, ReleaseRun, ReleaseBeforeSave, Crash,
         EnsureWorkspace, CleanUpDone, Condemn, RemoveOrphan, EndPrune
<1>6. \/ stateFile'.edits = stateFile.edits
      \/ \E s \in Session : \E E \in SUBSET Edits(s) : stateFile'.edits = stateFile.edits \cup E
  BY <1>1, <1>2, <1>3, <1>4, <1>5
<1> QED BY <1>i, <1>6

\* No worktree is taken from a cycle at work, nor from an issue on record that
\* is not over, before some prune or save has outlived the run lock: whatever
\* cycles, prunes and clean-ups there are, in however many processes.
THEOREM WorktreesSafe == Spec => NoWorktreeTaken
<1> DEFINE Taken == Intact => \A c \in worktrees \ worktrees' :
                        /\ ~AtWork(c)
                        /\ Has(stateFile.edits, c, "reserve") => Has(stateFile.edits, c, "outcome")
<1>1. SInv /\ [Next]_vars => [Taken]_vars
  <2> SUFFICES ASSUME SInv, [Next]_vars, Intact, NEW c \in worktrees, c \notin worktrees'
               PROVE  /\ ~AtWork(c)
                      /\ Has(stateFile.edits, c, "reserve") => Has(stateFile.edits, c, "outcome")
    OBVIOUS
  <2> USE SessionFacts DEF SInv, Calm, trees
  <2>1. c \in Cycle
    BY DEF TypeOK
  <2>2. ASSUME NEW s \in Locking, s # c, pc[s] \in {"work", "prune"} PROVE ~AtWork(c)
    BY <2>1, <2>2 DEF HolderWorks, AtWork
  <2>3. ASSUME NEW d \in Cycle, CleanUpDone(d, c)
        PROVE  ~AtWork(c) /\ Has(stateFile.edits, c, "outcome")
    <3>1. memory[d].edits \subseteq stateFile.edits \cup Edits(d)
      BY <2>3 DEF CleanUpDone, MemoryCovers
    <3>2. d # c /\ <<c, "outcome">> \notin Edits(d)
      BY <2>3 DEF CleanUpDone, Edits
    <3> QED BY <2>2, <2>3, <3>1, <3>2 DEF CleanUpDone, Has
  <2>4. ASSUME NEW s \in Pruner, RemoveOrphan(s, c)
        PROVE  ~AtWork(c) /\ ~Has(stateFile.edits, c, "reserve")
    <3>1. s # c /\ pc[s] \in {"work", "prune"}
      BY <2>1, <2>4 DEF RemoveOrphan
    <3>2. stateFile.edits \subseteq memory[s].edits
      BY <3>1 DEF MemoryCovers
    <3>3. ~Has(memory[s].edits, c, "reserve")
      BY <2>4 DEF RemoveOrphan, ListUnrecorded
    <3> QED BY <2>2, <3>1, <3>2, <3>3 DEF Has
  <2>5. \/ \E d \in Cycle : CleanUpDone(d, c)
        \/ \E s \in Pruner : RemoveOrphan(s, c)
    BY DEF Next, vars, Damage, AcquireRun, StartReader, Read, MoveAside, InstallMarker,
           RestoreOriginal, Work, Save, ReleaseRun, ReleaseBeforeSave, Crash, EnsureWorkspace,
           CleanUpDone, Condemn, RemoveOrphan, EndPrune
  <2> QED BY <2>3, <2>4, <2>5
<1> QED BY StoreInvariant, <1>1, PTL DEF Spec, NoWorktreeTaken

\* The state file implements the register of StateRegister.
THEOREM StoreImplementsRegister == Spec => ImplementsRegister
<1> DEFINE committed == IF Intact THEN stateFile.edits ELSE {}
           EditsOf == [s \in Session |-> Edits(s)]
<1>1. Init => Register!Init
  <2> SUFFICES ASSUME Init PROVE committed = {} /\ Intact \in BOOLEAN
    BY DEF Register!Init
  <2>1. stateFile \in {Missing, Corrupt, State({})} BY DEF Init
  <2>2. stateFile.edits = {} BY <2>1, StateFacts DEF Missing, Corrupt
  <2> QED BY <2>2 DEF Intact
<1>2. SInv /\ [Next]_vars => [Register!Next]_<<committed, Intact>>
  <2> SUFFICES ASSUME SInv, [Next]_vars
               PROVE  Register!Next \/ UNCHANGED <<committed, Intact>>
    OBVIOUS
  <2>1. CASE Intact'
    <3>1. Intact /\ committed = stateFile.edits /\ committed' = stateFile'.edits
      BY <2>1, CommitStep
    <3>2. CASE stateFile'.edits = stateFile.edits
      BY <2>1, <3>1, <3>2
    <3>3. ASSUME NEW s \in Session, NEW E \in SUBSET Edits(s), stateFile'.edits = stateFile.edits \cup E
          PROVE  Register!Commit(s)
      <4>1. EditsOf[s] = Edits(s) OBVIOUS
      <4>2. Intact' = Intact BY <2>1, <3>1 DEF Intact
      <4> QED BY <3>1, <3>3, <4>1, <4>2 DEF Register!Commit
    <3> QED BY <2>1, <3>2, <3>3, CommitStep DEF Register!Next
  <2>2. CASE ~Intact'
    <3>1. CASE Intact
      <4>1. Intact' = FALSE /\ committed' = {} BY <2>2 DEF Intact
      <4> QED BY <3>1, <4>1 DEF Register!Break, Register!Next
    <3>2. CASE ~Intact
      BY <2>2, <3>2 DEF Intact
    <3> QED BY <3>1, <3>2
  <2> QED BY <2>1, <2>2
<1> QED BY StoreInvariant, <1>1, <1>2, PTL DEF Spec, Register!Spec, ImplementsRegister
-----------------------------------------------------------------------------
\* A session quarantines once: until then it has no quarantine file, and what
\* it is about to save is never nothing.
QuarantinesOnce ==
    \A s \in Session :
        /\ pc[s] \in {"idle", "load", "reload", "move"} => quarantined[s] = Missing
        /\ pc[s] = "saving" /\ s \notin Resetter => memory[s] # Missing

\* The step of one session leaves the others where they are.
LEMMA OthersStay ==
    ASSUME TypeOK, NEW s \in Session, NEW where, NEW c, Step(s, where, c)
    PROVE  /\ pc'[s] = where
           /\ where \notin {"reload", "release", "done"} => memory'[s] = c
           /\ \A d \in Session \ {s} : pc'[d] = pc[d] /\ memory'[d] = memory[d]
<1> QED BY DEF TypeOK, Step

LEMMA OnceStep == TypeOK /\ QuarantinesOnce /\ [Next]_vars => QuarantinesOnce'
<1> SUFFICES ASSUME TypeOK, QuarantinesOnce, [Next]_vars, NEW d \in Session
             PROVE  /\ pc'[d] \in {"idle", "load", "reload", "move"} => quarantined'[d] = Missing
                    /\ pc'[d] = "saving" /\ d \notin Resetter => memory'[d] # Missing
  BY DEF QuarantinesOnce
<1> DEFINE Goal == /\ pc'[d] \in {"idle", "load", "reload", "move"} => quarantined'[d] = Missing
                   /\ pc'[d] = "saving" /\ d \notin Resetter => memory'[d] # Missing
<1> USE SessionFacts DEF trees
<1>1. ASSUME pc'[d] = pc[d], memory'[d] = memory[d], quarantined'[d] = quarantined[d] PROVE Goal
  BY <1>1 DEF QuarantinesOnce
<1>2. ASSUME NEW s \in Session, NEW where, NEW c, Step(s, where, c),
             \A e \in Session \ {s} : quarantined'[e] = quarantined[e],
             where \in {"load", "reload", "move"} => /\ pc[s] \in {"idle", "load", "reload"}
                                                    /\ quarantined'[s] = quarantined[s],
             where # "idle",
             where = "saving" /\ s \notin Resetter => c # Missing
      PROVE  Goal
  <2>1. CASE s = d
    BY <1>2, <2>1, OthersStay DEF QuarantinesOnce
  <2>2. CASE s # d
    BY <1>1, <1>2, <2>2, OthersStay
  <2> QED BY <2>1, <2>2
<1>3. ASSUME NEW s \in Session, AcquireRun(s) \/ StartReader(s) PROVE Goal
  BY <1>2, <1>3 DEF AcquireRun, StartReader, GoTo
<1>4. ASSUME NEW s \in Session, Read(s) PROVE Goal
  <2> DEFINE next == AfterLoad(s, pc[s] = "load", stateFile)
  <2>1. next # "idle" /\ (next = "saving" => s \in Resetter)
    BY DEF AfterLoad
  <2>2. /\ pc[s] \in {"load", "reload"} /\ quarantined' = quarantined
        /\ (\E c : Step(s, "move", c)) \/ Step(s, next, stateFile)
    BY <1>4 DEF Read
  <2> HIDE DEF next
  <2> QED BY <1>2, <2>1, <2>2
<1>5. ASSUME NEW s \in Session, MoveAside(s) \/ RestoreOriginal(s) PROVE Goal
  <2>1. ThrowTo(s) \notin {"load", "reload", "move", "idle", "saving"}
    BY DEF ThrowTo
  <2>2. \A e \in Session \ {s} : quarantined'[e] = quarantined[e]
    BY <1>5 DEF MoveAside, RestoreOriginal, TypeOK
  <2> QED BY <1>2, <1>5, <2>1, <2>2 DEF MoveAside, RestoreOriginal, GoTo
<1>6. ASSUME NEW s \in Session, InstallMarker(s) PROVE Goal
  <2>1. /\ AfterLoad(s, memory[s] = Corrupt, Marker) \notin {"load", "reload", "move", "idle"}
        /\ AfterLoad(s, memory[s] = Corrupt, Marker) = "saving" => s \in Resetter
    BY DEF AfterLoad
  <2> QED BY <1>2, <1>6, <2>1 DEF InstallMarker, GoTo
<1>7. ASSUME NEW s \in Session, Work(s) PROVE Goal
  <2>1. \A E : State(E) # Missing
    BY DEF State, Missing
  <2> QED BY <1>2, <1>7, <2>1 DEF Work, GoTo
<1>8. ASSUME NEW s \in Session, Save(s) PROVE Goal
  BY <1>2, <1>8 DEF Save, GoTo
<1>9. ASSUME NEW s \in Session, ReleaseRun(s) PROVE Goal
  BY <1>2, <1>9 DEF ReleaseRun, GoTo
<1>10. ASSUME NEW s \in Pruner, NEW c \in Cycle, RemoveOrphan(s, c) PROVE Goal
  BY <1>2, <1>10 DEF RemoveOrphan, GoTo
<1>11. ASSUME NEW s \in Pruner, EndPrune(s) PROVE Goal
  BY <1>2, <1>11 DEF EndPrune, GoTo
<1>12. ASSUME NEW p \in Proc, Crash(p) PROVE Goal
  <2>1. CASE ProcOf[d] = p /\ pc[d] \notin {"idle", "done"}
    BY <1>12, <2>1 DEF Crash
  <2>2. CASE ~(ProcOf[d] = p /\ pc[d] \notin {"idle", "done"})
    BY <1>1, <1>12, <2>2 DEF Crash
  <2> QED BY <2>1, <2>2
<1>13. CASE UNCHANGED <<pc, memory, quarantined>>
  BY <1>1, <1>13
<1> QED
  BY <1>3, <1>4, <1>5, <1>6, <1>7, <1>8, <1>9, <1>10, <1>11, <1>12, <1>13
  DEF Next, vars, Damage, ReleaseBeforeSave, EnsureWorkspace, CleanUpDone, Condemn

\* A payload set aside is never lost, whatever renames fail and whoever dies:
\* only a save decided earlier, or a quarantine that moved something else, can
\* overwrite damaged text at the state path.
THEOREM EvidenceStays == Spec => EvidenceKept
<1> DEFINE Kept == Evidence /\ ~Evidence' =>
                     /\ stateFile = Corrupt
                     /\ \E s \in Session :
                           \/ pc[s] = "saving" /\ stateFile' # Missing
                           \/ pc[s] \in {"install", "restore"} /\ quarantined[s] # Corrupt
<1>1. Init => QuarantinesOnce
  BY DEF Init, QuarantinesOnce
<1>2. TypeOK /\ QuarantinesOnce /\ [Next]_vars => [Kept]_vars
  <2> SUFFICES ASSUME TypeOK, QuarantinesOnce, [Next]_vars, Evidence, ~Evidence' PROVE Kept
    OBVIOUS
  <2> USE SessionFacts DEF Evidence
  <2>1. ASSUME NEW s \in Session, Save(s) PROVE Kept
    <3>1. pc[s] = "saving" /\ quarantined' = quarantined
      BY <2>1 DEF Save
    <3>2. stateFile' # Missing
      <4>1. CASE s \in Resetter
        <5>1. stateFile' = State({})
          BY <2>1, <4>1 DEF Save
        <5> QED BY <5>1, StateFacts DEF Missing
      <4>2. CASE s \notin Resetter
        <5>1. stateFile' = memory[s]
          BY <2>1, <4>2 DEF Save
        <5> QED BY <3>1, <4>2, <5>1 DEF QuarantinesOnce
      <4> QED BY <4>1, <4>2
    <3> QED BY <3>1, <3>2
  <2>2. ASSUME NEW s \in Session, MoveAside(s) PROVE FALSE
    <3>1. quarantined' = [quarantined EXCEPT ![s] = stateFile]
      BY <2>2 DEF MoveAside
    <3>2. quarantined[s] # Corrupt
      BY <2>2 DEF MoveAside, QuarantinesOnce, Missing, Corrupt
    <3> QED BY <3>1, <3>2 DEF TypeOK
  <2>3. ASSUME NEW s \in Session, InstallMarker(s) PROVE Kept
    <3>1. quarantined' = quarantined /\ pc[s] = "install"
      BY <2>3 DEF InstallMarker
    <3> QED BY <3>1
  <2>4. ASSUME NEW s \in Session, RestoreOriginal(s) PROVE Kept
    <3>1. CASE UNCHANGED <<stateFile, quarantined>>
      BY <3>1
    <3>2. CASE stateFile' = quarantined[s] /\ quarantined' = [quarantined EXCEPT ![s] = Missing]
      <4>1. pc[s] = "restore" /\ quarantined[s] # Corrupt
        BY <2>4, <3>2 DEF RestoreOriginal
      <4>2. stateFile = Corrupt
        BY <3>2, <4>1 DEF TypeOK
      <4> QED BY <4>1, <4>2
    <3> QED BY <2>4, <3>1, <3>2 DEF RestoreOriginal
  <2>5. CASE Damage
    BY <2>5 DEF Damage
  <2>6. CASE UNCHANGED <<stateFile, quarantined>>
    BY <2>6
  <2> QED
    BY <2>1, <2>2, <2>3, <2>4, <2>5, <2>6
    DEF Next, vars, AcquireRun, StartReader, Read, Work, ReleaseRun, ReleaseBeforeSave, Crash,
        EnsureWorkspace, CleanUpDone, Condemn, RemoveOrphan, EndPrune
<1> QED BY StoreTypes, OnceStep, <1>1, <1>2, PTL DEF Spec, EvidenceKept

\* The run lock of the sessions goes from nobody to one of them and back to
\* nobody, which is all that AcquireRun, the releases and a crash do with it.
LEMMA RunLockStep ==
    ASSUME TypeOK, [Next]_vars
    PROVE  \/ UNCHANGED runLock
           \/ runLock = None /\ runLock' \in Locking
           \/ runLock' = None
<1> USE SessionFacts DEF TypeOK
<1>1. ASSUME NEW s \in Session, AcquireRun(s)
      PROVE  UNCHANGED runLock \/ (runLock = None /\ runLock' \in Locking)
  BY <1>1 DEF AcquireRun
<1>2. ASSUME NEW s \in Session, ReleaseRun(s) \/ ReleaseBeforeSave(s)
      PROVE  UNCHANGED runLock \/ runLock' = None
  BY <1>2 DEF ReleaseRun, ReleaseBeforeSave
<1>3. ASSUME NEW p \in Proc, Crash(p) PROVE UNCHANGED runLock \/ runLock' = None
  BY <1>3 DEF Crash
<1>4. ASSUME NEW s \in Session,
             StartReader(s) \/ Read(s) \/ MoveAside(s) \/ InstallMarker(s) \/ RestoreOriginal(s)
                \/ Work(s) \/ Save(s)
      PROVE  UNCHANGED runLock
  BY <1>4 DEF StartReader, Read, MoveAside, InstallMarker, RestoreOriginal, Work, Save
<1>5. CASE Damage \/ UNCHANGED vars
  BY <1>5 DEF Damage, vars
<1>6. ASSUME NEW c \in Cycle, NEW d \in Cycle, EnsureWorkspace(c) \/ CleanUpDone(d, c)
      PROVE  UNCHANGED runLock
  BY <1>6 DEF EnsureWorkspace, CleanUpDone
<1>7. ASSUME NEW s \in Pruner, NEW c \in Cycle, Condemn(s, c) \/ RemoveOrphan(s, c)
      PROVE  UNCHANGED runLock
  BY <1>7 DEF Condemn, RemoveOrphan
<1>8. ASSUME NEW s \in Pruner, EndPrune(s) PROVE UNCHANGED runLock
  BY <1>8 DEF EndPrune
<1> QED BY <1>1, <1>2, <1>3, <1>4, <1>5, <1>6, <1>7, <1>8 DEF Next

\* The sessions use the run lock as a lock of LockPromise that deceives nobody,
\* for every set of sessions and processes: FileLock implements that promise
\* too (FileImplementsLock), so the two modules meet in it.
THEOREM SessionsAssumeLock == Spec => AssumesLock
<1> DEFINE owners == IF runLock = None THEN {} ELSE {runLock}
<1>1. Init => RunLock!Init
  BY DEF Init, RunLock!Init
<1>2. TypeOK /\ [Next]_vars => [RunLock!Next]_<<owners, {}>>
  <2> SUFFICES ASSUME TypeOK, [Next]_vars PROVE RunLock!Next \/ UNCHANGED owners
    OBVIOUS
  <2>1. CASE UNCHANGED runLock
    BY <2>1
  <2>2. CASE runLock = None /\ runLock' \in Locking
    BY <2>2, SessionFacts DEF RunLock!Next, RunLock!Acquire
  <2>3. CASE runLock' = None
    BY <2>3 DEF RunLock!Next, RunLock!Leave
  <2> QED BY <2>1, <2>2, <2>3, RunLockStep
<1> QED BY StoreTypes, <1>1, <1>2, PTL DEF Spec, AssumesLock, RunLock!Spec
=============================================================================

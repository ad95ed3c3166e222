--------------------------- MODULE SelectionProofs ---------------------------
(* The order of issues and the bound on starts for every set of issues, every *)
(* dependency between them and any number of faults and edits.                *)
EXTENDS Selection, FiniteSetTheorems, WellFoundedInduction, TLAPS

\* From the fetch of an issue to its turn, clear holds what is no candidate.
ClearNoted == pc \in {"order", "begin"} => Awaited \ Candidates \subseteq clear

\* The steps of a cycle that has listed the issues.
Listing == {"trackedMerged", "closures", "staleDone", "blocked", "reserve", "epics", "epicsSave"}

\* The issue that is worked on is one; after a good listing there is an
\* inventory and no failure.
AtWork ==
    /\ pc \in {"fetch", "order", "begin", "turn"} => work \in Issue
    /\ pc \in Listing => failure = "none" /\ inventory # NoInventory

\* A bounded failure comes after a good listing, and one start uses it up;
\* without it an issue that has no pull request gets no further than Resolve.
OneStart ==
    /\ starts \in 0..1
    /\ failure = "none" => starts = 0
    /\ failure = "bounded" /\ pc \in {"degraded", "bounded", "resolve", "fetch", "order", "begin"}
          => starts = 0
    /\ pc \in {"fetch", "order", "begin"} /\ failure = "transient" => rec[work].pr

Rest == ClearNoted /\ AtWork /\ OneStart /\ DependentWaits

Inv == TypeOK /\ Rest

-----------------------------------------------------------------------------
(* Operators. *)

\* Natural numbers have a least one.
LEMMA LeastExists ==
    ASSUME NEW S, S \subseteq Nat, S # {}
    PROVE  \E i \in S : \A j \in S : i <= j
<1> DEFINE less == OpToRel(<, Nat)
<1>1. IsWellFoundedOn(less, Nat)
  BY NatLessThanWellFounded
<1>2. \A i, j \in Nat : j < i => <<j, i>> \in less
  BY DEF OpToRel
<1> HIDE DEF less
<1>3. PICK i \in S : \A j \in S : <<j, i>> \notin less
  BY <1>1, WFMin
<1>4. \A j \in S : i <= j
  <2> SUFFICES ASSUME NEW j \in S PROVE i <= j
    OBVIOUS
  <2>1. i \in Nat /\ j \in Nat /\ ~(j < i)
    BY <1>2, <1>3
  <2> QED BY <2>1
<1> QED BY <1>3, <1>4

\* Among the issues that may run there is a first.
LEMMA SelectedKnown == Selected \in Issue \cup {None}
<1> DEFINE runnable == {i \in Candidates : /\ ~findBlockingIssue(i, gh[i].body)
                                           /\ isEligibleForSelection(rec[i])}
<1>1. runnable \subseteq Issue /\ runnable \subseteq Nat
  BY SelectionAssumption DEF Candidates, Children
<1>2. Selected = IF runnable = {} THEN None
                 ELSE CHOOSE i \in runnable : \A j \in runnable : i <= j
  BY DEF Selected
<1> HIDE DEF runnable
<1>3. runnable # {} => \E i \in runnable : \A j \in runnable : i <= j
  BY <1>1, LeastExists
<1> QED BY <1>1, <1>2, <1>3

\* What the next cycle resumes behind is an issue: there is a first record,
\* and there is a last one of those that were processed.
LEMMA ResumeKnown ==
    ASSUME NEW S, S \subseteq Issue
    PROVE  ResumeAfter(S) \in Issue \cup {None}
<1> DEFINE rank(i) == Rank(S, i)
<1>1. IsFiniteSet(S) /\ S \subseteq Nat
  BY SelectionAssumption, FS_Subset
<1>2. \A i \in S : rank(i) \in Nat
  <2> SUFFICES ASSUME NEW i \in S PROVE Cardinality({j \in S : Earlier(S, j, i)}) \in Nat
    BY DEF Rank
  <2>1. IsFiniteSet({j \in S : Earlier(S, j, i)})
    BY <1>1, FS_Subset
  <2> QED BY <2>1, FS_CardinalityType
<1>3. ASSUME S # {} PROVE Processed(S) # {}
  <2> DEFINE places == {Place(S, i) : i \in S}
  <2>1. \A i \in S : Place(S, i) \in Nat
    BY DEF Place
  <2>2. PICK p \in places : \A q \in places : p <= q
    <3>1. places \subseteq Nat /\ places # {}
      BY <1>3, <2>1
    <3> QED BY <3>1, LeastExists
  <2> DEFINE front == {i \in S : Place(S, i) = p}
  <2>3. PICK i \in front : \A j \in front : i <= j
    <3>1. front \subseteq Nat /\ front # {}
      BY <1>1, <2>2
    <3> QED BY <3>1, LeastExists
  <2>4. \A j \in S : ~Earlier(S, j, i)
    <3> SUFFICES ASSUME NEW j \in S, Earlier(S, j, i) PROVE FALSE
      OBVIOUS
    <3>1. i \in S /\ Place(S, i) = p /\ p <= Place(S, j) /\ p \in Nat /\ Place(S, j) \in Nat
      BY <2>1, <2>2, <2>3
    <3>2. Place(S, j) = p /\ j < i
      BY <3>1 DEF Earlier
    <3>3. i <= j /\ i \in Nat /\ j \in Nat
      BY <1>1, <2>3, <3>1, <3>2
    <3> QED BY <3>2, <3>3
  <2>5. {j \in S : Earlier(S, j, i)} = {}
    BY <2>4
  <2>6. rank(i) = 0
    BY <2>5, FS_EmptySet DEF Rank
  <2> QED BY <2>3, <2>6, SelectionAssumption DEF Processed
<1>4. ASSUME Processed(S) # {}
      PROVE  \E i \in Processed(S) : \A j \in Processed(S) : rank(j) <= rank(i)
  <2> DEFINE below == {PerCycle - rank(i) : i \in Processed(S)}
  <2>1. \A i \in Processed(S) : rank(i) \in Nat /\ PerCycle - rank(i) \in Nat
    BY <1>2, SelectionAssumption DEF Processed
  <2>2. PICK m \in below : \A n \in below : m <= n
    <3>1. below \subseteq Nat /\ below # {}
      BY <1>4, <2>1
    <3> QED BY <3>1, LeastExists
  <2>3. PICK i \in Processed(S) : m = PerCycle - rank(i)
    BY <2>2
  <2>4. \A j \in Processed(S) : rank(j) <= rank(i)
    <3> SUFFICES ASSUME NEW j \in Processed(S) PROVE rank(j) <= rank(i)
      OBVIOUS
    <3>1. PerCycle - rank(i) <= PerCycle - rank(j)
      BY <2>2, <2>3
    <3> HIDE DEF rank
    <3> QED BY <2>1, <3>1, SelectionAssumption
  <2> QED BY <2>3, <2>4
<1>5. S = {} => Cardinality(S) <= PerCycle
  BY FS_EmptySet, SelectionAssumption
<1>6. Processed(S) \subseteq Issue
  BY DEF Processed
<1>7. CASE Cardinality(S) <= PerCycle
  BY <1>7 DEF ResumeAfter
<1>8. CASE ~(Cardinality(S) <= PerCycle)
  <2>1. Processed(S) # {}
    BY <1>3, <1>5, <1>8
  <2>2. \E i \in Processed(S) : \A j \in Processed(S) : Rank(S, j) <= Rank(S, i)
    BY <1>4, <2>1
  <2> QED BY <1>6, <1>8, <2>2 DEF ResumeAfter
<1> QED BY <1>7, <1>8

\* A state for some records leaves the rest, and no pull request is forgotten.
LEMMA StatesSet ==
    ASSUME rec \in [Issue -> Record], NEW S, NEW s \in RunState, WithState(S, s)
    PROVE  /\ rec' \in [Issue -> Record]
           /\ \A i \in Issue : rec'[i].pr = rec[i].pr
           /\ \A i \in Issue : rec'[i].state = IF i \in S THEN s ELSE rec[i].state
BY DEF WithState, Record

\* A reservation keeps the pull request and names a record.
LEMMA ReservedKnown ==
    ASSUME rec \in [Issue -> Record], NEW i \in Issue, Reserved(i)
    PROVE  /\ rec' \in [Issue -> Record] /\ active' = i
           /\ rec'[i].state # "none"
           /\ \A j \in Issue : rec'[j].pr = rec[j].pr
<1> DEFINE s == IF rec[i].state = "none" THEN "queued" ELSE rec[i].state
<1>1. s \in RunState /\ s # "none"
  BY DEF Record, RunState
<1>2. rec' = [rec EXCEPT ![i].state = s] /\ active' = i
  BY DEF Reserved
<1> HIDE DEF s
<1> QED BY <1>1, <1>2 DEF Record


\* A reservation or none leaves records known.
LEMMA SelectionReserved ==
    ASSUME TypeOK, NEW otherwise, ReserveSelection(otherwise)
    PROVE  /\ rec' \in [Issue -> Record]
           /\ active' \in Issue \cup {None}
           /\ active' # None => rec'[active'].state # "none"
           /\ pc' \in {"resolve", otherwise} /\ UNCHANGED <<work, seen, targeted>>
<1>1. CASE active = None /\ Selected # None
  <2>1. Selected \in Issue
    BY <1>1, SelectedKnown
  <2>2. Reserved(Selected) /\ GoTo("resolve")
    BY <1>1 DEF ReserveSelection
  <2>3. rec' \in [Issue -> Record] /\ active' = Selected /\ rec'[Selected].state # "none"
    BY <2>1, <2>2, ReservedKnown DEF TypeOK
  <2> QED BY <2>1, <2>2, <2>3 DEF GoTo
<1>2. CASE ~(active = None /\ Selected # None)
  BY <1>2 DEF ReserveSelection, TypeOK, GoTo
<1> QED BY <1>1, <1>2

\* A state other than none leaves every reservation with a record.
LEMMA StatesTyped ==
    ASSUME TypeOK, NEW S, NEW s \in RunState \ {"none"}, WithState(S, s),
           active' \in {active, None}
    PROVE  /\ rec' \in [Issue -> Record]
           /\ active' \in Issue \cup {None}
           /\ active' # None => rec'[active'].state # "none"
<1>1. /\ rec' \in [Issue -> Record]
      /\ \A i \in Issue : rec'[i].state = IF i \in S THEN s ELSE rec[i].state
  BY StatesSet DEF TypeOK
<1>2. active \in Issue \cup {None} /\ (active # None => rec[active].state # "none")
  BY DEF TypeOK
<1> QED BY <1>1, <1>2

\* The steps before the fetch, where an issue is not yet worked on.
Early == {"reservation", "list", "degraded", "bounded", "resolve"} \cup Listing

\* A step of the cycle that starts nothing and sees nobody edit.
LEMMA Onwards ==
    ASSUME Inv, UNCHANGED <<gh, clear, starts, failure>>, pc \in Early, pc' \in Early,
           pc' \in {"degraded", "bounded", "resolve"}
              => pc \in {"degraded", "bounded", "resolve"} \cup Listing,
           pc' \in Listing => pc \in Listing /\ UNCHANGED inventory
    PROVE  Rest'
<1>1. ClearNoted'
  BY DEF Inv, Rest, ClearNoted, Candidates, Early, Listing
<1>2. AtWork'
  BY DEF Inv, Rest, AtWork, Early, Listing
<1>3. OneStart'
  BY DEF Inv, Rest, AtWork, OneStart, Early, Listing
<1>4. DependentWaits'
  BY DEF DependentWaits, At, Early, Listing
<1> QED BY <1>1, <1>2, <1>3, <1>4 DEF Rest

\* The cycle starts over.
LEMMA StartsOver ==
    ASSUME Inv, Restart, UNCHANGED <<gh, starts, failure>>
    PROVE  Rest' /\ clear' \in SUBSET Awaited /\ pc' = "reservation"
           /\ work' = None /\ seen' = "free" /\ targeted' = FALSE
<1>1. ClearNoted'
  BY DEF Restart, ClearNoted, Candidates
<1>2. AtWork'
  BY DEF Restart, AtWork, Listing
<1>3. OneStart'
  BY DEF Inv, Rest, OneStart, Restart
<1>4. DependentWaits'
  BY DEF DependentWaits, At, Restart
<1> QED BY <1>1, <1>2, <1>3, <1>4 DEF Rest, Restart, Forget

\* The cycle ends.
LEMMA Ends ==
    ASSUME Inv, EndCycle, UNCHANGED <<starts, failure>>
    PROVE  Rest' /\ clear' \in SUBSET Awaited /\ pc' = "idle"
           /\ work' = None /\ seen' = "free" /\ targeted' = FALSE
<1>1. ClearNoted' /\ DependentWaits'
  BY DEF EndCycle, ClearNoted, DependentWaits, At
<1>2. AtWork'
  BY DEF EndCycle, AtWork, Listing
<1>3. OneStart'
  BY DEF Inv, Rest, OneStart, EndCycle
<1> QED BY <1>1, <1>2, <1>3 DEF Rest, EndCycle, Forget

\* An issue put back keeps its record.
LEMMA PutBackKeeps ==
    ASSUME Inv, NEW i \in Issue, NEW s \in RunState \ {"none"}, PutBack(i, s),
           UNCHANGED <<failure, cursor, world, inventory, starts, bounds>>
    PROVE  Inv'
<1>1. /\ rec' \in [Issue -> Record]
      /\ active' \in Issue \cup {None}
      /\ active' # None => rec'[active'].state # "none"
  BY StatesTyped DEF PutBack, Inv
<1>2. Rest' /\ clear' \in SUBSET Awaited /\ pc' = "reservation"
      /\ work' = None /\ seen' = "free" /\ targeted' = FALSE
  BY StartsOver DEF PutBack, world
<1>3. TypeOK'
  BY <1>1, <1>2 DEF Inv, TypeOK, world, bounds, Pcs, Body
<1> QED BY <1>2, <1>3 DEF Inv

-----------------------------------------------------------------------------
(* The prelude. *)

LEMMA InitInv == Init => Inv
<1> SUFFICES ASSUME Init PROVE Inv
  OBVIOUS
<1>1. gh \in [Issue -> GitHubIssue]
  BY DEF Init, GitHubIssue, Body
<1>2. rec \in [Issue -> Record]
  BY DEF Init, createIssueRecord, Record, RunState
<1>3. faults \in 0..MaxFaults /\ helps \in 0..MaxHelp /\ starts \in 0..2
  BY SelectionAssumption DEF Init
<1>4. TypeOK
  BY <1>1, <1>2, <1>3 DEF Init, TypeOK, Failure, Pcs, Body
<1>5. Rest
  BY DEF Init, Rest, ClearNoted, AtWork, OneStart, DependentWaits, At, Listing
<1> QED BY <1>4, <1>5 DEF Inv

LEMMA StartCycleKeeps ==
    ASSUME Inv, StartCycle PROVE Inv'
<1>1. Rest' /\ clear' \in SUBSET Awaited /\ pc' = "reservation"
      /\ work' = None /\ seen' = "free" /\ targeted' = FALSE
  BY StartsOver DEF StartCycle, file, world
<1>2. TypeOK'
  BY <1>1 DEF Inv, TypeOK, StartCycle, file, world, bounds, Pcs, Body
<1> QED BY <1>1, <1>2 DEF Inv

LEMMA StaleReservationKeeps ==
    ASSUME Inv, StaleReservation PROVE Inv'
<1>1. /\ rec' \in [Issue -> Record]
      /\ active' \in Issue \cup {None}
      /\ active' # None => rec'[active'].state # "none"
  <2>1. CASE UNCHANGED rec
    BY <2>1 DEF StaleReservation, Inv, TypeOK
  <2>2. ASSUME NEW s \in {"running", "queued", "stopped"}, WithState({active}, s), active' = None
        PROVE  /\ rec' \in [Issue -> Record]
               /\ active' \in Issue \cup {None}
               /\ active' # None => rec'[active'].state # "none"
    BY <2>2, StatesSet DEF Inv, TypeOK, RunState
  <2> QED BY <2>1, <2>2 DEF StaleReservation
<1>2. Rest'
  BY Onwards DEF StaleReservation, GoTo, At, world, history, Early, Listing
<1>3. TypeOK'
  BY <1>1 DEF Inv, TypeOK, StaleReservation, GoTo, world, history, bounds, Pcs
<1> QED BY <1>2, <1>3 DEF Inv

LEMMA ListedKeeps ==
    ASSUME Inv, Listed, At("list"), inventory' \in [Issue -> [open : BOOLEAN, body : Body]],
           inventory' # NoInventory
    PROVE  Inv'
<1>1. ClearNoted'
  BY DEF Inv, Rest, ClearNoted, Candidates, Listed, GoTo, At, world
<1>2. AtWork' /\ OneStart' /\ DependentWaits'
  BY DEF AtWork, OneStart, DependentWaits, Listed, GoTo, At, Listing
<1>3. TypeOK'
  BY DEF Inv, TypeOK, Listed, GoTo, world, bounds, Pcs, Failure
<1> QED BY <1>1, <1>2, <1>3 DEF Inv, Rest

LEMMA RefreshKeeps ==
    ASSUME Inv, Refresh PROVE Inv'
<1>1. inventory' \in [Issue -> [open : BOOLEAN, body : Body]]
  BY DEF Inv, TypeOK, Refresh, GitHubIssue
<1>2. Epic \in DOMAIN inventory'
  BY SelectionAssumption DEF Refresh
<1>3. inventory' # NoInventory
  BY <1>2 DEF NoInventory
<1> QED BY <1>1, <1>3, ListedKeeps DEF Refresh

LEMMA ReuseKeeps ==
    ASSUME Inv, Reuse PROVE Inv'
BY ListedKeeps DEF Reuse, Inv, TypeOK

\* Only from no failure at all does a listing leave a bounded one.
LEMMA ListingFailsKeeps ==
    ASSUME Inv, ListingFails PROVE Inv'
<1>1. failure' \in Failure \ {"none"} /\ (failure' = "bounded" => failure = "none")
  BY DEF ListingFails, SnapshotBacked, Failure
<1>2. ClearNoted'
  BY DEF Inv, Rest, ClearNoted, Candidates, ListingFails, GoTo, At, world, history
<1>3. AtWork' /\ DependentWaits'
  BY DEF AtWork, DependentWaits, ListingFails, GoTo, At, Listing
<1>4. OneStart'
  BY <1>1 DEF Inv, Rest, OneStart, ListingFails, GoTo, history
<1>5. TypeOK'
  BY <1>1 DEF Inv, TypeOK, ListingFails, GoTo, world, history, bounds, Pcs
<1> QED BY <1>2, <1>3, <1>4, <1>5 DEF Inv, Rest

LEMMA DegradedKeeps ==
    ASSUME Inv, Degraded PROVE Inv'
<1>1. /\ rec' \in [Issue -> Record]
      /\ active' \in Issue \cup {None}
      /\ active' # None => rec'[active'].state # "none"
  <2>1. CASE UNCHANGED <<rec, active>>
    BY <2>1 DEF Inv, TypeOK
  <2>2. CASE WithState({active}, "done") /\ active' = None
    BY <2>2, StatesTyped DEF Inv, RunState
  <2>3. ASSUME NEW S, WithState(S, "tracked"), UNCHANGED active
        PROVE  /\ rec' \in [Issue -> Record]
               /\ active' \in Issue \cup {None}
               /\ active' # None => rec'[active'].state # "none"
    BY <2>3, StatesTyped DEF Inv, RunState
  <2> QED BY <2>1, <2>2, <2>3 DEF Degraded
<1>2. Rest'
  BY Onwards DEF Degraded, GoTo, At, world, history, Early, Listing
<1>3. TypeOK'
  BY <1>1 DEF Inv, TypeOK, Degraded, GoTo, world, history, bounds, Pcs
<1> QED BY <1>2, <1>3 DEF Inv

LEMMA BoundedSelectionKeeps ==
    ASSUME Inv, BoundedSelection PROVE Inv'
<1>1. /\ rec' \in [Issue -> Record]
      /\ active' \in Issue \cup {None}
      /\ active' # None => rec'[active'].state # "none"
      /\ pc' = "resolve" /\ UNCHANGED <<work, seen, targeted>>
  <2>1. CASE ReserveSelection("resolve")
    BY <2>1, SelectionReserved DEF Inv
  <2>2. CASE GoTo("resolve") /\ UNCHANGED <<rec, active>>
    BY <2>2 DEF Inv, TypeOK, GoTo
  <2> QED BY <2>1, <2>2 DEF BoundedSelection
<1>2. Rest'
  BY <1>1, Onwards DEF BoundedSelection, At, world, history, Early, Listing
<1>3. TypeOK'
  BY <1>1 DEF Inv, TypeOK, BoundedSelection, world, history, bounds, Pcs
<1> QED BY <1>2, <1>3 DEF Inv

LEMMA TrackedMergedKeeps ==
    ASSUME Inv, TrackedMerged PROVE Inv'
<1>1. PICK S : WithState(S, "done") /\ active' \in {active, None}
               /\ pc' \in {"resolve", "closures"} /\ UNCHANGED <<work, seen, targeted>>
  BY DEF TrackedMerged, GoTo
<1>2. /\ rec' \in [Issue -> Record]
      /\ active' \in Issue \cup {None}
      /\ active' # None => rec'[active'].state # "none"
  BY <1>1, StatesTyped DEF Inv, RunState
<1>3. Rest'
  BY <1>1, Onwards DEF TrackedMerged, At, world, history, Early, Listing
<1>4. TypeOK'
  BY <1>1, <1>2 DEF Inv, TypeOK, TrackedMerged, world, history, bounds, Pcs
<1> QED BY <1>3, <1>4 DEF Inv

LEMMA MergedClosuresKeeps ==
    ASSUME Inv, MergedClosures PROVE Inv'
<1> DEFINE S == RevalidationEligible
           P == Processed(S)
           pulled(i) == rec[i].pr \/ i \in merged
<1>1. \A i \in Issue : rec'[i] = IF i \notin P THEN rec[i]
                                 ELSE [rec[i] EXCEPT !.state = "done", !.pr = pulled(i)]
  BY DEF MergedClosures
<1>2. \A i \in Issue : pulled(i) \in BOOLEAN /\ rec[i] \in Record
  BY DEF Inv, TypeOK, Record
<1>3. cursor' \in Issue \cup {None}
  <2>1. S \subseteq Issue
    BY DEF RevalidationEligible
  <2>2. cursor' = ResumeAfter(S)
    BY DEF MergedClosures
  <2> HIDE DEF S
  <2> QED BY <2>1, <2>2, ResumeKnown
<1>4. active' \in {active, None} /\ DOMAIN rec' = Issue
  BY DEF MergedClosures, Release
<1>5. rec' = [i \in Issue |-> rec'[i]]
  BY DEF MergedClosures
<1> HIDE DEF P, pulled
<1>6. \A i \in Issue : rec'[i] \in Record /\ rec'[i].state \in {rec[i].state, "done"}
  BY <1>1, <1>2 DEF Record, RunState
<1>7. rec' \in [Issue -> Record]
  BY <1>5, <1>6
<1>8. active' \in Issue \cup {None} /\ (active' # None => rec'[active'].state # "none")
  BY <1>4, <1>6 DEF Inv, TypeOK
<1>9. Rest'
  BY Onwards DEF MergedClosures, GoTo, At, world, history, Early, Listing
<1>10. TypeOK'
  BY <1>3, <1>7, <1>8 DEF Inv, TypeOK, MergedClosures, GoTo, world, history, bounds, Pcs
<1> QED BY <1>9, <1>10 DEF Inv

LEMMA StaleDoneKeeps ==
    ASSUME Inv, StaleDone PROVE Inv'
<1>1. PICK S : WithState(S, "stopped") /\ active' \in {active, None}
  BY DEF StaleDone, Release
<1>2. /\ rec' \in [Issue -> Record]
      /\ active' \in Issue \cup {None}
      /\ active' # None => rec'[active'].state # "none"
  BY <1>1, StatesTyped DEF Inv, RunState
<1>3. Rest'
  BY Onwards DEF StaleDone, GoTo, At, world, history, Early, Listing
<1>4. TypeOK'
  BY <1>2 DEF Inv, TypeOK, StaleDone, GoTo, world, history, bounds, Pcs
<1> QED BY <1>3, <1>4 DEF Inv

LEMMA RecoverBlockedKeeps ==
    ASSUME Inv, RecoverBlocked PROVE Inv'
<1> DEFINE ready == {i \in Issue : rec[i].state = "requirements" /\ RequirementsRecovered(i)}
           stopped == {i \in Issue : rec[i].state = "stopped" /\ inventory[i].open}
<1>1. PICK again \in SUBSET stopped :
        rec' = [i \in Issue |->
                   IF i \in ready \cup again
                   THEN [rec[i] EXCEPT !.state = IF i \in again /\ rec[i].pr THEN "tracked"
                                                 ELSE "queued"]
                   ELSE rec[i]]
  BY DEF RecoverBlocked
<1> HIDE DEF ready, stopped
<1> DEFINE s(i) == IF i \in again /\ rec[i].pr THEN "tracked" ELSE "queued"
<1>2. \A i \in Issue : rec'[i] = IF i \in ready \cup again THEN [rec[i] EXCEPT !.state = s(i)]
                                 ELSE rec[i]
  BY <1>1
<1>3. \A i \in Issue : s(i) \in RunState \ {"none"} /\ rec[i] \in Record
  BY DEF Inv, TypeOK, RunState
<1> HIDE DEF s
<1>4. \A i \in Issue : rec'[i] \in Record /\ (rec'[i].state = "none" => rec[i].state = "none")
  BY <1>2, <1>3 DEF Record
<1>5. rec' \in [Issue -> Record]
  BY <1>1, <1>4
<1>6. active' # None => rec'[active'].state # "none"
  BY <1>4 DEF Inv, TypeOK, RecoverBlocked
<1>7. Rest'
  BY Onwards DEF RecoverBlocked, GoTo, At, world, history, Early, Listing
<1>8. TypeOK'
  BY <1>5, <1>6 DEF Inv, TypeOK, RecoverBlocked, GoTo, world, history, bounds, Pcs
<1> QED BY <1>7, <1>8 DEF Inv

LEMMA ReserveNextKeeps ==
    ASSUME Inv, ReserveNext PROVE Inv'
<1>1. /\ rec' \in [Issue -> Record]
      /\ active' \in Issue \cup {None}
      /\ active' # None => rec'[active'].state # "none"
      /\ pc' \in {"resolve", "epics"} /\ UNCHANGED <<work, seen, targeted>>
  BY SelectionReserved DEF Inv, ReserveNext
<1>2. Rest'
  BY <1>1, Onwards DEF ReserveNext, At, world, history, Early, Listing
<1>3. TypeOK'
  BY <1>1 DEF Inv, TypeOK, ReserveNext, world, history, bounds, Pcs
<1> QED BY <1>2, <1>3 DEF Inv

LEMMA CloseEpicKeeps ==
    ASSUME Inv, CloseEpic PROVE Inv'
<1> DEFINE no == FALSE
<1>1. gh' \in [Issue -> GitHubIssue]
  <2>1. CASE UNCHANGED gh
    BY <2>1 DEF Inv, TypeOK
  <2>2. CASE gh' = [gh EXCEPT ![Epic].open = FALSE]
    <3>1. gh' = [gh EXCEPT ![Epic].open = no] /\ no \in BOOLEAN
      BY <2>2
    <3> HIDE DEF no
    <3> QED BY <3>1 DEF Inv, TypeOK, GitHubIssue
  <2> QED BY <2>1, <2>2 DEF CloseEpic
<1>2. pc' \in {"epicsSave", "resolve"} /\ UNCHANGED <<work, seen, targeted>>
  BY DEF CloseEpic, GoTo
<1>3. ClearNoted'
  BY <1>2 DEF ClearNoted
<1>4. AtWork' /\ DependentWaits'
  BY <1>2 DEF Inv, Rest, AtWork, DependentWaits, At, CloseEpic, file, Listing
<1>5. OneStart'
  BY <1>2 DEF Inv, Rest, AtWork, OneStart, CloseEpic, At, file, history, Listing
<1>6. TypeOK'
  BY <1>1, <1>2 DEF Inv, TypeOK, CloseEpic, file, history, bounds, Pcs
<1> QED BY <1>3, <1>4, <1>5, <1>6 DEF Inv, Rest

LEMMA SaveEpicKeeps ==
    ASSUME Inv, SaveEpic PROVE Inv'
<1>1. /\ rec' \in [Issue -> Record]
      /\ active' \in Issue \cup {None}
      /\ active' # None => rec'[active'].state # "none"
  BY StatesTyped DEF Inv, SaveEpic, Release, RunState
<1>2. Rest'
  BY Onwards DEF SaveEpic, GoTo, At, world, history, Early, Listing
<1>3. TypeOK'
  BY <1>1 DEF Inv, TypeOK, SaveEpic, GoTo, world, history, bounds, Pcs
<1> QED BY <1>2, <1>3 DEF Inv


-----------------------------------------------------------------------------
(* The issue. *)

\* Without a pull request nobody passes here but while a failure permits it.
LEMMA ResolveKeeps ==
    ASSUME Inv, Resolve PROVE Inv'
<1> DEFINE keep == active # None /\ (failure # "none" \/ isEligibleForSelection(rec[active]))
           i == IF keep THEN active ELSE Selected
<1>1. i \in Issue \cup {None}
  BY SelectedKnown DEF Inv, TypeOK
<1>2. PICK fresh \in BOOLEAN :
         IF i = None
         THEN active' = None /\ EndCycle /\ UNCHANGED rec
         ELSE IF ~rec[i].pr /\ ~canContinueActive(fresh)
         THEN PutBack(i, "queued")
         ELSE /\ Reserved(i)
              /\ work' = i
              /\ targeted' = (failure # "none" /\ active = i)
              /\ pc' = "fetch"
              /\ UNCHANGED <<seen, clear>>
  BY DEF Resolve
<1>3. UNCHANGED <<failure, cursor, world, inventory, starts, bounds>> /\ At("resolve")
  BY DEF Resolve
<1> HIDE DEF i
<1>4. CASE i = None
  <2>1. Rest' /\ clear' \in SUBSET Awaited /\ pc' = "idle"
        /\ work' = None /\ seen' = "free" /\ targeted' = FALSE
    BY <1>2, <1>3, <1>4, Ends
  <2>2. TypeOK'
    BY <1>2, <1>3, <1>4, <2>1 DEF Inv, TypeOK, world, bounds, Pcs, Body
  <2> QED BY <2>1, <2>2 DEF Inv
<1>5. CASE i # None /\ ~rec[i].pr /\ ~canContinueActive(fresh)
  <2>1. PutBack(i, "queued") /\ i \in Issue
    BY <1>1, <1>2, <1>5
  <2> QED BY <1>3, <2>1, PutBackKeeps DEF RunState
<1>6. CASE i # None /\ (rec[i].pr \/ canContinueActive(fresh))
  <2>1. /\ Reserved(i) /\ i \in Issue /\ work' = i /\ pc' = "fetch"
        /\ targeted' \in BOOLEAN /\ UNCHANGED <<seen, clear>>
    BY <1>1, <1>2, <1>6
  <2>2. /\ rec' \in [Issue -> Record] /\ active' = i
        /\ rec'[i].state # "none"
        /\ rec'[i].pr = rec[i].pr
    BY <2>1, ReservedKnown DEF Inv, TypeOK
  <2>3. TypeOK'
    BY <1>3, <2>1, <2>2 DEF Inv, TypeOK, world, bounds, Pcs
  <2>4. ClearNoted'
    BY <1>3, <2>1 DEF Inv, Rest, ClearNoted, Candidates, At, world
  <2>5. AtWork' /\ DependentWaits'
    BY <2>1 DEF AtWork, DependentWaits, At, Listing
  <2>6. OneStart'
    <3>1. failure = "transient" => rec[i].pr
      BY <1>6 DEF canContinueActive, canContinueBounded
    <3> QED BY <1>3, <2>1, <2>2, <3>1 DEF Inv, Rest, OneStart, At
  <2> QED BY <2>3, <2>4, <2>5, <2>6 DEF Inv, Rest
<1> QED BY <1>4, <1>5, <1>6

LEMMA FetchKeeps ==
    ASSUME Inv, Fetch PROVE Inv'
<1>1. work \in Issue
  BY DEF Inv, Rest, AtWork, Fetch, At
<1>2. ASSUME NEW s \in {"done", "requirements"}, PutBack(work, s) PROVE Inv'
  BY <1>1, <1>2, PutBackKeeps DEF Fetch, RunState
<1>3. CASE /\ seen' = gh[work].body /\ pc' = "order" /\ clear' = Awaited \ Candidates
           /\ UNCHANGED <<rec, active, work, targeted>>
  <2>1. gh[work].body \in Body
    BY <1>1 DEF Inv, TypeOK, GitHubIssue
  <2>2. TypeOK'
    BY <1>3, <2>1 DEF Inv, TypeOK, Fetch, world, bounds, Pcs
  <2>3. ClearNoted'
    BY <1>3 DEF Inv, Rest, ClearNoted, Candidates, At, world, Fetch
  <2>4. AtWork' /\ DependentWaits'
    BY <1>1, <1>3 DEF AtWork, DependentWaits, At, Listing
  <2>5. OneStart'
    BY <1>3 DEF Inv, Rest, OneStart, At, Fetch
  <2> QED BY <2>2, <2>3, <2>4, <2>5 DEF Inv, Rest
<1> QED BY <1>2, <1>3 DEF Fetch

\* Whichever check let the issue pass, none of those it waits for is a
\* candidate now.
LEMMA OrderHolds ==
    ASSUME Inv, NEW i \in Issue, NEW body \in {"depends", "order"},
           ~findBlockingIssue(i, body) \/ ~DegradedBlocks(i, body)
    PROVE  Before[i] \subseteq Awaited \ Candidates
<1>1. Before[i] \subseteq Awaited
  BY DEF Awaited
<1>2. CASE ~findBlockingIssue(i, body)
  BY <1>1, <1>2 DEF findBlockingIssue
<1>3. CASE ~DegradedBlocks(i, body)
  BY <1>1, <1>3 DEF DegradedBlocks, Candidates
<1> QED BY <1>2, <1>3

LEMMA CheckOrderKeeps ==
    ASSUME Inv, CheckOrder PROVE Inv'
<1>1. work \in Issue /\ At("order")
  BY DEF Inv, Rest, AtWork, CheckOrder, At
<1>2. ASSUME PutBack(work, "queued") PROVE Inv'
  BY <1>1, <1>2, PutBackKeeps DEF CheckOrder, RunState
<1>3. ASSUME ~DegradedBlocks(work, seen) \/ ~findBlockingIssue(work, seen),
             pc' = "begin", targeted' = FALSE, UNCHANGED <<rec, active, work, seen, clear>>
      PROVE  Inv'
  <2>1. TypeOK'
    BY <1>3 DEF Inv, TypeOK, CheckOrder, world, bounds, Pcs
  <2>2. Awaited \ Candidates \subseteq clear
    BY <1>1 DEF Inv, Rest, ClearNoted, At
  <2>3. ClearNoted'
    BY <1>3, <2>2 DEF ClearNoted, Candidates, CheckOrder, world
  <2>4. AtWork'
    BY <1>1, <1>3 DEF AtWork, Listing
  <2>5. OneStart'
    BY <1>1, <1>3 DEF Inv, Rest, OneStart, At, CheckOrder
  <2>6. DependentWaits'
    BY <1>1, <1>3, <2>2, OrderHolds DEF DependentWaits
  <2> QED BY <2>1, <2>3, <2>4, <2>5, <2>6 DEF Inv, Rest
<1> QED BY <1>2, <1>3 DEF CheckOrder

LEMMA BeginKeeps ==
    ASSUME Inv, Begin PROVE Inv'
<1> DEFINE yes == TRUE
           s == IF rec[work].state = "tracked" THEN "tracked" ELSE "running"
<1>1. work \in Issue /\ At("begin")
  BY DEF Inv, Rest, AtWork, Begin, At
<1>2. rec' = [rec EXCEPT ![work].state = s, ![work].tried = yes]
  BY <1>1 DEF Begin
<1>3. s \in RunState \ {"none"} /\ yes \in BOOLEAN
  BY DEF RunState
<1> HIDE DEF s, yes
<1>4. rec' \in [Issue -> Record] /\ \A i \in Issue : rec'[i].state \in {rec[i].state, s}
  BY <1>1, <1>2, <1>3 DEF Inv, TypeOK, Record
<1>5. active' # None => rec'[active'].state # "none"
  BY <1>3, <1>4 DEF Inv, TypeOK, Begin
<1>6. starts' \in 0..1 /\ (failure = "none" => starts' = 0)
  BY <1>1 DEF Inv, Rest, OneStart, Begin, At
<1>7. TypeOK'
  BY <1>4, <1>5, <1>6 DEF Inv, TypeOK, Begin, world, bounds, Pcs, Body
<1>8. AtWork' /\ ClearNoted' /\ DependentWaits'
  BY <1>1 DEF AtWork, ClearNoted, DependentWaits, At, Begin, Listing
<1>9. OneStart'
  BY <1>6 DEF OneStart, Begin
<1> QED BY <1>7, <1>8, <1>9 DEF Inv, Rest

LEMMA EndTurnKeeps ==
    ASSUME Inv, EndTurn PROVE Inv'
<1>1. work \in Issue
  BY DEF Inv, Rest, AtWork, EndTurn, At
<1>2. PICK s \in {"running", "tracked", "stopped"} :
         /\ rec' = [rec EXCEPT ![work].state = s, ![work].pr = @ \/ s = "tracked"]
         /\ active' \in {active, None}
  BY <1>1 DEF EndTurn
<1> DEFINE pulled == rec[work].pr \/ s = "tracked"
<1>3. rec[work] \in Record
  BY <1>1 DEF Inv, TypeOK
<1>4. rec' = [rec EXCEPT ![work].state = s, ![work].pr = pulled]
  BY <1>2, <1>3 DEF Record
<1>5. pulled \in BOOLEAN /\ s \in RunState \ {"none"}
  BY <1>3 DEF Record, RunState
<1> HIDE DEF pulled
<1>6. rec' \in [Issue -> Record] /\ \A i \in Issue : rec'[i].state \in {rec[i].state, s}
  BY <1>1, <1>4, <1>5 DEF Inv, TypeOK, Record
<1>7. active' \in Issue \cup {None} /\ (active' # None => rec'[active'].state # "none")
  BY <1>2, <1>5, <1>6 DEF Inv, TypeOK
<1>8. Rest' /\ clear' \in SUBSET Awaited /\ pc' = "idle"
      /\ work' = None /\ seen' = "free" /\ targeted' = FALSE
  BY Ends DEF EndTurn
<1>9. TypeOK'
  BY <1>6, <1>7, <1>8 DEF Inv, TypeOK, EndTurn, world, bounds, Pcs, Body
<1> QED BY <1>8, <1>9 DEF Inv

-----------------------------------------------------------------------------
(* The world. *)

LEMMA CrashKeeps ==
    ASSUME Inv, Crash PROVE Inv'
<1>1. Rest' /\ clear' \in SUBSET Awaited /\ pc' = "idle"
      /\ work' = None /\ seen' = "free" /\ targeted' = FALSE
  BY Ends DEF Crash, file
<1>2. faults' \in 0..MaxFaults
  BY SelectionAssumption DEF Inv, TypeOK, Crash
<1>3. TypeOK'
  BY <1>1, <1>2 DEF Inv, TypeOK, Crash, file, world, Pcs, Body
<1> QED BY <1>1, <1>3 DEF Inv

LEMMA ReadFailsKeeps ==
    ASSUME Inv, ReadFails PROVE Inv'
<1>1. Rest' /\ clear' \in SUBSET Awaited /\ pc' = "idle"
      /\ work' = None /\ seen' = "free" /\ targeted' = FALSE
  BY Ends DEF ReadFails, file
<1>2. faults' \in 0..MaxFaults
  BY SelectionAssumption DEF Inv, TypeOK, ReadFails
<1>3. TypeOK'
  BY <1>1, <1>2 DEF Inv, TypeOK, ReadFails, file, world, Pcs, Body
<1> QED BY <1>1, <1>3 DEF Inv

\* What people do is noted: what was clear stays so until the turn.
LEMMA NotedKeeps ==
    ASSUME Inv, Noted, UNCHANGED <<file, inventory, cycle, starts>>
    PROVE  Rest' /\ clear' \in SUBSET Awaited
<1>1. ClearNoted'
  BY DEF Noted, ClearNoted, cycle
<1>2. AtWork' /\ OneStart'
  BY DEF Inv, Rest, AtWork, OneStart, file, cycle
<1>3. DependentWaits'
  BY DEF Inv, Rest, DependentWaits, At, Noted, cycle
<1>4. clear' \in SUBSET Awaited
  BY DEF Inv, TypeOK, Noted
<1> QED BY <1>1, <1>2, <1>3, <1>4 DEF Rest

LEMMA HelpKeeps ==
    ASSUME Inv, NEW i \in Issue, Help(i) PROVE Inv'
<1>1. Rest' /\ clear' \in SUBSET Awaited
  BY NotedKeeps DEF Help
<1>2. helps' \in 0..MaxHelp
  BY SelectionAssumption DEF Inv, TypeOK, Help
<1>3. gh' \in [Issue -> GitHubIssue]
  <2>1. gh[i] \in GitHubIssue
    BY DEF Inv, TypeOK
  <2> DEFINE opened == ~gh[i].open
             label == ~gh[i].label
  <2>2. opened \in BOOLEAN /\ label \in BOOLEAN
    OBVIOUS
  <2>3. \/ \E body \in Body : gh' = [gh EXCEPT ![i].body = body]
        \/ gh' = [gh EXCEPT ![i].label = label]
        \/ gh' = [gh EXCEPT ![i].open = opened]
    BY DEF Help, Inv, TypeOK
  <2> HIDE DEF opened, label
  <2> QED BY <2>1, <2>2, <2>3 DEF Inv, TypeOK, GitHubIssue
<1>4. TypeOK'
  BY <1>1, <1>2, <1>3 DEF Inv, TypeOK, Help, file, cycle
<1> QED BY <1>1, <1>4 DEF Inv

LEMMA MergeKeeps ==
    ASSUME Inv, NEW i \in Issue, Merge(i) PROVE Inv'
<1>1. Rest' /\ clear' \in SUBSET Awaited
  BY NotedKeeps DEF Merge
<1>2. gh' \in [Issue -> GitHubIssue]
  <2> DEFINE no == FALSE
  <2>1. gh' = [gh EXCEPT ![i].open = no] /\ no \in BOOLEAN
    BY DEF Merge
  <2> HIDE DEF no
  <2> QED BY <2>1 DEF Inv, TypeOK, GitHubIssue
<1>3. TypeOK'
  BY <1>1, <1>2 DEF Inv, TypeOK, Merge, file, cycle, bounds
<1> QED BY <1>1, <1>3 DEF Inv

LEMMA StepKeeps ==
    ASSUME Inv, [Next]_vars PROVE Inv'
<1>1. ASSUME Supervisor PROVE Inv'
  BY <1>1, StartCycleKeeps, StaleReservationKeeps, RefreshKeeps, ReuseKeeps, ListingFailsKeeps,
     DegradedKeeps, BoundedSelectionKeeps, TrackedMergedKeeps, MergedClosuresKeeps,
     StaleDoneKeeps, RecoverBlockedKeeps, ReserveNextKeeps, CloseEpicKeeps, SaveEpicKeeps,
     ResolveKeeps, FetchKeeps, CheckOrderKeeps, BeginKeeps, EndTurnKeeps DEF Supervisor
<1>2. ASSUME Environment PROVE Inv'
  BY <1>2, CrashKeeps, ReadFailsKeeps, HelpKeeps, MergeKeeps DEF Environment
<1>3. ASSUME UNCHANGED vars PROVE Inv'
  <2>1. Rest'
    BY <1>3 DEF Inv, Rest, vars, file, world, cycle, history, ClearNoted, Candidates, AtWork,
                OneStart, DependentWaits, At
  <2>2. TypeOK'
    BY <1>3 DEF Inv, TypeOK, vars, file, world, cycle, history, bounds
  <2> QED BY <2>1, <2>2 DEF Inv
<1> QED BY <1>1, <1>2, <1>3 DEF Next

-----------------------------------------------------------------------------
LEMMA InvHolds == Spec => []Inv
<1>1. Inv /\ [Next]_vars => Inv'
  BY StepKeeps
<1> QED BY <1>1, InitInv, PTL DEF Spec

\* Records, reservation, cursor and inventory keep their types, and a
\* reservation always names a record (reserveRunnableIssueSelection).
THEOREM SelectionTypes == Spec => []TypeOK
<1>1. Inv => TypeOK
  BY DEF Inv
<1> QED BY <1>1, InvHolds, PTL

\* No agent starts on an issue before each one that it waits for was closed or
\* no candidate since it was read, by either check and whatever people do meanwhile
\* (findBlockingIssue, evaluateDegradedActiveIssueDependencies).
THEOREM DependentsWait == Spec => []DependentWaits
<1>1. Inv => DependentWaits
  BY DEF Inv, Rest
<1> QED BY <1>1, InvHolds, PTL

\* Transient failures let at most one issue without a pull request start
\* between two good listings (canContinueBoundedAfterInventoryRefreshFailure).
THEOREM BoundedStarts == Spec => []BoundedStart
<1>1. Inv => BoundedStart
  BY DEF Inv, Rest, OneStart, BoundedStart
<1> QED BY <1>1, InvHolds, PTL

\* The longest way from each place of a pass to its end.
Farthest == [idle |-> 0, turn |-> 1, begin |-> 2, order |-> 3, fetch |-> 4, resolve |-> 5,
             bounded |-> 6, epicsSave |-> 6, degraded |-> 7, epics |-> 7, reserve |-> 8,
             blocked |-> 9, staleDone |-> 10, closures |-> 11, trackedMerged |-> 12,
             list |-> 13, reservation |-> 14]

\* The issue that was reserved is given back and the pass begins again.
BeginsAgain == pc \in {"resolve", "fetch", "order"} /\ pc' = "reservation" /\ active' = None

\* A pass gets nearer to its end with every step, or starts over without a
\* reservation; nobody else writes the state file while it lasts.
Advances == Farthest[pc'] < Farthest[pc] \/ BeginsAgain \/ UNCHANGED <<file, cycle>>
PassAdvances == [][pc # "idle" => Advances]_vars

LEMMA PreludeAdvances ==
    StaleReservation \/ Refresh \/ Reuse \/ ListingFails \/ Degraded \/ BoundedSelection
        \/ TrackedMerged => Advances
<1> USE DEF At, GoTo
<1>1. StaleReservation => pc = "reservation" /\ pc' = "list"
  BY DEF StaleReservation
<1>2. Refresh \/ Reuse => pc = "list" /\ pc' = "trackedMerged"
  BY DEF Refresh, Reuse, Listed
<1>3. ListingFails => pc = "list" /\ pc' = "degraded"
  BY DEF ListingFails
<1>4. Degraded => pc = "degraded" /\ pc' = "bounded"
  BY DEF Degraded
<1>5. BoundedSelection => pc = "bounded" /\ pc' = "resolve"
  BY DEF BoundedSelection, ReserveSelection
<1>6. TrackedMerged => pc = "trackedMerged" /\ pc' \in {"resolve", "closures"}
  BY DEF TrackedMerged
<1>7. StaleReservation \/ Refresh \/ Reuse \/ ListingFails => Advances
  BY <1>1, <1>2, <1>3 DEF Advances, Farthest
<1>8. Degraded \/ BoundedSelection \/ TrackedMerged => Advances
  BY <1>4, <1>5, <1>6 DEF Advances, Farthest
<1> QED BY <1>7, <1>8

LEMMA RecoveriesAdvance ==
    MergedClosures \/ StaleDone \/ RecoverBlocked \/ ReserveNext \/ CloseEpic \/ SaveEpic => Advances
<1> USE DEF At, GoTo
<1>1. MergedClosures => pc = "closures" /\ pc' = "staleDone"
  BY DEF MergedClosures
<1>2. StaleDone => pc = "staleDone" /\ pc' = "blocked"
  BY DEF StaleDone
<1>3. RecoverBlocked => pc = "blocked" /\ pc' = "reserve"
  BY DEF RecoverBlocked
<1>4. ReserveNext => pc = "reserve" /\ pc' \in {"resolve", "epics"}
  BY DEF ReserveNext, ReserveSelection
<1>5. CloseEpic => pc = "epics" /\ pc' \in {"epicsSave", "resolve"}
  BY DEF CloseEpic
<1>6. SaveEpic => pc = "epicsSave" /\ pc' = "resolve"
  BY DEF SaveEpic
<1>7. MergedClosures \/ StaleDone \/ RecoverBlocked => Advances
  BY <1>1, <1>2, <1>3 DEF Advances, Farthest
<1>8. ReserveNext \/ CloseEpic \/ SaveEpic => Advances
  BY <1>4, <1>5, <1>6 DEF Advances, Farthest
<1> QED BY <1>7, <1>8

LEMMA ResolutionAdvances == Resolve \/ Fetch \/ CheckOrder \/ Begin \/ EndTurn => Advances
<1> USE DEF At, EndCycle, PutBack, Restart
<1>1. Resolve => \/ pc = "resolve" /\ pc' \in {"idle", "fetch"}
                 \/ BeginsAgain
  BY DEF Resolve, BeginsAgain
<1>2. Fetch => \/ pc = "fetch" /\ pc' = "order"
               \/ BeginsAgain
  BY DEF Fetch, BeginsAgain
<1>3. CheckOrder => \/ pc = "order" /\ pc' = "begin"
                    \/ BeginsAgain
  BY DEF CheckOrder, BeginsAgain
<1>4. Begin => pc = "begin" /\ pc' = "turn"
  BY DEF Begin
<1>5. EndTurn => pc = "turn" /\ pc' = "idle"
  BY DEF EndTurn
<1>6. Resolve \/ Fetch \/ CheckOrder => Advances
  BY <1>1, <1>2, <1>3 DEF Advances, Farthest
<1>7. Begin \/ EndTurn => Advances
  BY <1>4, <1>5 DEF Advances, Farthest
<1> QED BY <1>6, <1>7

\* For any issues, dependencies and limits a pass ends within fourteen steps of
\* its start or gives back the issue it reserved and starts over, whatever fails
\* or is edited on the way: no listing, recovery or check of it is repeated for
\* any other reason (supervisor-run-once-runtime.ts).
THEOREM PassesAdvance == Spec => PassAdvances
<1>1. TypeOK /\ [Next]_vars => [pc # "idle" => Advances]_vars
  <2> SUFFICES ASSUME TypeOK, [Next]_vars, pc # "idle" PROVE Advances
    OBVIOUS
  <2>1. CASE StartCycle
    BY <2>1 DEF StartCycle, At
  <2>2. CASE Crash \/ ReadFails
    <3>1. Farthest[pc] > 0
      BY DEF TypeOK, Pcs, Farthest
    <3>2. pc' = "idle" /\ Farthest["idle"] = 0
      BY <2>2 DEF Crash, ReadFails, EndCycle, Farthest
    <3>3. Farthest[pc'] < Farthest[pc]
      BY <3>1, <3>2
    <3> QED BY <3>3 DEF Advances
  <2>3. CASE (\E i \in Issue : Help(i) \/ Merge(i)) \/ UNCHANGED vars
    <3>1. CASE \E i \in Issue : Help(i) \/ Merge(i)
      BY <3>1 DEF Help, Merge, Advances
    <3>2. CASE UNCHANGED vars
      BY <3>2 DEF vars, Advances
    <3> QED BY <2>3, <3>1, <3>2
  <2>4. CASE Supervisor
    BY <2>1, <2>4, PreludeAdvances, RecoveriesAdvance, ResolutionAdvances DEF Supervisor
  <2>5. CASE Environment
    BY <2>2, <2>3, <2>5 DEF Environment
  <2> QED BY <2>3, <2>4, <2>5 DEF Next
<1> QED BY <1>1, SelectionTypes, PTL DEF Spec, PassAdvances
=============================================================================

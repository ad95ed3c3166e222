-------------------------- MODULE AgentTurnProofs ---------------------------
(* What a turn leaves behind and what it reports, for any set of processes   *)
(* and any number of turns.  The inductive invariant says which processes    *)
(* were born in which turn and which of them is the child of the last one.   *)
EXTENDS AgentTurn, TLAPS

\* A process belongs to a turn that has begun, and to none before its birth.
Born ==
    /\ \A p \in Process : of[p] <= turn
    /\ \A p \in alive \cup agents : of[p] # 0
    /\ child # None => child \in agents

\* A turn has one agent: the child of its call.
OneChild == \A p \in agents : of[p] = turn => p = child

\* A child with an exit code, or one that died of a signal, does not run.
ChildGone == code # "running" => child \notin alive

\* A result does not survive the supervisor that got it.
ResultLost == pc = "down" => result = None

\* A turn under way has a child of its own, in its group until it dies; and once
\* both timers are spent nobody is left in that group.
TurnChild ==
    pc = "pending" =>
        /\ child # None /\ of[child] = turn
        /\ code = "running" => child \in group
        /\ timer = "none" => \A p \in group : of[p] # turn

IInv == TypeOK /\ Born /\ OneChild /\ ChildGone /\ ResultLost
        /\ TurnChild /\ NoAgentOutlivesItsTurn /\ VerdictIsTrue

\* A turn under way waits for a timer, for the delivery of "close", or for a
\* process outside the group of its child that holds one of its outputs.
TurnGoesOn ==
    pc = "pending" => timer # "none" \/ Closed \/ \E p \in Holders(turn) : p \notin group

Outcomes == {"zero", "one", "timedOut", "failed"}

\* From the end of the child to the result: every outcome has its kinds, and
\* the two verdicts that matter are the ones the code's order of tests gives.
LEMMA OutcomeFacts ==
    ASSUME TypeOK, code # "running"
    PROVE  /\ TurnOutcome \in Outcomes
           /\ TurnOutcome = "zero" => code = "zero" /\ ~timedOut /\ ~(json /\ truncated)
           /\ timedOut <=> TurnOutcome = "timedOut"
<1>1. exitCode \in ExitCode /\ (exitCode = "zero" <=> code = "zero")
  BY DEF TypeOK, exitCode, ExitCode
<1>2. /\ CommandOutcome \in Outcomes
      /\ CommandOutcome = "zero" => exitCode = "zero" /\ ~timedOut
      /\ timedOut <=> CommandOutcome = "timedOut"
  BY <1>1 DEF CommandOutcome, Outcomes, ExitCode
<1> QED BY <1>1, <1>2 DEF TurnOutcome, Outcomes

LEMMA KindFacts ==
    ASSUME NEW outcome \in Outcomes, NEW kind \in FailureKinds(outcome)
    PROVE  /\ kind \in FailureKind
           /\ kind = "none" => outcome = "zero"
           /\ outcome = "timedOut" => kind = "timeout"
BY DEF Outcomes, FailureKinds, FailureKind

\* Every step that ends processes, and nothing else of what is running.
LEMMA DieFacts ==
    ASSUME TypeOK, NEW who, Die(who)
    PROVE  /\ alive' \subseteq alive /\ pipe' \subseteq pipe /\ of' = of
           /\ group' \subseteq alive' /\ pipe' \subseteq alive' /\ deaf' \subseteq alive'
           /\ alive' \cap who = {}
BY DEF TypeOK, Die

LEMMA InitInv == Init => IInv
<1> SUFFICES ASSUME Init PROVE IInv OBVIOUS
<1> USE TurnAssumption DEF Init
<1>1. TypeOK
  <2>1. json \in BOOLEAN /\ timedOut \in BOOLEAN /\ truncated \in BOOLEAN /\ untidy \in BOOLEAN
    OBVIOUS
  <2>2. of \in [Process -> 0..MaxTurns]
    OBVIOUS
  <2>3. code \in ExitCode \cup {"running", "signal"}
    BY DEF ExitCode
  <2>4. result \in [kind : FailureKind, structured : BOOLEAN] \cup {None}
    OBVIOUS
  <2> QED BY <2>1, <2>2, <2>3, <2>4 DEF TypeOK
<1>2. Born BY DEF Born
<1>3. OneChild /\ ChildGone BY DEF OneChild, ChildGone
<1>4. NoAgentOutlivesItsTurn /\ VerdictIsTrue BY DEF NoAgentOutlivesItsTurn, VerdictIsTrue
<1>5. ResultLost /\ TurnChild BY DEF ResultLost, TurnChild
<1> QED BY <1>1, <1>2, <1>3, <1>4, <1>5 DEF IInv

LEMMA TypeStep == TypeOK /\ [Next]_vars => TypeOK'
<1> SUFFICES ASSUME TypeOK, [Next]_vars PROVE TypeOK' OBVIOUS
<1> USE TurnAssumption DEF TypeOK, call, system
<1>1. ASSUME NEW p \in Process, Spawn(p) PROVE TypeOK'
  <2>1. of' \in [Process -> 0..MaxTurns] /\ turn' \in 0..MaxTurns
    BY <1>1 DEF Spawn
  <2>2. json' \in BOOLEAN /\ timedOut' \in BOOLEAN /\ truncated' \in BOOLEAN /\ untidy' \in BOOLEAN
    BY <1>1 DEF Spawn
  <2>3. alive' \subseteq Process /\ group' \subseteq alive' /\ pipe' \subseteq alive' /\ deaf' \subseteq alive'
    BY <1>1 DEF Spawn
  <2>4. agents' \subseteq Process /\ cut' \subseteq 0..MaxTurns /\ result' = None
    BY <1>1 DEF Spawn
  <2>5. /\ pc' \in {"down", "idle", "pending"} /\ child' \in Process \cup {None}
        /\ code' \in ExitCode \cup {"running", "signal"} /\ timer' \in {"none", "timeout", "kill"}
    BY <1>1 DEF Spawn
  <2> QED BY <2>1, <2>2, <2>3, <2>4, <2>5
<1>1a. [kind |-> "command_error", structured |-> FALSE] \in [kind : FailureKind, structured : BOOLEAN]
  <2> DEFINE no == FALSE
  <2>1. no \in BOOLEAN /\ "command_error" \in FailureKind
    BY DEF FailureKind
  <2> HIDE DEF no
  <2>2. [kind |-> "command_error", structured |-> no] \in [kind : FailureKind, structured : BOOLEAN]
    BY ONLY <2>1
  <2> QED BY <2>2 DEF no
<1>2. CASE SpawnFails
  <2>1. result' \in [kind : FailureKind, structured : BOOLEAN]
    BY <1>1a, <1>2 DEF SpawnFails
  <2>2. json' \in BOOLEAN /\ timedOut' \in BOOLEAN /\ truncated' \in BOOLEAN /\ untidy' \in BOOLEAN
    BY <1>2 DEF SpawnFails
  <2>3. /\ turn' \in 0..MaxTurns /\ child' = None /\ code' = "running"
        /\ UNCHANGED <<pc, timer, system, agents, cut>>
    BY <1>2 DEF SpawnFails
  <2> QED BY <2>1, <2>2, <2>3
<1>3. CASE TimeoutFires \/ KillFires
  <2>1. PICK who : DieOfSignal(who)
    BY <1>3 DEF TimeoutFires, KillFires
  <2>2. Die(who) /\ code' \in {"signal", code}
    BY <2>1 DEF DieOfSignal
  <2> QED BY <1>3, <2>2, DieFacts DEF TimeoutFires, KillFires
<1>4. CASE Close
  <2>1. PICK kind \in FailureKinds(TurnOutcome), parsed \in BOOLEAN :
           result' = [kind |-> kind, structured |-> parsed /\ kind = "none"]
    BY <1>4 DEF Close, Return
  <2>2. kind \in FailureKind
    BY <1>4, OutcomeFacts, KindFacts DEF Close, Closed
  <2> QED BY <1>4, <2>1, <2>2 DEF Close, Return
<1>4a. CASE TidyFails
  <2>1. result' \in [kind : FailureKind, structured : BOOLEAN]
    BY <1>1a, <1>4a DEF TidyFails
  <2>2. untidy' \in BOOLEAN
    BY <1>4a DEF TidyFails
  <2>3. /\ UNCHANGED <<turn, json, child, code, timedOut, truncated, system, agents, cut>>
        /\ timer' = "none" /\ pc' = "idle"
    BY <1>4a DEF TidyFails
  <2> QED BY <2>1, <2>2, <2>3
<1>5. CASE Crash
  BY <1>5 DEF Crash
<1>6. CASE Restart \/ Overflow
  BY <1>6 DEF Restart, Overflow
<1>7. ASSUME NEW p \in Process, LetGo(p) PROVE TypeOK'
  BY <1>7 DEF LetGo
<1>8. ASSUME NEW p \in Process, Exit(p) PROVE TypeOK'
  <2>1. Die({p})
    BY <1>8 DEF Exit
  <2> QED BY <1>8, <2>1, DieFacts DEF Exit
<1>9. ASSUME NEW p \in Process, NEW q \in Process, Fork(p, q) PROVE TypeOK'
  BY <1>9 DEF Fork
<1>10. CASE UNCHANGED vars
  BY <1>10 DEF vars
<1> QED
  BY <1>1, <1>2, <1>3, <1>4, <1>4a, <1>5, <1>6, <1>7, <1>8, <1>9, <1>10 DEF Next, Supervisor, Outside

\* The births: Born, OneChild and ChildGone are kept together.
LEMMA BirthStep ==
    TypeOK /\ Born /\ OneChild /\ ChildGone /\ [Next]_vars => Born' /\ OneChild' /\ ChildGone'
<1> SUFFICES ASSUME TypeOK, Born, OneChild, ChildGone, [Next]_vars
             PROVE  Born' /\ OneChild' /\ ChildGone'
  OBVIOUS
<1> USE TurnAssumption DEF Born, OneChild, ChildGone
<1>1. ASSUME NEW p \in Process, Spawn(p) PROVE Born' /\ OneChild' /\ ChildGone'
  BY <1>1 DEF Spawn, TypeOK
<1>2. CASE SpawnFails
  BY <1>2 DEF SpawnFails, system, TypeOK
<1>3. CASE TimeoutFires \/ KillFires
  <2>1. PICK who : DieOfSignal(who)
    BY <1>3 DEF TimeoutFires, KillFires
  <2>2. Die(who) /\ code' = IF child \in who THEN "signal" ELSE code
    BY <2>1 DEF DieOfSignal
  <2>3. UNCHANGED <<turn, child, agents>>
    BY <1>3 DEF TimeoutFires, KillFires
  <2> QED BY <2>2, <2>3, DieFacts
<1>4. CASE Close \/ TidyFails \/ Crash \/ Restart \/ Overflow
  BY <1>4 DEF Close, TidyFails, Crash, Restart, Overflow, call, system
<1>5. ASSUME NEW p \in Process, LetGo(p) PROVE Born' /\ OneChild' /\ ChildGone'
  BY <1>5 DEF LetGo, call
<1>6. ASSUME NEW p \in Process, Exit(p) PROVE Born' /\ OneChild' /\ ChildGone'
  <2>1. Die({p}) /\ UNCHANGED <<turn, child, agents>> /\ (p # child => code' = code)
    BY <1>6 DEF Exit
  <2> QED BY <2>1, DieFacts
<1>7. ASSUME NEW p \in Process, NEW q \in Process, Fork(p, q) PROVE Born' /\ OneChild' /\ ChildGone'
  <2>1. of' = [of EXCEPT ![q] = of[p]] /\ alive' = alive \cup {q} /\ of[q] = 0 /\ p \in alive
    BY <1>7 DEF Fork
  <2>2. UNCHANGED <<turn, child, code, agents>>
    BY <1>7 DEF Fork, call
  <2>3. q \notin agents /\ q # child
    BY <2>1
  <2>4. \A r \in Process : of'[r] = IF r = q THEN of[p] ELSE of[r]
    BY <2>1 DEF TypeOK
  <2>5. p \in Process /\ agents \subseteq Process /\ alive \subseteq Process
    BY <2>1 DEF TypeOK
  <2> QED BY <2>1, <2>2, <2>3, <2>4, <2>5
<1>8. CASE UNCHANGED vars
  BY <1>8 DEF vars, call, system
<1> QED BY <1>1, <1>2, <1>3, <1>4, <1>5, <1>6, <1>7, <1>8 DEF Next, Supervisor, Outside

LEMMA OutliveStep ==
    TypeOK /\ Born /\ OneChild /\ ChildGone /\ NoAgentOutlivesItsTurn /\ [Next]_vars
        => NoAgentOutlivesItsTurn'
<1> SUFFICES ASSUME TypeOK, Born, OneChild, ChildGone, NoAgentOutlivesItsTurn, [Next]_vars
             PROVE  NoAgentOutlivesItsTurn'
  OBVIOUS
<1> USE TurnAssumption DEF NoAgentOutlivesItsTurn, Finished
<1>1. ASSUME NEW p \in Process, Spawn(p) PROVE NoAgentOutlivesItsTurn'
  <2> SUFFICES ASSUME NEW r \in alive', of'[r] < turn', r \in agents' \/ r \in pipe'
               PROVE  of'[r] \in cut'
    BY <1>1 DEF Spawn
  <2>1. r # p
    BY <1>1 DEF Spawn, TypeOK
  <2>2. r \in alive /\ (r \in agents \/ r \in pipe) /\ of'[r] = of[r] /\ cut' = cut /\ pc = "idle"
    BY <1>1, <2>1 DEF Spawn, TypeOK
  <2> QED BY <2>2
<1>2. CASE SpawnFails
  BY <1>2 DEF SpawnFails, system
\* Who dies is of no account; the others are as they were.
<1>3. ASSUME UNCHANGED <<pc, turn, agents, cut, of>>, alive' \subseteq alive, pipe' \subseteq pipe
      PROVE  NoAgentOutlivesItsTurn'
  BY <1>3
<1>4. CASE TimeoutFires \/ KillFires
  <2>1. PICK who : DieOfSignal(who)
    BY <1>4 DEF TimeoutFires, KillFires
  <2>2. Die(who)
    BY <2>1 DEF DieOfSignal
  <2>3. UNCHANGED <<pc, turn, agents, cut>>
    BY <1>4 DEF TimeoutFires, KillFires
  <2> QED BY <1>3, <2>2, <2>3, DieFacts
\* The turn that ends has no holder of its pipes left, and its child is gone.
<1>5. CASE Close \/ TidyFails
  <2> SUFFICES ASSUME NEW r \in alive, of[r] = turn PROVE r \notin agents /\ r \notin pipe
    BY <1>5 DEF Close, TidyFails, Return, system, Born, TypeOK
  <2>1. child \notin alive /\ Holders(turn) = {}
    BY <1>5 DEF Close, TidyFails, Closed, ChildGone
  <2>2. r \notin agents
    BY <2>1 DEF OneChild
  <2> QED BY <2>1, <2>2 DEF Holders
<1>6. CASE Crash
  <2>1. CASE pc = "pending"
    <3>1. \A r \in alive : of[r] < turn \/ of[r] = turn
      BY DEF Born, TypeOK
    <3> QED BY <1>6, <2>1, <3>1 DEF Crash, system
  <2>2. CASE pc # "pending"
    BY <1>6, <2>2 DEF Crash, system
  <2> QED BY <2>1, <2>2
<1>7. CASE Restart \/ Overflow
  BY <1>7 DEF Restart, Overflow, call, system
<1>8. ASSUME NEW p \in Process, LetGo(p) PROVE NoAgentOutlivesItsTurn'
  BY <1>3, <1>8 DEF LetGo
<1>9. ASSUME NEW p \in Process, Exit(p) PROVE NoAgentOutlivesItsTurn'
  BY <1>3, <1>9, DieFacts DEF Exit
\* A newborn process is no agent and holds a pipe only if its parent does.
<1>10. ASSUME NEW p \in Process, NEW q \in Process, Fork(p, q) PROVE NoAgentOutlivesItsTurn'
  <2>1. /\ of' = [of EXCEPT ![q] = of[p]] /\ alive' = alive \cup {q} /\ of[q] = 0 /\ p \in alive
        /\ UNCHANGED <<pc, turn, agents, cut>>
        /\ pipe' = pipe \/ (p \in pipe /\ pipe' = pipe \cup {q})
    BY <1>10 DEF Fork
  <2>2. q \notin agents
    BY <2>1 DEF Born
  <2>3. \A r \in Process : of'[r] = IF r = q THEN of[p] ELSE of[r]
    BY <2>1 DEF TypeOK
  <2>4. pipe \subseteq alive /\ alive \subseteq Process /\ q \notin alive
    BY <2>1 DEF TypeOK, Born
  <2> QED BY <2>1, <2>2, <2>3, <2>4
<1>11. CASE UNCHANGED vars
  BY <1>11 DEF vars, system
<1> QED
  BY <1>1, <1>2, <1>4, <1>5, <1>6, <1>7, <1>8, <1>9, <1>10, <1>11 DEF Next, Supervisor, Outside

LEMMA VerdictStep ==
    TypeOK /\ ChildGone /\ ResultLost /\ VerdictIsTrue /\ [Next]_vars => VerdictIsTrue'
<1> SUFFICES ASSUME TypeOK, ChildGone, ResultLost, VerdictIsTrue, [Next]_vars PROVE VerdictIsTrue' OBVIOUS
<1> USE TurnAssumption DEF VerdictIsTrue
<1>1. ASSUME NEW p \in Process, Spawn(p) PROVE VerdictIsTrue'
  BY <1>1 DEF Spawn
<1>2. CASE SpawnFails
  <2>1. result'.kind = "command_error" /\ ~timedOut'
    BY <1>2 DEF SpawnFails
  <2> QED BY <2>1
<1>3. CASE TimeoutFires \/ KillFires \/ Overflow
  BY <1>3 DEF TimeoutFires, KillFires, Overflow
<1>4. CASE Close
  <2>1. PICK kind \in FailureKinds(TurnOutcome), parsed \in BOOLEAN :
           result' = [kind |-> kind, structured |-> parsed /\ kind = "none"]
    BY <1>4 DEF Close, Return
  <2>2. result'.kind = kind
    BY <2>1
  <2>3. UNCHANGED <<code, timedOut, json, truncated>> /\ code # "running"
    BY <1>4 DEF Close, Closed
  <2>4. TurnOutcome \in Outcomes
    BY <2>3, OutcomeFacts
  <2>5. kind = "none" => TurnOutcome = "zero"
    BY <2>4, KindFacts
  <2>6. TurnOutcome = "timedOut" => kind = "timeout"
    BY <2>4, KindFacts
  <2>7. kind = "none" => code = "zero" /\ ~timedOut /\ ~(json /\ truncated)
    BY <2>3, <2>5, OutcomeFacts
  <2>8. timedOut => kind = "timeout"
    BY <2>3, <2>6, OutcomeFacts
  <2> QED BY <2>2, <2>3, <2>7, <2>8
<1>4a. CASE TidyFails
  <2>1. result'.kind = "command_error" /\ untidy'
    BY <1>4a DEF TidyFails
  <2> QED BY <2>1
<1>5. CASE Crash \/ Restart
  <2>1. CASE Crash
    BY <2>1 DEF Crash
  <2>2. CASE Restart
    BY <2>2 DEF Restart, ResultLost, call
  <2> QED BY <1>5, <2>1, <2>2
<1>6. ASSUME NEW p \in Process, LetGo(p) PROVE VerdictIsTrue'
  BY <1>6 DEF LetGo, call
<1>7. ASSUME NEW p \in Process, Exit(p) PROVE VerdictIsTrue'
  <2>1. UNCHANGED <<pc, json, timedOut, truncated, result, untidy>>
    BY <1>7 DEF Exit
  <2>2. code = "zero" => code' = code
    BY <1>7 DEF Exit, ChildGone
  <2> QED BY <2>1, <2>2
<1>8. ASSUME NEW p \in Process, NEW q \in Process, Fork(p, q) PROVE VerdictIsTrue'
  BY <1>8 DEF Fork, call
<1>9. CASE UNCHANGED vars
  BY <1>9 DEF vars, call
<1> QED BY <1>1, <1>2, <1>3, <1>4, <1>4a, <1>5, <1>6, <1>7, <1>8, <1>9 DEF Next, Supervisor, Outside

LEMMA LostStep == ResultLost /\ [Next]_vars => ResultLost'
BY DEF ResultLost, Next, Supervisor, Outside, Spawn, SpawnFails, TimeoutFires, KillFires, Close, TidyFails, Return,
       Crash, Restart, Overflow, LetGo, Exit, Fork, call, vars

LEMMA ChildStep ==
    TypeOK /\ Born /\ TurnChild /\ [Next]_vars => TurnChild'
<1> SUFFICES ASSUME TypeOK, Born, TurnChild, [Next]_vars, pc' = "pending"
             PROVE  /\ child' # None /\ of'[child'] = turn'
                    /\ code' = "running" => child' \in group'
                    /\ timer' = "none" => \A p \in group' : of'[p] # turn'
  BY DEF TurnChild
<1> USE TurnAssumption DEF TurnChild
<1>1. ASSUME NEW p \in Process, Spawn(p) PROVE TurnChild'
  BY <1>1 DEF Spawn, TypeOK
<1>2. CASE SpawnFails \/ Close \/ TidyFails \/ Restart \/ Crash
  BY <1>2 DEF SpawnFails, Close, TidyFails, Return, Restart, Crash
\* SIGTERM: a child that dies of it leaves the group with an end of its own.
<1>3. CASE TimeoutFires
  <2>1. DieOfSignal(Signalled(FALSE)) /\ UNCHANGED <<pc, turn, child>> /\ timer' = "kill"
    BY <1>3 DEF TimeoutFires
  <2> QED BY <2>1 DEF DieOfSignal, Die
\* SIGKILL: nobody of the group is left, the child included.
<1>4. CASE KillFires
  <2>1. DieOfSignal(Signalled(TRUE)) /\ UNCHANGED <<pc, turn, child>>
    BY <1>4 DEF KillFires
  <2>2. \A p \in group' : of'[p] # turn'
    BY <2>1 DEF DieOfSignal, Die, Signalled
  <2> QED BY <2>1, <2>2 DEF DieOfSignal, Die
<1>5. CASE Overflow
  BY <1>5 DEF Overflow, system
<1>6. ASSUME NEW p \in Process, LetGo(p) PROVE TurnChild'
  BY <1>6 DEF LetGo, call
<1>7. ASSUME NEW p \in Process, Exit(p) PROVE TurnChild'
  <2>1. Die({p}) /\ UNCHANGED <<pc, turn, child, timer>>
    BY <1>7 DEF Exit
  <2>2. IF p = child THEN code' # "running" ELSE code' = code
    BY <1>7 DEF Exit, ExitCode
  <2> QED BY <2>1, <2>2 DEF Die
\* Only a member of the group gives birth to another, and it shares its turn.
<1>8. ASSUME NEW p \in Process, NEW q \in Process, Fork(p, q) PROVE TurnChild'
  <2>1. /\ of' = [of EXCEPT ![q] = of[p]] /\ of[q] = 0
        /\ group' = group \/ (p \in group /\ group' = group \cup {q})
    BY <1>8 DEF Fork
  <2>2. UNCHANGED <<pc, turn, child, code, timer>>
    BY <1>8 DEF Fork, call
  <2>3. \A r \in Process : of'[r] = IF r = q THEN of[p] ELSE of[r]
    BY <2>1 DEF TypeOK
  <2>4. q \notin group /\ group \subseteq Process
    BY <2>1 DEF TypeOK, Born
  <2>5. pc = "pending" => of'[child] = of[child]
    BY <2>1, <2>3 DEF TypeOK, Born
  <2>6. timer = "none" /\ pc = "pending" => \A r \in group' : of'[r] # turn
    BY <2>1, <2>3, <2>4
  <2> QED BY <2>1, <2>2, <2>5, <2>6
<1>9. CASE UNCHANGED vars
  BY <1>9 DEF vars, call, system
<1> QED BY <1>1, <1>2, <1>3, <1>4, <1>5, <1>6, <1>7, <1>8, <1>9 DEF Next, Supervisor, Outside

\* The inductive invariant holds in every reachable state.
THEOREM TurnInductive == Spec => []IInv
<1>1. IInv /\ [Next]_vars => IInv'
  BY TypeStep, BirthStep, LostStep, OutliveStep, VerdictStep, ChildStep DEF IInv
<1> QED BY InitInv, <1>1, PTL DEF Spec

\* Type correctness: what a turn returns is one of the failure kinds of the
\* contract, and the processes that hold a pipe or are in a group are alive.
THEOREM TurnTypes == Spec => []TypeOK
<1>1. IInv => TypeOK BY DEF IInv
<1> QED BY TurnInductive, <1>1, PTL

\* Whatever an agent starts, for any number of processes and turns: when a turn
\* is over, its agent and all that hold its outputs are gone, unless the
\* supervisor died during that turn (core/command.ts:191, 288).
THEOREM AgentsEndWithTheirTurn == Spec => []NoAgentOutlivesItsTurn
<1>1. IInv => NoAgentOutlivesItsTurn BY DEF IInv
<1> QED BY TurnInductive, <1>1, PTL

\* A turn without a failure ended with 0, in time and with its output whole,
\* and a timeout that fired is reported as one (executor-runner.ts:318) unless the
\* clean-up failed (codex-runner.ts:100).
THEOREM VerdictsAreTrue == Spec => []VerdictIsTrue
<1>1. IInv => VerdictIsTrue BY DEF IInv
<1> QED BY TurnInductive, <1>1, PTL

\* The safety side of TurnReturns, for any agent and any number of helpers: both
\* timers are never spent on a turn whose end still depends on somebody they
\* could have reached (core/command.ts:245-285).
THEOREM TurnsGoOn == Spec => []TurnGoesOn
<1>1. ASSUME IInv, pc = "pending", timer = "none" PROVE Closed \/ \E p \in Holders(turn) : p \notin group
  <2>1. \A p \in group : of[p] # turn
    BY <1>1 DEF IInv, TurnChild
  <2>2. code # "running"
    BY <1>1, <2>1 DEF IInv, TurnChild
  <2> QED BY <2>1, <2>2 DEF Closed, Holders
<1>2. IInv => TurnGoesOn BY <1>1 DEF TurnGoesOn
<1> QED BY TurnInductive, <1>2, PTL
=============================================================================

------------------------------ MODULE AgentTurn ------------------------------
(***************************************************************************)
(* The agent of a turn as a child process: runCommand of                   *)
(* src/core/command.ts and the layers that turn its outcome into the       *)
(* result of AgentRunner.runTurn, for the turns of one worktree one after  *)
(* another.                                                                *)
(*                                                                         *)
(* The child leads a process group of its own.  What it starts may leave   *)
(* the group, let go of the two output pipes or ignore SIGTERM, and a      *)
(* turn's processes outlive a supervisor that dies.  The call settles on   *)
(* "close": the child has exited and nobody holds its pipes.               *)
(***************************************************************************)
EXTENDS Naturals

CONSTANTS Process,     \* every process a turn may ever start
          None,
          MaxTurns     \* bound: turns started in the worktree

ASSUME TurnAssumption == None \notin Process /\ MaxTurns \in Nat

VARIABLES pc,          \* the supervisor: down, between two turns, or in one
          turn,        \* the number of the last turn
          json,        \* it parses standard output (Claude Code, OpenCode)
          child,       \* its child process
          code,        \* how the child ended, "running" until it has
          timer,       \* the timer of runCommand that is set
          timedOut,    \* the local of runCommand
          truncated,   \* stdoutBuffer.truncated
          result,      \* the AgentTurnResult of the last turn
          untidy,      \* history: its temporary directory could not be removed
          alive,       \* processes that run
          of,          \* the turn a process belongs to, 0 before it is born
          group,       \* ... those in the process group of its child
          pipe,        \* ... those that hold one of its output pipes
          deaf,        \* ... those that ignore SIGTERM, or take their time
          agents,      \* history: processes that were a turn's child
          cut          \* history: turns during which the supervisor died

call == <<json, child, code, timer, timedOut, truncated, result, untidy>>
system == <<alive, of, group, pipe, deaf>>
vars == <<pc, turn, call, system, agents, cut>>

ExitCode == {"zero", "one", "more"}
FailureKind == {"none", "timeout", "command_error", "codex_exit"}

TypeOK ==
    /\ pc \in {"down", "idle", "pending"}
    /\ turn \in 0..MaxTurns
    /\ json \in BOOLEAN
    /\ child \in Process \cup {None}
    /\ code \in ExitCode \cup {"running", "signal"}
    /\ timer \in {"none", "timeout", "kill"}
    /\ timedOut \in BOOLEAN
    /\ truncated \in BOOLEAN
    /\ result \in [kind : FailureKind, structured : BOOLEAN] \cup {None}
    /\ untidy \in BOOLEAN
    /\ of \in [Process -> 0..MaxTurns]
    /\ group \subseteq alive
    /\ pipe \subseteq alive
    /\ deaf \subseteq alive
    /\ alive \subseteq Process
    /\ agents \subseteq Process
    /\ cut \subseteq 0..MaxTurns

Init ==
    /\ pc = "idle"
    /\ turn = 0
    /\ json \in BOOLEAN
    /\ child = None
    /\ code = "zero"
    /\ timer = "none"
    /\ timedOut = FALSE
    /\ truncated = FALSE
    /\ result = None
    /\ untidy = FALSE
    /\ alive = {}
    /\ of = [p \in Process |-> 0]
    /\ group = {}
    /\ pipe = {}
    /\ deaf = {}
    /\ agents = {}
    /\ cut = {}
-----------------------------------------------------------------------------
\* From the end of the child to the result of the turn.

\* A child that died of a signal has no exit code: `code ?? 1`.
exitCode == IF code = "signal" THEN "one" ELSE code

\* Mutant: the exit code is looked at before the timeout.
ExitCodeFirst ==
    IF exitCode \in {"zero", "one"} THEN exitCode ELSE IF timedOut THEN "timedOut" ELSE "failed"

\* What runCommand settles with at "close", under allowExitCodes [0, 1].
CommandOutcome ==
    IF timedOut THEN "timedOut" ELSE IF exitCode \notin {"zero", "one"} THEN "failed" ELSE exitCode

\* Mutant: the result is taken from what is left of the output.
TruncationIgnored == CommandOutcome

\* Truncated JSON output is no success; Codex leaves its last message in a file.
TurnOutcome ==
    IF json /\ truncated /\ CommandOutcome = "zero" THEN "one" ELSE CommandOutcome

\* Mutant: the error is passed on as it is.
Unclassified(outcome) == {outcome}

\* failureKind.  An error that does not say it timed out is classified by its
\* text, which quotes what the child wrote to stderr.
FailureKinds(outcome) ==
    CASE outcome = "zero" -> {"none"}
      [] outcome = "one" -> {IF json THEN "command_error" ELSE "codex_exit"}
      [] outcome = "timedOut" -> {"timeout"}
      [] outcome = "failed" -> {"command_error", "timeout"}

\* runTurn returns: both timers are cleared, the parser finds a footer or not.
Return(outcome) ==
    /\ \E kind \in FailureKinds(outcome), parsed \in BOOLEAN :
          result' = [kind |-> kind, structured |-> parsed /\ kind = "none"]
    /\ timer' = "none"
    /\ pc' = "idle"
-----------------------------------------------------------------------------
\* The supervisor.

\* runCommand starts the child in the worktree and sets the timeout.
Spawn(p) ==
    /\ pc = "idle"
    /\ turn < MaxTurns
    /\ of[p] = 0
    /\ turn' = turn + 1
    /\ of' = [of EXCEPT ![p] = turn + 1]
    /\ alive' = alive \cup {p}
    /\ group' = group \cup {p}
    /\ pipe' = pipe \cup {p}
    /\ deaf' \in {deaf, deaf \cup {p}}
    /\ agents' = agents \cup {p}
    /\ child' = p
    /\ code' = "running"
    /\ timer' = "timeout"
    /\ timedOut' = FALSE
    /\ truncated' = FALSE
    /\ result' = None
    /\ untidy' = FALSE
    /\ pc' = "pending"
    /\ UNCHANGED <<json, cut>>

\* There is no child: the temporary directory or the spawn fails ("error").
SpawnFails ==
    /\ pc = "idle"
    /\ turn < MaxTurns
    /\ turn' = turn + 1
    /\ child' = None
    /\ code' = "running"
    /\ timedOut' = FALSE
    /\ truncated' = FALSE
    /\ result' = [kind |-> "command_error", structured |-> FALSE]
    /\ untidy' = FALSE
    /\ UNCHANGED <<pc, json, timer, system, agents, cut>>

\* Mutant: the signal goes to the child alone.
ChildOnly(deadly) == {p \in alive : p = child /\ (deadly \/ p \notin deaf)}

\* process.kill(-pid, signal): who in the group of the child dies of it.
Signalled(deadly) == {p \in group : of[p] = turn /\ (deadly \/ p \notin deaf)}

Die(who) ==
    /\ alive' = alive \ who
    /\ group' = group \ who
    /\ pipe' = pipe \ who
    /\ deaf' = deaf \ who
    /\ UNCHANGED of

DieOfSignal(who) ==
    /\ Die(who)
    /\ code' = IF child \in who THEN "signal" ELSE code

\* The timeout of runCommand: SIGTERM now, SIGKILL five seconds later.
TimeoutFires ==
    /\ pc = "pending"
    /\ timer = "timeout"
    /\ timedOut' = TRUE
    /\ timer' = "kill"
    /\ DieOfSignal(Signalled(FALSE))
    /\ UNCHANGED <<pc, turn, json, child, truncated, result, untidy, agents, cut>>

KillFires ==
    /\ pc = "pending"
    /\ timer = "kill"
    /\ timer' = "none"
    /\ DieOfSignal(Signalled(TRUE))
    /\ UNCHANGED <<pc, turn, json, child, timedOut, truncated, result, untidy, agents, cut>>

Holders(t) == {p \in pipe : of[p] = t}

\* Mutant: the call settles on "exit".
Exited == code # "running"

\* Node emits "close" when the child has exited and its pipes have ended.
Closed == code # "running" /\ Holders(turn) = {}

Close ==
    /\ pc = "pending"
    /\ Closed
    /\ Return(TurnOutcome)
    /\ UNCHANGED <<turn, json, child, code, timedOut, truncated, untidy, system, agents, cut>>

\* runCodexTurn removes its temporary directory in a `finally`: an error there
\* takes the place of whatever the turn came to.
TidyFails ==
    /\ pc = "pending"
    /\ Closed
    /\ ~json
    /\ result' = [kind |-> "command_error", structured |-> FALSE]
    /\ untidy' = TRUE
    /\ timer' = "none"
    /\ pc' = "idle"
    /\ UNCHANGED <<turn, json, child, code, timedOut, truncated, system, agents, cut>>

\* The supervisor dies, and its timers with it; the processes of a turn live on.
Crash ==
    /\ pc # "down"
    /\ pc' = "down"
    /\ cut' = IF pc = "pending" THEN cut \cup {turn} ELSE cut
    /\ timer' = "none"
    /\ result' = None
    /\ UNCHANGED <<turn, json, child, code, timedOut, truncated, untidy, system, agents>>

Restart ==
    /\ pc = "down"
    /\ pc' = "idle"
    /\ UNCHANGED <<turn, call, system, agents, cut>>
-----------------------------------------------------------------------------
\* The processes of the turns.

\* p starts q, which inherits its ends of the pipes and its process group, or
\* is born without the ones or outside the other.
Fork(p, q) ==
    /\ p \in alive
    /\ of[q] = 0
    /\ of' = [of EXCEPT ![q] = of[p]]
    /\ alive' = alive \cup {q}
    /\ UNCHANGED group \/ (p \in group /\ group' = group \cup {q})
    /\ UNCHANGED pipe \/ (p \in pipe /\ pipe' = pipe \cup {q})
    /\ deaf' \in {deaf, deaf \cup {q}}
    /\ UNCHANGED <<pc, turn, call, agents, cut>>

\* A process closes or redirects its outputs.
LetGo(p) ==
    /\ p \in pipe
    /\ pipe' = pipe \ {p}
    /\ UNCHANGED <<pc, turn, call, alive, of, group, deaf, agents, cut>>

\* A process ends, of itself or by a signal from elsewhere.
Exit(p) ==
    /\ p \in alive
    /\ Die({p})
    /\ IF p = child THEN code' \in ExitCode \cup {"signal"} ELSE UNCHANGED code
    /\ UNCHANGED <<pc, turn, json, child, timer, timedOut, truncated, result, untidy, agents, cut>>

\* More output than the buffer of runCommand keeps.
Overflow ==
    /\ pc = "pending"
    /\ Holders(turn) # {}
    /\ truncated' = TRUE
    /\ UNCHANGED <<pc, turn, json, child, code, timer, timedOut, result, untidy, system, agents, cut>>

Supervisor == (\E p \in Process : Spawn(p)) \/ SpawnFails \/ TimeoutFires \/ KillFires
              \/ Close \/ TidyFails

Outside == \/ Crash \/ Restart \/ Overflow
           \/ \E p \in Process : LetGo(p) \/ Exit(p) \/ \E q \in Process : Fork(p, q)

Next == Supervisor \/ Outside

Spec == Init /\ [][Next]_vars

\* The event loop runs a due timer and delivers "close"; an agent owes nothing.
FairSpec == Spec /\ WF_vars(TimeoutFires) /\ WF_vars(KillFires) /\ WF_vars(Close)
-----------------------------------------------------------------------------
Finished(t) == t < turn \/ pc # "pending"

\* The agent, and every process that still holds an output of its turn, is gone
\* when the turn is over, unless the supervisor died during that turn: the next
\* turn then starts beside it, in the same worktree (core/command.ts:191, 288).
NoAgentOutlivesItsTurn ==
    \A p \in alive : Finished(of[p]) /\ (p \in agents \/ p \in pipe) => of[p] \in cut

\* A turn without a failure is one whose agent exited with 0 before the timeout
\* fired and whose output is whole where it is parsed; and a timeout that fired
\* is reported as one, however the child ended (executor-runner.ts:318), unless
\* the error of the clean-up took its place (codex-runner.ts:100).
VerdictIsTrue ==
    pc = "idle" /\ result # None =>
        /\ result.kind = "none" => code = "zero" /\ ~timedOut /\ ~(json /\ truncated)
        /\ timedOut /\ ~untidy => result.kind = "timeout"

\* A turn ends, whatever the agent does, unless a process that left the group
\* keeps a pipe open for ever: the two signals reach everybody else
\* (core/command.ts:245).
TurnReturns == []<>(pc # "pending") \/ <>[](\E p \in Holders(turn) : p \notin group)
=============================================================================

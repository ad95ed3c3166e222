------------------------------ MODULE TurnLedger ------------------------------
(***************************************************************************)
(* What the cycles promise about the agent: it works on the reserved issue *)
(* and on no other, and a turn that dies without a trace is a debt.  Until *)
(* the debt is put before the operator, or the issue is taken out of the   *)
(* loop for another reason, the reservation stays where it is and no agent *)
(* starts anywhere.  The alarm is only raised for a debt, and the cycle    *)
(* that raises it starts nothing itself.                                   *)
(***************************************************************************)
CONSTANTS Issue, None

VARIABLES holder,  \* the reserved issue
          phase,   \* whether its agent rests, is in a turn, or was lost in one
          alarm    \* this cycle has reported a loss

Init == holder = None /\ phase = "rest" /\ alarm = FALSE

\* The alarm ends with its cycle.
Quiet == alarm' = alarm \/ alarm' = FALSE

Reserve ==
    /\ holder = None /\ phase = "rest" /\ ~alarm
    /\ holder' \in Issue
    /\ UNCHANGED <<phase, alarm>>

Start ==
    /\ holder # None /\ phase = "rest" /\ ~alarm
    /\ phase' = "turn"
    /\ UNCHANGED <<holder, alarm>>

\* A turn ends with its outcome saved or its journal written, a cycle in any way.
End ==
    /\ phase \in {"turn", "rest"}
    /\ phase' = "rest"
    /\ holder' = holder \/ holder' = None
    /\ Quiet

Die ==
    /\ phase = "turn"
    /\ phase' = "lost"
    /\ UNCHANGED <<holder, alarm>>

Report ==
    /\ phase = "lost"
    /\ phase' = "rest"
    /\ holder' = None
    /\ alarm' = TRUE

\* The issue is paused because the supervisor may not talk to GitHub.
Excuse ==
    /\ phase = "lost"
    /\ phase' = "rest"
    /\ UNCHANGED <<holder, alarm>>

Next == Reserve \/ Start \/ End \/ Die \/ Report \/ Excuse

Spec == Init /\ [][Next]_<<holder, phase, alarm>>
=============================================================================

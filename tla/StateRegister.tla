---------------------------- MODULE StateRegister ---------------------------
(***************************************************************************)
(* What the run lock and the atomic save promise together: the state file  *)
(* is a register that sessions only add to, one session at a time.  The    *)
(* promise ends when the file is damaged from outside or when a session    *)
(* lets go of the run lock before its save is done.                        *)
(***************************************************************************)
CONSTANTS Session, EditsOf

VARIABLES committed,   \* edits in the state file
          intact       \* the promise still stands

Init == committed = {} /\ intact \in BOOLEAN

Commit(s) ==
    /\ intact
    /\ \E E \in SUBSET EditsOf[s] : committed' = committed \cup E
    /\ UNCHANGED intact

Break == intact /\ intact' = FALSE /\ committed' = {}

Next == Break \/ \E s \in Session : Commit(s)

Spec == Init /\ [][Next]_<<committed, intact>>
=============================================================================

----------------------------- MODULE LockPromise ------------------------------
(***************************************************************************)
(* What a lock of src/core/lock.ts promises the callers it serves: at most *)
(* one owner, and nobody becomes the owner while there is one.  The        *)
(* promise is broken for one caller at a time: its file is removed by      *)
(* another, and it goes on as if it held the lock until it lets go of it.  *)
(***************************************************************************)
CONSTANT Caller

VARIABLES owners,    \* callers the lock is really held by
          deceived   \* callers that lost it and do not know

Init == owners = {} /\ deceived = {}

Acquire(c) == owners = {} /\ owners' = {c} /\ c \notin deceived /\ UNCHANGED deceived

\* Releases, failures and the death of a process, which takes all its callers.
Leave == owners' \subseteq owners /\ deceived' \subseteq deceived

\* The owner's file is removed by a caller whose own business ends with that.
Rob(c) ==
    /\ owners = {c}
    /\ owners' = {}
    /\ c \in deceived'
    /\ deceived' \subseteq deceived \cup {c}

Next == Leave \/ \E c \in Caller : Acquire(c) \/ Rob(c)

Spec == Init /\ [][Next]_<<owners, deceived>>
=============================================================================

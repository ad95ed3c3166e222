----------------------------- MODULE MergePromise -----------------------------
(***************************************************************************)
(* What auto-merge promises: GitHub is told to merge a branch only while   *)
(* its head is a commit that passed local CI, its checks and the review.   *)
(* The promise is GitHub's from then on; what is pushed afterwards is      *)
(* merged under it too.  An issue becomes done only after a merge.         *)
(***************************************************************************)
CONSTANTS Commit, \* commits of the branch
          Nothing \* no commit

VARIABLES head,     \* head of the branch on GitHub
          vetted,   \* commits that passed everything
          promised, \* the head that auto-merge was enabled for
          merged,   \* the branch was merged
          done      \* the issue is recorded as done

vars == <<head, vetted, promised, merged, done>>

Init ==
    /\ head \in Commit
    /\ vetted = {}
    /\ promised = Nothing
    /\ merged = FALSE
    /\ done = FALSE

Push ==
    /\ head' \in Commit
    /\ UNCHANGED <<vetted, promised, merged, done>>

Vet ==
    /\ \E c \in Commit \ vetted : vetted' = vetted \cup {c}
    /\ UNCHANGED <<head, promised, merged, done>>

Promise ==
    /\ head \in vetted
    /\ promised' = head
    /\ UNCHANGED <<head, vetted, merged, done>>

\* A new pull request has no auto-merge; its local CI may complete the vetting.
Reopen ==
    /\ promised' = Nothing
    /\ head' \in Commit
    /\ vetted' = vetted \/ \E c \in Commit : vetted' = vetted \cup {c}
    /\ UNCHANGED <<merged, done>>

Merge ==
    /\ merged' = TRUE
    /\ UNCHANGED <<head, vetted, promised, done>>

Finish ==
    /\ merged
    /\ done' = TRUE
    /\ UNCHANGED <<head, vetted, promised, merged>>

\* A review is requested of a pull request that was merged meanwhile.
Resume ==
    /\ done' = FALSE
    /\ UNCHANGED <<head, vetted, promised, merged>>

Next == Push \/ Vet \/ Promise \/ Reopen \/ Merge \/ Finish \/ Resume

Spec == Init /\ [][Next]_vars
=============================================================================

---------------------------- MODULE MCCourseReview ----------------------------
(* Small instances of CourseReview: two Writers, who are also the pool of the *)
(* first two seats, a Verifier, a QA Reviewer and an Admin.                   *)
EXTENDS CourseReview, TLC

CONSTANTS w1, w2, v1, qa1, ad1, q1

ReviewerSet == {w1, w2, v1, qa1, ad1}

StagedTeam == w1 :> "STAFF_WRITER" @@ w2 :> "STAFF_WRITER"
              @@ v1 :> "STAFF_VERIFIER" @@ qa1 :> "QA_REVIEWER" @@ ad1 :> "ADMIN"
DirectTeam == w1 :> "CREATOR_REVIEWER" @@ w2 :> "CREATOR_REVIEWER"
              @@ v1 :> "STAFF_VERIFIER" @@ qa1 :> "QA_REVIEWER" @@ ad1 :> "ADMIN"

\* Fewer people, for the runs in which their roles change or requests race: the
\* Admin stands in for QA, and in the least pool for the second Writer.
SmallPool == {w1, w2, v1, ad1}
SmallTeam == [u \in SmallPool |-> StagedTeam[u]]
LeastPool == {w1, v1, ad1}
LeastTeam == [u \in LeastPool |-> StagedTeam[u]]
LeastDirect == [u \in LeastPool |-> DirectTeam[u]]

Interchangeable == Permutations({w1, w2})
=============================================================================

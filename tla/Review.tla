-------------------------------- MODULE Review --------------------------------
(***************************************************************************)
(* What the review promises about a course, without statuses, reviewers'   *)
(* roles, videos, appeals and requests: its seats approve in order, the    *)
(* content seats by different people; an approval pays the creator at most *)
(* once; a cycle that has paid is not started over; and publishing, over   *)
(* the approvals of all seats, is the end.  CourseReview implements it     *)
(* (CourseReview!KeepsReview).                                             *)
(***************************************************************************)
EXTENDS ReviewFlow

CONSTANTS Reviewers, Nobody, Payable

VARIABLES approvedBy,  \* by seat, who approved it
          payments,    \* how often the creator was paid
          published

reviewVars == <<approvedBy, payments, published>>

NoApprovals == [s \in Seats |-> Nobody]

ReviewInit == approvedBy = NoApprovals /\ payments = 0 /\ published = FALSE

Approve(u, s) ==
  /\ ~published
  /\ approvedBy[s] = Nobody
  /\ \A e \in EarlierSeats(s) : approvedBy[e] # Nobody
  /\ s \in ContentSeats => \A e \in EarlierSeats(s) : approvedBy[e] # u
  /\ approvedBy' = [approvedBy EXCEPT ![s] = u]
  /\ \/ UNCHANGED payments
     \/ s \in PayoutSeats /\ payments = 0 /\ payments' = 1
  /\ UNCHANGED published

StartOver ==
  /\ ~published /\ payments = 0
  /\ approvedBy' = NoApprovals
  /\ UNCHANGED <<payments, published>>

Publish ==
  /\ ~published
  /\ \A s \in Seats : approvedBy[s] # Nobody
  /\ Payable => payments = 1
  /\ published' = TRUE
  /\ UNCHANGED <<approvedBy, payments>>

ReviewNext ==
  \/ \E u \in Reviewers, s \in Seats : Approve(u, s)
  \/ StartOver \/ Publish

ReviewSpec == ReviewInit /\ [][ReviewNext]_reviewVars
=============================================================================

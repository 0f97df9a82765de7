------------------------------ MODULE ReviewFlow ------------------------------
(***************************************************************************)
(* The fixed tables of the course review workflow: the seats in the order  *)
(* a submission passes them, who may sit which, and which price a course   *)
(* is paid at and when.  They are pure functions of a course and a role,   *)
(* so they hold no state; CourseReview is the state machine over them.     *)
(***************************************************************************)
EXTENDS Naturals

ContentSeats == {"CONTENT", "SECOND_REVIEW", "VERIFICATION"}
Seats        == ContentSeats \cup {"QA"}
NoSeat       == "NONE"

Rank == [CONTENT |-> 1, SECOND_REVIEW |-> 2, VERIFICATION |-> 3, QA |-> 4]

EarlierSeats(s) == {e \in ContentSeats : Rank[e] < Rank[s]}

\* Mutants of NextSeat: QA as one more content seat, and Verification forgotten.
NextSeatIntoQA(s) == CASE s = "CONTENT"       -> "SECOND_REVIEW"
                       [] s = "SECOND_REVIEW" -> "VERIFICATION"
                       [] s = "VERIFICATION"  -> "QA"
                       [] OTHER               -> NoSeat
NextSeatSkipping(s) == IF s = "CONTENT" THEN "SECOND_REVIEW" ELSE NoSeat

\* The seat an approval of s hands the course to; NoSeat ends content review.
NextSeat(s) == CASE s = "CONTENT"       -> "SECOND_REVIEW"
                 [] s = "SECOND_REVIEW" -> "VERIFICATION"
                 [] OTHER               -> NoSeat

Statuses == {"DRAFT", "SUBMITTED", "IN_REVIEW", "NEEDS_REVISION",
             "AWAITING_VIDEO", "QA_VERIFICATION", "APPROVED", "PUBLISHED",
             "ARCHIVED", "DELETED"}

Editable   == {"DRAFT", "NEEDS_REVISION"}
Reviewable == {"SUBMITTED", "IN_REVIEW"}
InFlight   == Statuses \ {"DRAFT", "PUBLISHED", "ARCHIVED", "DELETED"}
Archivable == Statuses \ {"APPROVED", "PUBLISHED", "ARCHIVED", "DELETED"}

-----------------------------------------------------------------------------
(* Roles.  ADMIN stands for every holder of courses.assign (Admin,         *)
(* Approver, Super Admin); ERASED is an account that no longer exists.     *)

StaffRoles == {"CREATOR_REVIEWER", "STAFF_WRITER", "STAFF_VERIFIER",
               "QA_REVIEWER", "ADMIN"}
Roles      == StaffRoles \cup {"ERASED"}

\* With the staged flow on, Writers sit the first two seats.
SeatRole(s, staged) ==
  CASE s = "VERIFICATION" -> "STAFF_VERIFIER"
    [] s # "VERIFICATION" /\ staged  -> "STAFF_WRITER"
    [] s # "VERIFICATION" /\ ~staged -> "CREATOR_REVIEWER"

ClaimableSeats(r, staged) ==
  {s \in ContentSeats : r = "ADMIN" \/ r = SeatRole(s, staged)}

MaySitQA(r) == r \in {"QA_REVIEWER", "ADMIN"}

-----------------------------------------------------------------------------
(* Price and payout seat of a course, from who made it and who films it.   *)

Sources    == {"CREATOR_UPLOADED", "AI_GENERATED", "DEVELOPER_API"}
Providers  == {"NONE", "CREATOR", "PRODUCTION_ENGINE", "DEVELOPER"}
PriceTypes == {"AI_BUILT", "WITHOUT_VIDEO", "WITH_VIDEO"}

PriceTypeFor(source, provider) ==
  CASE source = "AI_GENERATED" -> "AI_BUILT"
    [] source # "AI_GENERATED" /\ provider = "PRODUCTION_ENGINE" -> "WITHOUT_VIDEO"
    [] OTHER -> "WITH_VIDEO"

PayoutSeats == Seats \ {"CONTENT"}
PayoutSeat(provider) ==
  IF provider = "PRODUCTION_ENGINE" THEN "SECOND_REVIEW" ELSE "QA"

\* The seats that review the video: a rejection there may start a rework.
VideoSeats == Seats \ {"CONTENT"}
=============================================================================

-------------------------- MODULE CourseSeats_proofs --------------------------
(***************************************************************************)
(* Theorems about the seats of CourseReview: who approved a course, where  *)
(* it stands, and what its creator is paid for it.                         *)
(*                                                                         *)
(* Everything follows from one picture.  A course under review stands at a *)
(* position: the seats ranked below it hold a stamped approval of this     *)
(* cycle, the seat at it holds none, the seats above it are untouched.     *)
(* Each handler moves the position one seat on, leaves it, or starts over. *)
(*                                                                         *)
(* The theorems allow any number of late requests of the handlers named in *)
(* SafeRaces; the README tells what each of the others breaks.             *)
(***************************************************************************)
EXTENDS CourseReview_proofs

-----------------------------------------------------------------------------
(* The seats of a review cycle.                                            *)

\* How far a course has come: the seats ranked below its position have approved
\* it in this cycle, the others have not.
UnderReview == InFlight \cup {"PUBLISHED"}
Position(c) ==
  CASE c.status \in Reviewable      -> Rank[c.stage]
    [] c.status = "NEEDS_REVISION"  -> Rank[c.revisionSeat]
    [] c.status = "AWAITING_VIDEO"  -> Rank["SECOND_REVIEW"]
    [] c.status = "QA_VERIFICATION" -> Rank["QA"]
    [] OTHER                        -> Rank["QA"] + 1

\* A seat of a course at position p: behind it stamped by whoever approved, at it
\* no verdict, ahead of it untouched.  QA's row can be claimed by a late request.
SeatStands(s, p, row, v) ==
  /\ Rank[s] < p => v \in Reviewers
  /\ Rank[s] < p /\ s # "QA" => row = [holder |-> v, done |-> TRUE]
  /\ Rank[s] >= p => v = Nobody
  /\ Rank[s] > p /\ s # "QA" => row = [holder |-> Nobody, done |-> FALSE]

SeatsStand(p, rows, ver) == \A s \in Seats : SeatStands(s, p, rows[s], ver[s])

SeatsAgree == course.status \in UnderReview => SeatsStand(Position(course), seat, verdict)

\* The columns of the course agree with each other and with its appeal.
ModeFrozen ==
  /\ course.status \in UnderReview \/ course.rejected => course.flow # "UNSET"
  /\ course.status = "DRAFT" => course.flow # "STAGED"
  /\ appeal = "PENDING" => course.rejected
VideoKnown ==
  course.flow = "STAGED" /\ course.status \in UnderReview \ {"AWAITING_VIDEO"}
    /\ Position(course) > Rank["CONTENT"] =>
  course.attached /\ course.provider # "NONE"

\* SeatStates, but for the revision seat an archived course keeps: an appeal decided
\* late carries it into the next cycle, where nothing reads it.
LeftSeat == LateAppeals /\ Source = "DEVELOPER_API"
StageStates ==
  /\ course.stage # NoSeat <=> course.status \in Reviewable
  /\ course.status = "NEEDS_REVISION" => course.revisionSeat # NoSeat
  /\ course.revisionSeat # NoSeat =>
       course.status \in {"NEEDS_REVISION", "ARCHIVED"} \/ LeftSeat
  /\ course.status = "ARCHIVED" => Source = "DEVELOPER_API"
  /\ course.status \in {"NEEDS_REVISION", "AWAITING_VIDEO"} => course.flow = "STAGED"

\* The strengthening of the seat properties that steps preserve.
SeatState == StageStates /\ ModeFrozen /\ VideoKnown /\ SeatsAgree /\ SeatHeld /\ FourEyes

LEMMA Ranks ==
  /\ Rank["CONTENT"] = 1 /\ Rank["SECOND_REVIEW"] = 2 /\ Rank["VERIFICATION"] = 3 /\ Rank["QA"] = 4
  /\ \A s \in Seats : Rank[s] \in 1..4
  /\ \A s \in ContentSeats : Rank[s] \in 1..3
  /\ \A s, t \in Seats : Rank[s] = Rank[t] => s = t
  /\ \A s \in ContentSeats : NextSeat(s) = NoSeat => Rank[s] = 3
  /\ \A s \in ContentSeats : NextSeat(s) # NoSeat =>
        NextSeat(s) \in ContentSeats /\ Rank[NextSeat(s)] = Rank[s] + 1
BY DEF Rank, Seats, ContentSeats, NextSeat, NoSeat

LEMMA EmptyStands == SeatsStand(1, EmptySeats, NoVerdicts)
<1>. SUFFICES ASSUME NEW s \in Seats PROVE SeatStands(s, 1, EmptySeats[s], NoVerdicts[s])
  BY DEF SeatsStand
<1>1. Rank[s] \in 1..4
  BY Ranks
<1>2. EmptySeats[s] = [holder |-> Nobody, done |-> FALSE] /\ NoVerdicts[s] = Nobody
  BY DEF EmptySeats, NoVerdicts
<1>. QED BY <1>1, <1>2 DEF SeatStands

\* The seat at the position, and QA's, may change hands.
LEMMA HeldStands ==
  ASSUME NEW p, NEW rows \in SeatRows, NEW ver, SeatsStand(p, rows, ver),
         NEW s \in Seats, Rank[s] = p \/ s = "QA", NEW row
  PROVE  SeatsStand(p, [rows EXCEPT ![s] = row], ver)
<1>. DEFINE rows2 == [rows EXCEPT ![s] = row]
<1>. SUFFICES ASSUME NEW t \in Seats PROVE SeatStands(t, p, rows2[t], ver[t])
  BY DEF SeatsStand
<1>1. SeatStands(t, p, rows[t], ver[t])
  BY DEF SeatsStand
<1>2. CASE t # s
  BY <1>1, <1>2 DEF SeatRows
<1>3. CASE t = s
  <2>1. Rank[t] \in 1..4
    BY Ranks
  <2>. QED BY <1>1, <1>3, <2>1 DEF SeatStands
<1>. QED BY <1>2, <1>3

\* A seat that is returned or reset at the position has no verdict.
LEMMA ReturnStands ==
  ASSUME NEW rows \in SeatRows, NEW ver \in [Seats -> Accounts], NEW s \in Seats,
         SeatsStand(Rank[s], rows, ver), NEW row
  PROVE  SeatsStand(Rank[s], [rows EXCEPT ![s] = row], [ver EXCEPT ![s] = Nobody])
<1>. DEFINE rows2 == [rows EXCEPT ![s] = row]
            ver2  == [ver EXCEPT ![s] = Nobody]
<1>. SUFFICES ASSUME NEW t \in Seats PROVE SeatStands(t, Rank[s], rows2[t], ver2[t])
  BY DEF SeatsStand
<1>1. SeatStands(t, Rank[s], rows[t], ver[t])
  BY DEF SeatsStand
<1>2. CASE t # s
  BY <1>1, <1>2 DEF SeatRows
<1>3. CASE t = s
  <2>1. Rank[s] \in 1..4 /\ ver2[t] = Nobody
    BY <1>3, Ranks
  <2>. QED BY <1>3, <2>1 DEF SeatStands
<1>. QED BY <1>2, <1>3

\* An approval moves the position past the seat.
LEMMA DecisionStands ==
  ASSUME NEW rows \in SeatRows, NEW ver \in [Seats -> Accounts], NEW s \in Seats,
         SeatsStand(Rank[s], rows, ver), NEW u \in Reviewers
  PROVE  SeatsStand(Rank[s] + 1, [rows EXCEPT ![s] = [holder |-> u, done |-> TRUE]],
                    [ver EXCEPT ![s] = u])
<1>. DEFINE rows2 == [rows EXCEPT ![s] = [holder |-> u, done |-> TRUE]]
            ver2  == [ver EXCEPT ![s] = u]
<1>. SUFFICES ASSUME NEW t \in Seats PROVE SeatStands(t, Rank[s] + 1, rows2[t], ver2[t])
  BY DEF SeatsStand
<1>1. SeatStands(t, Rank[s], rows[t], ver[t])
  BY DEF SeatsStand
<1>2. Rank[s] \in 1..4 /\ Rank[t] \in 1..4 /\ (Rank[s] = Rank[t] => s = t)
  BY Ranks
<1>3. CASE t # s
  <2>1. rows2[t] = rows[t] /\ ver2[t] = ver[t]
    BY <1>3 DEF SeatRows
  <2>. QED BY <1>1, <1>2, <1>3, <2>1 DEF SeatStands
<1>4. CASE t = s
  <2>1. rows2[t] = [holder |-> u, done |-> TRUE] /\ ver2[t] = u
    BY <1>4 DEF SeatRows
  <2>. QED BY <1>2, <1>4, <2>1 DEF SeatStands
<1>. QED BY <1>3, <1>4

LEMMA Positions ==
  /\ \A c : c.status \in Reviewable => Position(c) = Rank[c.stage]
  /\ \A c : c.status = "NEEDS_REVISION" => Position(c) = Rank[c.revisionSeat]
  /\ \A c : c.status = "AWAITING_VIDEO" => Position(c) = 2
  /\ \A c : c.status = "QA_VERIFICATION" => Position(c) = 4
  /\ \A c : c.status \in {"APPROVED", "PUBLISHED"} => Position(c) = 5
BY Ranks DEF Position, Reviewable

LEMMA OpenSeats ==
  ASSUME course \in CourseRow, StageStates
  PROVE  /\ course.status \in Reviewable =>
              course.stage \in ContentSeats /\ OpenSeat(course) = course.stage
         /\ course.status = "NEEDS_REVISION" => course.revisionSeat \in Seats
BY DEF StageStates, CourseRow, OpenSeat

LEMMA ClearedEyes ==
  ASSUME FourEyes, verdict \in [Seats -> Accounts],
         NEW s \in Seats, verdict' = [verdict EXCEPT ![s] = Nobody]
  PROVE  FourEyes'
<1>1. \A t \in ContentSeats : verdict'[t] = IF t = s THEN Nobody ELSE verdict[t]
  BY Tables
<1>. QED BY <1>1 DEF FourEyes

\* A content seat is never approved by somebody who approved another one.
LEMMA DecidedEyes ==
  ASSUME TypeOK, SeatState, course.status \in Reviewable,
         NEW u \in Reviewers, NEW r, MayDecide(u, r, course.stage),
         verdict' = [verdict EXCEPT ![course.stage] = u]
  PROVE  FourEyes'
<1>. DEFINE s == course.stage
<1>1. s \in ContentSeats /\ s \in Seats /\ SeatsStand(Rank[s], seat, verdict)
  BY OpenSeats, Positions, Tables DEF TypeOK, SeatState, SeatsAgree, UnderReview, InFlight, Reviewable, Statuses
<1>2. ASSUME NEW t \in ContentSeats, t # s PROVE verdict[t] # u
  <2>1. SeatStands(t, Rank[s], seat[t], verdict[t]) /\ t # "QA"
    BY <1>1, Tables DEF SeatsStand, ContentSeats
  <2>2. Rank[t] \in 1..4 /\ Rank[s] \in 1..4
    BY <1>1, Ranks, Tables
  <2>3. CASE Rank[t] < Rank[s]
    <3>1. t \in EarlierSeats(s)
      BY <2>3 DEF EarlierSeats
    <3>2. ~(seat[t].holder = u /\ seat[t].done)
      BY <3>1 DEF MayDecide, MaySit
    <3>. QED BY <2>1, <2>3, <3>2 DEF SeatStands
  <2>4. CASE Rank[t] >= Rank[s]
    BY <2>1, <2>4, NobodyAssumption DEF SeatStands
  <2>. QED BY <2>2, <2>3, <2>4
<1>3. \A t \in ContentSeats : verdict'[t] = IF t = s THEN u ELSE verdict[t]
  BY <1>1, Tables DEF TypeOK
<1>. HIDE DEF s
<1>. QED BY <1>2, <1>3 DEF FourEyes, SeatState

-----------------------------------------------------------------------------
(* What the handlers do to the seats.                                      *)

LEMMA SeatsUntouched ==
  ASSUME SeatState, UNCHANGED <<course, seat, verdict>>, appeal' = "PENDING" => course.rejected
  PROVE  SeatState'
BY DEF SeatState, StageStates, ModeFrozen, VideoKnown, SeatsAgree, SeatHeld, FourEyes, Position

LEMMA CycleSeats ==
  ASSUME TypeOK, SeatState, NEW row \in CourseRow, StartReviewCycle(row),
         row.flow # "UNSET", row.revisionSeat = NoSeat \/ LeftSeat,
         appeal' = "PENDING" => row.rejected
  PROVE  SeatState'
<1>1. /\ course'.status = "SUBMITTED" /\ course'.stage = "CONTENT"
      /\ course'.revisionSeat = row.revisionSeat /\ course'.flow # "UNSET"
      /\ course'.rejected = row.rejected
  BY CycleColumns
<1>2. seat' = EmptySeats /\ verdict' = NoVerdicts
  BY DEF StartReviewCycle
<1>3. Position(course') = 1
  BY <1>1, Positions, Ranks DEF Reviewable
<1>4. SeatsAgree'
  BY <1>2, <1>3, EmptyStands DEF SeatsAgree
<1>5. StageStates' /\ ModeFrozen' /\ VideoKnown'
  BY <1>1, <1>3, Ranks DEF StageStates, ModeFrozen, VideoKnown, Reviewable, NoSeat
<1>6. SeatHeld' /\ FourEyes'
  BY <1>1, <1>2, Tables DEF SeatHeld, FourEyes, EmptySeats, NoVerdicts, ContentSeats
<1>. QED BY <1>4, <1>5, <1>6 DEF SeatState

LEMMA ResumeSeats ==
  ASSUME TypeOK, SeatState, course.status = "NEEDS_REVISION", ResumeAtRevisionSeat(course),
         appeal' = "PENDING" => course.rejected
  PROVE  SeatState'
<1>. DEFINE s == course.revisionSeat
<1>0. course \in CourseRow /\ s \in Seats /\ s # NoSeat
  BY OpenSeats DEF TypeOK, SeatState, Seats, ContentSeats, NoSeat
<1>1. /\ course'.status = IF s = "QA" THEN "QA_VERIFICATION" ELSE "SUBMITTED"
      /\ course'.stage = IF s = "QA" THEN NoSeat ELSE s
      /\ course'.revisionSeat = NoSeat /\ course'.flow = course.flow
      /\ course'.provider = course.provider /\ course'.attached = course.attached
      /\ course'.rejected = course.rejected
      /\ seat' = ResetSeat(s) /\ verdict' = [verdict EXCEPT ![s] = Nobody]
  BY <1>0, ResumeColumns
<1>2. course.status \in UnderReview /\ Position(course) = Rank[s]
  BY Positions DEF UnderReview, InFlight, Statuses
<1>3. Position(course') = Rank[s]
  BY <1>1, Positions, Ranks DEF Reviewable
<1>4. SeatsAgree'
  <2>1. SeatsStand(Rank[s], seat, verdict)
    BY <1>2 DEF SeatState, SeatsAgree
  <2>. QED BY <1>0, <1>1, <1>3, <2>1, ReturnStands DEF SeatsAgree, ResetSeat, TypeOK
<1>5. StageStates' /\ ModeFrozen'
  BY <1>0, <1>1, <1>2 DEF StageStates, ModeFrozen, Reviewable, SeatState
<1>6. VideoKnown'
  BY <1>1, <1>2, <1>3 DEF VideoKnown, SeatState
<1>7. SeatHeld'
  BY <1>0, <1>1, Tables DEF SeatHeld, ResetSeat, Reviewable, TypeOK, SeatRows
<1>8. FourEyes'
  BY <1>0, <1>1, ClearedEyes DEF TypeOK, SeatState
<1>. QED BY <1>4, <1>5, <1>6, <1>7, <1>8 DEF SeatState

LEMMA FilmSeats ==
  ASSUME TypeOK, SeatState, course.status = "AWAITING_VIDEO", course.provider # "NONE",
         SendVideoToReview, appeal' = appeal
  PROVE  SeatState'
<1>. DEFINE s == "SECOND_REVIEW"
<1>0. course \in CourseRow /\ s \in Seats /\ s \in ContentSeats /\ s # NoSeat
  BY DEF TypeOK, Seats, ContentSeats, NoSeat
<1>1. /\ course'.status = "SUBMITTED" /\ course'.stage = s
      /\ course'.revisionSeat = course.revisionSeat /\ course'.flow = course.flow
      /\ course'.provider = course.provider /\ course'.attached = TRUE
      /\ course'.rejected = course.rejected
  BY <1>0, FilmColumns
<1>1a. seat' = ResetSeat(s) /\ verdict' = [verdict EXCEPT ![s] = Nobody]
  BY DEF SendVideoToReview
<1>2. course.status \in UnderReview /\ Position(course) = Rank[s]
  BY Positions, Ranks DEF UnderReview, InFlight, Statuses
<1>3. Position(course') = Rank[s]
  BY <1>1, Positions, Ranks DEF Reviewable
<1>4. SeatsAgree'
  <2>1. SeatsStand(Rank[s], seat, verdict)
    BY <1>2 DEF SeatState, SeatsAgree
  <2>. QED BY <1>0, <1>1a, <1>3, <2>1, ReturnStands DEF SeatsAgree, ResetSeat, TypeOK
<1>5. StageStates' /\ ModeFrozen'
  BY <1>0, <1>1, <1>2 DEF StageStates, ModeFrozen, Reviewable, SeatState
<1>6. VideoKnown'
  BY <1>1 DEF VideoKnown
<1>7. SeatHeld'
  BY <1>0, <1>1, <1>1a, Tables DEF SeatHeld, ResetSeat, Reviewable, TypeOK, SeatRows
<1>8. FourEyes'
  BY <1>0, <1>1a, ClearedEyes DEF TypeOK, SeatState
<1>. QED BY <1>4, <1>5, <1>6, <1>7, <1>8 DEF SeatState

\* A rejection at the seat the course stands at.
LEMMA ReturnSeats ==
  ASSUME TypeOK, SeatState, course.status \in Reviewable \cup {"QA_VERIFICATION"},
         NEW s \in Seats, Position(course) = Rank[s], NEW u,
         course' = ReturnForRevision(course, s), seat' = Decided(s, u),
         verdict' = [verdict EXCEPT ![s] = Nobody], appeal' = appeal
  PROVE  SeatState'
<1>0. course \in CourseRow /\ s # NoSeat
  BY DEF TypeOK, Seats, ContentSeats, NoSeat
<1>2. /\ course.status \in UnderReview /\ course.flow # "UNSET"
      /\ course.revisionSeat = NoSeat \/ LeftSeat
  BY DEF UnderReview, InFlight, Statuses, Reviewable, SeatState, ModeFrozen, StageStates
<1>1. /\ course'.status = IF course.flow = "STAGED" THEN "NEEDS_REVISION" ELSE "DRAFT"
      /\ course'.stage = NoSeat
      /\ course'.revisionSeat = IF course.flow = "STAGED" THEN s ELSE course.revisionSeat
      /\ course'.flow = course.flow
      /\ course'.provider = course.provider /\ course'.attached = course.attached
      /\ course'.rejected = TRUE
  BY <1>0, <1>2, ReturnColumns DEF Staged
<1>3. course'.status = "NEEDS_REVISION" => Position(course') = Rank[s]
  BY <1>1, Positions, Ranks DEF Reviewable
<1>4. SeatsAgree'
  <2>1. SeatsStand(Rank[s], seat, verdict)
    BY <1>2 DEF SeatState, SeatsAgree
  <2>2. course'.status \in UnderReview => course'.status = "NEEDS_REVISION"
    BY <1>1 DEF UnderReview, InFlight
  <2>. QED BY <1>0, <1>3, <2>1, <2>2, ReturnStands DEF SeatsAgree, Decided, TypeOK
<1>5. StageStates' /\ ModeFrozen'
  BY <1>0, <1>1, <1>2 DEF StageStates, ModeFrozen, Reviewable, SeatState
<1>6. VideoKnown'
  BY <1>1, <1>2, <1>3 DEF VideoKnown, SeatState, UnderReview, InFlight, Reviewable
<1>7. SeatHeld'
  BY <1>1 DEF SeatHeld, Reviewable
<1>8. FourEyes'
  BY <1>0, <1>1, ClearedEyes DEF TypeOK, SeatState
<1>. QED BY <1>4, <1>5, <1>6, <1>7, <1>8 DEF SeatState

\* An approval at a content seat.
LEMMA ApprovalSeats ==
  ASSUME TypeOK, SeatState, course.status \in Reviewable,
         NEW u \in Reviewers, NEW r, MayDecide(u, r, course.stage),
         seat' = Decided(course.stage, u), verdict' = [verdict EXCEPT ![course.stage] = u],
         PayOnApproval(AfterApproval(course.stage), course.stage), appeal' = appeal
  PROVE  SeatState'
<1>. DEFINE s == course.stage
            c == AfterApproval(s)
<1>0. /\ course \in CourseRow /\ s \in Seats /\ s \in ContentSeats /\ s # NoSeat
      /\ c \in CourseRow /\ NextSeat(s) \in ContentSeats \cup {NoSeat}
  BY OpenSeats, Tables, Approved DEF TypeOK, SeatState, ContentSeats, NoSeat
<1>1. /\ course'.status = c.status /\ course'.stage = c.stage
      /\ course'.revisionSeat = c.revisionSeat /\ course'.flow = c.flow
      /\ course'.provider = c.provider /\ course'.attached = c.attached
      /\ course'.rejected = c.rejected
  BY <1>0, PaidColumns
<1>. HIDE DEF c
<1>2. /\ course.status \in UnderReview /\ course.flow # "UNSET"
      /\ course.revisionSeat = NoSeat \/ LeftSeat
      /\ Position(course) = Rank[s]
  BY Positions DEF UnderReview, InFlight, Statuses, Reviewable, SeatState, ModeFrozen, StageStates
<1>3. /\ course'.revisionSeat = course.revisionSeat /\ course'.flow = course.flow
      /\ course'.attached = course.attached /\ course'.rejected = course.rejected
  BY <1>0, <1>1, <1>2, ApprovalColumns DEF c
<1>4. \/ /\ s = "CONTENT" /\ course.flow = "STAGED"
         /\ course'.status = "AWAITING_VIDEO" /\ course'.stage = NoSeat
      \/ /\ ~(s = "CONTENT" /\ course.flow = "STAGED")
         /\ course'.provider = course.provider
         /\ \/ NextSeat(s) = NoSeat /\ course'.status = "QA_VERIFICATION" /\ course'.stage = NoSeat
            \/ /\ NextSeat(s) \in ContentSeats
               /\ course'.status = "SUBMITTED" /\ course'.stage = NextSeat(s)
  BY <1>0, <1>1, <1>2, ApprovalColumns DEF c, Staged
<1>5. course'.status \in UnderReview /\ Position(course') = Rank[s] + 1
  <2>1. CASE course'.status = "AWAITING_VIDEO" /\ s = "CONTENT"
    BY <2>1, Positions, Ranks DEF UnderReview, InFlight, Statuses
  <2>2. CASE NextSeat(s) = NoSeat /\ course'.status = "QA_VERIFICATION"
    BY <1>0, <2>2, Positions, Ranks DEF UnderReview, InFlight, Statuses
  <2>3. CASE NextSeat(s) \in ContentSeats /\ course'.status = "SUBMITTED" /\ course'.stage = NextSeat(s)
    <3>1. Rank[NextSeat(s)] = Rank[s] + 1
      BY <1>0, <2>3, Ranks DEF ContentSeats, NoSeat
    <3>. QED BY <2>3, <3>1, Positions DEF Reviewable, UnderReview, InFlight, Statuses
  <2>. QED BY <1>4, <2>1, <2>2, <2>3
<1>6. SeatsAgree'
  <2>1. SeatsStand(Rank[s], seat, verdict)
    BY <1>2 DEF SeatState, SeatsAgree
  <2>. QED BY <1>0, <1>5, <2>1, DecisionStands DEF SeatsAgree, Decided, TypeOK
<1>7. StageStates'
  BY <1>0, <1>2, <1>3, <1>4 DEF StageStates, Reviewable, NoSeat, ContentSeats
<1>8. ModeFrozen'
  BY <1>2, <1>3, <1>4 DEF ModeFrozen, SeatState
<1>9. VideoKnown'
  <2>1. CASE course'.status = "AWAITING_VIDEO"
    BY <2>1 DEF VideoKnown
  <2>2. CASE course.flow # "STAGED"
    BY <1>3, <2>2 DEF VideoKnown
  <2>3. CASE course.flow = "STAGED" /\ s # "CONTENT"
    <3>1. Rank[s] > Rank["CONTENT"]
      BY <1>0, <2>3, Ranks DEF ContentSeats
    <3>2. course.attached /\ course.provider # "NONE"
      BY <1>2, <2>3, <3>1 DEF VideoKnown, SeatState, Reviewable
    <3>. QED BY <1>3, <1>4, <2>3, <3>2 DEF VideoKnown
  <2>. QED BY <1>4, <2>1, <2>2, <2>3
<1>10. SeatHeld'
  <2>. SUFFICES ASSUME course'.status \in Reviewable PROVE SeatHeld'
    BY DEF SeatHeld
  <2>. DEFINE n == NextSeat(s)
  <2>1. n \in ContentSeats /\ course'.status = "SUBMITTED" /\ course'.stage = n
    BY <1>4 DEF Reviewable
  <2>2. Rank[n] = Rank[s] + 1 /\ n # NoSeat /\ n \in Seats /\ Rank[s] \in 1..4
    BY <1>0, <2>1, Ranks, Tables DEF ContentSeats, NoSeat
  <2>3. SeatStands(n, Rank[s], seat[n], verdict[n]) /\ n # "QA"
    BY <1>2, <2>1, <2>2 DEF SeatState, SeatsAgree, SeatsStand, ContentSeats
  <2>4. seat[n] = [holder |-> Nobody, done |-> FALSE]
    BY <2>2, <2>3 DEF SeatStands
  <2>5. seat'[n] = seat[n]
    BY <2>2 DEF Decided, TypeOK, SeatRows
  <2>. QED BY <2>1, <2>4, <2>5 DEF SeatHeld
<1>11. FourEyes'
  BY DecidedEyes
<1>. QED BY <1>6, <1>7, <1>8, <1>9, <1>10, <1>11 DEF SeatState

LEMMA QAApprovalSeats ==
  ASSUME TypeOK, SeatState, course.status = "QA_VERIFICATION", NEW u \in Reviewers,
         seat' = Decided("QA", u), verdict' = [verdict EXCEPT !["QA"] = u],
         PayOnApproval([course EXCEPT !.status = "APPROVED"], "QA"), appeal' = appeal
  PROVE  SeatState'
<1>. DEFINE c == [course EXCEPT !.status = "APPROVED"]
<1>0. course \in CourseRow /\ c \in CourseRow /\ "QA" \in Seats
  BY RowUpdate, Tables DEF TypeOK, Statuses
<1>1. /\ course'.status = "APPROVED" /\ course'.stage = course.stage
      /\ course'.revisionSeat = course.revisionSeat /\ course'.flow = course.flow
      /\ course'.provider = course.provider /\ course'.attached = course.attached
      /\ course'.rejected = course.rejected
  <2>1. /\ course'.status = c.status /\ course'.stage = c.stage
        /\ course'.revisionSeat = c.revisionSeat /\ course'.flow = c.flow
        /\ course'.provider = c.provider /\ course'.attached = c.attached
        /\ course'.rejected = c.rejected
    BY <1>0, PaidColumns
  <2>. QED BY <1>0, <2>1 DEF CourseRow
<1>. HIDE DEF c
<1>2. Position(course) = Rank["QA"] /\ Position(course') = Rank["QA"] + 1
      /\ course.status \in UnderReview /\ Rank["QA"] = 4
  BY <1>1, Positions, Ranks DEF UnderReview, InFlight, Statuses
<1>3. SeatsAgree'
  <2>1. SeatsStand(Rank["QA"], seat, verdict)
    BY <1>2 DEF SeatState, SeatsAgree
  <2>. QED BY <1>0, <1>2, <2>1, DecisionStands DEF SeatsAgree, Decided, TypeOK
<1>4. StageStates' /\ ModeFrozen' /\ SeatHeld'
  BY <1>1, <1>2 DEF SeatState, StageStates, ModeFrozen, SeatHeld, Reviewable
<1>5. VideoKnown'
  BY <1>1, <1>2, Ranks DEF SeatState, VideoKnown
<1>6. FourEyes'
  <2>1. \A t \in ContentSeats : verdict'[t] = verdict[t]
    BY DEF ContentSeats, TypeOK
  <2>. QED BY <2>1 DEF FourEyes, SeatState
<1>. QED BY <1>3, <1>4, <1>5, <1>6 DEF SeatState

\* A seat changes hands: the open one, with the course now in review, or QA's.
LEMMA ClaimSeats ==
  ASSUME TypeOK, SeatState, course.status \in Reviewable, NEW u \in Reviewers,
         course' = [course EXCEPT !.status = "IN_REVIEW"],
         seat' = [seat EXCEPT ![course.stage].holder = u],
         verdict' = verdict, appeal' = appeal
  PROVE  SeatState'
<1>. DEFINE s == course.stage
<1>0. course \in CourseRow /\ s \in Seats /\ s \in ContentSeats /\ s # NoSeat
  BY OpenSeats, Tables DEF TypeOK, SeatState, ContentSeats, NoSeat
<1>1. /\ course'.status = "IN_REVIEW" /\ course'.stage = course.stage
      /\ course'.revisionSeat = course.revisionSeat /\ course'.flow = course.flow
      /\ course'.provider = course.provider /\ course'.attached = course.attached
      /\ course'.rejected = course.rejected
  BY <1>0, StatusColumns
<1>2. course.status \in UnderReview /\ Position(course) = Rank[s] /\ Position(course') = Rank[s]
  <2>1. course.status \in UnderReview
    BY DEF UnderReview, InFlight, Statuses, Reviewable
  <2>2. course'.status \in Reviewable
    BY <1>1 DEF Reviewable
  <2>. QED BY <1>1, <2>1, <2>2, Positions
<1>. DEFINE row == [seat[s] EXCEPT !.holder = u]
<1>3. seat' = [seat EXCEPT ![s] = row]
  BY <1>0 DEF TypeOK, SeatRows
<1>4. SeatsAgree'
  <2>1. SeatsStand(Rank[s], seat, verdict)
    BY <1>2 DEF SeatState, SeatsAgree
  <2>. HIDE DEF row, s
  <2>2. SeatsStand(Rank[s], [seat EXCEPT ![s] = row], verdict)
    BY <1>0, <2>1, HeldStands DEF TypeOK
  <2>. QED BY <1>2, <1>3, <2>2 DEF SeatsAgree
<1>5. StageStates' /\ ModeFrozen'
  BY <1>0, <1>1, <1>2 DEF SeatState, StageStates, ModeFrozen, Reviewable
<1>6. VideoKnown'
  BY <1>1, <1>2 DEF SeatState, VideoKnown, Reviewable
<1>7. SeatHeld'
  <2>1. seat'[s].holder = u /\ seat'[s].done = seat[s].done
    BY <1>0 DEF TypeOK, SeatRows
  <2>. QED BY <1>1, <2>1, NobodyAssumption DEF SeatState, SeatHeld, Reviewable
<1>8. FourEyes'
  BY DEF SeatState, FourEyes
<1>. QED BY <1>4, <1>5, <1>6, <1>7, <1>8 DEF SeatState

LEMMA QAHolderSeats ==
  ASSUME TypeOK, SeatState, NEW u, seat' = [seat EXCEPT !["QA"].holder = u],
         UNCHANGED <<course, verdict, appeal>>
  PROVE  SeatState'
<1>0. "QA" \in Seats
  BY Tables
<1>. DEFINE row == [seat["QA"] EXCEPT !.holder = u]
<1>1. seat' = [seat EXCEPT !["QA"] = row]
  BY <1>0 DEF TypeOK, SeatRows
<1>2. SeatsAgree'
  <2>. SUFFICES ASSUME course.status \in UnderReview
                PROVE  SeatsStand(Position(course), seat', verdict)
    BY DEF SeatsAgree
  <2>1. SeatsStand(Position(course), seat, verdict)
    BY DEF SeatState, SeatsAgree
  <2>. HIDE DEF row
  <2>2. SeatsStand(Position(course), [seat EXCEPT !["QA"] = row], verdict)
    BY <1>0, <2>1, HeldStands DEF TypeOK
  <2>. QED BY <1>1, <2>2
<1>3. SeatHeld'
  <2>1. course.status \in Reviewable => course.stage \in ContentSeats
    BY OpenSeats DEF TypeOK, SeatState
  <2>2. \A s \in ContentSeats : seat'[s] = seat[s]
    BY DEF ContentSeats, Seats, TypeOK, SeatRows
  <2>. QED BY <2>1, <2>2 DEF SeatHeld, SeatState
<1>. QED BY <1>2, <1>3 DEF SeatState, StageStates, ModeFrozen, VideoKnown, FourEyes, Position

LEMMA PublishSeats ==
  ASSUME TypeOK, SeatState, PublishCourse
  PROVE  SeatState'
<1>1. course.status = "APPROVED" /\ UNCHANGED <<seat, verdict, appeal>>
  BY DEF PublishCourse
<1>2. /\ course'.status = "PUBLISHED" /\ course'.stage = course.stage
      /\ course'.revisionSeat = course.revisionSeat /\ course'.flow = course.flow
      /\ course'.provider = course.provider /\ course'.attached = course.attached
      /\ course'.rejected = course.rejected
  BY StatusColumns DEF PublishCourse, TypeOK
<1>3. Position(course) = 5 /\ Position(course') = 5 /\ course.status \in UnderReview
  BY <1>1, <1>2, Positions DEF UnderReview, InFlight, Statuses
<1>. QED BY <1>1, <1>2, <1>3 DEF SeatState, StageStates, ModeFrozen, VideoKnown, SeatsAgree,
               SeatHeld, FourEyes, Reviewable

LEMMA ArchiveSeats ==
  ASSUME TypeOK, SeatState, ArchiveCourse
  PROVE  SeatState'
<1>1. /\ course.status \in Archivable /\ Source = "DEVELOPER_API"
      /\ UNCHANGED <<seat, verdict, appeal>>
  BY DEF ArchiveCourse
<1>2. /\ course'.status = "ARCHIVED" /\ course'.stage = NoSeat
      /\ course'.revisionSeat = course.revisionSeat /\ course'.flow = course.flow
      /\ course'.rejected = course.rejected
  BY ArchiveColumns DEF TypeOK
<1>. QED BY <1>1, <1>2 DEF SeatState, StageStates, ModeFrozen, VideoKnown, SeatsAgree,
               SeatHeld, FourEyes, Reviewable, UnderReview, InFlight

LEMMA DeleteSeats ==
  ASSUME NEW c, DeleteDraft(c)
  PROVE  SeatState'
<1>1. /\ course'.status = "DELETED" /\ course'.stage = NoSeat /\ course'.revisionSeat = NoSeat
      /\ course'.flow = "UNSET" /\ course'.rejected = FALSE
  BY DEF DeleteDraft, NewCourse
<1>2. verdict' = NoVerdicts /\ appeal' = "NONE"
  BY DEF DeleteDraft
<1>. QED BY <1>1, <1>2, Tables DEF SeatState, StageStates, ModeFrozen, VideoKnown, SeatsAgree,
               SeatHeld, FourEyes, Reviewable, UnderReview, InFlight, NoVerdicts, ContentSeats, Seats

LEMMA ChoiceSeats ==
  ASSUME TypeOK, SeatState, NEW c, NEW p, p # "NONE", SetProvider(c, p),
         UNCHANGED <<seat, verdict, appeal>>
  PROVE  SeatState'
<1>1. /\ course'.status = course.status /\ course'.stage = course.stage
      /\ course'.revisionSeat = course.revisionSeat /\ course'.flow = course.flow
      /\ course'.provider = p /\ course'.attached = course.attached
      /\ course'.rejected = course.rejected
  BY ChoiceColumns DEF TypeOK
<1>2. Position(course') = Position(course)
  BY <1>1 DEF Position
<1>. QED BY <1>1, <1>2 DEF SeatState, StageStates, ModeFrozen, VideoKnown, SeatsAgree,
               SeatHeld, FourEyes

\* A role change served in one go: the seats it takes away are not decided, and the
\* open one, when it is among them, puts the course back to Submitted.
LEMMA RoleSeats ==
  ASSUME TypeOK, SeatState, NEW u \in Reviewers, NEW r, ChangeRole(u, r, course, seat)
  PROVE  SeatState'
<1>. DEFINE Out(s) == Releases(u, r, s, course, seat)
            reopened == course.status = "IN_REVIEW" /\ Out(OpenSeat(course))
<1>0. course \in CourseRow /\ UNCHANGED <<verdict, appeal>>
  BY DEF TypeOK, ChangeRole
<1>1. \A s \in Seats : /\ Out(s) => ~seat[s].done /\ seat[s].holder = u
                                    /\ seat'[s] = [seat[s] EXCEPT !.holder = Nobody]
                       /\ ~Out(s) => seat'[s] = seat[s]
  BY DEF ChangeRole, Releases
<1>2. /\ course'.status = IF reopened THEN "SUBMITTED" ELSE course.status
      /\ course'.stage = course.stage
      /\ course'.revisionSeat = course.revisionSeat /\ course'.flow = course.flow
      /\ course'.provider = course.provider /\ course'.attached = course.attached
      /\ course'.rejected = course.rejected
  <2>1. course' = IF reopened THEN [course EXCEPT !.status = "SUBMITTED"] ELSE course
    BY DEF ChangeRole
  <2>. QED BY <1>0, <2>1, StatusColumns
<1>3. \A s \in Seats : seat[s] \in [holder : Accounts, done : BOOLEAN]
  BY DEF TypeOK, SeatRows
<1>. HIDE DEF Out
<1>4. Position(course') = Position(course) /\ (course'.status \in UnderReview <=> course.status \in UnderReview)
      /\ (course'.status \in Reviewable <=> course.status \in Reviewable)
  BY <1>2 DEF Position, Reviewable, UnderReview, InFlight, Statuses
<1>5. SeatsAgree'
  <2>. SUFFICES ASSUME course.status \in UnderReview, NEW s \in Seats
                PROVE  SeatStands(s, Position(course), seat'[s], verdict[s])
    BY <1>0, <1>4 DEF SeatsAgree, SeatsStand
  <2>1. SeatStands(s, Position(course), seat[s], verdict[s])
    BY DEF SeatState, SeatsAgree, SeatsStand
  <2>2. CASE ~Out(s)
    BY <1>1, <2>1, <2>2
  <2>3. CASE Out(s)
    <3>1. ~seat[s].done /\ seat[s].holder = u /\ u # Nobody
      BY <1>1, <2>3, NobodyAssumption
    <3>2. \A v : /\ seat[s] # [holder |-> v, done |-> TRUE]
                 /\ seat[s] # [holder |-> Nobody, done |-> FALSE]
      BY <3>1
    <3>. QED BY <2>1, <3>2 DEF SeatStands
  <2>. QED BY <2>2, <2>3
<1>6. StageStates' /\ ModeFrozen' /\ FourEyes'
  BY <1>0, <1>2, <1>4 DEF SeatState, StageStates, ModeFrozen, FourEyes, UnderReview, Reviewable, reopened
<1>7. VideoKnown'
  BY <1>2, <1>4 DEF SeatState, VideoKnown, Reviewable
<1>8. SeatHeld'
  <2>. SUFFICES ASSUME course.status \in Reviewable PROVE SeatHeld'
    BY <1>4 DEF SeatHeld
  <2>. DEFINE s == course.stage
  <2>1. s \in Seats /\ OpenSeat(course) = s
    BY OpenSeats, Tables DEF TypeOK, SeatState
  <2>2. ~seat[s].done /\ ((seat[s].holder # Nobody) <=> (course.status = "IN_REVIEW"))
    BY DEF SeatState, SeatHeld
  <2>3. CASE Out(s)
    <3>1. seat'[s].holder = Nobody /\ ~seat'[s].done /\ seat[s].holder # Nobody
      BY <1>1, <1>3, <2>1, <2>3, NobodyAssumption
    <3>. QED BY <1>2, <2>1, <2>2, <2>3, <3>1 DEF SeatHeld
  <2>4. CASE ~Out(s)
    BY <1>1, <1>2, <2>1, <2>2, <2>4 DEF SeatHeld
  <2>. QED BY <2>3, <2>4
<1>. QED BY <1>5, <1>6, <1>7, <1>8 DEF SeatState

-----------------------------------------------------------------------------
(* A rejection by QA committed late.  It writes the seat its instance had, *)
(* whatever the course did since: harmless as long as a staged course that *)
(* got to QA never falls behind it.                                        *)

Gone == course = [NewCourse EXCEPT !.status = "DELETED"] /\ appeal = "NONE"
AtQA ==
  /\ \/ course.status \in {"QA_VERIFICATION", "APPROVED", "PUBLISHED", "ARCHIVED"}
     \/ course.status = "NEEDS_REVISION" /\ course.revisionSeat = "QA"
  /\ course.attached /\ course.provider # "NONE"
  /\ \A s \in ContentSeats : /\ verdict[s] \in Reviewers
                             /\ seat[s] = [holder |-> verdict[s], done |-> TRUE]

\* What QA saw still fits the course.
Fits(c) ==
  /\ c.status = "QA_VERIFICATION" /\ c.revisionSeat = NoSeat /\ c.flow # "UNSET"
  /\ Gone \/ (course.flow = c.flow /\ (course.flow = "STAGED" => AtQA))

\* A step keeps the review mode, and takes no course back behind QA.
Onward ==
  \/ Gone'
  \/ /\ ~Gone
     /\ course.flow # "UNSET" => course'.flow = course.flow
     /\ course.flow = "STAGED" /\ AtQA => AtQA'

LEMMA FitsStill ==
  ASSUME NEW c, Fits(c), Onward
  PROVE  Fits(c)'
BY DEF Fits, Onward

\* A step outside the content seats of a course at QA.
LEMMA QAOnward ==
  ASSUME TypeOK, ~Gone, course.flow # "UNSET" => course'.flow = course.flow,
         course.flow = "STAGED" /\ AtQA =>
           /\ \/ course'.status \in {"QA_VERIFICATION", "APPROVED", "PUBLISHED", "ARCHIVED"}
              \/ course'.status = "NEEDS_REVISION" /\ course'.revisionSeat = "QA"
           /\ course'.attached = course.attached
           /\ course'.provider = course.provider \/ course'.provider # "NONE"
           /\ \A s \in ContentSeats : verdict'[s] = verdict[s] /\ seat'[s] = seat[s]
  PROVE  Onward
BY DEF Onward, AtQA

LEMMA StillOnward ==
  ASSUME UNCHANGED <<course, seat, verdict>>, appeal' = appeal \/ ~Gone
  PROVE  Onward
BY DEF Onward, AtQA, Gone

LEMMA ResumeOnward ==
  ASSUME TypeOK, SeatState, course.status = "NEEDS_REVISION", ResumeAtRevisionSeat(course)
  PROVE  Onward
<1>. DEFINE s == course.revisionSeat
<1>0. course \in CourseRow /\ s \in Seats /\ s # NoSeat /\ ~Gone
  BY OpenSeats DEF TypeOK, SeatState, Seats, ContentSeats, NoSeat, Gone, NewCourse
<1>1. /\ course'.status = IF s = "QA" THEN "QA_VERIFICATION" ELSE "SUBMITTED"
      /\ course'.flow = course.flow
      /\ course'.provider = course.provider /\ course'.attached = course.attached
      /\ seat' = ResetSeat(s) /\ verdict' = [verdict EXCEPT ![s] = Nobody]
  BY <1>0, ResumeColumns
<1>2. ASSUME AtQA
      PROVE  s = "QA" /\ \A t \in ContentSeats : verdict'[t] = verdict[t] /\ seat'[t] = seat[t]
  BY <1>1, <1>2 DEF AtQA, ContentSeats, Seats, ResetSeat, TypeOK, SeatRows
<1>. QED BY <1>0, <1>1, <1>2, QAOnward

LEMMA FilmOnward ==
  ASSUME TypeOK, course.status = "AWAITING_VIDEO", SendVideoToReview
  PROVE  Onward
<1>1. course'.flow = course.flow
  BY FilmColumns DEF TypeOK
<1>. QED BY <1>1, QAOnward DEF AtQA, Gone, NewCourse

LEMMA CreatorOnward ==
  ASSUME TypeOK, SeatState, CreatorStep
  PROVE  Onward
<1>. course \in CourseRow
  BY DEF TypeOK
<1>1. CASE SubmitDraft
  <2>. DEFINE row == [Reprice(course) EXCEPT
                        !.flow = IF @ = "UNSET" THEN platformFlow ELSE @]
  <2>1. Reprice(course) \in CourseRow /\ Reprice(course).flow = course.flow
    BY Repriced DEF Reprice, CourseRow
  <2>2. row \in CourseRow /\ (course.flow # "UNSET" => row.flow = course.flow)
    BY <2>1, RowUpdate DEF TypeOK, CourseRow
  <2>3. StartReviewCycle(row) /\ course.status = "DRAFT"
    BY <1>1 DEF SubmitDraft
  <2>. HIDE DEF row
  <2>4. course'.flow = row.flow
    BY <2>2, <2>3, CycleColumns
  <2>. QED BY <2>2, <2>3, <2>4, QAOnward DEF AtQA, Gone, NewCourse
<1>2. CASE ResubmitToSeat
  BY <1>2, ResumeOnward DEF ResubmitToSeat
<1>3. CASE ResubmitToEngine \/ SubmitAppeal
  BY <1>3, StillOnward DEF ResubmitToEngine, SubmitAppeal, Gone, NewCourse, Editable
<1>4. CASE DeleteDraft(course)
  BY <1>4 DEF DeleteDraft, Onward, Gone
<1>5. CASE RecordVideoDecision(course)
  <2>1. course'.flow = course.flow /\ course.status = "AWAITING_VIDEO"
    BY <1>5, ChoiceColumns DEF RecordVideoDecision
  <2>. QED BY <2>1, QAOnward DEF AtQA, Gone, NewCourse
<1>6. CASE SubmitVideo(course)
  BY <1>6, FilmOnward DEF SubmitVideo
<1>. QED BY <1>1, <1>2, <1>3, <1>4, <1>5, <1>6 DEF CreatorStep

LEMMA ReturnOnward ==
  ASSUME TypeOK, ~Gone, NEW c, NEW s \in Seats, NEW u,
         course' = ReturnForRevision(c, s), seat' = Decided(s, u),
         verdict' = [verdict EXCEPT ![s] = Nobody],
         AtQA => s = "QA" /\ (course.flow = "STAGED" => c.flow = "STAGED")
  PROVE  Onward
<1>1. /\ course'.flow = course.flow /\ course'.provider = course.provider
      /\ course'.attached = course.attached
      /\ c.flow = "STAGED" => course'.status = "NEEDS_REVISION" /\ course'.revisionSeat = s
  BY DEF ReturnForRevision, Staged, TypeOK, CourseRow
<1>2. s = "QA" => \A t \in ContentSeats : verdict'[t] = verdict[t] /\ seat'[t] = seat[t]
  BY DEF Decided, TypeOK, SeatRows, ContentSeats, Seats
<1>. QED BY <1>1, <1>2, QAOnward

LEMMA ReviewerOnward ==
  ASSUME TypeOK, SeatState, NEW u, NEW r, NEW c, NEW rows, NEW flag
  PROVE  /\ ClaimForReview(u, r) \/ AssignContentSeat(u, r, flag) => Onward
         /\ ApproveContent(u, r, c) => Onward
         /\ RejectCourse(u, r, c, flag) => Onward
         /\ AssignQASeat(u, r, flag) => Onward
         /\ ~Gone /\ ClaimQA(u, r, c, rows) => Onward
         /\ ApproveQA(u, r) => Onward
         /\ RejectQA(u, r, course, flag) => Onward
<1>. course \in CourseRow /\ "QA" \in Seats
  BY Tables DEF TypeOK
<1>0. course.status \in Reviewable => ~AtQA /\ ~Gone
  BY DEF Reviewable, AtQA, Gone, NewCourse
<1>1. ASSUME ClaimForReview(u, r) \/ AssignContentSeat(u, r, flag) PROVE Onward
  <2>1. course.status \in Reviewable /\ course' = [course EXCEPT !.status = "IN_REVIEW"]
    BY <1>1 DEF ClaimForReview, AssignContentSeat, Reviewable
  <2>2. course'.flow = course.flow
    BY <2>1, StatusColumns
  <2>. QED BY <1>0, <2>1, <2>2, QAOnward
<1>2. ASSUME ApproveContent(u, r, c) PROVE Onward
  <2>. DEFINE s == OpenSeat(course)
  <2>1. course.status \in Reviewable /\ s \in ContentSeats
    BY <1>2, OpenSeats DEF ApproveContent, NotMovedOn, SeatState
  <2>2. AfterApproval(s) \in CourseRow /\ PayOnApproval(AfterApproval(s), s)
    BY <1>2, <2>1, Approved DEF ApproveContent
  <2>3. course'.flow = AfterApproval(s).flow /\ AfterApproval(s).flow = course.flow
    BY <2>1, <2>2, PaidColumns, ApprovalColumns
  <2>. QED BY <1>0, <2>1, <2>3, QAOnward
<1>3. ASSUME RejectCourse(u, r, c, flag) PROVE Onward
  <2>1. course.status \in Reviewable /\ OpenSeat(course) \in Seats
    BY <1>3, OpenSeatType, Tables DEF RejectCourse, NotMovedOn
  <2>. QED BY <1>0, <1>3, <2>1, ReturnOnward DEF RejectCourse
<1>4. ASSUME ~Gone, AssignQASeat(u, r, flag) \/ ClaimQA(u, r, c, rows) PROVE Onward
  <2>1. /\ course' = course /\ verdict' = verdict
        /\ \A t \in ContentSeats : seat'[t] = seat[t]
    BY <1>4 DEF AssignQASeat, ClaimQA, ContentSeats, Seats, TypeOK, SeatRows
  <2>. QED BY <1>4, <2>1, QAOnward DEF AtQA
<1>4a. AssignQASeat(u, r, flag) => ~Gone
  BY DEF AssignQASeat, Gone, NewCourse
<1>5. ASSUME ApproveQA(u, r) PROVE Onward
  <2>. DEFINE a == [course EXCEPT !.status = "APPROVED"]
  <2>1. a \in CourseRow /\ PayOnApproval(a, "QA")
    BY <1>5, RowUpdate DEF ApproveQA, Statuses
  <2>2. /\ course'.status = "APPROVED" /\ course'.flow = course.flow
        /\ course'.provider = course.provider /\ course'.attached = course.attached
    <3>1. /\ course'.status = a.status /\ course'.flow = a.flow
          /\ course'.provider = a.provider /\ course'.attached = a.attached
      BY <2>1, PaidColumns
    <3>. QED BY <3>1 DEF CourseRow
  <2>3. \A t \in ContentSeats : verdict'[t] = verdict[t] /\ seat'[t] = seat[t]
    BY <1>5 DEF ApproveQA, Decided, ContentSeats, Seats, TypeOK, SeatRows
  <2>4. ~Gone
    BY <1>5 DEF ApproveQA, Gone, NewCourse
  <2>. QED BY <2>2, <2>3, <2>4, QAOnward
<1>6. ASSUME RejectQA(u, r, course, flag) PROVE Onward
  <2>1. ~Gone
    BY <1>6 DEF RejectQA, Gone, NewCourse
  <2>. QED BY <1>6, <2>1, ReturnOnward DEF RejectQA
<1>. QED BY <1>1, <1>2, <1>3, <1>4, <1>4a, <1>5, <1>6

LEMMA AdminOnward ==
  ASSUME TypeOK, SeatState, ~LateAppeals, AdminStep
  PROVE  Onward
<1>. course \in CourseRow
  BY DEF TypeOK
<1>1. CASE PublishCourse
  <2>1. /\ course'.status = "PUBLISHED" /\ course'.flow = course.flow
        /\ course'.provider = course.provider /\ course'.attached = course.attached
    BY <1>1, StatusColumns DEF PublishCourse
  <2>. QED BY <1>1, <2>1, QAOnward DEF PublishCourse, Gone, NewCourse
<1>2. CASE ApproveAppeal(appeal, course)
  <2>1. CASE course.status = "NEEDS_REVISION"
    BY <1>2, <2>1, ResumeOnward DEF ApproveAppeal
  <2>2. CASE course.status = "DRAFT"
    <3>1. StartReviewCycle(course)
      BY <1>2, <2>2 DEF ApproveAppeal
    <3>2. course'.flow = course.flow
      BY <3>1, CycleColumns
    <3>. QED BY <2>2, <3>2, QAOnward DEF AtQA, Gone, NewCourse
  <2>. QED BY <1>2, <2>1, <2>2 DEF ApproveAppeal, Editable
<1>3. CASE RejectAppeal \/ SwitchReviewFlow \/ RequestPackaging
  BY <1>3, StillOnward DEF RejectAppeal, SwitchReviewFlow, RequestPackaging, Gone
<1>4. CASE \E p \in {"DEVELOPER", "PRODUCTION_ENGINE"} : AssignVideo(p)
  <2>1. course'.flow = course.flow /\ course.status = "AWAITING_VIDEO"
    BY <1>4, ChoiceColumns DEF AssignVideo
  <2>. QED BY <2>1, QAOnward DEF AtQA, Gone, NewCourse
<1>5. CASE ArchiveCourse
  <2>1. /\ course'.status = "ARCHIVED" /\ course'.flow = course.flow
        /\ course'.provider = course.provider /\ course'.attached = course.attached
    BY <1>5, ArchiveColumns
  <2>. QED BY <1>5, <2>1, QAOnward DEF ArchiveCourse, Archivable, Gone, NewCourse
<1>6. ASSUME NEW u \in Reviewers, NEW r \in NewRoles, ChangeRole(u, r, course, seat) PROVE Onward
  <2>1. /\ appeal' = appeal /\ verdict' = verdict
        /\ course' = course \/ (course.status = "IN_REVIEW"
                                /\ course' = [course EXCEPT !.status = "SUBMITTED"])
    BY <1>6 DEF ChangeRole
  <2>2. \A s \in Seats : seat[s].done => seat'[s] = seat[s]
    BY <1>6 DEF ChangeRole, Releases
  <2>3. ASSUME AtQA, NEW s \in ContentSeats PROVE seat'[s] = seat[s]
    <3>1. s \in Seats /\ seat[s] = [holder |-> verdict[s], done |-> TRUE]
      BY <2>3, Tables DEF AtQA
    <3>2. seat[s].done = TRUE
      BY <3>1
    <3>. QED BY <2>2, <3>1, <3>2
  <2>4. course'.flow = course.flow
    BY <2>1, StatusColumns
  <2>5. CASE Gone
    BY <2>1, <2>5 DEF Onward, Gone, NewCourse
  <2>6. CASE ~Gone
    BY <2>1, <2>3, <2>4, <2>6, QAOnward DEF AtQA
  <2>. QED BY <2>5, <2>6
<1>. QED BY <1>1, <1>2, <1>3, <1>4, <1>5, <1>6 DEF AdminStep

LEMMA EngineOnward ==
  ASSUME TypeOK, SeatState, EngineStep
  PROVE  Onward
<1>1. CASE course.status = "AWAITING_VIDEO" /\ SendVideoToReview
  BY <1>1, FilmOnward
<1>2. CASE course.status = "NEEDS_REVISION" /\ ResumeAtRevisionSeat(course)
  BY <1>2, ResumeOnward
<1>3. CASE UNCHANGED <<course, seat, verdict, appeal>>
  BY <1>3, StillOnward
<1>. QED BY <1>1, <1>2, <1>3 DEF EngineStep, EngineDelivers, RunEnds, RetryRun

\* The rejection itself, on the course as it is by then.
LEMMA LateRejection ==
  ASSUME TypeOK, SeatState, ~LateAppeals, NEW u, NEW r, NEW c, NEW flag, Fits(c), ~Gone,
         RejectQA(u, r, c, flag)
  PROVE  SeatState' /\ Onward
<1>. course \in CourseRow /\ "QA" \in Seats
  BY Tables DEF TypeOK
<1>1. /\ course' = ReturnForRevision(c, "QA") /\ seat' = Decided("QA", u)
      /\ verdict' = [verdict EXCEPT !["QA"] = Nobody] /\ appeal' = appeal
  BY DEF RejectQA
<1>2. /\ course.flow = c.flow /\ c.flow # "UNSET" /\ c.revisionSeat = NoSeat
      /\ course.flow = "STAGED" => AtQA
  BY DEF Fits
<1>3. /\ course'.status = IF course.flow = "STAGED" THEN "NEEDS_REVISION" ELSE "DRAFT"
      /\ course'.stage = NoSeat
      /\ course'.revisionSeat = IF course.flow = "STAGED" THEN "QA" ELSE NoSeat
      /\ course'.flow = course.flow
      /\ course'.provider = course.provider /\ course'.attached = course.attached
      /\ course'.rejected = TRUE
  BY <1>1, <1>2 DEF ReturnForRevision, Staged, CourseRow
<1>4. Onward
  BY <1>1, <1>2, ReturnOnward
<1>5. StageStates' /\ ModeFrozen' /\ SeatHeld'
  BY <1>2, <1>3 DEF StageStates, ModeFrozen, SeatHeld, Reviewable, NoSeat
<1>6. VideoKnown' /\ SeatsAgree'
  <2>1. CASE course.flow # "STAGED"
    BY <1>3, <2>1 DEF VideoKnown, SeatsAgree, UnderReview, InFlight
  <2>2. CASE course.flow = "STAGED"
    <3>1. AtQA /\ Position(course') = 4 /\ course'.status = "NEEDS_REVISION"
      BY <1>2, <1>3, <2>2, Positions, Ranks
    <3>2. SeatsStand(4, seat', verdict')
      <4>. SUFFICES ASSUME NEW t \in Seats PROVE SeatStands(t, 4, seat'[t], verdict'[t])
        BY DEF SeatsStand
      <4>1. CASE t = "QA"
        <5>1. Rank[t] = 4 /\ verdict'[t] = Nobody
          BY <1>1, <4>1, Ranks DEF TypeOK
        <5>. QED BY <4>1, <5>1 DEF SeatStands
      <4>2. CASE t # "QA"
        <5>1. t \in ContentSeats
          BY <4>2 DEF Seats
        <5>2. /\ verdict'[t] \in Reviewers /\ seat'[t] = [holder |-> verdict'[t], done |-> TRUE]
              /\ Rank[t] \in 1..3
          BY <1>1, <3>1, <4>2, <5>1, Ranks DEF AtQA, Decided, TypeOK, SeatRows
        <5>. QED BY <5>2 DEF SeatStands
      <4>. QED BY <4>1, <4>2
    <3>. QED BY <1>3, <3>1, <3>2 DEF VideoKnown, SeatsAgree, AtQA
  <2>. QED BY <2>1, <2>2
<1>7. FourEyes'
  BY <1>1, ClearedEyes DEF TypeOK, SeatState
<1>. QED BY <1>4, <1>5, <1>6, <1>7 DEF SeatState

-----------------------------------------------------------------------------
(* The seats through any sequence of requests.                             *)

\* Handlers that may commit late: those that compare the locked row with the instance
\* they loaded or write nothing of a content seat, the video decision, and a deletion.
Rechecked == {"approve_content", "reject_course", "claim_qa"}
SeatSafe  == Rechecked \cup {"record_video_decision", "delete_draft"}

\* A rejection by QA may be late too, unless an appeal may: together they take a
\* course that started over straight to QA.
SafeRaces ==
  \/ Overlap \subseteq SeatSafe
  \/ Overlap \subseteq SeatSafe \cup {"reject_qa"} /\ ~LateAppeals

SeatInv ==
  /\ TypeOK
  /\ \A q \in Requests :
       /\ req[q].op \in Overlap \cup {"idle"}
       /\ req[q].op \in {"approve_content", "reject_course"} => req[q].who \in Reviewers
       /\ req[q].op = "reject_qa" => Fits(req[q].course)
  /\ SeatState

LEMMA CreatorSeats ==
  ASSUME TypeOK, SeatState, CreatorStep
  PROVE  SeatState'
<1>. course \in CourseRow
  BY DEF TypeOK
<1>1. CASE SubmitDraft
  <2>. DEFINE row == [Reprice(course) EXCEPT
                        !.flow = IF @ = "UNSET" THEN platformFlow ELSE @]
  <2>1. Reprice(course) \in CourseRow
    BY Repriced
  <2>2. row \in CourseRow
    BY <2>1, RowUpdate DEF TypeOK, CourseRow
  <2>3. /\ row.revisionSeat = course.revisionSeat /\ row.rejected = course.rejected
        /\ row.flow # "UNSET"
    BY DEF Reprice, CourseRow, TypeOK, Flows
  <2>4. StartReviewCycle(row) /\ course.status = "DRAFT" /\ appeal' = appeal
    BY <1>1 DEF SubmitDraft
  <2>. HIDE DEF row
  <2>5. course.revisionSeat = NoSeat \/ LeftSeat
    BY <2>4 DEF SeatState, StageStates
  <2>6. appeal' = "PENDING" => row.rejected
    BY <2>3, <2>4 DEF SeatState, ModeFrozen
  <2>. QED BY <2>2, <2>3, <2>4, <2>5, <2>6, CycleSeats
<1>2. CASE ResubmitToSeat
  BY <1>2, ResumeSeats DEF ResubmitToSeat, SeatState, ModeFrozen
<1>3. CASE ResubmitToEngine
  BY <1>3, SeatsUntouched DEF ResubmitToEngine, SeatState, ModeFrozen
<1>4. CASE SubmitAppeal
  BY <1>4, SeatsUntouched DEF SubmitAppeal
<1>5. CASE DeleteDraft(course)
  BY <1>5, DeleteSeats
<1>6. CASE RecordVideoDecision(course)
  BY <1>6, ChoiceSeats DEF RecordVideoDecision
<1>7. CASE SubmitVideo(course)
  BY <1>7, FilmSeats DEF SubmitVideo
<1>. QED BY <1>1, <1>2, <1>3, <1>4, <1>5, <1>6, <1>7 DEF CreatorStep

\* u acts with role r on the instance c of the course.
LEMMA ReviewerSeats ==
  ASSUME TypeOK, SeatState, NEW u, NEW r, NEW c, NEW rows, NEW flag
  PROVE  /\ u \in Reviewers /\ (ClaimForReview(u, r) \/ AssignContentSeat(u, r, flag)) => SeatState'
         /\ u \in Reviewers /\ ApproveContent(u, r, c) => SeatState'
         /\ RejectCourse(u, r, c, flag) => SeatState'
         /\ AssignQASeat(u, r, flag) \/ ClaimQA(u, r, c, rows) => SeatState'
         /\ u \in Reviewers /\ ApproveQA(u, r) => SeatState'
         /\ RejectQA(u, r, course, flag) => SeatState'
<1>. course \in CourseRow /\ "QA" \in Seats
  BY Tables DEF TypeOK
<1>0. course.status \in Reviewable =>
        /\ OpenSeat(course) = course.stage /\ course.stage \in Seats
        /\ Position(course) = Rank[course.stage]
  BY OpenSeats, Positions, Tables DEF SeatState
<1>1. ASSUME u \in Reviewers, ClaimForReview(u, r) \/ AssignContentSeat(u, r, flag) PROVE SeatState'
  <2>1. course.status \in Reviewable
    BY <1>1 DEF ClaimForReview, AssignContentSeat, Reviewable
  <2>2. /\ course' = [course EXCEPT !.status = "IN_REVIEW"]
        /\ seat' = [seat EXCEPT ![course.stage].holder = u]
        /\ verdict' = verdict /\ appeal' = appeal
    BY <1>0, <1>1, <2>1 DEF ClaimForReview, AssignContentSeat
  <2>. QED BY <1>1, <2>1, <2>2, ClaimSeats
<1>2. ASSUME u \in Reviewers, ApproveContent(u, r, c) PROVE SeatState'
  <2>1. course.status \in Reviewable
    BY <1>2 DEF ApproveContent, NotMovedOn
  <2>2. /\ MayDecide(u, r, course.stage)
        /\ seat' = Decided(course.stage, u) /\ verdict' = [verdict EXCEPT ![course.stage] = u]
        /\ PayOnApproval(AfterApproval(course.stage), course.stage) /\ appeal' = appeal
    BY <1>0, <1>2, <2>1 DEF ApproveContent
  <2>. QED BY <1>2, <2>1, <2>2, ApprovalSeats
<1>3. ASSUME RejectCourse(u, r, c, flag) PROVE SeatState'
  <2>1. course.status \in Reviewable
    BY <1>3 DEF RejectCourse, NotMovedOn
  <2>2. /\ course' = ReturnForRevision(course, course.stage)
        /\ seat' = Decided(course.stage, u) /\ verdict' = [verdict EXCEPT ![course.stage] = Nobody]
        /\ appeal' = appeal
    BY <1>0, <1>3, <2>1 DEF RejectCourse
  <2>. QED BY <1>0, <2>1, <2>2, ReturnSeats
<1>4. ASSUME AssignQASeat(u, r, flag) \/ ClaimQA(u, r, c, rows) PROVE SeatState'
  BY <1>4, QAHolderSeats DEF AssignQASeat, ClaimQA
<1>5. ASSUME u \in Reviewers, ApproveQA(u, r) PROVE SeatState'
  BY <1>5, QAApprovalSeats DEF ApproveQA
<1>6. ASSUME RejectQA(u, r, course, flag) PROVE SeatState'
  <2>1. course.status = "QA_VERIFICATION" /\ Position(course) = Rank["QA"]
    BY <1>6, Positions, Ranks DEF RejectQA
  <2>. QED BY <1>6, <2>1, ReturnSeats DEF RejectQA
<1>. QED BY <1>1, <1>2, <1>3, <1>4, <1>5, <1>6

LEMMA AdminSeats ==
  ASSUME TypeOK, SeatState, AdminStep
  PROVE  SeatState'
<1>. course \in CourseRow
  BY DEF TypeOK
<1>1. CASE PublishCourse
  BY <1>1, PublishSeats
<1>2. CASE ApproveAppeal(appeal, course)
  <2>1. course.rejected /\ appeal' = "APPROVED"
    BY <1>2 DEF ApproveAppeal, SeatState, ModeFrozen
  <2>2. CASE course.status = "NEEDS_REVISION"
    BY <1>2, <2>1, <2>2, ResumeSeats DEF ApproveAppeal
  <2>3. CASE course.status # "NEEDS_REVISION"
    <3>1. StartReviewCycle(course) /\ (course.status = "ARCHIVED" => LateAppeals)
      BY <1>2, <2>3 DEF ApproveAppeal, Editable
    <3>2. course.flow # "UNSET" /\ (course.revisionSeat = NoSeat \/ LeftSeat)
      BY <2>1, <2>3, <3>1 DEF SeatState, ModeFrozen, StageStates, LeftSeat
    <3>. QED BY <2>1, <3>1, <3>2, CycleSeats
  <2>. QED BY <2>2, <2>3
<1>3. CASE RejectAppeal \/ SwitchReviewFlow \/ RequestPackaging
  BY <1>3, SeatsUntouched DEF RejectAppeal, SwitchReviewFlow, RequestPackaging, SeatState, ModeFrozen
<1>4. CASE \E p \in {"DEVELOPER", "PRODUCTION_ENGINE"} : AssignVideo(p)
  BY <1>4, ChoiceSeats DEF AssignVideo
<1>5. CASE ArchiveCourse
  BY <1>5, ArchiveSeats
<1>6. CASE \E u \in Reviewers, r \in NewRoles : ChangeRole(u, r, course, seat)
  BY <1>6, RoleSeats
<1>. QED BY <1>1, <1>2, <1>3, <1>4, <1>5, <1>6 DEF AdminStep

LEMMA EngineSeats ==
  ASSUME TypeOK, SeatState, EngineStep
  PROVE  SeatState'
<1>0. appeal' = "PENDING" => course.rejected
  BY DEF EngineStep, EngineDelivers, RunEnds, RetryRun, SeatState, ModeFrozen
<1>1. CASE EngineDelivers
  <2>1. CASE /\ course.status = "AWAITING_VIDEO" /\ course.provider = "PRODUCTION_ENGINE"
             /\ SendVideoToReview
    BY <1>1, <2>1, FilmSeats DEF EngineDelivers
  <2>2. CASE course.status = "NEEDS_REVISION" /\ ResumeAtRevisionSeat(course)
    BY <1>0, <2>2, ResumeSeats
  <2>3. CASE UNCHANGED <<course, seat, verdict>>
    BY <1>0, <2>3, SeatsUntouched
  <2>. QED BY <1>1, <2>1, <2>2, <2>3 DEF EngineDelivers
<1>2. CASE RunEnds \/ RetryRun
  BY <1>0, <1>2, SeatsUntouched DEF RunEnds, RetryRun
<1>. QED BY <1>1, <1>2 DEF EngineStep

LEMMA OperationSeats ==
  ASSUME TypeOK, SeatState,
         CreatorStep \/ AdminStep \/ EngineStep \/ \E u \in Reviewers : ReviewerStep(u)
  PROVE  SeatState'
<1>1. CASE \E u \in Reviewers : ReviewerStep(u)
  BY <1>1, ReviewerSeats DEF ReviewerStep
<1>. QED BY <1>1, CreatorSeats, AdminSeats, EngineSeats

LEMMA ServeSeats ==
  ASSUME TypeOK, SeatState, NEW rq, Serve(rq),
         rq.op \in SeatSafe \/ (rq.op = "reject_qa" /\ Fits(rq.course) /\ ~LateAppeals),
         rq.op \in {"approve_content", "reject_course"} => rq.who \in Reviewers
  PROVE  SeatState'
<1>1. CASE rq.who \in Reviewers /\ ApproveContent(rq.who, rq.role, rq.course)
  BY <1>1, ReviewerSeats
<1>2. CASE \E flag \in BOOLEAN : RejectCourse(rq.who, rq.role, rq.course, flag)
  BY <1>2, ReviewerSeats
<1>3. CASE ClaimQA(rq.who, rq.role, rq.course, rq.seat)
  BY <1>3, ReviewerSeats
<1>4. CASE RecordVideoDecision(rq.course)
  BY <1>4, ChoiceSeats DEF RecordVideoDecision
<1>5. CASE DeleteDraft(rq.course)
  BY <1>5, DeleteSeats
<1>6. CASE /\ rq.op = "reject_qa" /\ course.status # "DELETED"
           /\ \E flag \in BOOLEAN : RejectQA(rq.who, rq.role, rq.course, flag)
  <2>1. ~Gone /\ Fits(rq.course) /\ ~LateAppeals
    BY <1>6 DEF Gone, NewCourse, SeatSafe, Rechecked
  <2>. QED BY <1>6, <2>1, LateRejection
<1>. QED BY <1>1, <1>2, <1>3, <1>4, <1>5, <1>6 DEF Serve, SeatSafe, Rechecked

\* With no late appeal, no operation and no late request takes a course back.
LEMMA OperationOnward ==
  ASSUME TypeOK, SeatState, ~LateAppeals,
         CreatorStep \/ AdminStep \/ EngineStep \/ \E u \in Reviewers : ReviewerStep(u)
  PROVE  Onward
<1>1. CASE \E u \in Reviewers : ReviewerStep(u)
  <2>1. PICK u \in Reviewers : ReviewerStep(u)
    BY <1>1
  <2>2. ClaimQA(u, role[u], course, seat) => ~Gone
    BY DEF ClaimQA, Gone, NewCourse
  <2>. QED BY <2>1, <2>2, ReviewerOnward DEF ReviewerStep
<1>. QED BY <1>1, CreatorOnward, AdminOnward, EngineOnward

LEMMA ServeOnward ==
  ASSUME TypeOK, SeatState, ~LateAppeals, NEW rq, Serve(rq),
         rq.op \in SeatSafe \/ (rq.op = "reject_qa" /\ Fits(rq.course))
  PROVE  Onward
<1>0. ~Gone /\ course.status # "DELETED"
  BY DEF Serve, SeatSafe, Rechecked, Gone, NewCourse
<1>1. CASE \/ ApproveContent(rq.who, rq.role, rq.course)
           \/ \E flag \in BOOLEAN : RejectCourse(rq.who, rq.role, rq.course, flag)
           \/ ClaimQA(rq.who, rq.role, rq.course, rq.seat)
  BY <1>0, <1>1, ReviewerOnward
<1>2. CASE RecordVideoDecision(rq.course)
  <2>1. PICK p \in {"CREATOR", "PRODUCTION_ENGINE"} : SetProvider(rq.course, p)
    BY <1>2 DEF RecordVideoDecision
  <2>2. /\ course'.status = course.status /\ course'.revisionSeat = course.revisionSeat
        /\ course'.flow = course.flow /\ course'.attached = course.attached
        /\ course'.provider = p
    BY <2>1, ChoiceColumns DEF TypeOK
  <2>. QED BY <1>0, <1>2, <2>2, QAOnward DEF RecordVideoDecision, AtQA
<1>3. CASE DeleteDraft(rq.course)
  BY <1>3 DEF DeleteDraft, Onward, Gone
<1>4. CASE \E flag \in BOOLEAN : rq.op = "reject_qa" /\ RejectQA(rq.who, rq.role, rq.course, flag)
  <2>1. Fits(rq.course)
    BY <1>4 DEF SeatSafe, Rechecked
  <2>. QED BY <1>0, <1>4, <2>1, LateRejection
<1>. QED BY <1>1, <1>2, <1>3, <1>4 DEF Serve, SeatSafe, Rechecked

\* What QA sees fits the course when it loads it.
LEMMA LoadFits ==
  ASSUME TypeOK, SeatState, ~LateAppeals, course.status = "QA_VERIFICATION"
  PROVE  Fits(course)
<1>1. course.status \in UnderReview \ {"AWAITING_VIDEO"} /\ Position(course) = 4
  BY Positions DEF UnderReview, InFlight, Statuses
<1>2. course.revisionSeat = NoSeat /\ course.flow # "UNSET"
  BY <1>1 DEF SeatState, StageStates, ModeFrozen, LeftSeat
<1>3. course.flow = "STAGED" => course.attached /\ course.provider # "NONE"
  BY <1>1, Ranks DEF SeatState, VideoKnown
<1>4. ASSUME NEW s \in ContentSeats
      PROVE  verdict[s] \in Reviewers /\ seat[s] = [holder |-> verdict[s], done |-> TRUE]
  <2>1. s \in Seats /\ s # "QA" /\ Rank[s] \in 1..3
    BY Ranks DEF Seats, ContentSeats
  <2>2. SeatStands(s, 4, seat[s], verdict[s])
    BY <1>1, <2>1 DEF SeatState, SeatsAgree, SeatsStand
  <2>. QED BY <2>1, <2>2 DEF SeatStands
<1>. QED BY <1>2, <1>3, <1>4 DEF Fits, AtQA

\* The course part of a step.
LEMMA CourseStep ==
  ASSUME SafeRaces, SeatInv, [Next]_vars
  PROVE  SeatState' /\ (~LateAppeals => Onward)
<1>1. TypeOK /\ SeatState
  BY DEF SeatInv
<1>2. CASE CreatorStep \/ AdminStep \/ EngineStep \/ \E u \in Reviewers : ReviewerStep(u)
  BY <1>1, <1>2, OperationSeats, OperationOnward
<1>3. ASSUME NEW q \in Requests, Commit(q) PROVE SeatState' /\ (~LateAppeals => Onward)
  <2>1. Serve(req[q]) /\ req[q].op # "idle"
    BY <1>3 DEF Commit, Serve
  <2>2. /\ \/ req[q].op \in SeatSafe
           \/ req[q].op = "reject_qa" /\ Fits(req[q].course) /\ ~LateAppeals
        /\ req[q].op \in {"approve_content", "reject_course"} => req[q].who \in Reviewers
    BY <2>1 DEF SeatInv, SafeRaces
  <2>. QED BY <1>1, <2>1, <2>2, ServeSeats, ServeOnward
<1>4. CASE UNCHANGED <<course, seat, verdict, appeal>>
  BY <1>1, <1>4, SeatsUntouched, StillOnward DEF SeatState, ModeFrozen
<1>. QED BY <1>2, <1>3, <1>4 DEF Next, Load, Refuse, vars

LEMMA SeatStep ==
  ASSUME SafeRaces, SeatInv, [Next]_vars
  PROVE  SeatInv'
<1>1. TypeOK /\ TypeOK' /\ SeatState /\ SeatState' /\ (~LateAppeals => Onward)
  BY TypeStep, CourseStep DEF SeatInv
<1>2. ASSUME NEW q \in Requests, req'[q] \in {req[q], Idle}
      PROVE  /\ req'[q].op \in Overlap \cup {"idle"}
             /\ req'[q].op \in {"approve_content", "reject_course"} => req'[q].who \in Reviewers
             /\ req'[q].op = "reject_qa" => Fits(req[q].course)'
  <2>1. CASE req'[q] = Idle
    BY <2>1 DEF Idle
  <2>2. CASE req'[q] = req[q] /\ req[q].op = "reject_qa"
    <3>1. Onward /\ Fits(req[q].course)
      BY <1>1, <2>2 DEF SeatInv, SafeRaces, SeatSafe, Rechecked
    <3>2. PICK c : c = req[q].course
      OBVIOUS
    <3>3. Fits(c)'
      BY <3>1, <3>2, FitsStill
    <3>. QED BY <2>2, <3>2, <3>3 DEF SeatInv
  <2>3. CASE req'[q] = req[q] /\ req[q].op # "reject_qa"
    BY <2>3 DEF SeatInv
  <2>. QED BY <1>2, <2>1, <2>2, <2>3
<1>3. CASE \A q \in Requests : req'[q] \in {req[q], Idle}
  BY <1>1, <1>2, <1>3 DEF SeatInv
<1>4. ASSUME NEW q \in Requests, Load(q) PROVE SeatInv'
  <2>. DEFINE Loads(op, a) ==
           /\ Starts(op)
           /\ req' = [req EXCEPT ![q] =
             [op |-> op, who |-> a[1], role |-> a[2], course |-> Instance(op),
              seat |-> IF op \in {"claim_qa", "change_role"} THEN seat ELSE EmptySeats,
              appeal |-> IF op = "approve_appeal" THEN appeal ELSE "NONE"]]
  <2>0. PICK op \in Overlap : \E a \in Actors(op) : Loads(op, a)
    BY <1>4 DEF Load
  <2>1. PICK a \in Actors(op) : Loads(op, a)
    BY <2>0
  <2>2. /\ req'[q].op = op /\ req'[q].who = a[1] /\ req'[q].course = Instance(op)
        /\ \A p \in Requests : p # q => req'[p] = req[p]
    BY <1>1, <2>1 DEF TypeOK
  <2>3. op \in {"approve_content", "reject_course"} => a[1] \in Reviewers
    BY <2>1 DEF Actors
  <2>4. op = "reject_qa" => Fits(course) /\ req'[q].course = course
    <3>. SUFFICES ASSUME op = "reject_qa" PROVE Fits(course) /\ req'[q].course = course
      OBVIOUS
    <3>1. course.status = "QA_VERIFICATION" /\ ~LateAppeals /\ Instance(op) = course
      BY <2>1 DEF Starts, Instance, SeatInv, SafeRaces, SeatSafe, Rechecked
    <3>. QED BY <1>1, <2>2, <3>1, LoadFits
  <2>5. op = "reject_qa" => Fits(req[q].course)'
    <3>. SUFFICES ASSUME op = "reject_qa" PROVE Fits(req[q].course)'
      OBVIOUS
    <3>1. UNCHANGED <<course, seat, verdict, appeal>>
      BY <1>4 DEF Load
    <3>. QED BY <2>4, <3>1 DEF Fits, Gone, AtQA
  <2>. QED BY <1>1, <1>2, <2>2, <2>3, <2>5 DEF SeatInv
<1>5. CASE \A q \in Requests : ~Load(q)
  <2>1. \A q \in Requests : req'[q] \in {req[q], Idle}
    BY <1>1, <1>5 DEF Next, Commit, Refuse, vars, TypeOK
  <2>. QED BY <1>3, <2>1
<1>. QED BY <1>4, <1>5

LEMMA InitSeats == Init => SeatInv
<1>. SUFFICES ASSUME Init PROVE SeatInv
  OBVIOUS
<1>1. TypeOK
  BY InitTypes
<1>2. /\ course.status = "DRAFT" /\ course.stage = NoSeat /\ course.revisionSeat = NoSeat
      /\ course.flow = "UNSET" /\ ~course.rejected
      /\ verdict = NoVerdicts /\ appeal = "NONE"
  BY DEF Init, NewCourse
<1>3. SeatState
  BY <1>2, Tables DEF SeatState, StageStates, ModeFrozen, VideoKnown, SeatsAgree,
     SeatHeld, FourEyes, Reviewable, UnderReview, InFlight, NoVerdicts
<1>4. \A q \in Requests : req[q] = Idle
  BY DEF Init
<1>. QED BY <1>1, <1>3, <1>4 DEF SeatInv, Idle

LEMMA SeatsInvariant ==
  ASSUME SafeRaces
  PROVE  Spec => []SeatInv
<1>1. SeatInv /\ [Next]_vars => SeatInv'
  BY SeatStep
<1>. QED BY <1>1, InitSeats, PTL DEF Spec

-----------------------------------------------------------------------------
(* What the seats guarantee.                                               *)

\* The three content seats of a cycle are approved by three people, through
\* takeovers, reassignments, role changes, revisions and late approvals.
THEOREM FourEyesHold ==
  ASSUME SafeRaces
  PROVE  Spec => []FourEyes
<1>1. SeatInv => FourEyes
  BY DEF SeatInv, SeatState
<1>. QED BY <1>1, SeatsInvariant, PTL

\* require_seat_access reads rows that tell the truth: every seat before the open one
\* is stamped with the reviewer who approved it in this cycle.
THEOREM StampsAreTrue ==
  ASSUME SafeRaces
  PROVE  Spec => []EarlierSeatsStand
<1>1. SeatInv => EarlierSeatsStand
  <2>. SUFFICES ASSUME SeatInv, course.status \in Reviewable, NEW e \in EarlierSeats(course.stage)
                PROVE  verdict[e] # Nobody /\ seat[e] = [holder |-> verdict[e], done |-> TRUE]
    BY DEF EarlierSeatsStand
  <2>1. course.status \in UnderReview /\ Position(course) = Rank[course.stage]
    BY Positions DEF UnderReview, InFlight, Reviewable, Statuses
  <2>2. e \in Seats /\ e # "QA" /\ Rank[e] < Rank[course.stage]
    BY Tables DEF EarlierSeats, ContentSeats
  <2>3. SeatStands(e, Rank[course.stage], seat[e], verdict[e])
    BY <2>1, <2>2 DEF SeatInv, SeatState, SeatsAgree, SeatsStand
  <2>. QED BY <2>2, <2>3, NobodyAssumption DEF SeatStands
<1>. QED BY <1>1, SeatsInvariant, PTL

\* A course is In Review exactly while somebody who has not decided holds its open
\* seat, through claims, reassignments, decisions, releases and resubmissions.
THEOREM OpenSeatIsHeld ==
  ASSUME SafeRaces
  PROVE  Spec => []SeatHeld
<1>1. SeatInv => SeatHeld
  BY DEF SeatInv, SeatState
<1>. QED BY <1>1, SeatsInvariant, PTL

\* review_stage, revision_seat and the frozen review mode never contradict the status.
THEOREM StatusAndSeatAgree ==
  ASSUME SafeRaces, ~LateAppeals \/ Source # "DEVELOPER_API"
  PROVE  Spec => []SeatStates
<1>1. SeatInv => SeatStates
  BY DEF SeatInv, SeatState, SeatStates, StageStates, LeftSeat
<1>. QED BY <1>1, SeatsInvariant, PTL

\* BR-001: a course is approved and published only over a standing approval of each of
\* its four seats.
THEOREM ReviewIsNotBypassed ==
  ASSUME SafeRaces
  PROVE  Spec => []NoBypass
<1>1. SeatInv => NoBypass
  <2>. SUFFICES ASSUME SeatInv, course.status \in {"APPROVED", "PUBLISHED"}, NEW s \in Seats
                PROVE  verdict[s] # Nobody
    BY DEF NoBypass
  <2>1. course.status \in UnderReview /\ Position(course) = 5
    BY Positions DEF UnderReview, InFlight, Statuses
  <2>2. SeatStands(s, 5, seat[s], verdict[s])
    BY <2>1 DEF SeatInv, SeatState, SeatsAgree, SeatsStand
  <2>3. Rank[s] \in 1..4
    BY Ranks
  <2>. QED BY <2>2, <2>3, NobodyAssumption DEF SeatStands
<1>. QED BY <1>1, SeatsInvariant, PTL

\* In the staged flow no course reaches QA without a video and somebody who films it.
THEOREM VideoIsReviewed ==
  ASSUME SafeRaces
  PROVE  Spec => []VideoReviewed
<1>1. SeatInv => VideoReviewed
  <2>. SUFFICES ASSUME SeatInv, course.status \in {"QA_VERIFICATION", "APPROVED", "PUBLISHED"},
                       course.flow = "STAGED"
                PROVE  course.attached /\ course.provider # "NONE"
    BY DEF VideoReviewed
  <2>1. course.status \in UnderReview \ {"AWAITING_VIDEO"} /\ Position(course) \in {4, 5}
    BY Positions DEF UnderReview, InFlight, Statuses
  <2>. QED BY <2>1, Ranks DEF SeatInv, SeatState, VideoKnown
<1>. QED BY <1>1, SeatsInvariant, PTL

\* What a step may do to the approvals.
VerdictStep ==
  \/ verdict' = verdict
  \/ verdict' = NoVerdicts
  \/ \E s \in Seats : verdict' = [verdict EXCEPT ![s] = Nobody]
  \/ \E s \in Seats, u \in Accounts : verdict[s] = Nobody /\ verdict' = [verdict EXCEPT ![s] = u]

LEMMA ReviewerVerdicts ==
  ASSUME TypeOK, SeatState, NEW u \in Accounts, NEW r, NEW c, NEW rows, NEW flag
  PROVE  /\ ClaimForReview(u, r) \/ AssignContentSeat(u, r, flag) => VerdictStep
         /\ ApproveContent(u, r, c) \/ RejectCourse(u, r, c, flag) => VerdictStep
         /\ AssignQASeat(u, r, flag) \/ ClaimQA(u, r, c, rows) => VerdictStep
         /\ ApproveQA(u, r) \/ RejectQA(u, r, c, flag) => VerdictStep
<1>. "QA" \in Seats /\ course \in CourseRow
  BY Tables DEF TypeOK
<1>1. ASSUME NEW s \in Seats, course.status \in UnderReview, Position(course) = Rank[s]
      PROVE  verdict[s] = Nobody
  <2>1. SeatStands(s, Rank[s], seat[s], verdict[s]) /\ Rank[s] \in 1..4
    BY <1>1, Ranks DEF SeatState, SeatsAgree, SeatsStand
  <2>. QED BY <2>1 DEF SeatStands
<1>2. ASSUME ApproveContent(u, r, c) PROVE VerdictStep
  <2>1. course.status \in Reviewable /\ course.status \in UnderReview
    BY <1>2 DEF ApproveContent, NotMovedOn, Reviewable, UnderReview, InFlight, Statuses
  <2>2. OpenSeat(course) \in Seats /\ Position(course) = Rank[OpenSeat(course)]
    BY <2>1, OpenSeats, Positions, Tables DEF SeatState
  <2>. QED BY <1>1, <1>2, <2>1, <2>2 DEF ApproveContent, VerdictStep
<1>3. ASSUME RejectCourse(u, r, c, flag) PROVE VerdictStep
  <2>1. OpenSeat(course) \in Seats
    BY OpenSeatType, Tables
  <2>. QED BY <1>3, <2>1 DEF RejectCourse, VerdictStep
<1>4. ASSUME ApproveQA(u, r) PROVE VerdictStep
  <2>1. course.status \in UnderReview /\ Position(course) = Rank["QA"]
    BY <1>4, Positions, Ranks DEF ApproveQA, UnderReview, InFlight, Statuses
  <2>. QED BY <1>1, <1>4, <2>1 DEF ApproveQA, VerdictStep
<1>5. RejectQA(u, r, c, flag) => VerdictStep
  BY DEF RejectQA, VerdictStep
<1>6. ClaimForReview(u, r) \/ AssignContentSeat(u, r, flag) \/ AssignQASeat(u, r, flag)
      \/ ClaimQA(u, r, c, rows) => VerdictStep
  BY DEF ClaimForReview, AssignContentSeat, AssignQASeat, ClaimQA, VerdictStep
<1>. QED BY <1>2, <1>3, <1>4, <1>5, <1>6

LEMMA CyclesVerdicts ==
  ASSUME TypeOK, NEW c \in CourseRow
  PROVE  /\ \A row : StartReviewCycle(row) => VerdictStep
         /\ ResumeAtRevisionSeat(c) => VerdictStep
         /\ SendVideoToReview => VerdictStep
<1>1. (IF c.revisionSeat = NoSeat THEN "CONTENT" ELSE c.revisionSeat) \in Seats
  BY DEF CourseRow, Seats, ContentSeats, NoSeat
<1>2. "SECOND_REVIEW" \in Seats
  BY DEF Seats, ContentSeats
<1>. QED BY <1>1, <1>2 DEF StartReviewCycle, ResumeAtRevisionSeat, SendVideoToReview, VerdictStep

LEMMA NextVerdicts ==
  ASSUME SafeRaces, SeatInv, [Next]_vars
  PROVE  VerdictStep
<1>. TypeOK /\ SeatState /\ course \in CourseRow /\ Reviewers \subseteq Accounts
  BY DEF SeatInv, TypeOK, Accounts
<1>1. CASE CreatorStep
  BY <1>1, CyclesVerdicts DEF CreatorStep, SubmitDraft, ResubmitToSeat, ResubmitToEngine, SubmitAppeal,
     DeleteDraft, RecordVideoDecision, SubmitVideo, VerdictStep
<1>2. CASE \E u \in Reviewers : ReviewerStep(u)
  BY <1>2, ReviewerVerdicts DEF ReviewerStep
<1>3. CASE AdminStep
  BY <1>3, CyclesVerdicts DEF AdminStep, PublishCourse, ApproveAppeal, RejectAppeal, AssignVideo,
     ArchiveCourse, SwitchReviewFlow, RequestPackaging, ChangeRole, VerdictStep
<1>4. CASE EngineStep
  BY <1>4, CyclesVerdicts DEF EngineStep, EngineDelivers, RunEnds, RetryRun, VerdictStep
<1>5. ASSUME NEW q \in Requests, Commit(q) PROVE VerdictStep
  <2>1. /\ req[q].op \in SeatSafe \cup {"reject_qa"}
        /\ req[q].who \in Accounts /\ Serve(req[q])
    BY <1>5 DEF SeatInv, SafeRaces, Commit, Serve, TypeOK, Request
  <2>. QED BY <2>1, ReviewerVerdicts DEF Serve, SeatSafe, Rechecked, RecordVideoDecision, DeleteDraft,
           VerdictStep
<1>6. CASE \E q \in Requests : Load(q) \/ Refuse(q)
  BY <1>6 DEF Load, Refuse, VerdictStep
<1>7. CASE UNCHANGED vars
  BY <1>7 DEF vars, VerdictStep
<1>. QED BY <1>1, <1>2, <1>3, <1>4, <1>5, <1>6, <1>7 DEF Next

\* An approval is never replaced by another reviewer's.
THEOREM ApprovalsAreNotReplaced ==
  ASSUME SafeRaces
  PROVE  Spec => VerdictStands
<1>1. SeatInv /\ [Next]_vars =>
        [\A s \in Seats : verdict[s] # Nobody /\ verdict'[s] # verdict[s]
                            => verdict'[s] = Nobody]_vars
  <2>. SUFFICES ASSUME SeatInv, [Next]_vars, NEW s \in Seats, verdict[s] # Nobody,
                       verdict'[s] # verdict[s]
                PROVE  verdict'[s] = Nobody
    OBVIOUS
  <2>1. VerdictStep /\ verdict \in [Seats -> Accounts]
    BY NextVerdicts DEF SeatInv, TypeOK
  <2>. QED BY <2>1 DEF VerdictStep, NoVerdicts
<1>. QED BY <1>1, SeatsInvariant, PTL DEF Spec, VerdictStands

\* A published course stays published: what is served late compares the status again
\* or leaves it alone.
THEOREM PublishingIsFinal ==
  ASSUME Overlap \subseteq SeatSafe \ {"delete_draft"}, ~LateAppeals
  PROVE  Spec => PublishedIsFinal
<1>1. SeatInv /\ [Next]_vars =>
        [course.status = "PUBLISHED" => course'.status = "PUBLISHED"]_vars
  <2>. SUFFICES ASSUME SeatInv, [Next]_vars, course.status = "PUBLISHED"
                PROVE  course'.status = "PUBLISHED"
    OBVIOUS
  <2>. course \in CourseRow
    BY DEF SeatInv, TypeOK
  <2>1. CASE CreatorStep
    BY <2>1 DEF CreatorStep, SubmitDraft, ResubmitToSeat, ResubmitToEngine, SubmitAppeal,
       DeleteDraft, RecordVideoDecision, SubmitVideo
  <2>2. CASE \E u \in Reviewers : ReviewerStep(u)
    BY <2>2 DEF ReviewerStep, ClaimForReview, AssignContentSeat, ApproveContent, RejectCourse,
       NotMovedOn, Reviewable, AssignQASeat, ClaimQA, ApproveQA, RejectQA
  <2>3. CASE AdminStep
    BY <2>3 DEF AdminStep, PublishCourse, ApproveAppeal, Editable, RejectAppeal, AssignVideo,
       ArchiveCourse, Archivable, SwitchReviewFlow, RequestPackaging, ChangeRole
  <2>4. CASE EngineStep
    BY <2>4 DEF EngineStep, EngineDelivers, RunEnds, RetryRun
  <2>5. ASSUME NEW q \in Requests, Commit(q) PROVE course'.status = "PUBLISHED"
    <3>1. req[q].op \in SeatSafe \ {"delete_draft"} /\ Serve(req[q])
      BY <2>5 DEF SeatInv, Commit, Serve
    <3>2. CASE RecordVideoDecision(req[q].course)
      BY <3>2, ChoiceColumns DEF RecordVideoDecision
    <3>. QED BY <3>1, <3>2 DEF Serve, SeatSafe, Rechecked, ApproveContent, RejectCourse, NotMovedOn,
             Reviewable, ClaimQA
  <2>6. CASE \E q \in Requests : Load(q) \/ Refuse(q)
    BY <2>6 DEF Load, Refuse
  <2>7. CASE UNCHANGED vars
    BY <2>7 DEF vars
  <2>. QED BY <2>1, <2>2, <2>3, <2>4, <2>5, <2>6, <2>7 DEF Next
<1>2. SafeRaces
  BY DEF SafeRaces
<1>. QED BY <1>1, <1>2, SeatsInvariant, PTL DEF Spec, PublishedIsFinal

-----------------------------------------------------------------------------
(* What a course is paid, and for what.                                    *)

Price(c) == PriceTypeFor(Source, c.provider)

\* The strengthening of the price properties: before it is sent there is no payment,
\* only the staged flow films, and a payment is at the price of whoever films, with the
\* payout seat behind the course.
PriceState ==
  /\ course.status \in {"DRAFT", "DELETED"} => credits = <<>>
  /\ course.flow # "STAGED" => course.provider = "NONE"
  /\ course.status \in UnderReview \/ course.rejected => course.payoutType = Price(course)
  /\ credits # <<>> => credits = <<Price(course)>>
  /\ credits # <<>> /\ course.status \in UnderReview =>
       Position(course) > Rank[PayoutSeat(course.provider)]
  /\ course.status \in {"APPROVED", "PUBLISHED"} /\ Payable => credits # <<>>
  /\ PaymentEarned

LEMMA PayoutRanks ==
  \A p : /\ PayoutSeat(p) \in PayoutSeats /\ PayoutSeat(p) \in Seats
         /\ Rank[PayoutSeat(p)] \in 2..4
         /\ p = "NONE" => Rank[PayoutSeat(p)] = 4
BY Ranks DEF PayoutSeat, PayoutSeats, Seats, ContentSeats

LEMMA Unpaid ==
  ASSUME SeatState, PriceState, course.status \in UnderReview,
         Position(course) \in 1..2 \/ (course.flow # "STAGED" /\ Position(course) \in 1..4)
  PROVE  credits = <<>>
<1>1. Rank[PayoutSeat(course.provider)] \in 2..4
      /\ (course.provider = "NONE" => Rank[PayoutSeat(course.provider)] = 4)
  BY PayoutRanks
<1>. QED BY <1>1 DEF PriceState

\* A payment at a position past the payout seat has been earned.
LEMMA Earned ==
  ASSUME NEW p, NEW rows, NEW ver, NEW filmer, SeatsStand(p, rows, ver),
         p > Rank[PayoutSeat(filmer)]
  PROVE  \E s \in PayoutSeats : Rank[s] >= Rank[PayoutSeat(filmer)] /\ ver[s] # Nobody
<1>. DEFINE s == PayoutSeat(filmer)
<1>1. s \in PayoutSeats /\ s \in Seats /\ Rank[s] \in 2..4
  BY PayoutRanks
<1>2. SeatStands(s, p, rows[s], ver[s])
  BY <1>1 DEF SeatsStand
<1>3. ver[s] # Nobody
  BY <1>2, NobodyAssumption DEF SeatStands
<1>. QED BY <1>1, <1>3

LEMMA EarnedUnderReview ==
  ASSUME SeatsAgree', course'.status \in UnderReview,
         credits' # <<>> => Position(course') > Rank[PayoutSeat(course'.provider)]
  PROVE  PaymentEarned'
<1>. SUFFICES ASSUME credits' # <<>> PROVE PaymentEarned'
  BY DEF PaymentEarned
<1>. DEFINE p == Position(course')
            filmer == course'.provider
<1>1. SeatsStand(p, seat', verdict') /\ p > Rank[PayoutSeat(filmer)]
  BY DEF SeatsAgree
<1>. HIDE DEF p
<1>2. \E s \in PayoutSeats : Rank[s] >= Rank[PayoutSeat(filmer)] /\ verdict'[s] # Nobody
  BY <1>1, Earned
<1>. QED BY <1>2 DEF PaymentEarned

\* A step that keeps the price and the payment, and takes a paid course forward, into
\* the archive or nowhere.
PriceKept ==
  /\ credits' = credits
  /\ course'.provider = course.provider /\ course'.flow = course.flow
  /\ course'.payoutType = course.payoutType
  /\ course'.rejected => course.rejected \/ course.status \in UnderReview
  /\ course'.status \in {"DRAFT", "DELETED"} => credits = <<>>
  /\ course'.status \in {"APPROVED", "PUBLISHED"} => course.status \in {"APPROVED", "PUBLISHED"}
  /\ course'.status \in UnderReview =>
       \/ course.rejected /\ credits = <<>>
       \/ /\ course.status \in UnderReview
          /\ Position(course') \in 1..5 /\ Position(course) \in 1..5
          /\ Position(course') >= Position(course)
  /\ course'.status = "ARCHIVED" => verdict' = verdict

LEMMA PriceKeeps ==
  ASSUME TypeOK', SeatState', PriceState, PriceKept
  PROVE  PriceState'
<1>1. Price(course') = Price(course)
  BY DEF Price, PriceKept
<1>2. credits' # <<>> /\ course'.status \in UnderReview =>
        Position(course') > Rank[PayoutSeat(course'.provider)]
  <2>1. Rank[PayoutSeat(course.provider)] \in 2..4
    BY PayoutRanks
  <2>. QED BY <2>1 DEF PriceKept, PriceState
<1>3. PaymentEarned'
  <2>1. CASE course'.status \in UnderReview
    BY <1>2, <2>1, EarnedUnderReview DEF SeatState
  <2>2. CASE course'.status \in {"DRAFT", "DELETED"}
    BY <2>2 DEF PriceKept, PaymentEarned
  <2>3. CASE course'.status = "ARCHIVED"
    BY <2>3 DEF PriceKept, PriceState, PaymentEarned
  <2>4. course'.status \in Statuses
    BY DEF TypeOK, CourseRow
  <2>. QED BY <2>1, <2>2, <2>3, <2>4 DEF UnderReview, InFlight
<1>. QED BY <1>1, <1>2, <1>3 DEF PriceState, PriceKept

LEMMA ReturnPrice ==
  ASSUME SeatState, PriceState, course \in CourseRow,
         course.status \in Reviewable \cup {"QA_VERIFICATION"},
         NEW s \in Seats, Position(course) = Rank[s], course' = ReturnForRevision(course, s),
         credits' = credits
  PROVE  PriceKept
<1>1. course.status \in UnderReview /\ course.flow # "UNSET"
  BY DEF UnderReview, InFlight, Statuses, Reviewable, SeatState, ModeFrozen
<1>2. /\ course'.status = IF course.flow = "STAGED" THEN "NEEDS_REVISION" ELSE "DRAFT"
      /\ course.flow = "STAGED" => course'.revisionSeat = s
      /\ course'.flow = course.flow /\ course'.provider = course.provider
      /\ course'.payoutType = course.payoutType
  BY <1>1, ReturnColumns DEF Staged
<1>3. Rank[s] \in 1..4
  BY Ranks
<1>4. CASE course.flow = "STAGED"
  <2>1. course'.status = "NEEDS_REVISION" /\ Position(course') = Rank[s]
    BY <1>2, <1>4, Positions
  <2>. QED BY <1>1, <1>2, <1>3, <2>1 DEF PriceKept
<1>5. CASE course.flow # "STAGED"
  <2>1. credits = <<>> /\ course'.status = "DRAFT"
    BY <1>1, <1>2, <1>3, <1>5, Unpaid
  <2>. QED BY <1>1, <1>2, <2>1 DEF PriceKept, UnderReview, InFlight
<1>. QED BY <1>4, <1>5

LEMMA ResumePrice ==
  ASSUME SeatState, PriceState, course \in CourseRow, course.status = "NEEDS_REVISION",
         ResumeAtRevisionSeat(course), credits' = credits
  PROVE  PriceKept
<1>. DEFINE s == course.revisionSeat
<1>1. course.status \in UnderReview /\ s \in Seats /\ Position(course) = Rank[s] /\ s # NoSeat
  BY OpenSeats, Positions DEF UnderReview, InFlight, Statuses, SeatState, Seats, ContentSeats, NoSeat
<1>2. /\ course'.status = IF s = "QA" THEN "QA_VERIFICATION" ELSE "SUBMITTED"
      /\ course'.stage = IF s = "QA" THEN NoSeat ELSE s
      /\ course'.flow = course.flow /\ course'.provider = course.provider
      /\ course'.rejected = course.rejected /\ course'.payoutType = course.payoutType
  BY <1>1, ResumeColumns
<1>3. Position(course') = Rank[s] /\ Rank[s] \in 1..4
  BY <1>1, <1>2, Positions, Ranks DEF Reviewable
<1>. QED BY <1>1, <1>2, <1>3 DEF PriceKept, UnderReview, InFlight

LEMMA FilmPrice ==
  ASSUME SeatState, PriceState, course \in CourseRow, course.status = "AWAITING_VIDEO",
         SendVideoToReview, credits' = credits
  PROVE  PriceKept
<1>1. course.status \in UnderReview /\ Position(course) = 2
  BY Positions DEF UnderReview, InFlight, Statuses
<1>2. /\ course'.status = "SUBMITTED" /\ course'.stage = "SECOND_REVIEW"
      /\ course'.flow = course.flow /\ course'.provider = course.provider
      /\ course'.rejected = course.rejected /\ course'.payoutType = course.payoutType
  BY FilmColumns
<1>3. Position(course') = 2
  BY <1>2, Positions, Ranks DEF Reviewable
<1>. QED BY <1>1, <1>2, <1>3 DEF PriceKept

LEMMA PositionRange ==
  ASSUME course \in CourseRow, StageStates, course.status \in UnderReview
  PROVE  Position(course) \in 1..5
<1>1. CASE course.status \in Reviewable
  BY <1>1, OpenSeats, Positions, Ranks, Tables
<1>2. CASE course.status = "NEEDS_REVISION"
  BY <1>2, OpenSeats, Positions, Ranks
<1>3. CASE course.status \in {"AWAITING_VIDEO", "QA_VERIFICATION", "APPROVED", "PUBLISHED"}
  BY <1>3, Positions
<1>. QED BY <1>1, <1>2, <1>3 DEF UnderReview, InFlight, Statuses, Reviewable

\* Nothing that the price depends on changes.
LEMMA PriceUntouched ==
  ASSUME TypeOK, SeatState, PriceState,
         UNCHANGED <<course, credits, verdict>>
  PROVE  PriceKept
<1>1. course.status \in UnderReview => Position(course) \in 1..5
  BY PositionRange DEF TypeOK, SeatState
<1>2. Position(course') = Position(course)
  BY DEF Position
<1>. QED BY <1>1, <1>2 DEF PriceKept, PriceState

\* The status moves within the statuses of one position.
LEMMA StatusPrice ==
  ASSUME TypeOK, SeatState, PriceState, NEW x \in {"SUBMITTED", "IN_REVIEW"},
         course.status \in Reviewable, course' = [course EXCEPT !.status = x],
         credits' = credits
  PROVE  PriceKept
<1>1. /\ course'.status = x /\ course'.stage = course.stage
      /\ course'.flow = course.flow /\ course'.provider = course.provider
      /\ course'.rejected = course.rejected /\ course'.payoutType = course.payoutType
  BY StatusColumns DEF TypeOK
<1>2. /\ Position(course) = Rank[course.stage] /\ Position(course') = Rank[course.stage]
      /\ Rank[course.stage] \in 1..3
  <2>1. course.stage \in ContentSeats
    BY OpenSeats DEF TypeOK, SeatState
  <2>2. course'.status \in Reviewable
    BY <1>1 DEF Reviewable
  <2>3. Rank[course.stage] \in 1..3
    BY <2>1, Ranks
  <2>4. Position(course) = Rank[course.stage] /\ Position(course') = Rank[course'.stage]
    BY <2>2, Positions
  <2>. QED BY <1>1, <2>3, <2>4
<1>. QED BY <1>1, <1>2 DEF PriceKept, Reviewable, UnderReview, InFlight, Statuses

\* Whoever films is chosen before anything is paid.
LEMMA ChoicePrice ==
  ASSUME TypeOK, SeatState, PriceState, course.status = "AWAITING_VIDEO",
         NEW p, SetProvider(course, p), credits' = credits
  PROVE  PriceState'
<1>1. course.status \in UnderReview /\ Position(course) = 2 /\ credits = <<>>
      /\ course.flow = "STAGED"
  <2>1. course.status \in UnderReview /\ Position(course) = 2
    BY Positions DEF UnderReview, InFlight, Statuses
  <2>2. credits = <<>>
    BY <2>1, Unpaid
  <2>. QED BY <2>1, <2>2 DEF SeatState, StageStates
<1>2. /\ course'.status = "AWAITING_VIDEO" /\ course'.flow = "STAGED" /\ course'.provider = p
      /\ course'.payoutType = PriceTypeFor(Source, p)
  BY <1>1, ChoiceColumns DEF TypeOK
<1>. QED BY <1>1, <1>2 DEF PriceState, Price, PaymentEarned

LEMMA SubmitPrice ==
  ASSUME TypeOK, SeatState, PriceState, SubmitDraft
  PROVE  PriceState'
<1>. DEFINE row == [Reprice(course) EXCEPT
                      !.flow = IF @ = "UNSET" THEN platformFlow ELSE @]
<1>1. Reprice(course) \in CourseRow
  BY Repriced DEF TypeOK
<1>2. row \in CourseRow
  BY <1>1, RowUpdate DEF TypeOK, CourseRow
<1>3. /\ row.provider = course.provider /\ row.payoutType = Price(course)
  BY DEF Reprice, CourseRow, TypeOK, Price
<1>4. StartReviewCycle(row) /\ course.status = "DRAFT" /\ credits' = credits
  BY DEF SubmitDraft
<1>. HIDE DEF row
<1>5. /\ course'.status = "SUBMITTED" /\ course'.provider = course.provider
      /\ course'.payoutType = Price(course)
  BY <1>2, <1>3, <1>4, CycleColumns
<1>6. credits = <<>> /\ course.provider = "NONE"
  BY <1>4 DEF PriceState, SeatState, ModeFrozen
<1>. QED BY <1>4, <1>5, <1>6 DEF PriceState, Price, PaymentEarned

LEMMA DeletePrice ==
  ASSUME PriceState, DeleteDraft(course)
  PROVE  PriceState'
<1>1. /\ course'.status = "DELETED" /\ course'.provider = "NONE" /\ course'.rejected = FALSE
  BY DEF DeleteDraft, NewCourse
<1>2. credits' = <<>>
  BY DEF DeleteDraft, PriceState
<1>. QED BY <1>1, <1>2 DEF PriceState, PaymentEarned, UnderReview, InFlight

\* The price a payment is made at is the one locked by the last choice.
LEMMA PayPrice ==
  ASSUME TypeOK, PaidOnce, SeatState', PriceState,
         NEW c \in CourseRow, c.paid = course.paid, course.status # "DELETED",
         c.status \in UnderReview, NEW s \in Seats, PayOnApproval(c, s),
         Position(course') = Rank[s] + 1,
         c.payoutType = Price(c), c.flow # "STAGED" => c.provider = "NONE",
         credits # <<>> => c.provider = course.provider /\ Rank[s] + 1 > Rank[PayoutSeat(c.provider)],
         c.status \in {"APPROVED", "PUBLISHED"} => s = "QA"
  PROVE  PriceState'
<1>1. /\ course'.status = c.status /\ course'.flow = c.flow /\ course'.provider = c.provider
      /\ course'.payoutType = c.payoutType
  BY PaidColumns
<1>2. Price(course') = Price(c) /\ Price(c) \in PriceTypes
  BY <1>1, Tables DEF Price
<1>3. c.paid <=> credits # <<>>
  BY DEF PaidOnce
<1>4. Rank[s] \in 1..4 /\ Rank["QA"] = 4 /\ "QA" \in PayoutSeats
      /\ Rank[PayoutSeat(c.provider)] \in 2..4
  BY Ranks, PayoutRanks DEF PayoutSeats, Seats, ContentSeats
<1>5. credits' # <<>> => credits' = <<Price(c)>>
  <2>1. CASE Pays(c, s)
    <3>1. credits = <<>> /\ credits' = Append(credits, Price(c))
      BY <1>3, <2>1 DEF Pays, PayOnApproval
    <3>. QED BY <3>1
  <2>2. CASE ~Pays(c, s)
    <3>1. credits' = credits
      BY <2>2 DEF PayOnApproval
    <3>2. credits # <<>> => credits = <<Price(course)>> /\ Price(course) = Price(c)
      BY DEF PriceState, Price
    <3>. QED BY <3>1, <3>2
  <2>. QED BY <2>1, <2>2
<1>6. credits' # <<>> => Rank[s] + 1 > Rank[PayoutSeat(c.provider)]
  <2>1. CASE Pays(c, s)
    BY <1>4, <2>1 DEF Pays
  <2>2. CASE ~Pays(c, s)
    BY <2>2 DEF PayOnApproval
  <2>. QED BY <2>1, <2>2
<1>7. c.status \in {"APPROVED", "PUBLISHED"} /\ Payable => credits' # <<>>
  <2>. SUFFICES ASSUME c.status \in {"APPROVED", "PUBLISHED"}, Payable PROVE credits' # <<>>
    OBVIOUS
  <2>1. CASE Pays(c, s)
    <3>1. credits' = Append(credits, Price(c)) /\ credits \in Seq(PriceTypes)
      BY <2>1 DEF PayOnApproval, TypeOK
    <3>. QED BY <1>2, <3>1
  <2>2. CASE ~Pays(c, s)
    <3>1. c.payoutType # "NONE"
      BY <1>2 DEF PriceTypes
    <3>2. c.paid
      BY <1>4, <2>2, <3>1 DEF Pays
    <3>. QED BY <1>3, <2>2, <3>2 DEF PayOnApproval
  <2>. QED BY <2>1, <2>2
<1>8. PaymentEarned'
  BY <1>1, <1>6, EarnedUnderReview DEF SeatState
<1>. QED BY <1>1, <1>2, <1>5, <1>6, <1>7, <1>8 DEF PriceState, UnderReview, InFlight

LEMMA ApprovalPrice ==
  ASSUME TypeOK, PaidOnce, SeatState, SeatState', PriceState, NEW u, NEW r,
         ApproveContent(u, r, course)
  PROVE  PriceState'
<1>. DEFINE s == course.stage
            c == AfterApproval(s)
<1>0. /\ course \in CourseRow /\ course.status \in Reviewable /\ course.status \in UnderReview
      /\ course.flow # "UNSET" /\ course.status # "DELETED"
  BY DEF TypeOK, ApproveContent, NotMovedOn, Reviewable, UnderReview, InFlight, Statuses,
         SeatState, ModeFrozen
<1>1. /\ s \in Seats /\ s \in ContentSeats /\ OpenSeat(course) = s
      /\ Position(course) = Rank[s] /\ Rank[s] \in 1..3
  BY <1>0, OpenSeats, Positions, Ranks, Tables DEF SeatState
<1>2. c \in CourseRow /\ NextSeat(s) \in ContentSeats \cup {NoSeat}
  BY <1>1, Approved, Tables
<1>3. PayOnApproval(c, s)
  BY <1>1 DEF ApproveContent
<1>4. /\ c.paid = course.paid /\ c.flow = course.flow
      /\ s = "CONTENT" /\ course.flow = "STAGED" =>
           c.status = "AWAITING_VIDEO" /\ c.payoutType = Price(c)
      /\ ~(s = "CONTENT" /\ course.flow = "STAGED") =>
           /\ c.status = IF NextSeat(s) = NoSeat THEN "QA_VERIFICATION" ELSE "SUBMITTED"
           /\ c.stage = NextSeat(s)
           /\ c.provider = course.provider /\ c.payoutType = course.payoutType
  BY <1>0, ApprovalColumns DEF Staged, Price
<1>5. course'.status = c.status /\ course'.stage = c.stage
  BY <1>2, <1>3, PaidColumns
<1>. HIDE DEF c
<1>6. c.status \in UnderReview /\ c.status \notin {"APPROVED", "PUBLISHED"}
  BY <1>4 DEF UnderReview, InFlight, Statuses
<1>7. Position(course') = Rank[s] + 1
  <2>1. CASE s = "CONTENT" /\ course.flow = "STAGED"
    BY <1>4, <1>5, <2>1, Positions, Ranks
  <2>2. CASE ~(s = "CONTENT" /\ course.flow = "STAGED") /\ NextSeat(s) = NoSeat
    BY <1>1, <1>4, <1>5, <2>2, Positions, Ranks
  <2>3. CASE ~(s = "CONTENT" /\ course.flow = "STAGED") /\ NextSeat(s) # NoSeat
    <3>1. Rank[NextSeat(s)] = Rank[s] + 1
      BY <1>1, <2>3, Ranks
    <3>2. course'.status \in Reviewable /\ course'.stage = NextSeat(s)
      BY <1>4, <1>5, <2>3 DEF Reviewable
    <3>. QED BY <3>1, <3>2, Positions
  <2>. QED BY <2>1, <2>2, <2>3
<1>8. c.payoutType = Price(c)
  BY <1>0, <1>4 DEF PriceState, Price
<1>9. c.flow # "STAGED" => c.provider = "NONE"
  BY <1>4 DEF PriceState
<1>10. credits # <<>> => c.provider = course.provider /\ Rank[s] + 1 > Rank[PayoutSeat(c.provider)]
  <2>1. CASE Position(course) \in 1..2
    BY <1>0, <2>1, Unpaid
  <2>2. CASE Position(course) = 3
    <3>1. c.provider = course.provider
      <4>1. Rank["CONTENT"] = 1
        BY Ranks
      <4>2. s # "CONTENT"
        <5>1. Rank[s] = 3
          BY <1>1, <2>2
        <5>. QED BY <4>1, <5>1
      <4>. QED BY <1>4, <4>2
    <3>2. Rank[PayoutSeat(course.provider)] \in 2..4
      BY PayoutRanks
    <3>. QED BY <1>0, <1>1, <3>1, <3>2 DEF PriceState
  <2>. QED BY <1>1, <2>1, <2>2
<1>. QED BY <1>0, <1>1, <1>2, <1>3, <1>4, <1>6, <1>7, <1>8, <1>9, <1>10, PayPrice

LEMMA QAApprovalPrice ==
  ASSUME TypeOK, PaidOnce, SeatState, SeatState', PriceState, NEW u, NEW r, ApproveQA(u, r)
  PROVE  PriceState'
<1>. DEFINE c == [course EXCEPT !.status = "APPROVED"]
<1>0. /\ course \in CourseRow /\ course.status = "QA_VERIFICATION" /\ course.status \in UnderReview
      /\ course.status # "DELETED" /\ PayOnApproval(c, "QA") /\ "QA" \in Seats
  BY Tables DEF TypeOK, ApproveQA, UnderReview, InFlight, Statuses
<1>1. c \in CourseRow
  BY <1>0, RowUpdate DEF Statuses
<1>2. /\ c.status = "APPROVED" /\ c.paid = course.paid /\ c.flow = course.flow
      /\ c.provider = course.provider /\ c.payoutType = course.payoutType
  BY <1>0 DEF CourseRow
<1>. HIDE DEF c
<1>3. course'.status = "APPROVED"
  BY <1>0, <1>1, <1>2, PaidColumns
<1>4. Position(course') = Rank["QA"] + 1 /\ Rank["QA"] = 4
  BY <1>3, Positions, Ranks
<1>5. c.payoutType = Price(c) /\ (c.flow # "STAGED" => c.provider = "NONE")
  BY <1>0, <1>2 DEF PriceState, Price
<1>6. Rank["QA"] + 1 > Rank[PayoutSeat(c.provider)]
  <2>1. Rank[PayoutSeat(c.provider)] \in 2..4
    BY PayoutRanks
  <2>. QED BY <1>4, <2>1
<1>7. c.status \in UnderReview
  BY <1>2 DEF UnderReview, InFlight, Statuses
<1>. QED BY <1>0, <1>1, <1>2, <1>4, <1>5, <1>6, <1>7, PayPrice

LEMMA CreatorPrice ==
  ASSUME TypeOK, TypeOK', SeatState, SeatState', PriceState, CreatorStep
  PROVE  PriceState'
<1>. course \in CourseRow
  BY DEF TypeOK
<1>1. CASE SubmitDraft
  BY <1>1, SubmitPrice
<1>2. CASE ResubmitToSeat
  BY <1>2, ResumePrice, PriceKeeps DEF ResubmitToSeat
<1>3. CASE ResubmitToEngine \/ SubmitAppeal
  BY <1>3, PriceUntouched, PriceKeeps DEF ResubmitToEngine, SubmitAppeal
<1>4. CASE DeleteDraft(course)
  BY <1>4, DeletePrice
<1>5. CASE RecordVideoDecision(course)
  BY <1>5, ChoicePrice DEF RecordVideoDecision
<1>6. CASE SubmitVideo(course)
  BY <1>6, FilmPrice, PriceKeeps DEF SubmitVideo
<1>. QED BY <1>1, <1>2, <1>3, <1>4, <1>5, <1>6 DEF CreatorStep

LEMMA ReviewerPrice ==
  ASSUME TypeOK, TypeOK', PaidOnce, SeatState, SeatState', PriceState,
         NEW u, NEW r, NEW c, NEW rows, NEW flag
  PROVE  /\ ClaimForReview(u, r) \/ AssignContentSeat(u, r, flag) => PriceState'
         /\ ApproveContent(u, r, c) => PriceState'
         /\ RejectCourse(u, r, c, flag) => PriceState'
         /\ AssignQASeat(u, r, flag) \/ ClaimQA(u, r, c, rows) => PriceState'
         /\ ApproveQA(u, r) => PriceState'
         /\ RejectQA(u, r, course, flag) => PriceState'
<1>. course \in CourseRow /\ "QA" \in Seats
  BY Tables DEF TypeOK
<1>1. ASSUME ClaimForReview(u, r) \/ AssignContentSeat(u, r, flag) PROVE PriceState'
  <2>1. /\ course.status \in Reviewable /\ course' = [course EXCEPT !.status = "IN_REVIEW"]
        /\ credits' = credits
    BY <1>1 DEF ClaimForReview, AssignContentSeat, Reviewable
  <2>. QED BY <2>1, StatusPrice, PriceKeeps
<1>2. ASSUME ApproveContent(u, r, c) PROVE PriceState'
  <2>1. ApproveContent(u, r, course)
    BY <1>2 DEF ApproveContent, NotMovedOn
  <2>. QED BY <2>1, ApprovalPrice
<1>3. ASSUME RejectCourse(u, r, c, flag) PROVE PriceState'
  <2>1. course.status \in Reviewable
    BY <1>3 DEF RejectCourse, NotMovedOn
  <2>2. OpenSeat(course) \in Seats /\ Position(course) = Rank[OpenSeat(course)]
    BY <2>1, OpenSeats, Positions, Tables DEF SeatState
  <2>3. course' = ReturnForRevision(course, OpenSeat(course)) /\ credits' = credits
    BY <1>3 DEF RejectCourse
  <2>. QED BY <2>1, <2>2, <2>3, ReturnPrice, PriceKeeps
<1>4. ASSUME AssignQASeat(u, r, flag) \/ ClaimQA(u, r, c, rows) PROVE PriceState'
  BY <1>4, PriceUntouched, PriceKeeps DEF AssignQASeat, ClaimQA
<1>5. ApproveQA(u, r) => PriceState'
  BY QAApprovalPrice
<1>6. ASSUME RejectQA(u, r, course, flag) PROVE PriceState'
  <2>1. course.status = "QA_VERIFICATION" /\ Position(course) = Rank["QA"]
    BY <1>6, Positions, Ranks DEF RejectQA
  <2>. QED BY <1>6, <2>1, ReturnPrice, PriceKeeps DEF RejectQA
<1>. QED BY <1>1, <1>2, <1>3, <1>4, <1>5, <1>6

LEMMA AdminPrice ==
  ASSUME TypeOK, TypeOK', SeatState, SeatState', PriceState, ~LateAppeals, AdminStep
  PROVE  PriceState'
<1>. course \in CourseRow
  BY DEF TypeOK
<1>1. CASE PublishCourse
  <2>1. course.status = "APPROVED" /\ credits' = credits
    BY <1>1 DEF PublishCourse
  <2>2. /\ course'.status = "PUBLISHED" /\ course'.flow = course.flow
        /\ course'.provider = course.provider /\ course'.rejected = course.rejected
        /\ course'.payoutType = course.payoutType
    BY <1>1, StatusColumns DEF PublishCourse
  <2>3. Position(course) = 5 /\ Position(course') = 5 /\ course.status \in UnderReview
    BY <2>1, <2>2, Positions DEF UnderReview, InFlight, Statuses
  <2>4. PriceKept
    BY <2>1, <2>2, <2>3 DEF PriceKept
  <2>. QED BY <2>4, PriceKeeps
<1>2. CASE ApproveAppeal(appeal, course)
  <2>1. course.status \in Editable /\ course.rejected /\ credits' = credits
    BY <1>2 DEF ApproveAppeal, SeatState, ModeFrozen
  <2>2. CASE course.status = "NEEDS_REVISION"
    BY <1>2, <2>1, <2>2, ResumePrice, PriceKeeps DEF ApproveAppeal
  <2>3. CASE course.status = "DRAFT"
    <3>1. StartReviewCycle(course) /\ credits = <<>>
      BY <1>2, <2>3 DEF ApproveAppeal, PriceState
    <3>2. PriceKept
      BY <2>1, <3>1, CycleColumns DEF PriceKept
    <3>. QED BY <3>2, PriceKeeps
  <2>. QED BY <2>1, <2>2, <2>3 DEF Editable
<1>3. CASE RejectAppeal \/ SwitchReviewFlow \/ RequestPackaging
  BY <1>3, PriceUntouched, PriceKeeps DEF RejectAppeal, SwitchReviewFlow, RequestPackaging
<1>4. CASE \E p \in {"DEVELOPER", "PRODUCTION_ENGINE"} : AssignVideo(p)
  BY <1>4, ChoicePrice DEF AssignVideo
<1>5. CASE ArchiveCourse
  <2>1. /\ course'.status = "ARCHIVED" /\ course'.flow = course.flow
        /\ course'.provider = course.provider /\ course'.rejected = course.rejected
        /\ course'.payoutType = course.payoutType
    BY <1>5, ArchiveColumns
  <2>2. PriceKept
    BY <1>5, <2>1 DEF ArchiveCourse, PriceKept, UnderReview, InFlight
  <2>. QED BY <2>2, PriceKeeps
<1>6. CASE \E u \in Reviewers, r \in NewRoles : ChangeRole(u, r, course, seat)
  <2>1. /\ credits' = credits /\ verdict' = verdict
        /\ course' = course \/ (course.status \in Reviewable
                                /\ course' = [course EXCEPT !.status = "SUBMITTED"])
    BY <1>6 DEF ChangeRole, Reviewable
  <2>. QED BY <2>1, StatusPrice, PriceUntouched, PriceKeeps
<1>. QED BY <1>1, <1>2, <1>3, <1>4, <1>5, <1>6 DEF AdminStep

LEMMA EnginePrice ==
  ASSUME TypeOK, TypeOK', SeatState, SeatState', PriceState, EngineStep
  PROVE  PriceState'
<1>. course \in CourseRow /\ credits' = credits
  BY DEF TypeOK, EngineStep, EngineDelivers, RunEnds, RetryRun
<1>1. CASE course.status = "AWAITING_VIDEO" /\ SendVideoToReview
  BY <1>1, FilmPrice, PriceKeeps
<1>2. CASE course.status = "NEEDS_REVISION" /\ ResumeAtRevisionSeat(course)
  BY <1>2, ResumePrice, PriceKeeps
<1>3. CASE UNCHANGED <<course, verdict>>
  BY <1>3, PriceUntouched, PriceKeeps
<1>. QED BY <1>1, <1>2, <1>3 DEF EngineStep, EngineDelivers, RunEnds, RetryRun

LEMMA PriceStep ==
  ASSUME Overlap \subseteq Rechecked, ~LateAppeals, PaidOnce,
         SeatInv, SeatInv', PriceState, [Next]_vars
  PROVE  PriceState'
<1>. TypeOK /\ TypeOK' /\ SeatState /\ SeatState'
  BY DEF SeatInv
<1>1. CASE CreatorStep \/ AdminStep \/ EngineStep
  BY <1>1, CreatorPrice, AdminPrice, EnginePrice
<1>2. CASE \E u \in Reviewers : ReviewerStep(u)
  BY <1>2, ReviewerPrice DEF ReviewerStep
<1>3. ASSUME NEW q \in Requests, Commit(q) PROVE PriceState'
  <2>1. req[q].op \in Rechecked /\ Serve(req[q])
    BY <1>3 DEF SeatInv, Commit, Serve
  <2>. QED BY <2>1, ReviewerPrice DEF Serve, Rechecked
<1>4. CASE \E q \in Requests : Load(q) \/ Refuse(q)
  BY <1>4, PriceUntouched, PriceKeeps DEF Load, Refuse
<1>5. CASE UNCHANGED vars
  BY <1>5, PriceUntouched, PriceKeeps DEF vars
<1>. QED BY <1>1, <1>2, <1>3, <1>4, <1>5 DEF Next

LEMMA InitPrice == Init => PriceState
BY DEF Init, NewCourse, PriceState, PaymentEarned, UnderReview, InFlight

LEMMA PriceInvariant ==
  ASSUME Overlap \subseteq Rechecked, ~LateAppeals
  PROVE  Spec => []PriceState
<1>1. PaidOnce /\ SeatInv /\ SeatInv' /\ PriceState /\ [Next]_vars => PriceState'
  BY PriceStep
<1>2. Spec => []SeatInv
  <2>1. SafeRaces
    BY DEF SafeRaces, SeatSafe
  <2>. QED BY <2>1, SeatsInvariant
<1>3. Spec => []PaidOnce
  <2>1. "update_draft" \notin Overlap
    BY DEF Rechecked
  <2>. QED BY <2>1, PaidOnceUnlessEdited
<1>. QED BY <1>1, <1>2, <1>3, InitPrice, PTL DEF Spec

\* Nobody is paid for a course whose payout seat has not approved it (pay_on_approval),
\* and no later rejection, new cycle or change of filmer unearns a payment.
THEOREM PaymentsAreEarned ==
  ASSUME Overlap \subseteq Rechecked, ~LateAppeals
  PROVE  Spec => []PaymentEarned
<1>1. PriceState => PaymentEarned
  BY DEF PriceState
<1>. QED BY <1>1, PriceInvariant, PTL

\* A payable course that reaches the Approver has been credited exactly once, at the
\* price of the way it was filmed.
THEOREM PaidThePrice ==
  ASSUME Overlap \subseteq Rechecked, ~LateAppeals
  PROVE  Spec => []PaidAtItsPrice
<1>1. PriceState => PaidAtItsPrice
  BY DEF PriceState, PaidAtItsPrice, Price
<1>. QED BY <1>1, PriceInvariant, PTL

-----------------------------------------------------------------------------
(* The review as a whole: CourseReview implements Review.                  *)

KeepsPromise == [Promised!ReviewNext]_(Promised!reviewVars)

LEMMA PromisedTables ==
  /\ Promised!Seats = Seats /\ Promised!ContentSeats = ContentSeats
  /\ Promised!PayoutSeats = PayoutSeats
  /\ \A s : Promised!EarlierSeats(s) = EarlierSeats(s)
  /\ Promised!NoApprovals = NoVerdicts
BY DEF Promised!Seats, Promised!ContentSeats, Promised!PayoutSeats, Promised!EarlierSeats,
       Promised!Rank, Promised!NoApprovals, Seats, ContentSeats, PayoutSeats, EarlierSeats, Rank,
       NoVerdicts

\* No step of Review: nothing that it sees moves.
LEMMA QuietKeeps ==
  ASSUME UNCHANGED <<verdict, credits>>,
         course.status = "PUBLISHED" <=> course'.status = "PUBLISHED"
  PROVE  KeepsPromise
<1>1. (course.status = "PUBLISHED") = (course'.status = "PUBLISHED")
  OBVIOUS
<1>. QED BY <1>1 DEF KeepsPromise, Promised!reviewVars

\* The seat at the position holds no approval to withdraw.
LEMMA WithdrawnKeeps ==
  ASSUME TypeOK, SeatState, NEW s \in Seats, course.status \in UnderReview, Position(course) = Rank[s],
         verdict' = [verdict EXCEPT ![s] = Nobody], credits' = credits,
         course.status # "PUBLISHED", course'.status # "PUBLISHED"
  PROVE  KeepsPromise
<1>1. SeatStands(s, Rank[s], seat[s], verdict[s]) /\ Rank[s] \in 1..4
  BY Ranks DEF SeatState, SeatsAgree, SeatsStand
<1>2. verdict[s] = Nobody
  BY <1>1 DEF SeatStands
<1>3. verdict' = verdict
  BY <1>2 DEF TypeOK
<1>. QED BY <1>3, QuietKeeps

LEMMA StartKeeps ==
  ASSUME NEW row \in CourseRow, StartReviewCycle(row), credits = <<>>, credits' = credits,
         course.status # "PUBLISHED"
  PROVE  KeepsPromise
<1>1. course'.status = "SUBMITTED" /\ verdict' = NoVerdicts
  BY CycleColumns DEF StartReviewCycle
<1>2. (course.status = "PUBLISHED") = FALSE /\ (course'.status = "PUBLISHED") = FALSE
  BY <1>1
<1>3. Len(credits) = 0
  OBVIOUS
<1>4. Promised!StartOver
  BY <1>1, <1>2, <1>3, PromisedTables DEF Promised!StartOver
<1>. QED BY <1>4 DEF KeepsPromise, Promised!ReviewNext

LEMMA ResumeKeepsPromise ==
  ASSUME TypeOK, SeatState, course.status = "NEEDS_REVISION", ResumeAtRevisionSeat(course),
         credits' = credits
  PROVE  KeepsPromise
<1>. DEFINE s == course.revisionSeat
<1>1. course \in CourseRow /\ s \in Seats /\ s # NoSeat
  BY OpenSeats DEF TypeOK, SeatState, StageStates
<1>2. course.status \in UnderReview /\ Position(course) = Rank[s]
  BY Positions DEF UnderReview, InFlight, Statuses
<1>3. verdict' = [verdict EXCEPT ![s] = Nobody]
  BY <1>1 DEF ResumeAtRevisionSeat
<1>4. course'.status # "PUBLISHED"
  BY <1>1, ResumeColumns
<1>. QED BY <1>1, <1>2, <1>3, <1>4, WithdrawnKeeps

LEMMA FilmKeepsPromise ==
  ASSUME TypeOK, SeatState, course.status = "AWAITING_VIDEO", SendVideoToReview, credits' = credits
  PROVE  KeepsPromise
<1>1. course \in CourseRow /\ "SECOND_REVIEW" \in Seats
  BY DEF TypeOK, Seats, ContentSeats
<1>2. course.status \in UnderReview /\ Position(course) = Rank["SECOND_REVIEW"]
  BY Positions, Ranks DEF UnderReview, InFlight, Statuses
<1>3. course'.status # "PUBLISHED" /\ verdict' = [verdict EXCEPT !["SECOND_REVIEW"] = Nobody]
  BY <1>1, FilmColumns DEF SendVideoToReview
<1>. QED BY <1>1, <1>2, <1>3, WithdrawnKeeps

\* An approval of the seat at the position, paid for or not.
LEMMA ApprovalKeepsPromise ==
  ASSUME TypeOK, PaidOnce, SeatState, NEW u \in Reviewers, NEW s \in Seats,
         course.status \in UnderReview \ {"PUBLISHED"}, Position(course) = Rank[s],
         \A e \in EarlierSeats(s) : s \in ContentSeats => verdict[e] # u,
         verdict' = [verdict EXCEPT ![s] = u],
         NEW c \in CourseRow, c.paid = course.paid, c.status # "PUBLISHED", PayOnApproval(c, s)
  PROVE  KeepsPromise
<1>1. verdict[s] = Nobody /\ \A e \in EarlierSeats(s) : verdict[e] # Nobody
  <2>1. \A e \in Seats : SeatStands(e, Rank[s], seat[e], verdict[e])
    BY DEF SeatState, SeatsAgree, SeatsStand
  <2>2. Rank[s] \in 1..4 /\ EarlierSeats(s) \subseteq Seats
        /\ \A e \in EarlierSeats(s) : Rank[e] < Rank[s]
    BY Ranks, Tables DEF EarlierSeats
  <2>3. verdict[s] = Nobody
    <3>1. SeatStands(s, Rank[s], seat[s], verdict[s])
      BY <2>1
    <3>. QED BY <2>2, <3>1 DEF SeatStands
  <2>4. ASSUME NEW e \in EarlierSeats(s) PROVE verdict[e] # Nobody
    <3>1. SeatStands(e, Rank[s], seat[e], verdict[e]) /\ Rank[e] < Rank[s]
      BY <2>1, <2>2
    <3>. QED BY <3>1, NobodyAssumption DEF SeatStands
  <2>. QED BY <2>3, <2>4
<1>2. course'.status = c.status
  BY PaidColumns
<1>3. (course.status = "PUBLISHED") = FALSE /\ (course'.status = "PUBLISHED") = FALSE
  BY <1>2
<1>4. course.paid <=> credits # <<>>
  BY DEF PaidOnce, UnderReview, InFlight
<1>5. \/ Len(credits') = Len(credits)
      \/ s \in PayoutSeats /\ Len(credits) = 0 /\ Len(credits') = 1
  <2>1. CASE Pays(c, s)
    <3>1. s \in PayoutSeats /\ credits = <<>> /\ credits' = Append(credits, c.payoutType)
      BY <1>4, <2>1 DEF Pays, PayOnApproval
    <3>. QED BY <3>1
  <2>2. CASE ~Pays(c, s)
    BY <2>2 DEF PayOnApproval
  <2>. QED BY <2>1, <2>2
<1>6. Promised!Approve(u, s)
  BY <1>1, <1>3, <1>5, PromisedTables DEF Promised!Approve
<1>. QED BY <1>6, PromisedTables DEF KeepsPromise, Promised!ReviewNext

LEMMA CreatorKeepsPromise ==
  ASSUME TypeOK, SeatState, PriceState, CreatorStep
  PROVE  KeepsPromise
<1>. course \in CourseRow
  BY DEF TypeOK
<1>1. CASE SubmitDraft
  <2>. DEFINE row == [Reprice(course) EXCEPT
                        !.flow = IF @ = "UNSET" THEN platformFlow ELSE @]
  <2>1. Reprice(course) \in CourseRow
    BY Repriced
  <2>2. row \in CourseRow
    BY <2>1 DEF TypeOK, CourseRow
  <2>3. StartReviewCycle(row) /\ course.status = "DRAFT" /\ credits' = credits
    BY <1>1 DEF SubmitDraft
  <2>. HIDE DEF row
  <2>4. credits = <<>>
    BY <2>3 DEF PriceState
  <2>. QED BY <2>2, <2>3, <2>4, StartKeeps
<1>2. CASE ResubmitToSeat
  BY <1>2, ResumeKeepsPromise DEF ResubmitToSeat
<1>3. CASE ResubmitToEngine \/ SubmitAppeal
  BY <1>3, QuietKeeps DEF ResubmitToEngine, SubmitAppeal
<1>4. CASE DeleteDraft(course)
  <2>1. course.status = "DRAFT" /\ course'.status = "DELETED" /\ verdict' = NoVerdicts
        /\ credits' = credits
    BY <1>4 DEF DeleteDraft, NewCourse
  <2>2. (course.status = "PUBLISHED") = FALSE /\ (course'.status = "PUBLISHED") = FALSE
    BY <2>1
  <2>3. Len(credits) = 0
    BY <2>1 DEF PriceState
  <2>4. Promised!StartOver
    BY <2>1, <2>2, <2>3, PromisedTables DEF Promised!StartOver
  <2>. QED BY <2>4 DEF KeepsPromise, Promised!ReviewNext
<1>5. CASE RecordVideoDecision(course)
  BY <1>5, ChoiceColumns, QuietKeeps DEF RecordVideoDecision
<1>6. CASE SubmitVideo(course)
  BY <1>6, FilmKeepsPromise DEF SubmitVideo
<1>. QED BY <1>1, <1>2, <1>3, <1>4, <1>5, <1>6 DEF CreatorStep

LEMMA ReviewerKeepsPromise ==
  ASSUME TypeOK, PaidOnce, SeatState, NEW u \in Reviewers, NEW r, NEW c, NEW rows, NEW flag
  PROVE  /\ ClaimForReview(u, r) \/ AssignContentSeat(u, r, flag) => KeepsPromise
         /\ ApproveContent(u, r, c) => KeepsPromise
         /\ RejectCourse(u, r, c, flag) => KeepsPromise
         /\ AssignQASeat(u, r, flag) \/ ClaimQA(u, r, c, rows) => KeepsPromise
         /\ ApproveQA(u, r) => KeepsPromise
         /\ RejectQA(u, r, course, flag) => KeepsPromise
<1>. course \in CourseRow /\ "QA" \in Seats
  BY Tables DEF TypeOK
<1>. DEFINE s == course.stage
<1>0. course.status \in Reviewable =>
        /\ course.status \in UnderReview \ {"PUBLISHED"} /\ s \in ContentSeats /\ s \in Seats
        /\ OpenSeat(course) = s /\ Position(course) = Rank[s]
  BY OpenSeats, Positions, Tables DEF SeatState, Reviewable, UnderReview, InFlight, Statuses
<1>1. ASSUME ClaimForReview(u, r) \/ AssignContentSeat(u, r, flag) PROVE KeepsPromise
  <2>1. /\ course.status # "PUBLISHED" /\ course'.status = "IN_REVIEW"
        /\ UNCHANGED <<verdict, credits>>
    BY <1>1, StatusColumns DEF ClaimForReview, AssignContentSeat, Reviewable
  <2>. QED BY <2>1, QuietKeeps
<1>2. ASSUME ApproveContent(u, r, c) PROVE KeepsPromise
  <2>. DEFINE d == AfterApproval(s)
  <2>1. course.status \in Reviewable
    BY <1>2 DEF ApproveContent, NotMovedOn
  <2>2. MayDecide(u, r, s) /\ verdict' = [verdict EXCEPT ![s] = u] /\ PayOnApproval(d, s)
    BY <1>0, <1>2, <2>1 DEF ApproveContent
  <2>3. \A e \in EarlierSeats(s) : verdict[e] # u
    <3>1. SUFFICES ASSUME NEW e \in EarlierSeats(s) PROVE verdict[e] # u
      OBVIOUS
    <3>2. e \in Seats /\ e # "QA" /\ Rank[e] < Rank[s]
      BY Tables DEF EarlierSeats, ContentSeats
    <3>3. SeatStands(e, Rank[s], seat[e], verdict[e])
      BY <1>0, <2>1, <3>2 DEF SeatState, SeatsAgree, SeatsStand
    <3>4. ~(seat[e].holder = u /\ seat[e].done)
      BY <2>2 DEF MayDecide, MaySit
    <3>. QED BY <3>2, <3>3, <3>4 DEF SeatStands
  <2>4. d \in CourseRow
    BY <1>0, <2>1, Approved
  <2>5. d.paid = course.paid /\ d.status # "PUBLISHED"
    BY ApprovalColumns
  <2>. HIDE DEF d
  <2>. QED BY <1>0, <2>1, <2>2, <2>3, <2>4, <2>5, ApprovalKeepsPromise
<1>3. ASSUME RejectCourse(u, r, c, flag) PROVE KeepsPromise
  <2>1. course.status \in Reviewable
    BY <1>3 DEF RejectCourse, NotMovedOn
  <2>2. course' = ReturnForRevision(course, s) /\ verdict' = [verdict EXCEPT ![s] = Nobody]
        /\ credits' = credits
    BY <1>0, <1>3, <2>1 DEF RejectCourse
  <2>3. course'.status # "PUBLISHED"
    BY <2>2, ReturnColumns
  <2>. QED BY <1>0, <2>1, <2>2, <2>3, WithdrawnKeeps
<1>4. ASSUME AssignQASeat(u, r, flag) \/ ClaimQA(u, r, c, rows) PROVE KeepsPromise
  BY <1>4, QuietKeeps DEF AssignQASeat, ClaimQA
<1>5. course.status = "QA_VERIFICATION" =>
        course.status \in UnderReview \ {"PUBLISHED"} /\ Position(course) = Rank["QA"]
  BY Positions, Ranks DEF UnderReview, InFlight, Statuses
<1>6. ASSUME ApproveQA(u, r) PROVE KeepsPromise
  <2>. DEFINE d == [course EXCEPT !.status = "APPROVED"]
  <2>1. course.status = "QA_VERIFICATION" /\ verdict' = [verdict EXCEPT !["QA"] = u]
        /\ PayOnApproval(d, "QA")
    BY <1>6 DEF ApproveQA
  <2>2. d \in CourseRow /\ d.paid = course.paid /\ d.status = "APPROVED"
    BY RowUpdate DEF Statuses, CourseRow
  <2>3. "QA" \notin ContentSeats
    BY DEF ContentSeats
  <2>. HIDE DEF d
  <2>. QED BY <1>5, <2>1, <2>2, <2>3, ApprovalKeepsPromise
<1>7. ASSUME RejectQA(u, r, course, flag) PROVE KeepsPromise
  <2>1. course.status = "QA_VERIFICATION" /\ course' = ReturnForRevision(course, "QA")
        /\ verdict' = [verdict EXCEPT !["QA"] = Nobody] /\ credits' = credits
    BY <1>7 DEF RejectQA
  <2>2. course'.status # "PUBLISHED"
    BY <2>1, ReturnColumns
  <2>. QED BY <1>5, <2>1, <2>2, WithdrawnKeeps
<1>. QED BY <1>1, <1>2, <1>3, <1>4, <1>6, <1>7

LEMMA AdminKeepsPromise ==
  ASSUME TypeOK, SeatState, PriceState, ~LateAppeals, AdminStep
  PROVE  KeepsPromise
<1>. course \in CourseRow
  BY DEF TypeOK
<1>1. CASE PublishCourse
  <2>1. /\ course.status = "APPROVED" /\ course'.status = "PUBLISHED"
        /\ UNCHANGED <<verdict, credits>>
    BY <1>1, StatusColumns DEF PublishCourse
  <2>2. course.status \in UnderReview /\ Position(course) = 5
    BY <2>1, Positions DEF UnderReview, InFlight, Statuses
  <2>3. \A t \in Seats : verdict[t] # Nobody
    <3>1. SUFFICES ASSUME NEW t \in Seats PROVE verdict[t] # Nobody
      OBVIOUS
    <3>2. SeatStands(t, 5, seat[t], verdict[t]) /\ Rank[t] \in 1..4
      BY <2>2, Ranks DEF SeatState, SeatsAgree, SeatsStand
    <3>. QED BY <3>2, NobodyAssumption DEF SeatStands
  <2>4. Payable => Len(credits) = 1
    BY <2>1 DEF PriceState
  <2>5. (course.status = "PUBLISHED") = FALSE /\ (course'.status = "PUBLISHED") = TRUE
    BY <2>1
  <2>6. Promised!Publish
    BY <2>1, <2>3, <2>4, <2>5, PromisedTables DEF Promised!Publish
  <2>. QED BY <2>6 DEF KeepsPromise, Promised!ReviewNext
<1>2. CASE ApproveAppeal(appeal, course)
  <2>1. course.status \in Editable /\ credits' = credits
    BY <1>2 DEF ApproveAppeal
  <2>2. CASE course.status = "NEEDS_REVISION"
    BY <1>2, <2>1, <2>2, ResumeKeepsPromise DEF ApproveAppeal
  <2>3. CASE course.status = "DRAFT"
    <3>1. StartReviewCycle(course) /\ credits = <<>>
      BY <1>2, <2>3 DEF ApproveAppeal, PriceState
    <3>. QED BY <2>1, <2>3, <3>1, StartKeeps
  <2>. QED BY <2>1, <2>2, <2>3 DEF Editable
<1>3. CASE RejectAppeal \/ SwitchReviewFlow \/ RequestPackaging
  BY <1>3, QuietKeeps DEF RejectAppeal, SwitchReviewFlow, RequestPackaging
<1>4. CASE \E p \in {"DEVELOPER", "PRODUCTION_ENGINE"} : AssignVideo(p)
  BY <1>4, ChoiceColumns, QuietKeeps DEF AssignVideo
<1>5. CASE ArchiveCourse
  BY <1>5, ArchiveColumns, QuietKeeps DEF ArchiveCourse, Archivable
<1>6. CASE \E u \in Reviewers, r \in NewRoles : ChangeRole(u, r, course, seat)
  <2>1. /\ UNCHANGED <<verdict, credits>>
        /\ course' = course \/ (course.status = "IN_REVIEW"
                                /\ course' = [course EXCEPT !.status = "SUBMITTED"])
    BY <1>6 DEF ChangeRole
  <2>. QED BY <2>1, StatusColumns, QuietKeeps
<1>. QED BY <1>1, <1>2, <1>3, <1>4, <1>5, <1>6 DEF AdminStep

LEMMA EngineKeepsPromise ==
  ASSUME TypeOK, SeatState, EngineStep
  PROVE  KeepsPromise
<1>. credits' = credits
  BY DEF EngineStep, EngineDelivers, RunEnds, RetryRun
<1>1. CASE course.status = "AWAITING_VIDEO" /\ SendVideoToReview
  BY <1>1, FilmKeepsPromise
<1>2. CASE course.status = "NEEDS_REVISION" /\ ResumeAtRevisionSeat(course)
  BY <1>2, ResumeKeepsPromise
<1>3. CASE UNCHANGED <<course, verdict>>
  BY <1>3, QuietKeeps
<1>. QED BY <1>1, <1>2, <1>3 DEF EngineStep, EngineDelivers, RunEnds, RetryRun

LEMMA StepKeepsPromise ==
  ASSUME Overlap \subseteq Rechecked, ~LateAppeals, PaidOnce, SeatInv, PriceState, [Next]_vars
  PROVE  KeepsPromise
<1>. TypeOK /\ SeatState
  BY DEF SeatInv
<1>1. CASE CreatorStep \/ AdminStep \/ EngineStep
  BY <1>1, CreatorKeepsPromise, AdminKeepsPromise, EngineKeepsPromise
<1>2. CASE \E u \in Reviewers : ReviewerStep(u)
  BY <1>2, ReviewerKeepsPromise DEF ReviewerStep
<1>3. ASSUME NEW q \in Requests, Commit(q) PROVE KeepsPromise
  <2>1. req[q].op \in Rechecked /\ Serve(req[q])
    BY <1>3 DEF SeatInv, Commit, Serve
  <2>2. CASE req[q].op = "claim_qa"
    BY <2>1, <2>2, QuietKeeps DEF Serve, ClaimQA
  <2>3. CASE req[q].op # "claim_qa"
    <3>1. req[q].who \in Reviewers
      BY <2>1, <2>3 DEF SeatInv, Rechecked
    <3>. QED BY <2>1, <2>3, <3>1, ReviewerKeepsPromise DEF Serve, Rechecked
  <2>. QED BY <2>2, <2>3
<1>4. CASE \E q \in Requests : Load(q) \/ Refuse(q)
  BY <1>4, QuietKeeps DEF Load, Refuse
<1>5. CASE UNCHANGED vars
  BY <1>5, QuietKeeps DEF vars
<1>. QED BY <1>1, <1>2, <1>3, <1>4, <1>5 DEF Next

LEMMA InitKeepsPromise == Init => Promised!ReviewInit
<1>. SUFFICES ASSUME Init PROVE Promised!ReviewInit
  OBVIOUS
<1>1. (course.status = "PUBLISHED") = FALSE /\ Len(credits) = 0 /\ verdict = NoVerdicts
  BY DEF Init, NewCourse
<1>. QED BY <1>1, PromisedTables DEF Promised!ReviewInit

\* The whole of the workflow implements the review it stands for: approvals in seat
\* order by different people, one payment, no new start once paid, and publishing over
\* all four approvals as the end, whatever content approvals, content rejections and QA
\* claims are served late.
THEOREM ReviewKept ==
  ASSUME Overlap \subseteq Rechecked, ~LateAppeals
  PROVE  Spec => KeepsReview
<1>1. PaidOnce /\ SeatInv /\ PriceState /\ [Next]_vars
        => [Promised!ReviewNext]_(Promised!reviewVars)
  BY StepKeepsPromise DEF KeepsPromise
<1>2. Spec => []SeatInv
  <2>1. SafeRaces
    BY DEF SafeRaces, SeatSafe
  <2>. QED BY <2>1, SeatsInvariant
<1>3. Spec => []PaidOnce
  <2>1. "update_draft" \notin Overlap
    BY DEF Rechecked
  <2>. QED BY <2>1, PaidOnceUnlessEdited
<1>. QED BY <1>1, <1>2, <1>3, PriceInvariant, InitKeepsPromise, PTL
     DEF Spec, KeepsReview, Promised!ReviewSpec
=============================================================================

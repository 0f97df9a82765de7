------------------------- MODULE CourseReview_proofs -------------------------
(***************************************************************************)
(* Theorems about CourseReview, for any set of reviewers, roles, requests  *)
(* and settings.                                                           *)
(***************************************************************************)
EXTENDS CourseReview, SequenceTheorems, TLAPS

-----------------------------------------------------------------------------
(* The tables and helpers return what their columns hold.                  *)

LEMMA Tables ==
  /\ \A s : NextSeat(s) \in ContentSeats \cup {NoSeat}
  /\ \A c : OpenSeat(c) = IF c.stage = NoSeat THEN "CONTENT" ELSE c.stage
  /\ \A p : PriceTypeFor(Source, p) \in PriceTypes
  /\ ContentSeats \subseteq Seats /\ "QA" \in Seats
BY DEF NextSeat, OpenSeat, PriceTypeFor, PriceTypes, ContentSeats, Seats, NoSeat

LEMMA OpenSeatType == \A c \in CourseRow : OpenSeat(c) \in ContentSeats
BY DEF OpenSeat, CourseRow, ContentSeats, NoSeat

LEMMA EmptyTypes ==
  /\ NewCourse \in CourseRow
  /\ EmptySeats \in SeatRows
  /\ NoVerdicts \in [Seats -> Accounts]
  /\ Idle \in Request
BY DEF NewCourse, CourseRow, EmptySeats, SeatRows, NoVerdicts, Idle, Request, Accounts,
       Statuses, ContentSeats, Seats, NoSeat, Flows, Providers, PriceTypes, Roles, Appeals,
       StaffRoles, Handlers

LEMMA SeatUpdates ==
  ASSUME seat \in SeatRows, NEW s \in Seats, NEW u \in Accounts
  PROVE  /\ ResetSeat(s) \in SeatRows
         /\ Decided(s, u) \in SeatRows
         /\ [seat EXCEPT ![s].holder = u] \in SeatRows
         /\ [seat[s] EXCEPT !.holder = Nobody] \in [holder : Accounts, done : BOOLEAN]
BY DEF ResetSeat, Decided, SeatRows, Accounts

LEMMA RunUpdates ==
  ASSUME run \in Runs
  PROVE  /\ \A k \in {"VIDEO", "PACKAGE"} : RequestRun(k) \in Runs
         /\ CancelRun \in Runs
         /\ \A c, s, f : RunAfterRejection(c, s, f) \in Runs
BY DEF RequestRun, CancelRun, RunAfterRejection, Runs, ActiveRuns

\* Writing one column of a row leaves a row.
LEMMA RowUpdate ==
  ASSUME NEW c \in CourseRow
  PROVE  /\ \A x \in Statuses : [c EXCEPT !.status = x] \in CourseRow
         /\ \A x \in ContentSeats \cup {NoSeat} : [c EXCEPT !.stage = x] \in CourseRow
         /\ \A x \in Seats \cup {NoSeat} : [c EXCEPT !.revisionSeat = x] \in CourseRow
         /\ \A x \in Flows \cup {"UNSET"} : [c EXCEPT !.flow = x] \in CourseRow
         /\ \A x \in Providers : [c EXCEPT !.provider = x] \in CourseRow
         /\ \A x \in BOOLEAN : [c EXCEPT !.attached = x] \in CourseRow
         /\ \A x \in BOOLEAN : [c EXCEPT !.rejected = x] \in CourseRow
         /\ \A x \in PriceTypes \cup {"NONE"} : [c EXCEPT !.payoutType = x] \in CourseRow
         /\ \A x \in BOOLEAN : [c EXCEPT !.paid = x] \in CourseRow
BY DEF CourseRow

LEMMA Returned ==
  ASSUME course \in CourseRow, NEW c \in CourseRow, NEW s \in Seats
  PROVE  ReturnForRevision(c, s) \in CourseRow
<1>. DEFINE st == IF Staged(c) THEN "NEEDS_REVISION" ELSE "DRAFT"
            sr == IF Staged(c) THEN s ELSE c.revisionSeat
            r1 == [course EXCEPT !.stage = NoSeat]
            r2 == [r1 EXCEPT !.rejected = TRUE]
            r3 == [r2 EXCEPT !.status = st]
            r4 == [r3 EXCEPT !.revisionSeat = sr]
<1>1. st \in Statuses /\ sr \in Seats \cup {NoSeat}
  BY DEF CourseRow, Statuses
<1>2. r1 \in CourseRow
  BY RowUpdate
<1>3. r2 \in CourseRow
  BY <1>2, RowUpdate
<1>4. r3 \in CourseRow
  BY <1>1, <1>3, RowUpdate
<1>5. r4 \in CourseRow
  BY <1>1, <1>4, RowUpdate
<1>6. ReturnForRevision(c, s) = r4
  BY DEF ReturnForRevision
<1>. QED BY <1>5, <1>6

LEMMA Repriced == ASSUME NEW c \in CourseRow PROVE Reprice(c) \in CourseRow
BY RowUpdate, Tables DEF Reprice

LEMMA Cycle ==
  ASSUME TypeOK, NEW row \in CourseRow, StartReviewCycle(row)
  PROVE  course' \in CourseRow /\ seat' \in SeatRows /\ verdict' \in [Seats -> Accounts]
<1>. DEFINE r1 == [row EXCEPT !.status = "SUBMITTED"]
            r2 == [r1 EXCEPT !.stage = "CONTENT"]
<1>1. r1 \in CourseRow
  BY RowUpdate DEF Statuses
<1>2. r2 \in CourseRow
  BY <1>1, RowUpdate DEF ContentSeats
<1>. QED BY <1>2, EmptyTypes DEF StartReviewCycle

LEMMA Resumed ==
  ASSUME TypeOK, NEW c \in CourseRow, ResumeAtRevisionSeat(c)
  PROVE  course' \in CourseRow /\ seat' \in SeatRows /\ verdict' \in [Seats -> Accounts]
<1>. DEFINE s  == IF c.revisionSeat = NoSeat THEN "CONTENT" ELSE c.revisionSeat
            st == IF s = "QA" THEN "QA_VERIFICATION" ELSE "SUBMITTED"
            sg == IF s = "QA" THEN NoSeat ELSE s
            r1 == [course EXCEPT !.status = st]
            r2 == [r1 EXCEPT !.stage = sg]
            r3 == [r2 EXCEPT !.revisionSeat = NoSeat]
<1>1. s \in Seats /\ st \in Statuses /\ sg \in ContentSeats \cup {NoSeat}
  BY DEF CourseRow, Statuses, Seats, ContentSeats
<1>2. r1 \in CourseRow
  BY <1>1, RowUpdate DEF TypeOK
<1>3. r2 \in CourseRow
  BY <1>1, <1>2, RowUpdate
<1>4. r3 \in CourseRow
  BY <1>3, RowUpdate
<1>5. course' = r3 /\ seat' = ResetSeat(s) /\ verdict' = [verdict EXCEPT ![s] = Nobody]
  BY DEF ResumeAtRevisionSeat
<1>6. ResetSeat(s) \in SeatRows
  BY <1>1, SeatUpdates DEF TypeOK, Accounts
<1>. QED BY <1>1, <1>4, <1>5, <1>6 DEF TypeOK, Accounts

LEMMA Filmed ==
  ASSUME TypeOK, SendVideoToReview
  PROVE  course' \in CourseRow /\ seat' \in SeatRows /\ verdict' \in [Seats -> Accounts]
<1>. DEFINE r1 == [course EXCEPT !.attached = TRUE]
            r2 == [r1 EXCEPT !.status = "SUBMITTED"]
            r3 == [r2 EXCEPT !.stage = "SECOND_REVIEW"]
<1>1. r1 \in CourseRow
  BY RowUpdate DEF TypeOK
<1>2. r2 \in CourseRow
  BY <1>1, RowUpdate DEF Statuses
<1>3. r3 \in CourseRow
  BY <1>2, RowUpdate DEF ContentSeats
<1>4. ResetSeat("SECOND_REVIEW") \in SeatRows
  BY SeatUpdates DEF TypeOK, Accounts, Seats, ContentSeats
<1>. QED BY <1>3, <1>4 DEF SendVideoToReview, TypeOK, Accounts, Seats, ContentSeats

LEMMA Filmmaker ==
  ASSUME TypeOK, NEW c, NEW p \in Providers, SetProvider(c, p)
  PROVE  course' \in CourseRow /\ run' \in Runs
<1>. DEFINE r1 == [course EXCEPT !.provider = p]
            r2 == [r1 EXCEPT !.payoutType = PriceTypeFor(Source, p)]
<1>1. r1 \in CourseRow
  BY RowUpdate DEF TypeOK
<1>2. r2 \in CourseRow
  BY <1>1, RowUpdate, Tables
<1>. QED BY <1>2, RunUpdates DEF SetProvider, TypeOK

LEMMA Approved ==
  ASSUME TypeOK, NEW s \in ContentSeats
  PROVE  AfterApproval(s) \in CourseRow
<1>. DEFINE pr == IF Source = "DEVELOPER_API" THEN DeveloperVideo ELSE "NONE"
            st == IF NextSeat(s) = NoSeat THEN "QA_VERIFICATION" ELSE "SUBMITTED"
            r1 == [course EXCEPT !.status = "AWAITING_VIDEO"]
            r2 == [r1 EXCEPT !.stage = NoSeat]
            r3 == [r2 EXCEPT !.provider = pr]
            q1 == [course EXCEPT !.status = st]
            q2 == [q1 EXCEPT !.stage = NextSeat(s)]
<1>1. pr \in Providers /\ st \in Statuses
  BY CourseAssumption DEF Providers, Statuses
<1>2. r1 \in CourseRow
  BY RowUpdate DEF TypeOK, Statuses
<1>3. r2 \in CourseRow
  BY <1>2, RowUpdate
<1>4. r3 \in CourseRow
  BY <1>1, <1>3, RowUpdate
<1>5. Reprice(r3) \in CourseRow
  BY <1>4, Repriced
<1>6. q1 \in CourseRow
  BY <1>1, RowUpdate DEF TypeOK
<1>7. q2 \in CourseRow
  BY <1>6, Tables, RowUpdate
<1>8. AfterApproval(s) = Reprice(r3) \/ AfterApproval(s) = q2
  BY DEF AfterApproval
<1>. QED BY <1>5, <1>7, <1>8

LEMMA Payment ==
  ASSUME TypeOK, NEW c \in CourseRow, NEW s, PayOnApproval(c, s)
  PROVE  course' \in CourseRow /\ credits' \in Seq(PriceTypes)
<1>1. Pays(c, s) \in BOOLEAN /\ c.paid \in BOOLEAN
  BY DEF Pays, CourseRow
<1>2. course' \in CourseRow
  BY <1>1, RowUpdate DEF PayOnApproval
<1>3. Pays(c, s) => c.payoutType \in PriceTypes
  BY DEF Pays, CourseRow
<1>4. credits' \in Seq(PriceTypes)
  BY <1>3 DEF PayOnApproval, TypeOK
<1>. QED BY <1>2, <1>4

-----------------------------------------------------------------------------
(* Type correctness.                                                       *)

\* The part of TypeOK that operations change; Load and Commit add the requests.
TypeState ==
  /\ course \in CourseRow
  /\ seat \in SeatRows
  /\ role \in [Reviewers -> Roles]
  /\ platformFlow \in Flows
  /\ run \in Runs
  /\ appeal \in Appeals
  /\ credits \in Seq(PriceTypes)
  /\ verdict \in [Seats -> Accounts]

LEMMA CreatorTypes ==
  ASSUME TypeOK, NEW c \in CourseRow
  PROVE  /\ SubmitDraft \/ ResubmitToSeat \/ ResubmitToEngine \/ SubmitAppeal => TypeState'
         /\ UpdateDraft(c) \/ DeleteDraft(c) => TypeState'
         /\ RecordVideoDecision(c) \/ SubmitVideo(c) => TypeState'
<1>1. ASSUME SubmitDraft PROVE TypeState'
  <2>. DEFINE row == [Reprice(course) EXCEPT
                        !.flow = IF @ = "UNSET" THEN platformFlow ELSE @]
  <2>1. Reprice(course) \in CourseRow
    BY Repriced DEF TypeOK
  <2>2. row \in CourseRow
    BY <2>1, RowUpdate DEF TypeOK, CourseRow
  <2>3. StartReviewCycle(row)
    BY <1>1 DEF SubmitDraft
  <2>. QED BY <1>1, <2>2, <2>3, Cycle DEF SubmitDraft, TypeOK, TypeState
<1>2. ASSUME ResubmitToSeat PROVE TypeState'
  BY <1>2, Resumed DEF ResubmitToSeat, TypeOK, TypeState
<1>3. ASSUME ResubmitToEngine PROVE TypeState'
  BY <1>3, RunUpdates DEF ResubmitToEngine, TypeOK, TypeState
<1>4. ASSUME SubmitAppeal PROVE TypeState'
  BY <1>4 DEF SubmitAppeal, TypeOK, TypeState, Appeals
<1>5. ASSUME UpdateDraft(c) PROVE TypeState'
  BY <1>5 DEF UpdateDraft, TypeOK, TypeState
<1>6. ASSUME DeleteDraft(c) PROVE TypeState'
  <2>1. course' \in CourseRow
    BY <1>6, EmptyTypes, RowUpdate DEF DeleteDraft, Statuses
  <2>. QED BY <1>6, <2>1, EmptyTypes DEF DeleteDraft, TypeOK, TypeState, Runs, Appeals
<1>7. ASSUME RecordVideoDecision(c) PROVE TypeState'
  <2>1. PICK p \in {"CREATOR", "PRODUCTION_ENGINE"} : SetProvider(c, p)
    BY <1>7 DEF RecordVideoDecision
  <2>2. p \in Providers
    BY DEF Providers
  <2>3. course' \in CourseRow /\ run' \in Runs
    BY <2>1, <2>2, Filmmaker
  <2>. QED BY <1>7, <2>3 DEF RecordVideoDecision, TypeOK, TypeState
<1>8. ASSUME SubmitVideo(c) PROVE TypeState'
  BY <1>8, Filmed DEF SubmitVideo, TypeOK, TypeState
<1>. QED BY <1>1, <1>2, <1>3, <1>4, <1>5, <1>6, <1>7, <1>8

LEMMA ReviewerTypes ==
  ASSUME TypeOK, NEW u \in Accounts, NEW r, NEW c \in CourseRow, NEW rows,
         NEW flag \in BOOLEAN
  PROVE  /\ ClaimForReview(u, r) \/ AssignContentSeat(u, r, flag) => TypeState'
         /\ ApproveContent(u, r, c) \/ RejectCourse(u, r, c, flag) => TypeState'
         /\ AssignQASeat(u, r, flag) \/ ClaimQA(u, r, c, rows) => TypeState'
         /\ ApproveQA(u, r) \/ RejectQA(u, r, c, flag) => TypeState'
<1>. DEFINE s == OpenSeat(course)
<1>. s \in ContentSeats /\ s \in Seats /\ "QA" \in Seats /\ Nobody \in Accounts
  BY OpenSeatType, Tables DEF TypeOK, Accounts
<1>1. /\ [course EXCEPT !.status = "IN_REVIEW"] \in CourseRow
      /\ [seat EXCEPT ![s].holder = u] \in SeatRows
      /\ [seat EXCEPT !["QA"].holder = u] \in SeatRows
      /\ Decided(s, u) \in SeatRows /\ Decided("QA", u) \in SeatRows
  BY RowUpdate, SeatUpdates DEF TypeOK, Statuses
<1>2. ASSUME ClaimForReview(u, r) PROVE TypeState'
  BY <1>1, <1>2 DEF ClaimForReview, TypeOK, TypeState
<1>3. ASSUME AssignContentSeat(u, r, flag) PROVE TypeState'
  BY <1>1, <1>3 DEF AssignContentSeat, TypeOK, TypeState
<1>4. ASSUME ApproveContent(u, r, c) PROVE TypeState'
  <2>1. course' \in CourseRow /\ credits' \in Seq(PriceTypes)
    BY <1>4, Approved, Payment DEF ApproveContent
  <2>2. run' \in Runs
    BY <1>4, RunUpdates DEF ApproveContent, TypeOK
  <2>. QED BY <1>1, <1>4, <2>1, <2>2 DEF ApproveContent, TypeOK, TypeState
<1>5. ASSUME RejectCourse(u, r, c, flag) PROVE TypeState'
  <2>1. course' \in CourseRow
    BY <1>5, Returned DEF RejectCourse, TypeOK
  <2>2. run' \in Runs
    BY <1>5, RunUpdates DEF RejectCourse, TypeOK
  <2>. QED BY <1>1, <1>5, <2>1, <2>2 DEF RejectCourse, TypeOK, TypeState
<1>6. ASSUME AssignQASeat(u, r, flag) PROVE TypeState'
  BY <1>1, <1>6 DEF AssignQASeat, TypeOK, TypeState
<1>7. ASSUME ClaimQA(u, r, c, rows) PROVE TypeState'
  BY <1>1, <1>7 DEF ClaimQA, TypeOK, TypeState
<1>8. ASSUME ApproveQA(u, r) PROVE TypeState'
  <2>1. [course EXCEPT !.status = "APPROVED"] \in CourseRow
    BY RowUpdate DEF TypeOK, Statuses
  <2>2. course' \in CourseRow /\ credits' \in Seq(PriceTypes)
    BY <1>8, <2>1, Payment DEF ApproveQA
  <2>. QED BY <1>1, <1>8, <2>2 DEF ApproveQA, TypeOK, TypeState
<1>9. ASSUME RejectQA(u, r, c, flag) PROVE TypeState'
  <2>1. course' \in CourseRow
    BY <1>9, Returned DEF RejectQA, TypeOK
  <2>2. run' \in Runs
    BY <1>9, RunUpdates DEF RejectQA, TypeOK
  <2>. QED BY <1>1, <1>9, <2>1, <2>2 DEF RejectQA, TypeOK, TypeState
<1>. QED BY <1>2, <1>3, <1>4, <1>5, <1>6, <1>7, <1>8, <1>9

LEMMA AdminTypes ==
  ASSUME TypeOK, NEW c \in CourseRow
  PROVE  /\ PublishCourse \/ RejectAppeal \/ SwitchReviewFlow \/ RequestPackaging => TypeState'
         /\ \A a : ApproveAppeal(a, c) => TypeState'
         /\ \A p \in Providers : AssignVideo(p) => TypeState'
         /\ ArchiveCourse => TypeState'
         /\ \A u, r, rows : r \in Roles /\ ChangeRole(u, r, c, rows) => TypeState'
<1>1. ASSUME PublishCourse PROVE TypeState'
  BY <1>1, RowUpdate, RunUpdates DEF PublishCourse, TypeOK, TypeState, Statuses
<1>2. ASSUME RejectAppeal PROVE TypeState'
  BY <1>2 DEF RejectAppeal, TypeOK, TypeState, Appeals
<1>3. ASSUME SwitchReviewFlow PROVE TypeState'
  BY <1>3 DEF SwitchReviewFlow, TypeOK, TypeState, Flows
<1>4. ASSUME RequestPackaging PROVE TypeState'
  BY <1>4, RunUpdates DEF RequestPackaging, TypeOK, TypeState
<1>5. ASSUME NEW a, ApproveAppeal(a, c) PROVE TypeState'
  <2>1. ResumeAtRevisionSeat(c) \/ StartReviewCycle(course)
    BY <1>5 DEF ApproveAppeal
  <2>2. course' \in CourseRow /\ seat' \in SeatRows /\ verdict' \in [Seats -> Accounts]
    BY <2>1, Resumed, Cycle DEF TypeOK
  <2>. QED BY <1>5, <2>2 DEF ApproveAppeal, TypeOK, TypeState, Appeals
<1>6. ASSUME NEW p \in Providers, AssignVideo(p) PROVE TypeState'
  <2>1. course' \in CourseRow /\ run' \in Runs
    BY <1>6, Filmmaker DEF AssignVideo
  <2>. QED BY <1>6, <2>1 DEF AssignVideo, TypeOK, TypeState
<1>7. ASSUME ArchiveCourse PROVE TypeState'
  <2>. DEFINE r1 == [course EXCEPT !.status = "ARCHIVED"]
  <2>1. r1 \in CourseRow
    BY RowUpdate DEF TypeOK, Statuses
  <2>2. [r1 EXCEPT !.stage = NoSeat] \in CourseRow
    BY <2>1, RowUpdate
  <2>. QED BY <1>7, <2>2, RunUpdates DEF ArchiveCourse, TypeOK, TypeState
<1>8. ASSUME NEW u, NEW r, NEW rows, r \in Roles, ChangeRole(u, r, c, rows) PROVE TypeState'
  <2>1. [course EXCEPT !.status = "SUBMITTED"] \in CourseRow
    BY RowUpdate DEF TypeOK, Statuses
  <2>2. course' \in CourseRow
    BY <1>8, <2>1 DEF ChangeRole, TypeOK
  <2>3. \A s \in Seats : [seat[s] EXCEPT !.holder = Nobody] \in [holder : Accounts, done : BOOLEAN]
    BY SeatUpdates DEF TypeOK, Accounts
  <2>4. seat' \in SeatRows
    BY <1>8, <2>3 DEF ChangeRole, TypeOK, SeatRows
  <2>5. role' \in [Reviewers -> Roles]
    BY <1>8 DEF ChangeRole, TypeOK
  <2>. QED BY <1>8, <2>2, <2>4, <2>5 DEF ChangeRole, TypeOK, TypeState
<1>. QED BY <1>1, <1>2, <1>3, <1>4, <1>5, <1>6, <1>7, <1>8

LEMMA EngineTypes == ASSUME TypeOK PROVE EngineStep => TypeState'
<1>1. ASSUME EngineDelivers PROVE TypeState'
  <2>1. \/ SendVideoToReview \/ ResumeAtRevisionSeat(course)
        \/ UNCHANGED <<course, seat, verdict>>
    BY <1>1 DEF EngineDelivers
  <2>2. course' \in CourseRow /\ seat' \in SeatRows /\ verdict' \in [Seats -> Accounts]
    BY <2>1, Filmed, Resumed DEF TypeOK
  <2>3. run' \in Runs
    BY <1>1 DEF EngineDelivers, Runs
  <2>. QED BY <1>1, <2>2, <2>3 DEF EngineDelivers, TypeOK, TypeState
<1>2. ASSUME RunEnds PROVE TypeState'
  BY <1>2 DEF RunEnds, TypeOK, TypeState, Runs
<1>3. ASSUME RetryRun PROVE TypeState'
  BY <1>3 DEF RetryRun, TypeOK, TypeState, Runs
<1>. QED BY <1>1, <1>2, <1>3 DEF EngineStep

LEMMA ServeTypes == ASSUME TypeOK, NEW rq \in Request, Serve(rq) PROVE TypeState'
<1>1. /\ rq.course \in CourseRow /\ rq.who \in Accounts /\ rq.role \in Roles
  BY DEF Request
<1>2. CASE \/ ApproveContent(rq.who, rq.role, rq.course)
           \/ \E flag \in BOOLEAN : \/ RejectCourse(rq.who, rq.role, rq.course, flag)
                                   \/ RejectQA(rq.who, rq.role, rq.course, flag)
           \/ ClaimQA(rq.who, rq.role, rq.course, rq.seat)
  BY <1>1, <1>2, ReviewerTypes
<1>3. CASE \/ RecordVideoDecision(rq.course) \/ SubmitVideo(rq.course)
           \/ UpdateDraft(rq.course) \/ DeleteDraft(rq.course)
  BY <1>1, <1>3, CreatorTypes
<1>4. CASE \/ ApproveAppeal(rq.appeal, rq.course)
           \/ ChangeRole(rq.who, rq.role, rq.course, rq.seat)
  BY <1>1, <1>4, AdminTypes
<1>. QED BY <1>2, <1>3, <1>4 DEF Serve

LEMMA LoadTypes ==
  ASSUME TypeOK, NEW q \in Requests, Load(q)
  PROVE  req' \in [Requests -> Request]
<1>1. PICK op \in Overlap : \E a \in Actors(op) :
        req' = [req EXCEPT ![q] =
            [op |-> op, who |-> a[1], role |-> a[2], course |-> Instance(op),
             seat |-> IF op \in {"claim_qa", "change_role"} THEN seat ELSE EmptySeats,
             appeal |-> IF op = "approve_appeal" THEN appeal ELSE "NONE"]]
  BY DEF Load
<1>2. PICK a \in Actors(op) :
        req' = [req EXCEPT ![q] =
            [op |-> op, who |-> a[1], role |-> a[2], course |-> Instance(op),
             seat |-> IF op \in {"claim_qa", "change_role"} THEN seat ELSE EmptySeats,
             appeal |-> IF op = "approve_appeal" THEN appeal ELSE "NONE"]]
  BY <1>1
<1>3. a[1] \in Accounts /\ a[2] \in Roles
  BY RoleAssumption DEF Actors, Accounts, TypeOK, Roles
<1>4. Instance(op) \in CourseRow
  <2>1. [NewCourse EXCEPT !.status = course.status] \in CourseRow
    BY EmptyTypes, RowUpdate DEF TypeOK, CourseRow
  <2>2. [[NewCourse EXCEPT !.status = course.status] EXCEPT !.stage = course.stage] \in CourseRow
    BY <2>1, RowUpdate DEF TypeOK, CourseRow
  <2>. QED BY <2>2 DEF Instance, TypeOK
<1>5. op \in Handlers
  BY OverlapAssumption
<1>. QED BY <1>2, <1>3, <1>4, <1>5, EmptyTypes DEF TypeOK, Request, Appeals

LEMMA RequestStep ==
  ASSUME TypeOK, NEW q \in Requests, Load(q) \/ Commit(q) \/ Refuse(q)
  PROVE  TypeOK'
<1>1. CASE Load(q)
  BY <1>1, LoadTypes DEF Load, TypeOK
<1>2. CASE Commit(q)
  <2>1. TypeState'
    BY <1>2, ServeTypes DEF Commit, TypeOK
  <2>2. req' \in [Requests -> Request]
    BY <1>2, EmptyTypes DEF Commit, TypeOK
  <2>. QED BY <2>1, <2>2 DEF TypeOK, TypeState
<1>3. CASE Refuse(q)
  BY <1>3, EmptyTypes DEF Refuse, TypeOK
<1>. QED BY <1>1, <1>2, <1>3

LEMMA OperationTypes ==
  ASSUME TypeOK, CreatorStep \/ AdminStep \/ EngineStep \/ \E u \in Reviewers : ReviewerStep(u)
  PROVE  TypeState'
<1>1. CASE CreatorStep
  BY <1>1, CreatorTypes DEF CreatorStep, TypeOK
<1>2. CASE AdminStep
  <2>1. course \in CourseRow /\ NewRoles \subseteq Roles
        /\ {"DEVELOPER", "PRODUCTION_ENGINE"} \subseteq Providers
    BY RoleAssumption DEF TypeOK, Providers
  <2>. QED BY <1>2, <2>1, AdminTypes DEF AdminStep
<1>3. CASE EngineStep
  BY <1>3, EngineTypes
<1>4. CASE \E u \in Reviewers : ReviewerStep(u)
  <2>1. PICK u \in Reviewers : ReviewerStep(u)
    BY <1>4
  <2>2. course \in CourseRow /\ u \in Accounts /\ TRUE \in BOOLEAN
    BY DEF TypeOK, Accounts
  <2>. QED BY <2>1, <2>2, ReviewerTypes DEF ReviewerStep
<1>. QED BY <1>1, <1>2, <1>3, <1>4

LEMMA TypeStep == ASSUME TypeOK, [Next]_vars PROVE TypeOK'
<1>1. CASE /\ CreatorStep \/ AdminStep \/ EngineStep \/ \E u \in Reviewers : ReviewerStep(u)
           /\ UNCHANGED req
  BY <1>1, OperationTypes DEF TypeOK, TypeState
<1>2. CASE \E q \in Requests : Load(q) \/ Commit(q) \/ Refuse(q)
  BY <1>2, RequestStep
<1>3. CASE UNCHANGED vars
  BY <1>3 DEF vars, TypeOK
<1>. QED BY <1>1, <1>2, <1>3 DEF Next

LEMMA InitTypes == Init => TypeOK
BY EmptyTypes, RoleAssumption, CourseAssumption DEF Init, TypeOK, Runs, Appeals, Flows, Roles

\* Every variable keeps its type, whichever handlers are caught between their
\* load and their commit.
THEOREM TypeCorrect == Spec => []TypeOK
<1>1. TypeOK /\ [Next]_vars => TypeOK'
  BY TypeStep
<1>. QED BY <1>1, InitTypes, PTL DEF Spec

-----------------------------------------------------------------------------
(* The columns of a row after the handlers' writes.                        *)

LEMMA CycleColumns ==
  ASSUME NEW row \in CourseRow, StartReviewCycle(row)
  PROVE  /\ course'.status = "SUBMITTED" /\ course'.stage = "CONTENT"
         /\ course'.revisionSeat = row.revisionSeat /\ course'.flow = row.flow
         /\ course'.provider = row.provider /\ course'.attached = row.attached
         /\ course'.rejected = row.rejected /\ course'.payoutType = row.payoutType
         /\ course'.paid = row.paid
BY DEF StartReviewCycle, CourseRow

LEMMA ResumeColumns ==
  ASSUME course \in CourseRow, NEW c, ResumeAtRevisionSeat(c),
         NEW s, s = IF c.revisionSeat = NoSeat THEN "CONTENT" ELSE c.revisionSeat
  PROVE  /\ course'.status = IF s = "QA" THEN "QA_VERIFICATION" ELSE "SUBMITTED"
         /\ course'.stage = IF s = "QA" THEN NoSeat ELSE s
         /\ course'.revisionSeat = NoSeat /\ course'.flow = course.flow
         /\ course'.provider = course.provider /\ course'.attached = course.attached
         /\ course'.rejected = course.rejected /\ course'.payoutType = course.payoutType
         /\ course'.paid = course.paid
         /\ seat' = ResetSeat(s) /\ verdict' = [verdict EXCEPT ![s] = Nobody]
BY DEF ResumeAtRevisionSeat, CourseRow

LEMMA FilmColumns ==
  ASSUME course \in CourseRow, SendVideoToReview
  PROVE  /\ course'.status = "SUBMITTED" /\ course'.stage = "SECOND_REVIEW"
         /\ course'.revisionSeat = course.revisionSeat /\ course'.flow = course.flow
         /\ course'.provider = course.provider /\ course'.attached = TRUE
         /\ course'.rejected = course.rejected /\ course'.payoutType = course.payoutType
         /\ course'.paid = course.paid
BY DEF SendVideoToReview, CourseRow

LEMMA ChoiceColumns ==
  ASSUME course \in CourseRow, NEW c, NEW p, SetProvider(c, p)
  PROVE  /\ course'.status = course.status /\ course'.stage = course.stage
         /\ course'.revisionSeat = course.revisionSeat /\ course'.flow = course.flow
         /\ course'.provider = p /\ course'.attached = course.attached
         /\ course'.rejected = course.rejected
         /\ course'.payoutType = PriceTypeFor(Source, p)
         /\ course'.paid = course.paid
BY DEF SetProvider, CourseRow

LEMMA ReturnColumns ==
  ASSUME course \in CourseRow, NEW c, NEW s, course' = ReturnForRevision(c, s)
  PROVE  /\ course'.status = IF Staged(c) THEN "NEEDS_REVISION" ELSE "DRAFT"
         /\ course'.stage = NoSeat
         /\ course'.revisionSeat = IF Staged(c) THEN s ELSE c.revisionSeat
         /\ course'.flow = course.flow
         /\ course'.provider = course.provider /\ course'.attached = course.attached
         /\ course'.rejected = TRUE /\ course'.payoutType = course.payoutType
         /\ course'.paid = course.paid
BY DEF ReturnForRevision, CourseRow

LEMMA ApprovalColumns ==
  ASSUME course \in CourseRow, NEW s
  PROVE  /\ AfterApproval(s).revisionSeat = course.revisionSeat
         /\ AfterApproval(s).flow = course.flow
         /\ AfterApproval(s).attached = course.attached
         /\ AfterApproval(s).rejected = course.rejected
         /\ AfterApproval(s).paid = course.paid
         /\ s = "CONTENT" /\ Staged(course) =>
              /\ AfterApproval(s).status = "AWAITING_VIDEO" /\ AfterApproval(s).stage = NoSeat
              /\ AfterApproval(s).payoutType = PriceTypeFor(Source, AfterApproval(s).provider)
         /\ ~(s = "CONTENT" /\ Staged(course)) =>
              /\ AfterApproval(s).status = IF NextSeat(s) = NoSeat THEN "QA_VERIFICATION" ELSE "SUBMITTED"
              /\ AfterApproval(s).stage = NextSeat(s)
              /\ AfterApproval(s).provider = course.provider
              /\ AfterApproval(s).payoutType = course.payoutType
BY DEF AfterApproval, Reprice, CourseRow

LEMMA PaidColumns ==
  ASSUME NEW c \in CourseRow, NEW s, PayOnApproval(c, s)
  PROVE  /\ course'.status = c.status /\ course'.stage = c.stage
         /\ course'.revisionSeat = c.revisionSeat /\ course'.flow = c.flow
         /\ course'.provider = c.provider /\ course'.attached = c.attached
         /\ course'.rejected = c.rejected /\ course'.payoutType = c.payoutType
         /\ course'.paid = (c.paid \/ Pays(c, s))
BY DEF PayOnApproval, CourseRow

\* The two writes of one column.
LEMMA StatusColumns ==
  ASSUME course \in CourseRow, NEW x, course' = [course EXCEPT !.status = x]
  PROVE  /\ course'.status = x /\ course'.stage = course.stage
         /\ course'.revisionSeat = course.revisionSeat /\ course'.flow = course.flow
         /\ course'.provider = course.provider /\ course'.attached = course.attached
         /\ course'.rejected = course.rejected /\ course'.payoutType = course.payoutType
         /\ course'.paid = course.paid
BY DEF CourseRow

LEMMA ArchiveColumns ==
  ASSUME course \in CourseRow, ArchiveCourse
  PROVE  /\ course'.status = "ARCHIVED" /\ course'.stage = NoSeat
         /\ course'.revisionSeat = course.revisionSeat /\ course'.flow = course.flow
         /\ course'.provider = course.provider /\ course'.attached = course.attached
         /\ course'.rejected = course.rejected /\ course'.payoutType = course.payoutType
         /\ course'.paid = course.paid
BY DEF ArchiveCourse, CourseRow

-----------------------------------------------------------------------------
(* A course is paid once.                                                  *)

\* What a step may do to the course row and the wallet: nothing; anything that
\* leaves creator_paid_at alone; delete the course; or pay it for the first time.
LedgerStep ==
  \/ /\ UNCHANGED <<course, credits>>
     /\ appeal' = appeal \/ course.status # "DELETED"
  \/ /\ course.status # "DELETED" /\ course'.status # "DELETED"
     /\ course'.paid = course.paid /\ credits' = credits
  \/ course'.status = "DELETED" /\ appeal' = "NONE" /\ credits' = credits
  \/ /\ course.status # "DELETED" /\ course'.status # "DELETED"
     /\ ~course.paid /\ course'.paid = TRUE
     /\ \E t \in PriceTypes : credits' = Append(credits, t)

\* The strengthening of PaidOnce that steps preserve.
LedgerInv ==
  /\ TypeOK
  /\ \A q \in Requests : req[q].op \in Overlap \cup {"idle"}
  /\ PaidOnce
  /\ course.status = "DELETED" => appeal = "NONE"

LEMMA LedgerKept ==
  ASSUME LedgerInv, LedgerStep, TypeOK'
  PROVE  PaidOnce' /\ (course'.status = "DELETED" => appeal' = "NONE")
<1>1. credits \in Seq(PriceTypes) /\ course.paid \in BOOLEAN
  BY DEF LedgerInv, TypeOK, CourseRow
<1>2. CASE UNCHANGED <<course, credits>> /\ (appeal' = appeal \/ course.status # "DELETED")
  BY <1>2 DEF LedgerInv, PaidOnce
<1>3. CASE /\ course.status # "DELETED" /\ course'.status # "DELETED"
           /\ course'.paid = course.paid /\ credits' = credits
  BY <1>3 DEF LedgerInv, PaidOnce
<1>4. CASE course'.status = "DELETED" /\ appeal' = "NONE" /\ credits' = credits
  BY <1>4 DEF LedgerInv, PaidOnce
<1>5. CASE /\ course.status # "DELETED" /\ course'.status # "DELETED"
           /\ ~course.paid /\ course'.paid = TRUE
           /\ \E t \in PriceTypes : credits' = Append(credits, t)
  <2>1. credits = <<>>
    BY <1>5 DEF LedgerInv, PaidOnce
  <2>2. PICK t \in PriceTypes : credits' = Append(credits, t)
    BY <1>5
  <2>3. Len(credits') = 1 /\ credits' # <<>>
    BY <1>1, <2>1, <2>2
  <2>. QED BY <1>5, <2>3 DEF PaidOnce
<1>. QED BY <1>2, <1>3, <1>4, <1>5 DEF LedgerStep

\* Writing one column of a row leaves the others.
LEMMA RowKeeps ==
  ASSUME NEW c \in CourseRow
  PROVE  /\ \A x : [c EXCEPT !.status = x].paid = c.paid
         /\ \A x : [c EXCEPT !.status = x].status = x
         /\ \A x : [c EXCEPT !.stage = x].paid = c.paid
         /\ \A x : [c EXCEPT !.stage = x].status = c.status
         /\ \A x : [c EXCEPT !.revisionSeat = x].paid = c.paid
         /\ \A x : [c EXCEPT !.revisionSeat = x].status = c.status
         /\ \A x : [c EXCEPT !.flow = x].paid = c.paid
         /\ \A x : [c EXCEPT !.flow = x].status = c.status
         /\ \A x : [c EXCEPT !.provider = x].paid = c.paid
         /\ \A x : [c EXCEPT !.provider = x].status = c.status
         /\ \A x : [c EXCEPT !.attached = x].paid = c.paid
         /\ \A x : [c EXCEPT !.attached = x].status = c.status
         /\ \A x : [c EXCEPT !.rejected = x].paid = c.paid
         /\ \A x : [c EXCEPT !.rejected = x].status = c.status
         /\ \A x : [c EXCEPT !.payoutType = x].paid = c.paid
         /\ \A x : [c EXCEPT !.payoutType = x].status = c.status
         /\ \A x : [c EXCEPT !.paid = x].paid = x
         /\ \A x : [c EXCEPT !.paid = x].status = c.status
BY DEF CourseRow

LEMMA ResumeKeeps ==
  ASSUME TypeOK, NEW c \in CourseRow, ResumeAtRevisionSeat(c)
  PROVE  course'.paid = course.paid /\ course'.status \in {"QA_VERIFICATION", "SUBMITTED"}
BY ResumeColumns DEF TypeOK

LEMMA ReturnKeeps ==
  ASSUME course \in CourseRow, NEW c, NEW s, course' = ReturnForRevision(c, s)
  PROVE  course'.paid = course.paid /\ course'.status \in {"NEEDS_REVISION", "DRAFT"}
BY ReturnColumns

LEMMA ApprovalKeeps ==
  ASSUME TypeOK, NEW s \in ContentSeats
  PROVE  AfterApproval(s).paid = course.paid /\ AfterApproval(s).status # "DELETED"
BY ApprovalColumns DEF TypeOK

\* An approval pays only a course that was not paid, and then says so.
LEMMA PaymentKeeps ==
  ASSUME TypeOK, course.status # "DELETED",
         NEW c \in CourseRow, c.paid = course.paid, c.status # "DELETED",
         NEW s, PayOnApproval(c, s)
  PROVE  LedgerStep
<1>1. course' = [c EXCEPT !.paid = c.paid \/ Pays(c, s)]
  BY DEF PayOnApproval
<1>2. course'.paid = (c.paid \/ Pays(c, s)) /\ course'.status = c.status
  BY <1>1, RowKeeps
<1>3. CASE Pays(c, s)
  <2>1. ~c.paid /\ c.payoutType \in PriceTypes
    BY <1>3 DEF Pays, CourseRow
  <2>2. credits' = Append(credits, c.payoutType)
    BY <1>3 DEF PayOnApproval
  <2>. QED BY <1>2, <1>3, <2>1, <2>2 DEF LedgerStep
<1>4. CASE ~Pays(c, s)
  <2>1. credits' = credits
    BY <1>4 DEF PayOnApproval
  <2>2. course'.paid = course.paid
    BY <1>2, <1>4 DEF CourseRow
  <2>. QED BY <1>2, <2>1, <2>2 DEF LedgerStep
<1>. QED BY <1>3, <1>4

LEMMA CreatorLedger ==
  ASSUME TypeOK, NEW c \in CourseRow
  PROVE  /\ SubmitDraft \/ ResubmitToSeat \/ ResubmitToEngine \/ SubmitAppeal => LedgerStep
         /\ DeleteDraft(c) => LedgerStep
         /\ course.status # "DELETED" /\ (RecordVideoDecision(c) \/ SubmitVideo(c)) => LedgerStep
<1>1. ASSUME SubmitDraft PROVE LedgerStep
  <2>. DEFINE row == [Reprice(course) EXCEPT
                        !.flow = IF @ = "UNSET" THEN platformFlow ELSE @]
  <2>1. Reprice(course) \in CourseRow /\ Reprice(course).paid = course.paid
    BY Repriced, RowKeeps DEF TypeOK, Reprice
  <2>2. row \in CourseRow
    BY <2>1, RowUpdate DEF TypeOK, CourseRow
  <2>3. row.paid = course.paid
    BY <2>1, RowKeeps
  <2>4. StartReviewCycle(row)
    BY <1>1 DEF SubmitDraft
  <2>5. course'.paid = course.paid /\ course'.status = "SUBMITTED"
    BY <2>2, <2>3, <2>4, CycleColumns
  <2>. QED BY <1>1, <2>5 DEF SubmitDraft, LedgerStep
<1>2. ASSUME ResubmitToSeat PROVE LedgerStep
  <2>1. course'.paid = course.paid /\ course'.status \in {"QA_VERIFICATION", "SUBMITTED"}
    BY <1>2, ResumeKeeps DEF ResubmitToSeat, TypeOK
  <2>. QED BY <1>2, <2>1 DEF ResubmitToSeat, LedgerStep
<1>3. ASSUME ResubmitToEngine PROVE LedgerStep
  BY <1>3 DEF ResubmitToEngine, LedgerStep
<1>4. ASSUME SubmitAppeal PROVE LedgerStep
  BY <1>4 DEF SubmitAppeal, LedgerStep, Editable
<1>5. ASSUME DeleteDraft(c) PROVE LedgerStep
  <2>1. course'.status = "DELETED"
    BY <1>5, EmptyTypes, RowKeeps DEF DeleteDraft
  <2>. QED BY <1>5, <2>1 DEF DeleteDraft, LedgerStep
<1>6. ASSUME course.status # "DELETED", RecordVideoDecision(c) PROVE LedgerStep
  <2>1. PICK p \in {"CREATOR", "PRODUCTION_ENGINE"} : SetProvider(c, p)
    BY <1>6 DEF RecordVideoDecision
  <2>2. p \in Providers
    BY DEF Providers
  <2>3. course'.paid = course.paid /\ course'.status = course.status
    BY <2>1, <2>2, ChoiceColumns DEF TypeOK
  <2>. QED BY <1>6, <2>3 DEF RecordVideoDecision, LedgerStep
<1>7. ASSUME course.status # "DELETED", SubmitVideo(c) PROVE LedgerStep
  <2>1. course'.paid = course.paid /\ course'.status = "SUBMITTED"
    BY <1>7, FilmColumns DEF SubmitVideo, TypeOK
  <2>. QED BY <1>7, <2>1 DEF SubmitVideo, LedgerStep
<1>. QED BY <1>1, <1>2, <1>3, <1>4, <1>5, <1>6, <1>7

LEMMA ReviewerLedger ==
  ASSUME TypeOK, NEW u, NEW r, NEW c \in CourseRow, NEW rows, NEW flag \in BOOLEAN
  PROVE  /\ ClaimForReview(u, r) \/ AssignContentSeat(u, r, flag) => LedgerStep
         /\ ApproveContent(u, r, c) \/ RejectCourse(u, r, c, flag) => LedgerStep
         /\ AssignQASeat(u, r, flag) \/ ClaimQA(u, r, c, rows) => LedgerStep
         /\ ApproveQA(u, r) => LedgerStep
         /\ course.status # "DELETED" /\ RejectQA(u, r, c, flag) => LedgerStep
<1>. DEFINE s == OpenSeat(course)
<1>. s \in ContentSeats /\ s \in Seats /\ "QA" \in Seats /\ course \in CourseRow
  BY OpenSeatType, Tables DEF TypeOK
<1>1. ASSUME ClaimForReview(u, r) \/ AssignContentSeat(u, r, flag) PROVE LedgerStep
  <2>1. course' = [course EXCEPT !.status = "IN_REVIEW"] /\ credits' = credits
        /\ course.status # "DELETED"
    BY <1>1 DEF ClaimForReview, AssignContentSeat, Reviewable
  <2>. QED BY <2>1, RowKeeps DEF LedgerStep
<1>2. ASSUME ApproveContent(u, r, c) PROVE LedgerStep
  <2>1. course.status # "DELETED" /\ PayOnApproval(AfterApproval(s), s)
    BY <1>2 DEF ApproveContent, NotMovedOn, Reviewable
  <2>2. /\ AfterApproval(s) \in CourseRow /\ AfterApproval(s).paid = course.paid
        /\ AfterApproval(s).status # "DELETED"
    BY Approved, ApprovalKeeps
  <2>. QED BY <2>1, <2>2, PaymentKeeps
<1>3. ASSUME RejectCourse(u, r, c, flag) PROVE LedgerStep
  <2>1. course.status # "DELETED" /\ credits' = credits /\ course' = ReturnForRevision(course, s)
    BY <1>3 DEF RejectCourse, NotMovedOn, Reviewable
  <2>. QED BY <2>1, ReturnKeeps DEF LedgerStep
<1>4. ASSUME AssignQASeat(u, r, flag) \/ ClaimQA(u, r, c, rows) PROVE LedgerStep
  BY <1>4 DEF AssignQASeat, ClaimQA, LedgerStep
<1>5. ASSUME ApproveQA(u, r) PROVE LedgerStep
  <2>. DEFINE d == [course EXCEPT !.status = "APPROVED"]
  <2>1. d \in CourseRow
    BY RowUpdate DEF Statuses
  <2>2. d.paid = course.paid /\ d.status # "DELETED"
    BY RowKeeps
  <2>3. course.status # "DELETED" /\ PayOnApproval(d, "QA")
    BY <1>5 DEF ApproveQA
  <2>. HIDE DEF d
  <2>. QED BY <2>1, <2>2, <2>3, PaymentKeeps
<1>6. ASSUME course.status # "DELETED", RejectQA(u, r, c, flag) PROVE LedgerStep
  <2>1. credits' = credits /\ course' = ReturnForRevision(c, "QA")
    BY <1>6 DEF RejectQA
  <2>. QED BY <1>6, <2>1, ReturnKeeps DEF LedgerStep
<1>. QED BY <1>1, <1>2, <1>3, <1>4, <1>5, <1>6

LEMMA AdminLedger ==
  ASSUME LedgerInv, NEW c \in CourseRow
  PROVE  /\ PublishCourse \/ RejectAppeal \/ SwitchReviewFlow \/ RequestPackaging => LedgerStep
         /\ ApproveAppeal(appeal, c) => LedgerStep
         /\ \A a : course.status # "DELETED" /\ ApproveAppeal(a, c) => LedgerStep
         /\ \A p \in Providers : AssignVideo(p) => LedgerStep
         /\ ArchiveCourse => LedgerStep
         /\ \A u, r, rows : ChangeRole(u, r, c, rows) => LedgerStep
<1>. TypeOK /\ course \in CourseRow
  BY DEF LedgerInv, TypeOK
<1>1. ASSUME PublishCourse PROVE LedgerStep
  BY <1>1, RowKeeps DEF PublishCourse, LedgerStep
<1>2. ASSUME RejectAppeal PROVE LedgerStep
  BY <1>2 DEF RejectAppeal, LedgerStep, LedgerInv
<1>3. ASSUME SwitchReviewFlow \/ RequestPackaging PROVE LedgerStep
  BY <1>3 DEF SwitchReviewFlow, RequestPackaging, LedgerStep
<1>4. ASSUME NEW a, course.status # "DELETED", ApproveAppeal(a, c) PROVE LedgerStep
  <2>1. ResumeAtRevisionSeat(c) \/ StartReviewCycle(course)
    BY <1>4 DEF ApproveAppeal
  <2>2. course'.paid = course.paid /\ course'.status \in {"QA_VERIFICATION", "SUBMITTED"}
    BY <2>1, ResumeKeeps, CycleColumns
  <2>. QED BY <1>4, <2>2 DEF ApproveAppeal, LedgerStep
<1>5. ASSUME ApproveAppeal(appeal, c) PROVE LedgerStep
  <2>1. course.status # "DELETED"
    BY <1>5 DEF ApproveAppeal, LedgerInv
  <2>. QED BY <1>4, <1>5, <2>1
<1>6. ASSUME NEW p \in Providers, AssignVideo(p) PROVE LedgerStep
  <2>1. course'.paid = course.paid /\ course'.status = course.status
    BY <1>6, ChoiceColumns DEF AssignVideo
  <2>. QED BY <1>6, <2>1 DEF AssignVideo, LedgerStep
<1>7. ASSUME ArchiveCourse PROVE LedgerStep
  <2>. DEFINE r1 == [course EXCEPT !.status = "ARCHIVED"]
  <2>1. r1 \in CourseRow
    BY RowUpdate DEF Statuses
  <2>2. r1.paid = course.paid /\ r1.status = "ARCHIVED"
    BY RowKeeps
  <2>3. course'.paid = course.paid /\ course'.status = "ARCHIVED"
    BY <1>7, <2>1, <2>2, RowKeeps DEF ArchiveCourse
  <2>. QED BY <1>7, <2>3 DEF ArchiveCourse, Archivable, LedgerStep
<1>8. ASSUME NEW u, NEW r, NEW rows, ChangeRole(u, r, c, rows) PROVE LedgerStep
  <2>1. \/ course' = course
        \/ course.status # "DELETED" /\ course' = [course EXCEPT !.status = "SUBMITTED"]
    BY <1>8 DEF ChangeRole
  <2>2. credits' = credits /\ appeal' = appeal
    BY <1>8 DEF ChangeRole
  <2>3. CASE course' = course
    BY <2>2, <2>3 DEF LedgerStep
  <2>4. CASE course.status # "DELETED" /\ course' = [course EXCEPT !.status = "SUBMITTED"]
    BY <2>2, <2>4, RowKeeps DEF LedgerStep
  <2>. QED BY <2>1, <2>3, <2>4
<1>. QED BY <1>1, <1>2, <1>3, <1>4, <1>5, <1>6, <1>7, <1>8

LEMMA EngineLedger == ASSUME TypeOK PROVE EngineStep => LedgerStep
<1>1. ASSUME EngineDelivers PROVE LedgerStep
  <2>1. credits' = credits /\ appeal' = appeal
    BY <1>1 DEF EngineDelivers
  <2>2. CASE course.status = "AWAITING_VIDEO" /\ SendVideoToReview
    BY <2>1, <2>2, FilmColumns DEF LedgerStep, TypeOK
  <2>3. CASE course.status = "NEEDS_REVISION" /\ ResumeAtRevisionSeat(course)
    <3>1. course'.paid = course.paid /\ course'.status \in {"QA_VERIFICATION", "SUBMITTED"}
      BY <2>3, ResumeKeeps DEF TypeOK
    <3>. QED BY <2>1, <2>3, <3>1 DEF LedgerStep
  <2>4. CASE UNCHANGED course
    BY <2>1, <2>4 DEF LedgerStep
  <2>5. \/ course.status = "AWAITING_VIDEO" /\ SendVideoToReview
        \/ course.status = "NEEDS_REVISION" /\ ResumeAtRevisionSeat(course)
        \/ UNCHANGED course
    BY <1>1 DEF EngineDelivers
  <2>. QED BY <2>2, <2>3, <2>4, <2>5
<1>2. ASSUME RunEnds \/ RetryRun PROVE LedgerStep
  BY <1>2 DEF RunEnds, RetryRun, LedgerStep
<1>. QED BY <1>1, <1>2 DEF EngineStep

LEMMA ServeLedger ==
  ASSUME LedgerInv, NEW rq \in Request, rq.op # "update_draft", Serve(rq)
  PROVE  LedgerStep
<1>1. rq.course \in CourseRow /\ TypeOK
  BY DEF Request, LedgerInv
<1>2. CASE \/ ApproveContent(rq.who, rq.role, rq.course)
           \/ \E flag \in BOOLEAN : RejectCourse(rq.who, rq.role, rq.course, flag)
           \/ ClaimQA(rq.who, rq.role, rq.course, rq.seat)
  BY <1>1, <1>2, ReviewerLedger
<1>3. CASE course.status # "DELETED" /\ \E flag \in BOOLEAN :
             RejectQA(rq.who, rq.role, rq.course, flag)
  BY <1>1, <1>3, ReviewerLedger
<1>4. CASE /\ course.status # "DELETED"
           /\ RecordVideoDecision(rq.course) \/ SubmitVideo(rq.course) \/ DeleteDraft(rq.course)
  BY <1>1, <1>4, CreatorLedger
<1>5. CASE course.status # "DELETED" /\ ApproveAppeal(rq.appeal, rq.course)
  BY <1>1, <1>5, AdminLedger
<1>6. CASE ChangeRole(rq.who, rq.role, rq.course, rq.seat)
  BY <1>1, <1>6, AdminLedger
<1>. QED BY <1>2, <1>3, <1>4, <1>5, <1>6 DEF Serve

LEMMA OperationLedger ==
  ASSUME LedgerInv,
         CreatorStep \/ AdminStep \/ EngineStep \/ \E u \in Reviewers : ReviewerStep(u)
  PROVE  LedgerStep
<1>. TypeOK /\ course \in CourseRow
  BY DEF LedgerInv, TypeOK
<1>1. CASE CreatorStep
  <2>1. RecordVideoDecision(course) \/ SubmitVideo(course) => course.status # "DELETED"
    BY DEF RecordVideoDecision, SubmitVideo
  <2>. QED BY <1>1, <2>1, CreatorLedger DEF CreatorStep
<1>2. CASE AdminStep
  <2>1. {"DEVELOPER", "PRODUCTION_ENGINE"} \subseteq Providers
    BY DEF Providers
  <2>. QED BY <1>2, <2>1, AdminLedger DEF AdminStep
<1>3. CASE EngineStep
  BY <1>3, EngineLedger
<1>4. CASE \E u \in Reviewers : ReviewerStep(u)
  <2>1. PICK u \in Reviewers : ReviewerStep(u)
    BY <1>4
  <2>2. \A flag : RejectQA(u, role[u], course, flag) => course.status # "DELETED"
    BY DEF RejectQA
  <2>3. TRUE \in BOOLEAN
    OBVIOUS
  <2>. QED BY <2>1, <2>2, <2>3, ReviewerLedger DEF ReviewerStep
<1>. QED BY <1>1, <1>2, <1>3, <1>4

\* A course is paid once, however many requests are caught between load and commit
\* and in whatever order they commit, as long as none of them is an edit of a draft:
\* update_draft_course saves every column, creator_paid_at among them.
THEOREM PaidOnceUnlessEdited ==
  ASSUME "update_draft" \notin Overlap
  PROVE  Spec => []PaidOnce
<1>1. Init => LedgerInv
  BY InitTypes DEF Init, LedgerInv, PaidOnce, NewCourse, Idle
<1>2. LedgerInv /\ [Next]_vars => LedgerInv'
  <2>. SUFFICES ASSUME LedgerInv, [Next]_vars PROVE LedgerInv'
    OBVIOUS
  <2>1. TypeOK /\ TypeOK'
    BY TypeStep DEF LedgerInv
  <2>2. CASE /\ CreatorStep \/ AdminStep \/ EngineStep \/ \E u \in Reviewers : ReviewerStep(u)
             /\ UNCHANGED req
    <3>1. LedgerStep
      BY <2>2, OperationLedger
    <3>. QED BY <2>1, <2>2, <3>1, LedgerKept DEF LedgerInv
  <2>3. ASSUME NEW q \in Requests, Commit(q) PROVE LedgerInv'
    <3>1. req[q] \in Request /\ req[q].op \in Overlap \cup {"idle"}
      BY <2>1 DEF LedgerInv, TypeOK
    <3>2. LedgerStep
      BY <2>3, <3>1, ServeLedger DEF Commit
    <3>3. \A p \in Requests : req'[p].op \in Overlap \cup {"idle"}
      BY <2>1, <2>3 DEF Commit, LedgerInv, TypeOK, Idle
    <3>. QED BY <2>1, <3>2, <3>3, LedgerKept DEF LedgerInv
  <2>4. ASSUME NEW q \in Requests, Load(q) PROVE LedgerInv'
    <3>1. \A p \in Requests : req'[p].op \in Overlap \cup {"idle"}
      BY <2>1, <2>4 DEF Load, LedgerInv, TypeOK
    <3>. QED BY <2>1, <2>4, <3>1 DEF Load, LedgerInv, PaidOnce
  <2>5. ASSUME NEW q \in Requests, Refuse(q) PROVE LedgerInv'
    BY <2>1, <2>5 DEF Refuse, LedgerInv, PaidOnce, TypeOK, Idle
  <2>6. CASE UNCHANGED vars
    BY <2>6, <2>1 DEF vars, LedgerInv, PaidOnce
  <2>. QED BY <2>2, <2>3, <2>4, <2>5, <2>6 DEF Next
<1>3. LedgerInv => PaidOnce
  BY DEF LedgerInv
<1>. QED BY <1>1, <1>2, <1>3, PTL DEF Spec

=============================================================================

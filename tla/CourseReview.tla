----------------------------- MODULE CourseReview -----------------------------
(***************************************************************************)
(* One course on its way from Draft to Published: the creator who submits, *)
(* revises, films and appeals; the reviewers who claim, decide and hand on *)
(* its seats; the engine that films it; the payout to the creator.         *)
(*                                                                         *)
(* Every operation is an HTTP request or a Celery task.  A request first   *)
(* LOADS the course (get_object, outside any transaction) and later        *)
(* COMMITS in one transaction.  Handlers that lock and re-read the row act *)
(* on the row as it is at the commit; the others act on the instance they  *)
(* loaded, however old, and save the columns they name.  A handler that    *)
(* can be caught in between takes the instance it works from as its        *)
(* argument c: the current row when the request is served in one go, the   *)
(* request's snapshot when other requests commit in the meantime.          *)
(* Overlap is the set of handlers for which the latter is explored.        *)
(*                                                                         *)
(* Courses do not share rows of this workflow (four eyes reads one         *)
(* course's seats), so one course is enough.                               *)
(***************************************************************************)
EXTENDS ReviewFlow, Sequences

CONSTANTS Reviewers,      \* staff accounts that may take seats
          Nobody,         \* the empty reviewer column
          InitRole,       \* [Reviewers -> StaffRoles]
          NewRoles,       \* roles change_user_role may give, or "ERASED"
          Requests,       \* requests that may be in flight at once
          Overlap,        \* handlers that may be caught between load and commit
          Source,         \* course.source_type
          DeveloperVideo, \* who films a developer's course (video_provider_for)
          Payable,        \* is_payable: FALSE on a bypass plan
          EngineOn,       \* PlatformSettings.production_enabled
          InitFlow,       \* the review mode new courses get at the start
          LateAppeals     \* an appeal may be decided after the course moved on

Handlers == {"approve_content", "reject_course", "claim_qa", "reject_qa",
             "record_video_decision", "submit_video", "update_draft",
             "delete_draft", "approve_appeal", "change_role"}
Flows    == {"DIRECT", "STAGED"}

ASSUME NobodyAssumption == Nobody \notin Reviewers
ASSUME RoleAssumption   == /\ InitRole \in [Reviewers -> StaffRoles]
                           /\ NewRoles \subseteq Roles
ASSUME OverlapAssumption == Overlap \subseteq Handlers
ASSUME CourseAssumption ==
  /\ Source \in Sources /\ DeveloperVideo \in Providers \ {"CREATOR"}
  /\ Payable \in BOOLEAN /\ EngineOn \in BOOLEAN /\ LateAppeals \in BOOLEAN
  /\ InitFlow \in Flows

VARIABLES
  course,       \* the Course row: the columns the workflow reads and writes
  seat,         \* the ReviewAssignment rows, by stage
  role,         \* users.role of each staff account
  platformFlow, \* PlatformSettings.staged_review_flow_enabled
  run,          \* the course's production run
  appeal,       \* status of the course's latest appeal
  credits,      \* price types credited to the creator's wallet, in order
  verdict,      \* history: who approved each seat since the cycle began
  req           \* requests in flight, with the instances they loaded

vars == <<course, seat, role, platformFlow, run, appeal, credits, verdict, req>>

Accounts == Reviewers \cup {Nobody}

CourseRow == [status : Statuses, stage : ContentSeats \cup {NoSeat},
              revisionSeat : Seats \cup {NoSeat}, flow : Flows \cup {"UNSET"},
              provider : Providers, attached : BOOLEAN, rejected : BOOLEAN,
              payoutType : PriceTypes \cup {"NONE"}, paid : BOOLEAN]
SeatRows  == [Seats -> [holder : Accounts, done : BOOLEAN]]
Appeals   == {"NONE", "PENDING", "APPROVED", "REJECTED"}

\* DELIVERED: the run handed its video over and has not been finished yet.
Runs       == {"NONE", "VIDEO", "DELIVERED", "PACKAGE", "FAILED"}
ActiveRuns == {"VIDEO", "DELIVERED", "PACKAGE"}

Request == [op : Handlers \cup {"idle"}, who : Accounts, role : Roles,
            course : CourseRow, seat : SeatRows, appeal : Appeals]

NewCourse == [status |-> "DRAFT", stage |-> NoSeat, revisionSeat |-> NoSeat,
              flow |-> "UNSET", provider |-> "NONE", attached |-> FALSE,
              rejected |-> FALSE, payoutType |-> "NONE", paid |-> FALSE]
EmptySeats == [s \in Seats |-> [holder |-> Nobody, done |-> FALSE]]
NoVerdicts == [s \in Seats |-> Nobody]
Idle == [op |-> "idle", who |-> Nobody, role |-> "ERASED", course |-> NewCourse,
         seat |-> EmptySeats, appeal |-> "NONE"]

TypeOK ==
  /\ course \in CourseRow
  /\ seat \in SeatRows
  /\ role \in [Reviewers -> Roles]
  /\ platformFlow \in Flows
  /\ run \in Runs
  /\ appeal \in Appeals
  /\ credits \in Seq(PriceTypes)
  /\ verdict \in [Seats -> Accounts]
  /\ req \in [Requests -> Request]

-----------------------------------------------------------------------------
(* What the handlers share.                                                *)

\* A saved course owns its review mode; the setting is only a default.
Staged(c) == IF c.flow = "UNSET" THEN platformFlow = "STAGED" ELSE c.flow = "STAGED"

OpenSeat(c) == IF c.stage = NoSeat THEN "CONTENT" ELSE c.stage

\* Mutant of MaySit: no four eyes for admins.
MaySitAgainAsAdmin(u, r, s) ==
  /\ s \in ClaimableSeats(r, Staged(course))
  /\ r # "ADMIN" => \A e \in EarlierSeats(s) : ~(seat[e].holder = u /\ seat[e].done)

\* require_seat_access: the seat's role, then four eyes - whoever decided an
\* earlier seat of this cycle cannot take a later one, admins included.
MaySit(u, r, s) ==
  /\ s \in ClaimableSeats(r, Staged(course))
  /\ \A e \in EarlierSeats(s) : ~(seat[e].holder = u /\ seat[e].done)

\* _hold_seat: the claimant decides, or the admin tier takes the seat over.
MayDecide(u, r, s) ==
  /\ r \in StaffRoles
  /\ MaySit(u, r, s)
  /\ r = "ADMIN" \/ (course.status = "IN_REVIEW" /\ seat[s].holder = u)

\* Mutant of NotMovedOn: the row is not compared after the lock.
Unchecked(c) == c.status \in Reviewable

\* The locked row must still be where the caller's instance saw it.
NotMovedOn(c) ==
  /\ course.status \in Reviewable
  /\ course.status = c.status /\ course.stage = c.stage

\* Mutants: a reopened seat keeps its decision; a decision is not stamped.
KeepSeat(s) == seat
HeldOnly(s, u) == [seat EXCEPT ![s].holder = u]

ResetSeat(s) == [seat EXCEPT ![s] = [holder |-> Nobody, done |-> FALSE]]
Decided(s, u) == [seat EXCEPT ![s] = [holder |-> u, done |-> TRUE]]

\* request_production returns the active run when the course has one.
RequestRun(kind) == IF run \in ActiveRuns THEN run ELSE kind
CancelRun        == IF run \in ActiveRuns THEN "NONE" ELSE run

StartReviewCycle(row) ==
  /\ course' = [row EXCEPT !.status = "SUBMITTED", !.stage = "CONTENT"]
  /\ seat' = EmptySeats
  /\ verdict' = NoVerdicts

\* Mutant of ResumeAtRevisionSeat: the resubmission starts over.
ResumeAtStart(c) == StartReviewCycle([course EXCEPT !.revisionSeat = NoSeat])

\* resume_at_revision_seat: c names the seat, the columns go to the row.
ResumeAtRevisionSeat(c) ==
  LET s == IF c.revisionSeat = NoSeat THEN "CONTENT" ELSE c.revisionSeat IN
  /\ course' = [course EXCEPT
       !.status = IF s = "QA" THEN "QA_VERIFICATION" ELSE "SUBMITTED",
       !.stage = IF s = "QA" THEN NoSeat ELSE s,
       !.revisionSeat = NoSeat]
  /\ seat' = ResetSeat(s)
  /\ verdict' = [verdict EXCEPT ![s] = Nobody]

\* _return_for_revision, and the columns its two callers save with it.
ReturnForRevision(c, s) ==
  [course EXCEPT !.stage = NoSeat,
                 !.rejected = TRUE,
                 !.status = IF Staged(c) THEN "NEEDS_REVISION" ELSE "DRAFT",
                 !.revisionSeat = IF Staged(c) THEN s ELSE c.revisionSeat]

\* handle_rejection: engine video whose every flag the engine can fix is reworked.
RunAfterRejection(c, s, fixable) ==
  IF fixable /\ c.provider = "PRODUCTION_ENGINE" /\ c.attached /\ s \in VideoSeats
  THEN RequestRun("VIDEO") ELSE run

Reprice(c) == [c EXCEPT !.payoutType = PriceTypeFor(Source, c.provider)]

\* Mutants of Pays: at any seat, or again.
PaysAnywhere(c, s) ==
  /\ s \in PayoutSeats /\ ~c.paid /\ Payable /\ c.payoutType # "NONE"
PaysAgain(c, s) ==
  /\ s \in PayoutSeats /\ Rank[s] >= Rank[PayoutSeat(c.provider)]
  /\ Payable /\ c.payoutType # "NONE"

\* pay_on_approval at seat s, on the locked row c as the approval leaves it.
Pays(c, s) ==
  /\ s \in PayoutSeats /\ Rank[s] >= Rank[PayoutSeat(c.provider)]
  /\ ~c.paid
  /\ Payable
  /\ c.payoutType # "NONE"
PayOnApproval(c, s) ==
  /\ course' = [c EXCEPT !.paid = @ \/ Pays(c, s)]
  /\ credits' = IF Pays(c, s) THEN Append(credits, c.payoutType) ELSE credits

-----------------------------------------------------------------------------
(* The creator.                                                            *)

\* submit_course on a Draft: freeze the review mode, lock the price, start over.
SubmitDraft ==
  /\ course.status = "DRAFT"
  /\ StartReviewCycle([Reprice(course) EXCEPT
                         !.flow = IF @ = "UNSET" THEN platformFlow ELSE @])
  /\ UNCHANGED <<role, platformFlow, run, appeal, credits>>

\* submit_course on a Needs Revision course: back to the seat that rejected it,
\* unless the engine first has to remake the video from the corrected text.
RemadeByEngine ==
  /\ course.provider = "PRODUCTION_ENGINE" /\ course.attached
  /\ course.revisionSeat \in VideoSeats

ResubmitToSeat ==
  /\ course.status = "NEEDS_REVISION"
  /\ ~RemadeByEngine
  /\ ResumeAtRevisionSeat(course)
  /\ UNCHANGED <<role, platformFlow, run, appeal, credits>>

ResubmitToEngine ==
  /\ course.status = "NEEDS_REVISION"
  /\ RemadeByEngine
  /\ run' = RequestRun("VIDEO")
  /\ UNCHANGED <<course, seat, role, platformFlow, appeal, credits, verdict>>

\* update_draft_course ends in a bare save(): every column of the instance.
UpdateDraft(c) ==
  /\ c.status \in Editable
  /\ course' = c
  /\ UNCHANGED <<seat, role, platformFlow, run, appeal, credits, verdict>>

\* The rows that hang off the course go with it; wallet credits stay.
DeleteDraft(c) ==
  /\ c.status = "DRAFT"
  /\ course' = [NewCourse EXCEPT !.status = "DELETED"]
  /\ seat' = EmptySeats
  /\ verdict' = NoVerdicts
  /\ run' = "NONE"
  /\ appeal' = "NONE"
  /\ UNCHANGED <<role, platformFlow, credits>>

\* Mutant of SetProvider: the price is not refreshed.
SetProviderOnly(c, p) ==
  /\ course' = [course EXCEPT !.provider = p]
  /\ run' = IF p = "PRODUCTION_ENGINE" THEN RequestRun("VIDEO") ELSE CancelRun

\* record_video_decision saves the provider and the price it implies, no more.
SetProvider(c, p) ==
  /\ course' = [course EXCEPT !.provider = p,
                              !.payoutType = PriceTypeFor(Source, p)]
  /\ run' = IF p = "PRODUCTION_ENGINE" THEN RequestRun("VIDEO") ELSE CancelRun

RecordVideoDecision(c) ==
  /\ c.status = "AWAITING_VIDEO"
  /\ Source # "DEVELOPER_API"
  /\ \E p \in {"CREATOR", "PRODUCTION_ENGINE"} : SetProvider(c, p)
  /\ UNCHANGED <<seat, role, platformFlow, appeal, credits, verdict>>

SendVideoToReview ==
  /\ course' = [course EXCEPT !.attached = TRUE, !.status = "SUBMITTED",
                              !.stage = "SECOND_REVIEW"]
  /\ seat' = ResetSeat("SECOND_REVIEW")
  /\ verdict' = [verdict EXCEPT !["SECOND_REVIEW"] = Nobody]

SubmitVideo(c) ==
  /\ c.status = "AWAITING_VIDEO"
  /\ c.provider \in {"CREATOR", "DEVELOPER"}
  /\ SendVideoToReview
  /\ UNCHANGED <<role, platformFlow, run, appeal, credits>>

SubmitAppeal ==
  /\ course.status \in Editable /\ course.rejected
  /\ appeal # "PENDING"
  /\ appeal' = "PENDING"
  /\ UNCHANGED <<course, seat, role, platformFlow, run, credits, verdict>>

-----------------------------------------------------------------------------
(* The content reviewers: u acts with role r.                              *)

ClaimForReview(u, r) ==
  LET s == OpenSeat(course) IN
  /\ r \in StaffRoles
  /\ course.status = "SUBMITTED"
  /\ MaySit(u, r, s)
  /\ course' = [course EXCEPT !.status = "IN_REVIEW"]
  /\ seat' = [seat EXCEPT ![s].holder = u]
  /\ UNCHANGED <<role, platformFlow, run, appeal, credits, verdict>>

\* assign_seat puts u in the content seat; one held by another only with replace.
AssignContentSeat(u, r, replace) ==
  LET s == OpenSeat(course) IN
  /\ r \in StaffRoles
  /\ course.status \in Reviewable
  /\ MaySit(u, r, s)
  /\ course.status = "IN_REVIEW" =>
       /\ seat[s].holder # u
       /\ seat[s].holder # Nobody => replace
  /\ seat' = [seat EXCEPT ![s].holder = u]
  /\ course' = [course EXCEPT !.status = "IN_REVIEW"]
  /\ UNCHANGED <<role, platformFlow, run, appeal, credits, verdict>>

AssignQASeat(u, r, replace) ==
  /\ MaySitQA(r)
  /\ course.status = "QA_VERIFICATION"
  /\ seat["QA"].holder # u
  /\ seat["QA"].holder # Nobody => replace
  /\ seat' = [seat EXCEPT !["QA"].holder = u]
  /\ UNCHANGED <<course, role, platformFlow, run, appeal, credits, verdict>>

\* Mutant of AfterApproval: no stop for the video.
StraightOn(s) ==
  [course EXCEPT !.status = IF NextSeat(s) = NoSeat THEN "QA_VERIFICATION" ELSE "SUBMITTED",
                 !.stage = NextSeat(s)]

\* The first seat of the staged flow approves the text alone: the course then
\* waits for its video.  Any other approval hands it to the next seat.
AfterApproval(s) ==
  IF s = "CONTENT" /\ Staged(course)
  THEN Reprice([course EXCEPT
         !.status = "AWAITING_VIDEO", !.stage = NoSeat,
         !.provider = IF Source = "DEVELOPER_API" THEN DeveloperVideo ELSE "NONE"])
  ELSE [course EXCEPT
         !.status = IF NextSeat(s) = NoSeat THEN "QA_VERIFICATION" ELSE "SUBMITTED",
         !.stage = NextSeat(s)]

ApproveContent(u, r, c) ==
  LET s == OpenSeat(course) IN
  /\ NotMovedOn(c)
  /\ MayDecide(u, r, s)
  /\ seat' = Decided(s, u)
  /\ verdict' = [verdict EXCEPT ![s] = u]
  /\ PayOnApproval(AfterApproval(s), s)
  /\ run' = IF /\ AfterApproval(s).status = "AWAITING_VIDEO"
               /\ AfterApproval(s).provider = "PRODUCTION_ENGINE"
            THEN RequestRun("VIDEO") ELSE run
  /\ UNCHANGED <<role, platformFlow, appeal>>

RejectCourse(u, r, c, fixable) ==
  LET s == OpenSeat(course) IN
  /\ NotMovedOn(c)
  /\ MayDecide(u, r, s)
  /\ seat' = Decided(s, u)
  /\ verdict' = [verdict EXCEPT ![s] = Nobody]
  /\ course' = ReturnForRevision(course, s)
  /\ run' = RunAfterRejection(course, s, fixable)
  /\ UNCHANGED <<role, platformFlow, appeal, credits>>

-----------------------------------------------------------------------------
(* QA.                                                                     *)

\* claim_qa_verification checks the assignment it read and saves it, unlocked.
ClaimQA(u, r, c, rows) ==
  /\ MaySitQA(r)
  /\ c.status = "QA_VERIFICATION"
  /\ rows["QA"].holder \in {Nobody, u}
  /\ seat' = [seat EXCEPT !["QA"].holder = u]
  /\ UNCHANGED <<course, role, platformFlow, run, appeal, credits, verdict>>

\* approve_qa locks the row and checks its status again; it does not ask who
\* claimed the seat.
ApproveQA(u, r) ==
  /\ MaySitQA(r)
  /\ course.status = "QA_VERIFICATION"
  /\ seat' = Decided("QA", u)
  /\ verdict' = [verdict EXCEPT !["QA"] = u]
  /\ PayOnApproval([course EXCEPT !.status = "APPROVED"], "QA")
  /\ UNCHANGED <<role, platformFlow, run, appeal>>

\* reject_qa checks the status of the instance it loaded and takes no lock.
RejectQA(u, r, c, fixable) ==
  /\ MaySitQA(r)
  /\ c.status = "QA_VERIFICATION"
  /\ seat' = Decided("QA", u)
  /\ verdict' = [verdict EXCEPT !["QA"] = Nobody]
  /\ course' = ReturnForRevision(c, "QA")
  /\ run' = RunAfterRejection(c, "QA", fixable)
  /\ UNCHANGED <<role, platformFlow, appeal, credits>>

-----------------------------------------------------------------------------
(* The admins.                                                             *)

PublishCourse ==
  /\ course.status = "APPROVED"
  /\ course' = [course EXCEPT !.status = "PUBLISHED"]
  /\ run' = IF EngineOn THEN RequestRun("PACKAGE") ELSE run
  /\ UNCHANGED <<seat, role, platformFlow, appeal, credits, verdict>>

\* approve_appeal reads the appeal and its course together, before it commits.
ApproveAppeal(a, c) ==
  /\ a = "PENDING"
  /\ LateAppeals \/ c.status \in Editable
  /\ appeal' = "APPROVED"
  /\ IF c.status = "NEEDS_REVISION" THEN ResumeAtRevisionSeat(c)
                                    ELSE StartReviewCycle(course)
  /\ UNCHANGED <<role, platformFlow, run, credits>>

RejectAppeal ==
  /\ appeal = "PENDING"
  /\ appeal' = "REJECTED"
  /\ UNCHANGED <<course, seat, role, platformFlow, run, credits, verdict>>

\* assign_video: an admin decides who films a developer's course.
AssignVideo(p) ==
  /\ Source = "DEVELOPER_API"
  /\ course.status = "AWAITING_VIDEO"
  /\ course.provider # p
  /\ p = "DEVELOPER" => DeveloperVideo # "PRODUCTION_ENGINE"
  /\ SetProvider(course, p)
  /\ UNCHANGED <<seat, role, platformFlow, appeal, credits, verdict>>

\* Mutant of ArchiveCourse: the stage stays.
ArchiveStatusOnly ==
  /\ Source = "DEVELOPER_API"
  /\ course.status \in Archivable
  /\ course' = [course EXCEPT !.status = "ARCHIVED"]
  /\ run' = CancelRun
  /\ UNCHANGED <<seat, role, platformFlow, appeal, credits, verdict>>

ArchiveCourse ==
  /\ Source = "DEVELOPER_API"
  /\ course.status \in Archivable
  /\ course' = [course EXCEPT !.status = "ARCHIVED", !.stage = NoSeat]
  /\ run' = CancelRun
  /\ UNCHANGED <<seat, role, platformFlow, appeal, credits, verdict>>

\* change_user_role (and, with ERASED, the erasure of an account): u loses the
\* undecided seats the new role r cannot sit.  _release_seats reads the rows and
\* their course first, then updates them by id without a lock.
Keeps(r, s, c) == IF s = "QA" THEN MaySitQA(r) ELSE s \in ClaimableSeats(r, Staged(c))
Releases(u, r, s, c, rows) ==
  rows[s].holder = u /\ ~rows[s].done /\ ~Keeps(r, s, c)

ChangeRole(u, r, c, rows) ==
  /\ role[u] \in StaffRoles /\ role[u] # r
  /\ role' = [role EXCEPT ![u] = r]
  /\ seat' = [s \in Seats |-> IF Releases(u, r, s, c, rows)
                              THEN [seat[s] EXCEPT !.holder = Nobody] ELSE seat[s]]
  /\ course' = IF /\ course.status # "DELETED"
                  /\ c.status = "IN_REVIEW" /\ Releases(u, r, OpenSeat(c), c, rows)
               THEN [course EXCEPT !.status = "SUBMITTED"] ELSE course
  /\ UNCHANGED <<platformFlow, run, appeal, credits, verdict>>

\* The default for new courses: refused while a course in flight would follow it.
SwitchReviewFlow ==
  /\ ~(course.status \in InFlight /\ course.flow = "UNSET")
  /\ platformFlow' = IF platformFlow = "STAGED" THEN "DIRECT" ELSE "STAGED"
  /\ UNCHANGED <<course, seat, role, run, appeal, credits, verdict>>

-----------------------------------------------------------------------------
(* The production engine, as this workflow sees it.                        *)

\* _deliver locks the course.  Video for a course that waits for someone else's
\* is refused and fails the run; a course that moved on keeps its place.
EngineDelivers ==
  /\ run = "VIDEO"
  /\ \/ /\ course.status = "AWAITING_VIDEO" /\ course.provider = "PRODUCTION_ENGINE"
        /\ SendVideoToReview
        /\ run' = "DELIVERED"
     \/ /\ course.status = "AWAITING_VIDEO" /\ course.provider # "PRODUCTION_ENGINE"
        /\ run' = "FAILED"
        /\ UNCHANGED <<course, seat, verdict>>
     \/ /\ course.status = "NEEDS_REVISION"
        /\ ResumeAtRevisionSeat(course)
        /\ run' = "DELIVERED"
     \/ /\ course.status \notin {"AWAITING_VIDEO", "NEEDS_REVISION"}
        /\ run' = "DELIVERED"
        /\ UNCHANGED <<course, seat, verdict>>
  /\ UNCHANGED <<role, platformFlow, appeal, credits>>

\* The run completes, is cancelled by an admin (NONE) or fails.
RunEnds ==
  /\ run \in ActiveRuns
  /\ run' \in {"NONE"} \cup (IF run = "VIDEO" THEN {"FAILED"} ELSE {})
  /\ UNCHANGED <<course, seat, role, platformFlow, appeal, credits, verdict>>

\* retry_run asks nothing about the course.
RetryRun ==
  /\ run = "FAILED"
  /\ run' = "VIDEO"
  /\ UNCHANGED <<course, seat, role, platformFlow, appeal, credits, verdict>>

RequestPackaging ==
  /\ course.status = "PUBLISHED"
  /\ run' = RequestRun("PACKAGE")
  /\ UNCHANGED <<course, seat, role, platformFlow, appeal, credits, verdict>>

-----------------------------------------------------------------------------
(* Requests caught between their load and their commit.                    *)

\* The early returns a handler takes on the instance it has just loaded.
Starts(op) ==
  CASE op \in {"approve_content", "reject_course"} -> course.status \in Reviewable
    [] op \in {"claim_qa", "reject_qa"}           -> course.status = "QA_VERIFICATION"
    [] op \in {"record_video_decision", "submit_video"}
                                                  -> course.status = "AWAITING_VIDEO"
    [] op = "update_draft"   -> course.status \in Editable
    [] op = "delete_draft"   -> course.status = "DRAFT"
    [] op = "approve_appeal" -> appeal = "PENDING"
    [] op = "change_role"    -> course.status # "DELETED"

\* Who acts, with which role: a reviewer with the role the request was
\* authenticated with, a reviewer with the role about to be given, or nobody
\* whose account matters here (the creator, an admin).
Actors(op) ==
  CASE op \in {"approve_content", "reject_course", "claim_qa", "reject_qa"}
         -> {<<u, role[u]>> : u \in Reviewers}
    [] op = "change_role" -> Reviewers \X NewRoles
    [] OTHER              -> {<<Nobody, "ERASED">>}

\* A handler that locks the row keeps of its instance only what it compares.
Instance(op) ==
  IF op \in {"approve_content", "reject_course"}
  THEN [NewCourse EXCEPT !.status = course.status, !.stage = course.stage]
  ELSE course

Load(q) ==
  /\ req[q] = Idle
  /\ \E op \in Overlap : \E a \in Actors(op) :
       /\ Starts(op)
       /\ req' = [req EXCEPT ![q] =
            [op |-> op, who |-> a[1], role |-> a[2], course |-> Instance(op),
             seat |-> IF op \in {"claim_qa", "change_role"} THEN seat ELSE EmptySeats,
             appeal |-> IF op = "approve_appeal" THEN appeal ELSE "NONE"]]
  /\ UNCHANGED <<course, seat, role, platformFlow, run, appeal, credits, verdict>>

\* What a request does when it commits.  Saving named columns of a row that was
\* deleted fails; a bare save() would insert it again.
Serve(rq) ==
  /\ rq.op \notin {"update_draft", "change_role"} => course.status # "DELETED"
  /\ \/ rq.op = "approve_content" /\ ApproveContent(rq.who, rq.role, rq.course)
     \/ rq.op = "reject_course" /\ \E fixable \in BOOLEAN :
                                      RejectCourse(rq.who, rq.role, rq.course, fixable)
     \/ rq.op = "claim_qa" /\ ClaimQA(rq.who, rq.role, rq.course, rq.seat)
     \/ rq.op = "reject_qa" /\ \E fixable \in BOOLEAN :
                                  RejectQA(rq.who, rq.role, rq.course, fixable)
     \/ rq.op = "record_video_decision" /\ RecordVideoDecision(rq.course)
     \/ rq.op = "submit_video" /\ SubmitVideo(rq.course)
     \/ rq.op = "update_draft" /\ UpdateDraft(rq.course)
     \/ rq.op = "delete_draft" /\ DeleteDraft(rq.course)
     \/ rq.op = "approve_appeal" /\ ApproveAppeal(rq.appeal, rq.course)
     \/ rq.op = "change_role" /\ ChangeRole(rq.who, rq.role, rq.course, rq.seat)

Commit(q) ==
  /\ Serve(req[q])
  /\ req' = [req EXCEPT ![q] = Idle]

\* Refused at the commit, or the client gave up.
Refuse(q) ==
  /\ req[q] # Idle
  /\ req' = [req EXCEPT ![q] = Idle]
  /\ UNCHANGED <<course, seat, role, platformFlow, run, appeal, credits, verdict>>

-----------------------------------------------------------------------------
Init ==
  /\ course = NewCourse
  /\ seat = EmptySeats
  /\ role = InitRole
  /\ platformFlow = InitFlow
  /\ run = "NONE"
  /\ appeal = "NONE"
  /\ credits = <<>>
  /\ verdict = NoVerdicts
  /\ req = [q \in Requests |-> Idle]

CreatorStep ==
  \/ SubmitDraft \/ ResubmitToSeat \/ ResubmitToEngine \/ SubmitAppeal
  \/ DeleteDraft(course)
  \/ RecordVideoDecision(course) \/ SubmitVideo(course)

ReviewerStep(u) ==
  \/ ClaimForReview(u, role[u])
  \/ ApproveContent(u, role[u], course)
  \/ ClaimQA(u, role[u], course, seat)
  \/ ApproveQA(u, role[u])
  \/ \E flag \in BOOLEAN :
       \/ RejectCourse(u, role[u], course, flag)
       \/ RejectQA(u, role[u], course, flag)
       \/ AssignContentSeat(u, role[u], flag)
       \/ AssignQASeat(u, role[u], flag)

AdminStep ==
  \/ PublishCourse \/ ApproveAppeal(appeal, course) \/ RejectAppeal
  \/ \E p \in {"DEVELOPER", "PRODUCTION_ENGINE"} : AssignVideo(p)
  \/ ArchiveCourse \/ SwitchReviewFlow \/ RequestPackaging
  \/ \E u \in Reviewers, r \in NewRoles : ChangeRole(u, r, course, seat)

EngineStep == EngineDelivers \/ RunEnds \/ RetryRun

Next ==
  \/ /\ \/ CreatorStep \/ AdminStep \/ EngineStep
        \/ \E u \in Reviewers : ReviewerStep(u)
     /\ UNCHANGED req
  \/ \E q \in Requests : Load(q) \/ Commit(q) \/ Refuse(q)

Spec == Init /\ [][Next]_vars

-----------------------------------------------------------------------------
(* What must hold.                                                         *)

\* A course is paid once (course_payout_service): the creator's wallet never
\* receives a second credit for it, and creator_paid_at, which the next approval
\* asks, says so exactly while the course exists.
PaidOnce ==
  /\ Len(credits) <= 1
  /\ course.status # "DELETED" => (course.paid <=> credits # <<>>)

\* A payment was earned: a seat at or past the payout seat of whoever films the
\* course approved it, and no rejection or new cycle has taken that back.
PaymentEarned ==
  credits # <<>> =>
    \E s \in PayoutSeats : /\ Rank[s] >= Rank[PayoutSeat(course.provider)]
                           /\ verdict[s] # Nobody

\* A course that reached the Approver has been paid, at the price of the way it
\* was made in the end, whatever was decided about its video on the way.
PaidAtItsPrice ==
  course.status \in {"APPROVED", "PUBLISHED"} /\ Payable =>
    credits = <<PriceTypeFor(Source, course.provider)>>

\* Four eyes: the three content seats of a cycle were approved by three people,
\* through takeovers, reassignments, revisions, role changes and resubmissions.
FourEyes ==
  \A s, t \in ContentSeats :
    s # t /\ verdict[s] # Nobody => verdict[s] # verdict[t]

\* BR-001, no bypassing review: an approved or published course holds a standing
\* approval of every seat.
NoBypass ==
  course.status \in {"APPROVED", "PUBLISHED"} => \A s \in Seats : verdict[s] # Nobody

\* review_stage, revision_seat and the review mode agree with the status: a stage
\* exactly in content review, a revision seat exactly in Needs Revision (archiving
\* leaves it behind), and the two statuses of the staged flow only on a course frozen in it.
SeatStates ==
  /\ course.stage # NoSeat <=> course.status \in Reviewable
  /\ course.status = "NEEDS_REVISION" => course.revisionSeat # NoSeat
  /\ course.revisionSeat # NoSeat => course.status \in {"NEEDS_REVISION", "ARCHIVED"}
  /\ course.status \in {"NEEDS_REVISION", "AWAITING_VIDEO"} => course.flow = "STAGED"

\* In Review means the open seat has a holder who has not decided; Submitted means
\* nobody holds it, whatever happened to its row before.
SeatHeld ==
  course.status \in Reviewable =>
    /\ ~seat[course.stage].done
    /\ (seat[course.stage].holder # Nobody) <=> (course.status = "IN_REVIEW")

\* The rows four eyes reads tell the truth: every seat before the open one is
\* stamped with the reviewer who approved it in this cycle.
EarlierSeatsStand ==
  course.status \in Reviewable =>
    \A e \in EarlierSeats(course.stage) :
      /\ verdict[e] # Nobody
      /\ seat[e] = [holder |-> verdict[e], done |-> TRUE]

\* In the staged flow nothing reaches QA before its video is attached and known
\* to be somebody's.
VideoReviewed ==
  course.status \in {"QA_VERIFICATION", "APPROVED", "PUBLISHED"} /\ course.flow = "STAGED"
    => course.attached /\ course.provider # "NONE"

\* Publishing is one-way (publish_course: no unpublish action).
PublishedIsFinal ==
  [][course.status = "PUBLISHED" => course'.status = "PUBLISHED"]_vars

\* An approval is not replaced by another reviewer's: a seat is approved again
\* only after a rejection or a new cycle has cleared it.
VerdictStands ==
  [][\A s \in Seats : verdict[s] # Nobody /\ verdict'[s] # verdict[s]
                        => verdict'[s] = Nobody]_vars

-----------------------------------------------------------------------------
(* What the review promises (Review), and where the rows keep it.          *)

Promised == INSTANCE Review WITH
              approvedBy <- verdict,
              payments <- Len(credits),
              published <- course.status = "PUBLISHED"

\* BR-001, four eyes and pay_on_approval in one: through claims, takeovers, late
\* requests, revisions, appeals and video, every step of the handlers is an approval
\* in seat order, a new start nobody was paid for, the publication, or none of these.
KeepsReview == Promised!ReviewSpec

-----------------------------------------------------------------------------
(* What comments and error messages of the code promise and the code, or a *)
(* request it serves late, does not keep.  The README names for each the   *)
(* configuration that shows it.                                            *)

\* approve_appeal reopens a rejected course: one in Draft or Needs Revision.
AppealReopensRejected ==
  [][appeal = "PENDING" /\ appeal' = "APPROVED" => course.status \in Editable]_vars

\* Who films a course can be changed until the video is submitted, and not after.
ChoiceEndsWithVideo ==
  [][course.attached /\ course.status \in Reviewable => course'.provider = course.provider]_vars

\* Only a course whose video the engine makes can receive it (deliver_video).
EngineFilmsItsOwn ==
  [][run = "VIDEO" /\ run' = "DELIVERED" => course.provider = "PRODUCTION_ENGINE"]_vars

\* Only Draft courses can be deleted (delete_draft_course).
OnlyDraftsDeleted ==
  [][course'.status = "DELETED" => course.status \in {"DRAFT", "DELETED"}]_vars

\* A QA reviewer cannot claim a course another one holds (claim_qa_verification).
ClaimTakesFreeSeat ==
  [][\A q \in Requests :
       req[q].op = "claim_qa" /\ req'[q] = Idle /\ seat' # seat
         => seat["QA"].holder \in {Nobody, req[q].who}]_vars

\* A role change or an erasure sends a course back to the pending queue only from
\* In Review (release_open_seats).
ReleaseReopensInReview ==
  [][role' # role /\ course'.status # course.status => course.status = "IN_REVIEW"]_vars
=============================================================================

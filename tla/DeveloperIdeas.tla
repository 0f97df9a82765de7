---------------------------- MODULE DeveloperIdeas ----------------------------
(***************************************************************************)
(* Developers' course ideas.  Ideas of one title are submitted through the  *)
(* duplicate checks, decided by administrators any number of times, and     *)
(* turned into a course by a push.                                          *)
(*                                                                         *)
(* A crawler's submission locks its account from its count to its commit,   *)
(* as a rejection does while it looks at the rejection rate; a decision or  *)
(* a push locks the idea, and is one step.                                  *)
(***************************************************************************)
EXTENDS Integers, FiniteSets

CONSTANTS Ideas,
          Crawled,       \* the ideas of the SYSTEM account; others are EXTERNAL
          DailyCap,      \* MIE_SYSTEM_DAILY_SUBMISSION_CAP
          MinDecisions,  \* MIE_BREAKER_MIN_DECISIONS; the rate is one half
          MaxCourseIds

ASSUME IdeasAssumption ==
  Crawled \subseteq Ideas /\ DailyCap \in Nat /\ MaxCourseIds \in Nat

VARIABLES idea,      \* CourseSubmission rows
          verdict,   \* what the duplicate checks said of an idea being inserted
          crawler,   \* whether the crawler's account is approved
          today,     \* its ideas of the last 24 hours
          counted,   \* its ideas decided since the last decision on the account
          announced, \* course ids the developer was told, for each idea
          built,     \* courses by id
          courseIds  \* ids drawn so far

ideaVars == <<idea, verdict, crawler, today, counted, announced, built, courseIds>>

Duplicates == {"PREVIOUSLY_REJECTED", "DUPLICATE_EXISTING", "DUPLICATE_IN_QUEUE"}
NoIdea == [status |-> "NONE", reserved |-> 0, course |-> 0]
IdeaRow == [status : {"NONE", "PENDING_REVIEW", "APPROVED", "REJECTED"} \cup Duplicates,
            reserved : 0..MaxCourseIds, course : 0..MaxCourseIds]

IdeasTypeOK ==
  /\ idea \in [Ideas -> IdeaRow]
  /\ verdict \in [Ideas -> {"none", "PENDING_REVIEW"} \cup Duplicates]
  /\ crawler \in BOOLEAN
  /\ today \subseteq Crawled /\ counted \subseteq Crawled
  /\ announced \in [Ideas -> SUBSET (1..MaxCourseIds)]
  /\ built \in [1..MaxCourseIds -> {"none", "editable", "in flight"}]
  /\ courseIds \in 0..MaxCourseIds

\* The crawler's account is locked by a submission of its own.
AccountFree == \A i \in Crawled : verdict[i] = "none"

\* authenticate_key; an external account is approved throughout.
Admitted(i) == i \in Crawled => crawler

-----------------------------------------------------------------------------
(* Submitting an idea.                                                     *)

\* evaluate_title
TitleVerdict ==
  IF \E i \in Ideas : idea[i].status = "REJECTED" THEN "PREVIOUSLY_REJECTED"
  ELSE IF \E c \in 1..MaxCourseIds : built[c] # "none" THEN "DUPLICATE_EXISTING"
  ELSE IF \E i \in Ideas : idea[i].status = "PENDING_REVIEW" THEN "DUPLICATE_IN_QUEUE"
  ELSE "PENDING_REVIEW"

\* submit_idea: the daily cap, under the lock, and the duplicate checks.
SubmitIdea(i) ==
  /\ idea[i] = NoIdea /\ verdict[i] = "none"
  /\ Admitted(i)
  /\ i \in Crawled => AccountFree /\ Cardinality(today) < DailyCap
  /\ verdict' = [verdict EXCEPT ![i] = TitleVerdict]
  /\ UNCHANGED <<idea, crawler, today, counted, announced, built, courseIds>>

\* Mutant of StoredStatus: a lost race is not resolved.
StoredAsChecked(i) == verdict[i]

\* The index on pending titles; the later one is a duplicate (_record_lost_race).
StoredStatus(i) ==
  IF verdict[i] = "PENDING_REVIEW" /\ \E j \in Ideas : idea[j].status = "PENDING_REVIEW"
  THEN "DUPLICATE_IN_QUEUE" ELSE verdict[i]

InsertIdea(i) ==
  /\ verdict[i] # "none"
  /\ idea' = [idea EXCEPT ![i].status = StoredStatus(i)]
  /\ verdict' = [verdict EXCEPT ![i] = "none"]
  /\ today' = today \cup ({i} \cap Crawled)
  /\ UNCHANGED <<crawler, counted, announced, built, courseIds>>

DayPasses(i) ==
  /\ i \in today
  /\ today' = today \ {i}
  /\ UNCHANGED <<idea, verdict, crawler, counted, announced, built, courseIds>>

-----------------------------------------------------------------------------
(* Deciding ideas.                                                         *)

\* stable_course_id, which every event carries; 0 is null.
StableId(row) == IF row.course # 0 THEN row.course ELSE row.reserved
Told(row) == {StableId(row)} \ {0}

\* Mutant of Reserved: an id is drawn at every approval.
ReservedAnew(i) == courseIds + 1

\* _reserve_course_id
Reserved(i) ==
  IF idea[i].reserved # 0 THEN idea[i].reserved
  ELSE IF idea[i].course # 0 THEN idea[i].course ELSE courseIds + 1

\* decide_submission: from any state, any number of times.
ApproveIdea(i) ==
  LET row == [idea[i] EXCEPT !.status = "APPROVED", !.reserved = Reserved(i)] IN
  /\ idea[i] # NoIdea
  /\ row.reserved <= MaxCourseIds
  /\ idea' = [idea EXCEPT ![i] = row]
  /\ courseIds' = IF row.reserved > courseIds THEN row.reserved ELSE courseIds
  /\ announced' = [announced EXCEPT ![i] = @ \cup Told(row)]
  /\ counted' = counted \cup ({i} \cap Crawled)
  /\ UNCHANGED <<verdict, crawler, today, built>>

\* evaluate_rejection_breaker, over the ideas decided since the account was.
BreakerTrips(decided, rejected) ==
  /\ crawler /\ rejected \cap decided # {}
  /\ Cardinality(decided) >= MinDecisions
  /\ 2 * Cardinality(rejected \cap decided) >= Cardinality(decided)

\* decide_submission, decide_submissions_bulk: links and reserved ids stay.
RejectIdeas(S) ==
  LET decided == counted \cup (S \cap Crawled)
      rejected == S \cup {i \in Ideas : idea[i].status = "REJECTED"}
      trips == S \cap Crawled # {} /\ BreakerTrips(decided, rejected) IN
  /\ \A i \in S : idea[i] # NoIdea
  /\ S \cap Crawled # {} => AccountFree
  /\ idea' = [i \in Ideas |->
       IF i \in S THEN [idea[i] EXCEPT !.status = "REJECTED"] ELSE idea[i]]
  /\ announced' = [i \in Ideas |->
       IF i \in S THEN announced[i] \cup Told(idea[i]) ELSE announced[i]]
  /\ crawler' = (crawler /\ ~trips)
  /\ counted' = IF trips THEN {} ELSE decided
  /\ UNCHANGED <<verdict, today, built, courseIds>>

\* approve_developer, suspend_developer and reject_developer (DeveloperAccount).
CrawlerDecided ==
  /\ AccountFree
  /\ crawler' = ~crawler
  /\ counted' = {}
  /\ UNCHANGED <<idea, verdict, today, announced, built, courseIds>>

-----------------------------------------------------------------------------
(* Pushing a course.                                                       *)

\* push_course: created under the reserved id, or replaced while it is editable.
PushCourse(i) ==
  LET c == StableId(idea[i]) IN
  /\ Admitted(i)
  /\ i \in Crawled => AccountFree
  /\ idea[i].status = "APPROVED"
  /\ built[c] = IF idea[i].course = 0 THEN "none" ELSE "editable"
  /\ built' = [built EXCEPT ![c] = "in flight"]
  /\ idea' = [idea EXCEPT ![i].course = c]
  /\ announced' = [announced EXCEPT ![i] = @ \cup {c}]
  /\ UNCHANGED <<verdict, crawler, today, counted, courseIds>>

\* A reviewer sends the course back (CourseReview).
CourseSentBack(c) ==
  /\ built[c] = "in flight"
  /\ built' = [built EXCEPT ![c] = "editable"]
  /\ UNCHANGED <<idea, verdict, crawler, today, counted, announced, courseIds>>

-----------------------------------------------------------------------------
IdeasInit ==
  /\ idea = [i \in Ideas |-> NoIdea]
  /\ verdict = [i \in Ideas |-> "none"]
  /\ crawler = TRUE
  /\ today = {} /\ counted = {}
  /\ announced = [i \in Ideas |-> {}]
  /\ built = [c \in 1..MaxCourseIds |-> "none"]
  /\ courseIds = 0

IdeasNext ==
  \/ \E i \in Ideas :
       SubmitIdea(i) \/ InsertIdea(i) \/ DayPasses(i) \/ ApproveIdea(i) \/ PushCourse(i)
  \/ \E S \in SUBSET Ideas \ {{}} : RejectIdeas(S)
  \/ \E c \in 1..MaxCourseIds : CourseSentBack(c)
  \/ CrawlerDecided

IdeasSpec == IdeasInit /\ [][IdeasNext]_ideaVars
-----------------------------------------------------------------------------
\* "The id never changes" (CourseSubmission.reserved_course_id): through rejections,
\* reversals, first and second pushes, everything a developer is told about an idea
\* names one course, no other idea's, and it is the one the push builds.
AnnouncedCourse ==
  /\ \A i \in Ideas : /\ announced[i] \subseteq Told(idea[i])
                      /\ idea[i].course # 0 => built[idea[i].course] # "none"
  /\ \A i, j \in Ideas : i # j => announced[i] \cap announced[j] = {}

\* Whatever submissions race: a title is pending once, and the crawler gets no more
\* than its cap in a day.
QueueIsBounded ==
  /\ \A i, j \in Ideas :
       idea[i].status = "PENDING_REVIEW" /\ idea[j].status = "PENDING_REVIEW" => i = j
  /\ Cardinality(today) <= DailyCap

\* Violated: ideas of one title may both be approved, and both built.
OneCoursePerTitle == Cardinality({c \in 1..MaxCourseIds : built[c] # "none"}) <= 1
=============================================================================

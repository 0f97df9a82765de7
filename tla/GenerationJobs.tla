---------------------------- MODULE GenerationJobs ----------------------------
(***************************************************************************)
(* One creator's AI generation jobs.  A request queues a job and a Celery   *)
(* message; a worker claims the job, asks the provider for an outline, makes *)
(* the course, asks for each part of its content and stores it, looking for  *)
(* a cancellation around every call.  A watchdog redispatches what was lost, *)
(* and whoever lists the jobs fails what has been silent for six hours.      *)
(*                                                                         *)
(* A worker reads a job and claims it in one step; each check, each answer  *)
(* and each transaction that stores something is a step of its own.  Time   *)
(* is the age of a row: fresh, late (5 minutes queued, 10 without a         *)
(* heartbeat) or stale (6 hours).  A live worker heartbeats before every    *)
(* call, so only a job nobody works on grows late.                          *)
(***************************************************************************)
EXTENDS Integers

CONSTANTS Jobs, Workers, Parts,  \* Parts: modules and final assessment of a course
          MaxJobFaults           \* lost messages, provider failures and crashes

MaxDispatch == 3  \* MAX_DISPATCH_ATTEMPTS
MaxRetry    == 1  \* MAX_RETRY_COUNT, 3 in the code

ASSUME JobsAssumption == "none" \notin Jobs /\ "outline" \notin Parts /\ "none" \notin Parts
ASSUME JobFaultsAssumption == MaxJobFaults \in Nat

VARIABLES job,       \* the row, and its age
          courses,   \* how many courses each job has made
          content,   \* the parts stored for its course
          sent,      \* messages queued for it
          worker,    \* what each worker does, with the course it knows
          jobFaults  \* faults so far

jobVars == <<job, courses, content, sent, worker, jobFaults>>

NoJob    == "none"
InFlightJob == {"QUEUED", "RUNNING", "STRUCTURE_READY"}
Executing   == {"RUNNING", "STRUCTURE_READY"}
EndedJob    == {"COMPLETED", "FAILED", "CANCELLED"}
JobRow == [status : {"NONE"} \cup InFlightJob \cup EndedJob, cancel : BOOLEAN,
           course : BOOLEAN, attempts : 0..MaxDispatch, retries : 0..MaxRetry,
           age : {"fresh", "late", "stale"}]
Idle == [job |-> NoJob, at |-> "idle", call |-> "none", course |-> FALSE]
Calls == {"outline"} \cup Parts
WorkerState == [job : Jobs \cup {NoJob}, course : BOOLEAN, call : Calls \cup {"none"},
                at : {"idle", "looking", "calling", "storing", "finishing"}]

GenerationTypeOK ==
  /\ job \in [Jobs -> JobRow]
  /\ courses \in [Jobs -> 0..2]
  /\ content \in [Jobs -> SUBSET Parts]
  /\ sent \in [Jobs -> 0..3]
  /\ worker \in [Workers -> WorkerState]
  /\ jobFaults \in 0..MaxJobFaults

Fault == jobFaults < MaxJobFaults /\ jobFaults' = jobFaults + 1

\* The queue of the model is short: a full one takes no more.
Send(j) == sent' = [sent EXCEPT ![j] = IF @ < 3 THEN @ + 1 ELSE @]

-----------------------------------------------------------------------------
(* The creator.                                                            *)

\* Mutant of Swept: executing jobs are left to the watchdog.
SweptQueued(row) ==
  IF row.status = "QUEUED" /\ row.age = "stale"
  THEN [row EXCEPT !.status = IF row.cancel THEN "CANCELLED" ELSE "FAILED"]
  ELSE row

\* fail_stale_in_flight_jobs.
Swept(row) ==
  IF row.status \in InFlightJob /\ row.age = "stale"
  THEN [row EXCEPT !.status = IF row.cancel THEN "CANCELLED" ELSE "FAILED"]
  ELSE row

ListJobs ==
  /\ job' = [j \in Jobs |-> Swept(job[j])]
  /\ UNCHANGED <<courses, content, sent, worker, jobFaults>>

\* _dispatch_generation_task: the message leaves, or the job fails, or the
\* request dies before it does either.
Dispatches(rows, j) ==
  \/ /\ Send(j)
     /\ job' = [rows EXCEPT ![j].attempts = @ + 1]
     /\ UNCHANGED jobFaults
  \/ /\ Fault
     /\ job' \in {rows, [rows EXCEPT ![j].status = "FAILED"]}
     /\ UNCHANGED sent

\* create_course_job, create_short_job: one request of a creator at a time.
CreateJob(j) ==
  LET rows == [k \in Jobs |-> Swept(job[k])] IN
  /\ job[j].status = "NONE"
  /\ \A k \in Jobs : rows[k].status \notin InFlightJob
  /\ Dispatches([rows EXCEPT ![j].status = "QUEUED"], j)
  /\ UNCHANGED <<courses, content, worker>>

CancelJob(j) ==
  /\ job[j].status \in InFlightJob
  /\ job' = [job EXCEPT ![j].cancel = TRUE,
                        ![j].status = IF @ = "QUEUED" THEN "CANCELLED" ELSE @]
  /\ UNCHANGED <<courses, content, sent, worker, jobFaults>>

\* prepare_job_retry does not ask whether another job is in flight.
RetryJob(j) ==
  /\ job[j].status \in {"FAILED", "CANCELLED"}
  /\ job[j].retries < MaxRetry
  /\ LET row == [status |-> "QUEUED", cancel |-> FALSE, course |-> job[j].course,
                 attempts |-> 0, retries |-> job[j].retries + 1, age |-> "fresh"]
     IN  Dispatches([job EXCEPT ![j] = row], j)
  /\ UNCHANGED <<courses, content, worker>>

-----------------------------------------------------------------------------
(* The workers.                                                            *)

\* claim_job_for_execution: a job that ended, or beats, is left alone.
ClaimJob(w, j) ==
  /\ worker[w] = Idle /\ sent[j] > 0
  /\ sent' = [sent EXCEPT ![j] = @ - 1]
  /\ IF job[j].status \in EndedJob
          \/ (job[j].status \in Executing /\ job[j].age = "fresh")
     THEN UNCHANGED <<job, worker>>
     ELSE /\ job' = [job EXCEPT ![j].status = "RUNNING", ![j].age = "fresh"]
          /\ worker' = [worker EXCEPT ![w] =
               [Idle EXCEPT !.job = j, !.at = "looking", !.course = job[j].course]]
  /\ UNCHANGED <<courses, content, jobFaults>>

Leave(w)    == worker' = [worker EXCEPT ![w] = Idle]
Turn(w, at) == worker' = [worker EXCEPT ![w].at = at]
Looks(w)    == worker' = [worker EXCEPT ![w].at = "looking", ![w].call = "none"]
At(w, at, c) == worker[w].at = at /\ worker[w].call = c

\* check_cancelled: the worker stops for a cancellation it finds.
Heeds(w, j) ==
  /\ job[j].cancel
  /\ job' = [job EXCEPT ![j].status = "CANCELLED"]
  /\ Leave(w)

Left(w, j) == IF worker[w].course THEN Parts \ content[j] ELSE {"outline"}

\* Between two calls: what is stored already is not asked for again.  The order of
\* the parts is left open.
Look(w) == LET j == worker[w].job IN
  /\ worker[w].at = "looking"
  /\ \/ Heeds(w, j)
     \/ /\ ~job[j].cancel
        /\ IF Left(w, j) = {} THEN Turn(w, "finishing")
           ELSE \E c \in Left(w, j) :
                  worker' = [worker EXCEPT ![w].at = "calling", ![w].call = c]
        /\ UNCHANGED job
  /\ UNCHANGED <<courses, content, sent, jobFaults>>

\* The provider answered: cancelled meanwhile, or to be stored.
Answer(w, c) == LET j == worker[w].job IN
  /\ At(w, "calling", c)
  /\ \/ Heeds(w, j)
     \/ ~job[j].cancel /\ Turn(w, "storing") /\ UNCHANGED job
  /\ UNCHANGED <<courses, content, sent, jobFaults>>

\* Mutant of MakeCourse: the job is not linked to its course.
MakeUnlinked(w) == LET j == worker[w].job IN
  /\ At(w, "storing", "outline")
  /\ courses' = [courses EXCEPT ![j] = IF @ < 2 THEN @ + 1 ELSE @]
  /\ job' = [job EXCEPT ![j].status = "STRUCTURE_READY"]
  /\ worker' = [worker EXCEPT ![w].course = TRUE,
                 ![w].at = "looking", ![w].call = "none"]
  /\ UNCHANGED <<content, sent, jobFaults>>

\* materialize_structure: course, link and status in one transaction.
MakeCourse(w) == LET j == worker[w].job IN
  /\ At(w, "storing", "outline")
  /\ courses' = [courses EXCEPT ![j] = IF @ < 2 THEN @ + 1 ELSE @]
  /\ job' = [job EXCEPT ![j].status = "STRUCTURE_READY", ![j].course = TRUE]
  /\ worker' = [worker EXCEPT ![w].course = TRUE,
                 ![w].at = "looking", ![w].call = "none"]
  /\ UNCHANGED <<content, sent, jobFaults>>

\* materialize_module_content, materialize_final_assessment.  An assessment is
\* one to one with what it belongs to: a second one fails.
StorePart(w, p) == LET j == worker[w].job IN
  /\ At(w, "storing", p)
  /\ IF p \in content[j]
     THEN /\ job' = [job EXCEPT ![j].status = IF job[j].cancel THEN "CANCELLED" ELSE "FAILED"]
          /\ Leave(w) /\ UNCHANGED content
     ELSE /\ content' = [content EXCEPT ![j] = @ \cup {p}]
          /\ Looks(w) /\ UNCHANGED job
  /\ UNCHANGED <<courses, sent, jobFaults>>

\* Mutant of CompleteJob: it saves the status it decided on.
CompleteAnyway(w) == LET j == worker[w].job IN
  /\ worker[w].at = "finishing"
  /\ job' = [job EXCEPT ![j].status = "COMPLETED"]
  /\ Leave(w)
  /\ UNCHANGED <<courses, content, sent, jobFaults>>

\* complete_job: unless the job ended, or cancellation won.
CompleteJob(w) == LET j == worker[w].job IN
  /\ worker[w].at = "finishing"
  /\ job' = [job EXCEPT ![j].status =
       IF @ \in EndedJob THEN @ ELSE IF job[j].cancel THEN "CANCELLED" ELSE "COMPLETED"]
  /\ Leave(w)
  /\ UNCHANGED <<courses, content, sent, jobFaults>>

\* A transient failure or a full provider: queue_job_for_retry, then a message,
\* unless the task has no retry left (Celery raises the provider's error, which
\* nobody catches).  Any other failure ends the job, cancelled or failed.
ProviderFailsJob(w) == LET j == worker[w].job IN
  /\ worker[w].at = "calling"
  /\ Fault
  /\ Leave(w)
  /\ \/ /\ job[j].cancel \/ job[j].status \in EndedJob
        /\ job' = [job EXCEPT ![j].status = IF @ \in EndedJob THEN @ ELSE "CANCELLED"]
        /\ UNCHANGED sent
     \/ /\ ~job[j].cancel /\ job[j].status \notin EndedJob
        /\ job' = [job EXCEPT ![j].status = "QUEUED", ![j].age = "fresh"]
        /\ Send(j) \/ UNCHANGED sent
     \/ /\ ~job[j].cancel
        /\ job' = [job EXCEPT ![j].status = "FAILED"]
        /\ UNCHANGED sent
  /\ UNCHANGED <<courses, content>>

\* Messages are acknowledged when they start: a worker that dies loses its own.
GenerationCrashes(w) ==
  /\ worker[w] # Idle
  /\ Fault
  /\ Leave(w)
  /\ UNCHANGED <<job, courses, content, sent>>

-----------------------------------------------------------------------------
(* Time and the watchdog.                                                  *)

JobAges(j) ==
  /\ job[j].status \in InFlightJob
  /\ \A w \in Workers : worker[w].job # j
  /\ job[j].age # "stale"
  /\ job' = [job EXCEPT ![j].age = IF @ = "fresh" THEN "late" ELSE "stale"]
  /\ UNCHANGED <<courses, content, sent, worker, jobFaults>>

\* recover_ai_generation_jobs: a bounded number of times, then nobody but the
\* creator's next request ends the job.
RecoverJob(j) ==
  /\ job[j].status \in InFlightJob /\ job[j].age # "fresh"
  /\ job[j].attempts < MaxDispatch
  /\ job' = [job EXCEPT ![j].attempts = @ + 1,
       ![j].age = IF job[j].status = "QUEUED" THEN "fresh" ELSE @]
  /\ (Send(j) /\ UNCHANGED jobFaults) \/ (Fault /\ UNCHANGED sent)
  /\ UNCHANGED <<courses, content, worker>>

-----------------------------------------------------------------------------
GenerationInit ==
  /\ job = [j \in Jobs |-> [status |-> "NONE", cancel |-> FALSE, course |-> FALSE,
                            attempts |-> 0, retries |-> 0, age |-> "fresh"]]
  /\ courses = [j \in Jobs |-> 0]
  /\ content = [j \in Jobs |-> {}]
  /\ sent = [j \in Jobs |-> 0]
  /\ worker = [w \in Workers |-> Idle]
  /\ jobFaults = 0

WorkerTurns(w) ==
  \/ Look(w) \/ MakeCourse(w) \/ CompleteJob(w)
  \/ \E c \in Calls : Answer(w, c)
  \/ \E p \in Parts : StorePart(w, p)

GenerationNext ==
  \/ ListJobs
  \/ \E j \in Jobs : CreateJob(j) \/ CancelJob(j) \/ RetryJob(j) \/ JobAges(j) \/ RecoverJob(j)
  \/ \E w \in Workers : WorkerTurns(w) \/ ProviderFailsJob(w) \/ GenerationCrashes(w)
  \/ \E w \in Workers, j \in Jobs : ClaimJob(w, j)

GenerationSpec == GenerationInit /\ [][GenerationNext]_jobVars

\* Workers run, time passes, and the creator looks at the jobs.
GenerationStep ==
  \/ ListJobs
  \/ \E j \in Jobs : JobAges(j) \/ RecoverJob(j)
  \/ \E w \in Workers : WorkerTurns(w) \/ \E j \in Jobs : ClaimJob(w, j)
-----------------------------------------------------------------------------
\* Completed content is reused and never duplicated (AIGenerationRetryView): through
\* crashes, redispatches, duplicate messages, cancellations and retries a job makes
\* one course, and no two workers work on it.
NothingGeneratedTwice ==
  /\ \A j \in Jobs : courses[j] <= 1
  /\ \A v, w \in Workers : worker[v].job = worker[w].job => v = w \/ worker[w].job = NoJob

\* A cancelled job gets no more content and no status but by a retry, and a job whose
\* cancellation is recorded does not complete (complete_job).
CancelStops ==
  [][\A j \in Jobs :
       /\ job[j].status = "CANCELLED" =>
            /\ UNCHANGED <<courses[j], content[j]>>
            /\ job'[j].status = "CANCELLED" \/ job'[j].retries > job[j].retries
       /\ job[j].cancel => job'[j].status # "COMPLETED"]_jobVars

\* A creator is not locked out by a job nobody works on: every job ends.
JobEnds == \A j \in Jobs : job[j].status \in InFlightJob ~> job[j].status \notin InFlightJob
=============================================================================

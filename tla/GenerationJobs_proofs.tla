------------------------- MODULE GenerationJobs_proofs -------------------------
(* Generation jobs make one course and stop for a cancellation, for any number *)
(* of jobs, workers, parts and faults.                                         *)
EXTENDS GenerationJobs, TLAPS

\* A job is linked to the one course it made, and one cancelled never completed.
JobOK(j) ==
  /\ courses[j] = IF job[j].course THEN 1 ELSE 0
  /\ job[j].cancel => job[j].status # "COMPLETED"
  /\ job[j].status = "NONE" => job[j].attempts = 0

\* A worker's job is executing and heartbeats; the worker knows of its course.
Works(w, j) ==
  /\ worker[w].job = j /\ worker[w].at # "idle"
  /\ job[j].status \in Executing /\ job[j].age = "fresh"
  /\ worker[w].course = job[j].course
  /\ worker[w].call = "outline" => ~worker[w].course

WorkerOK(w) == worker[w] = Idle \/ \E j \in Jobs : Works(w, j)

OneWorker == \A v, w \in Workers :
  worker[v].job = worker[w].job => v = w \/ worker[w].job = NoJob

JobsInv ==
  /\ GenerationTypeOK
  /\ \A j \in Jobs : JobOK(j)
  /\ \A w \in Workers : WorkerOK(w)
  /\ OneWorker

LEMMA RowChanges ==
  ASSUME NEW row \in JobRow
  PROVE  /\ [row EXCEPT !.status = "FAILED"] \in JobRow
         /\ \A n \in 0..3 : [row EXCEPT !.attempts = n] \in JobRow
         /\ \A n \in 0..3, a \in {"fresh", "late", "stale"} :
              [row EXCEPT !.attempts = n, !.age = a] \in JobRow
<1>1. [row EXCEPT !.status = "FAILED"] \in JobRow
  BY DEF JobRow, EndedJob, InFlightJob
<1>2. ASSUME NEW n \in 0..3 PROVE [row EXCEPT !.attempts = n] \in JobRow
  BY DEF JobRow, MaxDispatch
<1>3. ASSUME NEW n \in 0..3, NEW a \in {"fresh", "late", "stale"}
      PROVE  [row EXCEPT !.attempts = n, !.age = a] \in JobRow
  BY DEF JobRow, MaxDispatch
<1> QED BY <1>1, <1>2, <1>3

\* What a step of a worker keeps: only its own job and its own state change.
LEMMA WorkerStep ==
  ASSUME JobsInv, GenerationTypeOK', NEW w \in Workers, NEW j \in Jobs,
         worker[w].job = j \/ \A v \in Workers : worker[v].job # j,
         \A v \in Workers : v # w => worker'[v] = worker[v],
         \A k \in Jobs : k # j => job'[k] = job[k] /\ courses'[k] = courses[k],
         worker'[w] = Idle \/ Works(w, j)', JobOK(j)'
  PROVE  JobsInv'
<1>0. j # NoJob
  BY JobsAssumption DEF NoJob
<1>1. \A k \in Jobs : JobOK(k)'
  BY DEF JobsInv, JobOK
<1>2. ASSUME NEW v \in Workers PROVE WorkerOK(v)'
  <2>1. CASE v = w
    BY <2>1 DEF WorkerOK
  <2>2. CASE v # w
    <3>1. worker'[v] = worker[v]
      BY <2>2
    <3>2. worker[v].job # j
      BY <2>2, <1>0 DEF JobsInv, OneWorker
    <3> QED
      BY <3>1, <3>2 DEF JobsInv, WorkerOK, Works
  <2> QED BY <2>1, <2>2
<1>3. worker'[w].job \in {NoJob, j}
  BY DEF Works, Idle
<1>4. OneWorker'
  BY <1>0, <1>3 DEF JobsInv, OneWorker
<1> QED
  BY <1>1, <1>2, <1>4 DEF JobsInv

\* What a step of the creator, of time or of the watchdog keeps: no job at work changes
\* its status, age or course.
LEMMA JobStep ==
  ASSUME JobsInv, GenerationTypeOK', UNCHANGED worker,
         \A k \in Jobs : JobOK(k)',
         \A w \in Workers, k \in Jobs : worker[w].job = k /\ job[k].status \in Executing
             /\ job[k].age = "fresh" =>
           /\ job'[k].status \in Executing /\ job'[k].age = "fresh"
           /\ job'[k].course = job[k].course
  PROVE  JobsInv'
<1>1. ASSUME NEW w \in Workers PROVE WorkerOK(w)'
  <2>1. CASE worker[w] = Idle
    BY <2>1 DEF WorkerOK
  <2>2. ASSUME NEW k \in Jobs, Works(w, k) PROVE Works(w, k)'
    BY <2>2 DEF Works
  <2> QED BY <2>1, <2>2 DEF JobsInv, WorkerOK
<1> QED
  BY <1>1 DEF JobsInv, OneWorker

LEMMA JobsInitInv == GenerationInit => JobsInv
BY JobsAssumption, JobFaultsAssumption
   DEF GenerationInit, JobsInv, GenerationTypeOK, JobRow, WorkerState, Idle, NoJob, JobOK,
       WorkerOK, OneWorker, Calls, MaxDispatch, MaxRetry

\* A worker goes on with its job, which keeps its row.
LEMMA WorkerGoes ==
  ASSUME JobsInv, NEW w \in Workers, NEW j \in Jobs, Works(w, j),
         NEW to \in WorkerState, worker' = [worker EXCEPT ![w] = to],
         to.job = j, to.at # "idle", to.course = job[j].course,
         to.call = "outline" => ~to.course,
         UNCHANGED <<job, courses, sent, jobFaults>>, content' \in [Jobs -> SUBSET Parts]
  PROVE  JobsInv'
<1>1. GenerationTypeOK'
  BY DEF JobsInv, GenerationTypeOK
<1>2. worker'[w] = to /\ \A v \in Workers : v # w => worker'[v] = worker[v]
  BY DEF JobsInv, GenerationTypeOK
<1>3. Works(w, j)'
  BY <1>2 DEF Works
<1>4. JobOK(j)'
  BY DEF JobsInv, JobOK
<1> QED
  BY <1>1, <1>2, <1>3, <1>4, WorkerStep DEF Works

\* A worker leaves its job with a row that keeps its link.
LEMMA WorkerEnds ==
  ASSUME JobsInv, NEW w \in Workers, NEW j \in Jobs, Works(w, j), Leave(w),
         NEW row \in JobRow, job' = [job EXCEPT ![j] = row],
         row.course = job[j].course, row.status # "NONE",
         row.cancel => row.status # "COMPLETED",
         UNCHANGED <<courses, content>>,
         sent' \in [Jobs -> 0..3], jobFaults' \in 0..MaxJobFaults
  PROVE  JobsInv'
<1>1. GenerationTypeOK'
  BY DEF JobsInv, GenerationTypeOK, Leave, WorkerState, Idle
<1>2. worker'[w] = Idle /\ \A v \in Workers : v # w => worker'[v] = worker[v]
  BY DEF JobsInv, GenerationTypeOK, Leave
<1>3. job'[j] = row /\ \A k \in Jobs : k # j => job'[k] = job[k]
  BY DEF JobsInv, GenerationTypeOK
<1>4. JobOK(j)'
  BY <1>3 DEF JobsInv, JobOK
<1> QED
  BY <1>1, <1>2, <1>3, <1>4, WorkerStep DEF Works

LEMMA StatusRow ==
  ASSUME NEW row \in JobRow, NEW st \in InFlightJob \cup EndedJob
  PROVE  LET to == [row EXCEPT !.status = st]
         IN  to \in JobRow /\ to.status = st /\ to.course = row.course /\ to.cancel = row.cancel
BY DEF JobRow, InFlightJob, EndedJob

LEMMA JobsStepInv == JobsInv /\ [GenerationNext]_jobVars => JobsInv'
<1> SUFFICES ASSUME JobsInv, [GenerationNext]_jobVars PROVE JobsInv'
  OBVIOUS
<1> USE JobsAssumption, JobFaultsAssumption DEF MaxDispatch, MaxRetry
<1>t. GenerationTypeOK
  BY DEF JobsInv
<1>j. job \in [Jobs -> JobRow]
  BY <1>t DEF GenerationTypeOK
<1>w. worker \in [Workers -> WorkerState]
  BY <1>t DEF GenerationTypeOK
<1>n. "none" \notin Jobs
  BY DEF NoJob
<1>s. \A rows \in [Jobs -> JobRow] : \A j \in Jobs : Swept(rows[j]) \in JobRow
  BY DEF Swept, JobRow, InFlightJob, EndedJob
<1>1. CASE UNCHANGED jobVars
  BY <1>1 DEF jobVars, JobsInv, GenerationTypeOK, JobOK, WorkerOK, Works, OneWorker
<1>2. CASE ListJobs
  <2>1. job' \in [Jobs -> JobRow]
    BY <1>2, <1>j, <1>s DEF ListJobs
  <2>2. GenerationTypeOK'
    BY <1>2, <1>t, <2>1 DEF ListJobs, GenerationTypeOK
  <2>3. \A k \in Jobs : JobOK(k)'
    BY <1>2, <1>j DEF ListJobs, JobsInv, JobOK, Swept, JobRow, InFlightJob
  <2>4. \A k \in Jobs : job[k].age = "fresh" => job'[k] = job[k]
    BY <1>2 DEF ListJobs, Swept
  <2>5. UNCHANGED worker
    BY <1>2 DEF ListJobs
  <2> QED
    BY <2>2, <2>3, <2>4, <2>5, JobStep
<1>3. ASSUME NEW j \in Jobs, CreateJob(j) PROVE JobsInv'
  <2> DEFINE swept == [k \in Jobs |-> Swept(job[k])]
             rows  == [swept EXCEPT ![j].status = "QUEUED"]
  <2>1. rows \in [Jobs -> JobRow]
    BY <1>j, <1>s DEF JobRow, InFlightJob
  <2>2. \A k \in Jobs : k # j => job'[k] = Swept(job[k])
    BY <1>3 DEF CreateJob, Dispatches
  <2>3. /\ job'[j].status \in {"QUEUED", "FAILED"}
        /\ job'[j].course = job[j].course /\ job'[j].cancel = job[j].cancel
    BY <1>3, <1>j, <2>1 DEF CreateJob, Dispatches, Swept, JobRow, InFlightJob
  <2>4. job' \in [Jobs -> JobRow]
    <3>1. Dispatches(rows, j) /\ job[j].status = "NONE" /\ job[j].attempts = 0
      BY <1>3 DEF CreateJob, JobsInv, JobOK
    <3>2. rows[j] \in JobRow /\ rows[j].attempts = 0
      BY <3>1, <2>1, <1>j DEF Swept, JobRow, InFlightJob
    <3> HIDE DEF rows
    <3>3. [rows[j] EXCEPT !.attempts = 1] \in JobRow /\ [rows[j] EXCEPT !.status = "FAILED"] \in JobRow
      <4>1. 1 \in 0..3
        OBVIOUS
      <4> QED BY <4>1, <3>2, RowChanges, Zenon
    <3>4. \/ job' = rows
          \/ job' = [rows EXCEPT ![j] = [rows[j] EXCEPT !.attempts = 1]]
          \/ job' = [rows EXCEPT ![j] = [rows[j] EXCEPT !.status = "FAILED"]]
      BY <3>1, <3>2, <2>1 DEF Dispatches
    <3> QED BY <3>3, <3>4, <2>1
  <2>5. GenerationTypeOK'
    BY <1>3, <1>t, <2>4 DEF CreateJob, Dispatches, GenerationTypeOK, Fault, Send
  <2>6. UNCHANGED <<courses, worker>> /\ job[j].status = "NONE"
    BY <1>3 DEF CreateJob
  <2>7. ASSUME NEW k \in Jobs PROVE JobOK(k)'
    BY <2>2, <2>3, <2>6, <1>j DEF JobsInv, JobOK, Swept, JobRow, InFlightJob
  <2>8. \A k \in Jobs : job[k].status \in Executing /\ job[k].age = "fresh" => job'[k] = job[k]
    BY <2>2, <2>6 DEF Executing, Swept
  <2> QED
    BY <2>5, <2>6, <2>7, <2>8, JobStep
<1>4. ASSUME NEW j \in Jobs, CancelJob(j) PROVE JobsInv'
  <2> DEFINE row == [job[j] EXCEPT !.cancel = TRUE,
                       !.status = IF @ = "QUEUED" THEN "CANCELLED" ELSE @]
  <2>0. job' = [job EXCEPT ![j] = row]
    BY <1>4, <1>j DEF CancelJob, JobRow
  <2>a. row \in JobRow
    BY <1>j DEF JobRow, EndedJob
  <2>1. job' \in [Jobs -> JobRow]
    BY <2>0, <2>a, <1>j
  <2>2. GenerationTypeOK'
    BY <1>4, <1>t, <2>1 DEF CancelJob, GenerationTypeOK
  <2>3. UNCHANGED <<courses, worker>> /\ \A k \in Jobs : k # j => job'[k] = job[k]
    BY <1>4, <1>j DEF CancelJob
  <2>4. /\ job'[j].course = job[j].course /\ job'[j].age = job[j].age
        /\ job[j].status # "QUEUED" => job'[j].status = job[j].status
        /\ job[j].status \in InFlightJob /\ job'[j].status \notin {"COMPLETED", "NONE"}
    BY <1>4, <1>j DEF CancelJob, JobRow, InFlightJob
  <2>5. ASSUME NEW k \in Jobs PROVE JobOK(k)'
    BY <2>3, <2>4 DEF JobsInv, JobOK
  <2> QED
    BY <2>2, <2>3, <2>4, <2>5, JobStep DEF Executing
<1>5. ASSUME NEW j \in Jobs, RetryJob(j) PROVE JobsInv'
  <2>1. job[j].retries \in 0..1
    BY <1>j DEF JobRow
  <2> DEFINE row  == [status |-> "QUEUED", cancel |-> FALSE, course |-> job[j].course,
                        attempts |-> 0, retries |-> job[j].retries + 1, age |-> "fresh"]
             rows == [job EXCEPT ![j] = row]
  <2>a. Dispatches(rows, j) /\ job[j].status \in {"FAILED", "CANCELLED"} /\ job[j].retries < 1
    BY <1>5 DEF RetryJob
  <2>b. row \in JobRow /\ row.status = "QUEUED" /\ row.cancel = FALSE
        /\ row.course = job[j].course /\ row.attempts = 0
    BY <2>a, <2>1, <1>j DEF JobRow, InFlightJob
  <2> HIDE DEF row
  <2>c. rows \in [Jobs -> JobRow] /\ rows[j] = row
    BY <2>b, <1>j
  <2>d. \/ job' = rows
        \/ job' = [rows EXCEPT ![j] = [row EXCEPT !.attempts = @ + 1]]
        \/ job' = [rows EXCEPT ![j] = [row EXCEPT !.status = "FAILED"]]
    BY <2>a, <2>c DEF Dispatches
  <2>e. [row EXCEPT !.attempts = @ + 1] \in JobRow /\ [row EXCEPT !.status = "FAILED"] \in JobRow
    <3>1. row.attempts + 1 \in 0..3
      BY <2>b
    <3> QED BY <3>1, <2>b, RowChanges, Zenon
  <2>2. job' \in [Jobs -> JobRow]
    BY <2>c, <2>d, <2>e
  <2>3. GenerationTypeOK'
    BY <1>5, <1>t, <2>2 DEF RetryJob, Dispatches, GenerationTypeOK, Fault, Send
  <2>4. UNCHANGED <<courses, worker>> /\ \A k \in Jobs : k # j => job'[k] = job[k]
    BY <1>5, <1>j, <2>c, <2>d DEF RetryJob
  <2>5. /\ job'[j].status \in {"QUEUED", "FAILED"} /\ job'[j].course = job[j].course
        /\ job[j].status \in {"FAILED", "CANCELLED"}
    BY <2>a, <2>b, <2>c, <2>d, <2>e, <1>j DEF JobRow
  <2>6. ASSUME NEW k \in Jobs PROVE JobOK(k)'
    BY <2>4, <2>5 DEF JobsInv, JobOK
  <2> QED
    BY <2>3, <2>4, <2>5, <2>6, JobStep DEF Executing
<1>6. ASSUME NEW j \in Jobs, JobAges(j) PROVE JobsInv'
  <2>1. job' \in [Jobs -> JobRow]
    BY <1>6, <1>j DEF JobAges, JobRow
  <2>2. GenerationTypeOK'
    BY <1>6, <1>t, <2>1 DEF JobAges, GenerationTypeOK
  <2>3. /\ UNCHANGED <<courses, worker>> /\ \A k \in Jobs : k # j => job'[k] = job[k]
        /\ \A w \in Workers : worker[w].job # j
        /\ job[j].status # "NONE"
    BY <1>6, <1>j DEF JobAges, InFlightJob
  <2>4. /\ job'[j].status = job[j].status /\ job'[j].course = job[j].course
        /\ job'[j].cancel = job[j].cancel
    BY <1>6, <1>j DEF JobAges, JobRow
  <2>5. ASSUME NEW k \in Jobs PROVE JobOK(k)'
    BY <2>3, <2>4 DEF JobsInv, JobOK
  <2> QED
    BY <2>2, <2>3, <2>4, <2>5, JobStep
<1>7. ASSUME NEW j \in Jobs, RecoverJob(j) PROVE JobsInv'
  <2> DEFINE row == [job[j] EXCEPT !.attempts = @ + 1,
                       !.age = IF job[j].status = "QUEUED" THEN "fresh" ELSE @]
  <2>0. job' = [job EXCEPT ![j] = row]
    BY <1>7, <1>j DEF RecoverJob, JobRow
  <2>a. row \in JobRow
    <3>1. job[j] \in JobRow /\ job[j].attempts + 1 \in 0..3
          /\ job[j].age \in {"fresh", "late", "stale"}
      BY <1>7, <1>j DEF RecoverJob, JobRow
    <3> QED BY <3>1, RowChanges
  <2>1. job' \in [Jobs -> JobRow]
    BY <2>0, <2>a, <1>j
  <2>2. GenerationTypeOK'
    BY <1>7, <1>t, <2>1 DEF RecoverJob, GenerationTypeOK, Fault, Send
  <2>3. /\ UNCHANGED <<courses, worker>> /\ \A k \in Jobs : k # j => job'[k] = job[k]
        /\ job[j].age # "fresh" /\ job[j].status # "NONE"
    BY <1>7, <1>j DEF RecoverJob, InFlightJob
  <2>4. /\ job'[j].status = job[j].status /\ job'[j].course = job[j].course
        /\ job'[j].cancel = job[j].cancel
    BY <1>7, <1>j DEF RecoverJob, JobRow
  <2>5. ASSUME NEW k \in Jobs PROVE JobOK(k)'
    BY <2>3, <2>4 DEF JobsInv, JobOK
  <2> QED
    BY <2>2, <2>3, <2>4, <2>5, JobStep
<1>8. ASSUME NEW w \in Workers, NEW j \in Jobs, ClaimJob(w, j) PROVE JobsInv'
  <2>1. CASE job[j].status \in EndedJob \/ (job[j].status \in Executing /\ job[j].age = "fresh")
    <3>1. UNCHANGED <<job, worker, courses, content, jobFaults>> /\ sent' \in [Jobs -> 0..3]
      BY <1>8, <2>1, <1>t DEF ClaimJob, GenerationTypeOK
    <3>2. GenerationTypeOK'
      BY <3>1, <1>t DEF GenerationTypeOK
    <3> QED
      BY <3>1, <3>2, JobStep DEF JobsInv, JobOK
  <2>2. CASE ~(job[j].status \in EndedJob \/ (job[j].status \in Executing /\ job[j].age = "fresh"))
    <3> DEFINE took == [Idle EXCEPT !.job = j, !.at = "looking", !.course = job[j].course]
               row  == [job[j] EXCEPT !.status = "RUNNING", !.age = "fresh"]
    <3>1. worker' = [worker EXCEPT ![w] = took] /\ job' = [job EXCEPT ![j] = row]
      BY <1>8, <2>2, <1>j DEF ClaimJob
    <3>2. took \in WorkerState
      BY <1>j DEF WorkerState, Idle, JobRow
    <3>3. row \in JobRow
      BY <1>j DEF JobRow, Executing, InFlightJob
    <3>4. GenerationTypeOK'
      BY <1>8, <3>1, <3>2, <3>3, <1>t DEF ClaimJob, GenerationTypeOK
    <3>5. \A v \in Workers : worker[v].job # j
      BY <2>2, <1>n DEF JobsInv, WorkerOK, Works, Idle, NoJob
    <3>6. Works(w, j)'
      BY <3>1, <1>j, <1>w DEF Works, Idle, Executing, JobRow
    <3>7. JobOK(j)'
      BY <1>8, <3>1, <1>j DEF ClaimJob, JobsInv, JobOK, JobRow
    <3>8. \A k \in Jobs : k # j => job'[k] = job[k] /\ courses'[k] = courses[k]
      BY <1>8, <3>1, <1>j DEF ClaimJob
    <3>9. \A v \in Workers : v # w => worker'[v] = worker[v]
      BY <3>1, <1>w
    <3> QED
      BY <3>4, <3>5, <3>6, <3>7, <3>8, <3>9, WorkerStep
  <2> QED BY <2>1, <2>2
<1>9. ASSUME NEW w \in Workers, NEW j \in Jobs, Works(w, j),
             WorkerTurns(w) \/ ProviderFailsJob(w) \/ GenerationCrashes(w)
      PROVE  JobsInv'
  <2>0. /\ worker[w].job = j /\ job[j] \in JobRow /\ worker[w] \in WorkerState
        /\ job[j].status \in Executing /\ job[j].status \notin EndedJob
        /\ sent \in [Jobs -> 0..3] /\ jobFaults \in 0..MaxJobFaults
        /\ content \in [Jobs -> SUBSET Parts]
    BY <1>9, <1>t, <1>j, <1>w DEF Works, Executing, EndedJob, GenerationTypeOK
  <2>a. ASSUME NEW st \in InFlightJob \cup EndedJob, job' = [job EXCEPT ![j].status = st],
               job[j].cancel => st # "COMPLETED", Leave(w), UNCHANGED <<courses, content>>,
               sent' \in [Jobs -> 0..3], jobFaults' \in 0..MaxJobFaults
        PROVE  JobsInv'
    <3> DEFINE row == [job[j] EXCEPT !.status = st]
    <3>1. row \in JobRow /\ row.status = st /\ row.course = job[j].course /\ row.cancel = job[j].cancel
      BY <2>0, StatusRow
    <3>2. job' = [job EXCEPT ![j] = row] /\ row.status # "NONE"
      BY <2>a, <3>1 DEF InFlightJob, EndedJob
    <3> HIDE DEF row
    <3> QED
      BY <1>9, <2>a, <3>1, <3>2, WorkerEnds
  <2>b. ASSUME Heeds(w, j), UNCHANGED <<courses, content, sent, jobFaults>> PROVE JobsInv'
    BY <2>a, <2>b, <2>0 DEF Heeds, EndedJob
  <2>1. CASE Look(w)
    <3>1. CASE Heeds(w, j)
      BY <2>0, <2>1, <2>b, <3>1 DEF Look
    <3>2. ASSUME NEW to \in WorkerState, worker' = [worker EXCEPT ![w] = to],
                 \/ to = [worker[w] EXCEPT !.at = "finishing"]
                 \/ \E c \in Left(w, j) : to = [worker[w] EXCEPT !.at = "calling", !.call = c],
                 UNCHANGED <<job, courses, content, sent, jobFaults>>
          PROVE  JobsInv'
      <4>1. /\ to.job = j /\ to.at # "idle" /\ to.course = worker[w].course
            /\ to.call = "outline" => ~to.course
        <5>1. CASE to = [worker[w] EXCEPT !.at = "finishing"]
          BY <1>9, <2>0, <5>1 DEF Works, WorkerState
        <5>2. ASSUME NEW c \in Left(w, j),
                     to = [worker[w] EXCEPT !.at = "calling", !.call = c]
              PROVE  /\ to.job = j /\ to.at # "idle" /\ to.course = worker[w].course
                     /\ to.call = "outline" => ~to.course
          <6>1. /\ to.job = j /\ to.at = "calling" /\ to.course = worker[w].course
                /\ to.call = c
            BY <2>0, <5>2 DEF WorkerState
          <6>2. c = "outline" => ~worker[w].course
            BY <5>2 DEF Left
          <6> QED BY <6>1, <6>2
        <5> QED BY <3>2, <5>1, <5>2
      <4> QED
        BY <4>1, <1>9, <2>0, <3>2, WorkerGoes DEF Works
    <3>3. CASE ~job[j].cancel /\ Left(w, j) = {} /\ Turn(w, "finishing") /\ UNCHANGED job
      <4>1. [worker[w] EXCEPT !.at = "finishing"] \in WorkerState
        BY <2>0 DEF WorkerState
      <4> QED
        BY <2>0, <2>1, <3>2, <3>3, <4>1, <1>w DEF Look, Turn
    <3>4. ASSUME NEW c \in Left(w, j), UNCHANGED job,
                 worker' = [worker EXCEPT ![w].at = "calling", ![w].call = c]
          PROVE  JobsInv'
      <4>1. c \in Calls
        BY <3>4 DEF Left, Calls
      <4>2. [worker[w] EXCEPT !.at = "calling", !.call = c] \in WorkerState
        BY <2>0, <4>1 DEF WorkerState
      <4> QED
        BY <2>0, <2>1, <3>2, <3>4, <4>2, <1>w DEF Look
    <3> QED
      BY <2>0, <2>1, <3>1, <3>3, <3>4 DEF Look
  <2>2. ASSUME NEW c \in Calls, Answer(w, c) PROVE JobsInv'
    <3>1. CASE Heeds(w, j)
      BY <2>0, <2>2, <2>b, <3>1 DEF Answer
    <3>2. CASE Turn(w, "storing") /\ UNCHANGED job
      <4> DEFINE to == [worker[w] EXCEPT !.at = "storing"]
      <4>1. /\ to \in WorkerState /\ to.job = j /\ to.at # "idle"
            /\ to.course = worker[w].course /\ to.call = worker[w].call
        BY <2>0 DEF WorkerState
      <4>2. worker' = [worker EXCEPT ![w] = to]
        BY <3>2 DEF Turn
      <4> HIDE DEF to
      <4> QED
        BY <4>1, <4>2, <1>9, <2>0, <2>2, <3>2, WorkerGoes DEF Works, Answer
    <3> QED
      BY <2>0, <2>2, <3>1, <3>2 DEF Answer
  <2>3. CASE MakeCourse(w)
    <3>1. At(w, "storing", "outline") /\ courses[j] = 0 /\ job[j].course = FALSE
      BY <1>9, <2>0, <2>3 DEF MakeCourse, At, Works, JobsInv, JobOK
    <3> DEFINE to  == [worker[w] EXCEPT !.course = TRUE, !.at = "looking", !.call = "none"]
               row == [job[j] EXCEPT !.status = "STRUCTURE_READY", !.course = TRUE]
    <3>2. /\ to \in WorkerState /\ to.job = j /\ to.at = "looking" /\ to.course = TRUE
          /\ to.call = "none"
      BY <2>0 DEF WorkerState
    <3>3. /\ row \in JobRow /\ row.status = "STRUCTURE_READY" /\ row.course = TRUE
          /\ row.age = job[j].age /\ row.cancel = job[j].cancel
      BY <2>0 DEF JobRow, InFlightJob
    <3>4. worker' = [worker EXCEPT ![w] = to] /\ job' = [job EXCEPT ![j] = row]
      BY <2>0, <2>3, <1>j, <1>w DEF MakeCourse
    <3> HIDE DEF to, row
    <3>5. courses \in [Jobs -> 0..2] /\ courses' = [courses EXCEPT ![j] = 1]
      BY <1>t, <2>0, <2>3, <3>1 DEF MakeCourse, GenerationTypeOK
    <3>6. GenerationTypeOK'
      <4>1. UNCHANGED <<content, sent, jobFaults>>
        BY <2>3 DEF MakeCourse
      <4>2. courses' \in [Jobs -> 0..2]
        BY <3>5
      <4>3. job' \in [Jobs -> JobRow] /\ worker' \in [Workers -> WorkerState]
        BY <3>2, <3>3, <3>4, <1>j, <1>w
      <4> QED
        BY <2>0, <4>1, <4>2, <4>3 DEF GenerationTypeOK
    <3>7. Works(w, j)'
      BY <1>9, <3>2, <3>3, <3>4, <1>j, <1>w DEF Works, Executing
    <3>8. JobOK(j)'
      BY <3>3, <3>4, <3>5, <1>j DEF JobOK
    <3>9. /\ \A k \in Jobs : k # j => job'[k] = job[k] /\ courses'[k] = courses[k]
          /\ \A v \in Workers : v # w => worker'[v] = worker[v]
      BY <3>4, <3>5, <1>j, <1>w
    <3> QED
      BY <2>0, <3>6, <3>7, <3>8, <3>9, WorkerStep
  <2>4. ASSUME NEW p \in Parts, StorePart(w, p) PROVE JobsInv'
    <3>1. CASE p \in content[j]
      BY <2>0, <2>4, <2>a, <3>1 DEF StorePart, EndedJob
    <3>2. CASE p \notin content[j]
      <4> DEFINE to == [worker[w] EXCEPT !.at = "looking", !.call = "none"]
      <4>1. /\ to \in WorkerState /\ to.job = j /\ to.at # "idle"
            /\ to.course = worker[w].course /\ to.call = "none"
        BY <2>0 DEF WorkerState
      <4>2. worker' = [worker EXCEPT ![w] = to] /\ UNCHANGED <<job, courses, sent, jobFaults>>
        BY <2>0, <2>4, <3>2, <1>w DEF StorePart, Looks
      <4>3. content' \in [Jobs -> SUBSET Parts]
        BY <2>0, <2>4, <3>2 DEF StorePart
      <4> HIDE DEF to
      <4> QED
        BY <4>1, <4>2, <4>3, <1>9, WorkerGoes DEF Works
    <3> QED BY <3>1, <3>2
  <2>5. CASE CompleteJob(w)
    <3>1. job' = [job EXCEPT ![j].status = IF job[j].cancel THEN "CANCELLED" ELSE "COMPLETED"]
      BY <2>0, <2>5, <1>j DEF CompleteJob
    <3>2. Leave(w) /\ UNCHANGED <<courses, content, sent, jobFaults>>
      BY <2>5 DEF CompleteJob
    <3> QED
      BY <2>0, <2>a, <3>1, <3>2 DEF EndedJob
  <2>6. CASE ProviderFailsJob(w)
    <3>1. Leave(w) /\ UNCHANGED <<courses, content>> /\ jobFaults' \in 0..MaxJobFaults
      BY <2>0, <2>6 DEF ProviderFailsJob, Fault
    <3>2. CASE job[j].cancel /\ job' = [job EXCEPT ![j].status = "CANCELLED"] /\ UNCHANGED sent
      BY <2>0, <2>a, <3>1, <3>2 DEF EndedJob
    <3>3. CASE /\ job' = [job EXCEPT ![j].status = "QUEUED", ![j].age = "fresh"]
               /\ Send(j) \/ UNCHANGED sent
      <4> DEFINE row == [job[j] EXCEPT !.status = "QUEUED", !.age = "fresh"]
      <4>1. /\ row \in JobRow /\ row.course = job[j].course /\ row.status = "QUEUED"
        BY <2>0 DEF JobRow, InFlightJob
      <4>2. sent' \in [Jobs -> 0..3]
        BY <2>0, <3>3 DEF Send
      <4>3. job' = [job EXCEPT ![j] = row]
        BY <3>3, <1>j
      <4> HIDE DEF row
      <4> QED
        BY <1>9, <3>1, <4>1, <4>2, <4>3, WorkerEnds
    <3>4. CASE job' = [job EXCEPT ![j].status = "FAILED"] /\ UNCHANGED sent
      BY <2>0, <2>a, <3>1, <3>4 DEF EndedJob
    <3> QED
      BY <2>0, <2>6, <3>2, <3>3, <3>4, <1>j DEF ProviderFailsJob
  <2>7. CASE GenerationCrashes(w)
    <3>1. job' = [job EXCEPT ![j] = job[j]]
      BY <2>7, <1>j DEF GenerationCrashes
    <3>2. /\ Leave(w) /\ UNCHANGED <<courses, content, sent>>
          /\ jobFaults' \in 0..MaxJobFaults
      BY <2>0, <2>7 DEF GenerationCrashes, Fault
    <3> QED
      BY <1>9, <2>0, <3>1, <3>2, WorkerEnds DEF Executing, JobsInv, JobOK
  <2> QED
    BY <1>9, <2>1, <2>2, <2>3, <2>4, <2>5, <2>6, <2>7 DEF WorkerTurns
<1>10. ASSUME NEW w \in Workers, WorkerTurns(w) \/ ProviderFailsJob(w) \/ GenerationCrashes(w)
       PROVE  JobsInv'
  <2>1. worker[w] # Idle
    <3>1. worker[w] = Idle => worker[w].at = "idle"
      BY DEF Idle
    <3>2. CASE WorkerTurns(w)
      BY <3>1, <3>2 DEF WorkerTurns, Look, MakeCourse, CompleteJob, Answer, StorePart, At
    <3>3. CASE ProviderFailsJob(w)
      BY <3>1, <3>3 DEF ProviderFailsJob
    <3> QED
      BY <1>10, <3>2, <3>3 DEF GenerationCrashes
  <2> QED
    BY <1>9, <1>10, <2>1 DEF JobsInv, WorkerOK
<1> QED
  BY <1>1, <1>2, <1>3, <1>4, <1>5, <1>6, <1>7, <1>8, <1>10 DEF GenerationNext

\* No number of crashes, duplicate messages, redispatches and retries makes a job a second
\* course or sets two workers to work on it: claim_job_for_execution, materialize_structure.
THEOREM OneCoursePerJob == GenerationSpec => []NothingGeneratedTwice
<1>1. JobsInv => NothingGeneratedTwice
  BY DEF JobsInv, JobOK, OneWorker, NothingGeneratedTwice
<1>2. JobsInv /\ [GenerationNext]_jobVars => JobsInv'
  BY JobsStepInv
<1> QED
  BY <1>1, <1>2, JobsInitInv, PTL DEF GenerationSpec

StopsAt(j) ==
  /\ job[j].status = "CANCELLED" =>
       /\ courses'[j] = courses[j] /\ content'[j] = content[j]
       /\ job'[j].status = "CANCELLED" \/ job'[j].retries > job[j].retries
  /\ job[j].cancel => job'[j].status # "COMPLETED"

LEMMA StepStops ==
  ASSUME JobsInv, [GenerationNext]_jobVars, NEW j \in Jobs
  PROVE  StopsAt(j)
<1>j. job \in [Jobs -> JobRow] /\ job[j] \in JobRow /\ JobOK(j)
  BY DEF JobsInv, GenerationTypeOK
<1>w. worker \in [Workers -> WorkerState]
  BY DEF JobsInv, GenerationTypeOK
<1>c. courses \in [Jobs -> 0..2] /\ content \in [Jobs -> SUBSET Parts]
  BY DEF JobsInv, GenerationTypeOK
<1>o. JobOK(j)'
  BY JobsStepInv DEF JobsInv
<1>1. CASE UNCHANGED jobVars
  BY <1>1, <1>j DEF jobVars, JobOK, StopsAt
<1>2. CASE ListJobs
  BY <1>2, <1>j DEF ListJobs, Swept, InFlightJob, JobOK, StopsAt, JobRow
<1>3. ASSUME NEW k \in Jobs, CreateJob(k) PROVE StopsAt(j)
  <2>1. CASE k = j
    <3>1. job[j].status = "NONE"
      BY <1>3, <2>1 DEF CreateJob
    <3>2. job'[j].status \in {"QUEUED", "FAILED"}
      BY <1>3, <1>j, <2>1 DEF CreateJob, Dispatches, Swept, JobRow, InFlightJob
    <3> QED BY <3>1, <3>2 DEF StopsAt
  <2>2. CASE k # j
    <3>1. job'[j] = Swept(job[j]) /\ UNCHANGED <<courses, content>>
      BY <1>3, <2>2 DEF CreateJob, Dispatches
    <3> QED BY <3>1, <1>j DEF Swept, InFlightJob, JobOK, StopsAt, JobRow
  <2> QED BY <2>1, <2>2
<1>4. ASSUME NEW k \in Jobs, CancelJob(k) PROVE StopsAt(j)
  <2>1. CASE k = j
    BY <1>4, <1>j, <1>o, <2>1 DEF CancelJob, InFlightJob, StopsAt, JobRow
  <2>2. CASE k # j
    BY <1>4, <1>j, <2>2 DEF CancelJob, JobOK, StopsAt
  <2> QED BY <2>1, <2>2
<1>5. ASSUME NEW k \in Jobs, RetryJob(k) PROVE StopsAt(j)
  <2> DEFINE row  == [status |-> "QUEUED", cancel |-> FALSE, course |-> job[k].course,
                      attempts |-> 0, retries |-> job[k].retries + 1, age |-> "fresh"]
             rows == [job EXCEPT ![k] = row]
  <2>1. Dispatches(rows, k) /\ UNCHANGED <<courses, content>>
    BY <1>5 DEF RetryJob
  <2>2. CASE k # j
    BY <1>j, <2>1, <2>2 DEF Dispatches, JobOK, StopsAt
  <2>3. CASE k = j
    <3>1. rows[j] = row
      BY <1>j, <2>3
    <3>2. job'[j].retries = job[j].retries + 1 /\ job'[j].status \in {"QUEUED", "FAILED"}
      BY <1>j, <2>1, <2>3, <3>1 DEF Dispatches
    <3> QED
      BY <1>j, <2>1, <3>2 DEF StopsAt, JobRow, MaxRetry
  <2> QED BY <2>2, <2>3
<1>6. ASSUME NEW k \in Jobs, JobAges(k) \/ RecoverJob(k) PROVE StopsAt(j)
  <2>1. job'[j].status = job[j].status /\ UNCHANGED <<courses, content>>
    BY <1>6, <1>j DEF JobAges, RecoverJob, JobRow
  <2> QED
    BY <1>j, <2>1 DEF JobOK, StopsAt
<1>7. ASSUME NEW w \in Workers, NEW k \in Jobs, ClaimJob(w, k) PROVE StopsAt(j)
  <2>1. \/ job'[j] = job[j]
        \/ job[j].status \notin EndedJob /\ job'[j].status = "RUNNING"
    BY <1>7, <1>j DEF ClaimJob, JobRow
  <2>2. UNCHANGED <<courses, content>>
    BY <1>7 DEF ClaimJob
  <2> QED
    BY <1>j, <2>1, <2>2 DEF JobOK, StopsAt, EndedJob
<1>8. ASSUME NEW w \in Workers, NEW k \in Jobs, Works(w, k),
             WorkerTurns(w) \/ ProviderFailsJob(w) \/ GenerationCrashes(w)
      PROVE  StopsAt(j)
  <2>1. worker[w].job = k
    BY <1>8 DEF Works
  <2>2. CASE k # j
    <3>1. job'[j] = job[j] /\ courses'[j] = courses[j] /\ content'[j] = content[j]
      BY <1>8, <1>j, <1>c, <2>1, <2>2 DEF WorkerTurns, Look, Heeds, MakeCourse, CompleteJob,
         Answer, StorePart, ProviderFailsJob, GenerationCrashes
    <3> QED BY <1>j, <3>1 DEF JobOK, StopsAt
  <2>3. CASE k = j
    <3>1. job[j].status # "CANCELLED"
      BY <1>8, <2>3 DEF Works, Executing
    <3>2. job'[j].cancel = job[j].cancel
      BY <1>8, <1>j, <2>1, <2>3 DEF WorkerTurns, Look, Heeds, MakeCourse, CompleteJob,
         Answer, StorePart, ProviderFailsJob, GenerationCrashes, JobRow
    <3> QED BY <1>o, <3>1, <3>2 DEF JobOK, StopsAt
  <2> QED BY <2>2, <2>3
<1>9. ASSUME NEW w \in Workers, WorkerTurns(w) \/ ProviderFailsJob(w) \/ GenerationCrashes(w)
      PROVE  StopsAt(j)
  <2>1. CASE worker[w] = Idle
    <3>1. worker[w].at = "idle"
      BY <2>1 DEF Idle
    <3>2. CASE WorkerTurns(w)
      BY <3>1, <3>2 DEF WorkerTurns, Look, MakeCourse, CompleteJob, Answer, StorePart, At
    <3>3. CASE ProviderFailsJob(w)
      BY <3>1, <3>3 DEF ProviderFailsJob
    <3> QED
      BY <1>9, <2>1, <3>2, <3>3 DEF GenerationCrashes
  <2> QED
    BY <1>8, <1>9, <2>1 DEF JobsInv, WorkerOK
<1> QED
  BY <1>1, <1>2, <1>3, <1>4, <1>5, <1>6, <1>7, <1>9 DEF GenerationNext

\* A cancelled job gets no more content and no other status but by a retry, and one whose
\* cancellation is recorded never completes: complete_job, check_cancelled.
THEOREM CancellationWins == GenerationSpec => CancelStops
<1> DEFINE Stops == \A j \in Jobs :
       /\ job[j].status = "CANCELLED" =>
            /\ UNCHANGED <<courses[j], content[j]>>
            /\ job'[j].status = "CANCELLED" \/ job'[j].retries > job[j].retries
       /\ job[j].cancel => job'[j].status # "COMPLETED"
<1>1. JobsInv /\ [GenerationNext]_jobVars => [Stops]_jobVars
  BY StepStops DEF StopsAt
<1>2. JobsInv /\ [GenerationNext]_jobVars => JobsInv'
  BY JobsStepInv
<1> HIDE DEF Stops
<1>3. GenerationSpec => [][Stops]_jobVars
  BY <1>1, <1>2, JobsInitInv, PTL DEF GenerationSpec
<1> QED
  BY <1>3 DEF Stops, CancelStops
=============================================================================

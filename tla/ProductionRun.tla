---------------------------- MODULE ProductionRun ----------------------------
(***************************************************************************)
(* The Production Engine's runs for one course: how the workflow asks for  *)
(* them, how beat and the broker hand them to workers, and how a worker    *)
(* plans, films and delivers a course between checkpoints.                 *)
(*                                                                         *)
(* A database transaction is one action.  A worker's call to a provider    *)
(* runs outside any transaction, so a step that calls one is two actions.  *)
(* Faults is the set of things that may go wrong:                          *)
(*   provider   a voice, image or channel call fails, for now or for good  *)
(*   quality    a finished video fails the quality gate                    *)
(*   crash      a worker dies; its message may be delivered again          *)
(*   broker     a message is lost after its run was marked as dispatched   *)
(*   slow       a worker is silent for so long that it is taken for dead   *)
(***************************************************************************)
EXTENDS Naturals, FiniteSetsExt

CONSTANTS Workers,
          NLessons, NRuns,     \* lessons of the course; bound on its run rows
          MaxAttempts,         \* MAX_RUN_ATTEMPTS
          Quote, Budgets,      \* the quote of a video run; budgets in force
          Fixes,               \* rework a reviewer asks for
          MaxEdits, MaxMessages, MaxCrashes, MaxBill,  \* bounds
          Faults

ReworkActions == {"REVOICE", "RESTORYBOARD", "RERENDER"}
FaultKinds == {"provider", "quality", "crash", "broker", "slow"}

ASSUME SizeAssumption ==
  /\ NLessons \in Nat \ {0} /\ NRuns \in Nat \ {0} /\ MaxAttempts \in Nat \ {0}
  /\ MaxEdits \in Nat /\ MaxMessages \in Nat \ {0} /\ MaxCrashes \in Nat
  /\ MaxBill \in Nat
ASSUME MoneyAssumption == Quote \in Nat /\ Budgets \subseteq Nat /\ Budgets # {}
ASSUME KindAssumption == Fixes \subseteq ReworkActions /\ Faults \subseteq FaultKinds

VARIABLES
  course,    \* [status, provider], as far as video is concerned
  script,    \* the version of each lesson's script
  video,     \* what each lesson's video_url shows
  enabled,   \* PlatformSettings.production_enabled
  budget,    \* PlatformSettings.production_course_budget
  run,       \* ProductionRun rows, in the order of their creation
  board,     \* ProductionScene rows: the storyboard of a run's lesson
  asset,     \* ProductionAsset rows: narrations and lesson videos by key
  cost,      \* the sum of each run's ProductionCost rows
  bill,      \* what the providers were really asked for on behalf of a run
  message,   \* run_production messages in the broker
  worker,    \* what each worker process holds in memory
  crashes    \* worker deaths so far, for the bound

courseVars == <<course, script, video>>
vars == <<course, script, video, enabled, budget, run, board, asset, cost, bill,
          message, worker, crashes>>

Runs    == 1..NRuns
Lessons == 1..NLessons
RunStatuses == {"NONE", "QUEUED", "RUNNING", "BLOCKED", "COMPLETED", "FAILED", "CANCELLED"}
ActiveStatuses    == {"QUEUED", "RUNNING", "BLOCKED"}
RetryableStatuses == {"FAILED", "BLOCKED"}

Instructions == [Lessons -> SUBSET ReworkActions]
NoRework     == [l \in Lessons |-> {}]

RunRow == [kind : {"VIDEO", "PACKAGE"}, status : RunStatuses, attempts : 0..MaxAttempts,
           dispatched : BOOLEAN,    \* handed to a worker in the last ten minutes
           spent : Nat, budget : Budgets \cup {0},
           instructions : Instructions]
NoRun == [kind |-> "VIDEO", status |-> "NONE", attempts |-> 0, dispatched |-> FALSE,
          spent |-> 0, budget |-> 0, instructions |-> NoRework]

\* A storyboard is the script it was planned from and the run that planned it; copies
\* are equal.  A key is what goes into a narration or a video: the salt is a run, or 0.
Board   == [script : 0..MaxEdits, by : Runs]
NoBoard == [script |-> 0, by |-> 0]
Boards  == Board \cup {NoBoard}
Salts   == Runs \cup {0}
Key     == [kind : {"NARRATION", "LESSON_VIDEO"}, lesson : Lessons, board : Boards,
            voice : Salts, render : Salts]

\* What a lesson's video_url shows: the engine's video of a storyboard, or another.
NoVideo  == [made |-> "NONE", script |-> 0]
Videos   == [made : {"NONE", "CREATOR", "ENGINE"}, script : 0..MaxEdits]
CourseStatuses == {"FIRST_REVIEW", "AWAITING_VIDEO", "IN_REVIEW", "NEEDS_REVISION", "PUBLISHED"}

Steps == {"idle", "plan", "planning", "film", "filming", "deliver", "package",
          "channels", "block", "finish"}
Memory == [at : Steps, run : Salts, seen : [Lessons -> 0..MaxEdits],
           board : [Lessons -> Boards], done : SUBSET Lessons,
           instructions : Instructions, spent : Nat, budget : Nat, owed : 0..1]
Idle == [at |-> "idle", run |-> 0, seen |-> [l \in Lessons |-> 0],
         board |-> [l \in Lessons |-> NoBoard], done |-> {},
         instructions |-> NoRework, spent |-> 0, budget |-> 0, owed |-> 0]

TypeOK ==
  /\ course \in [status : CourseStatuses, provider : {"PRODUCTION_ENGINE", "CREATOR"}]
  /\ script \in [Lessons -> 0..MaxEdits]
  /\ video \in [Lessons -> Videos]
  /\ enabled \in BOOLEAN
  /\ budget \in Budgets
  /\ run \in [Runs -> RunRow]
  /\ board \in [Runs -> [Lessons -> Boards]]
  /\ asset \subseteq Key
  /\ cost \in [Runs -> Nat] /\ bill \in [Runs -> Nat]
  /\ message \in [Runs -> 0..MaxMessages]
  /\ worker \in [Workers -> Memory]
  /\ crashes \in 0..MaxCrashes

-----------------------------------------------------------------------------
(* Requesting, cancelling and retrying runs.                               *)

ActiveRuns == {r \in Runs : run[r].status \in ActiveStatuses}
FreeRows   == {r \in Runs : run[r].status = "NONE"}

\* merge_instructions
Merged(a, b) == [l \in Lessons |-> a[l] \cup b[l]]

RunQuote(kind) == IF kind = "PACKAGE" THEN 0 ELSE Quote

\* request_production: a course that holds an active run gets that run back.
RequestProduction(kind, instructions) ==
  IF ActiveRuns # {}
  THEN run' = [r \in Runs |-> IF r \notin ActiveRuns THEN run[r] ELSE
         [run[r] EXCEPT !.instructions = Merged(@, instructions)]]
  ELSE /\ FreeRows # {}
       /\ run' = [run EXCEPT ![Min(FreeRows)] =
            [NoRun EXCEPT !.kind = kind, !.instructions = instructions, !.budget = budget,
               !.status = IF RunQuote(kind) > budget THEN "BLOCKED" ELSE "QUEUED"]]

\* cancel_active_run
CancelActiveRun ==
  run' = [r \in Runs |-> IF r \in ActiveRuns THEN [run[r] EXCEPT !.status = "CANCELLED"]
                                             ELSE run[r]]

CancelRun(r) ==
  /\ r \in ActiveRuns
  /\ run' = [run EXCEPT ![r].status = "CANCELLED"]
  /\ UNCHANGED <<courseVars, enabled, budget, board, asset, cost, bill, message, worker,
                 crashes>>

\* Mutant of Requeued: the money spent is forgotten.
RequeuedAfresh(r) ==
  [run EXCEPT ![r] = [@ EXCEPT !.status = "QUEUED", !.attempts = 0, !.dispatched = FALSE,
                               !.budget = budget, !.spent = 0]]

Requeued(r) ==
  [run EXCEPT ![r] = [@ EXCEPT !.status = "QUEUED", !.attempts = 0, !.dispatched = FALSE,
                               !.budget = budget]]

\* retry_run: failed or blocked, within the budget of now.  The constraint on active
\* runs refuses it while the course holds another.
RetryRun(r) ==
  /\ run[r].status \in RetryableStatuses
  /\ RunQuote(run[r].kind) <= budget
  /\ ActiveRuns \subseteq {r}
  /\ bill[r] < MaxBill
  /\ run' = Requeued(r)
  /\ UNCHANGED <<courseVars, enabled, budget, board, asset, cost, bill, message, worker,
                 crashes>>

SwitchEngine ==
  /\ enabled' = ~enabled
  /\ UNCHANGED <<courseVars, budget, run, board, asset, cost, bill, message, worker, crashes>>

SetBudget(b) ==
  /\ budget' = b
  /\ UNCHANGED <<courseVars, enabled, run, board, asset, cost, bill, message, worker, crashes>>

-----------------------------------------------------------------------------
(* The workflow, where it touches the engine (CourseReview has the rest).  *)

WorkflowOnly == UNCHANGED <<enabled, budget, board, asset, cost, bill, message, worker, crashes>>

\* approve_content, when the engine makes the video.
ApproveContent ==
  /\ course.status = "FIRST_REVIEW"
  /\ course' = [course EXCEPT !.status = "AWAITING_VIDEO"]
  /\ RequestProduction("VIDEO", NoRework)
  /\ UNCHANGED <<script, video>> /\ WorkflowOnly

\* record_video_decision
DecideVideo(provider) ==
  /\ course.status = "AWAITING_VIDEO"
  /\ course' = [course EXCEPT !.provider = provider]
  /\ IF provider = "CREATOR" THEN CancelActiveRun ELSE RequestProduction("VIDEO", NoRework)
  /\ UNCHANGED <<script, video>> /\ WorkflowOnly

\* submit_video: only where the creator supplies it.
SubmitVideo ==
  /\ course.status = "AWAITING_VIDEO" /\ course.provider = "CREATOR"
  /\ course' = [course EXCEPT !.status = "IN_REVIEW"]
  /\ video' = [l \in Lessons |-> [made |-> "CREATOR", script |-> script[l]]]
  /\ UNCHANGED <<script, run>> /\ WorkflowOnly

\* reject_course at a video seat, with handle_rejection: flags the engine can fix start a
\* rework, any other waits for the author.
RejectVideo ==
  /\ course.status = "IN_REVIEW"
  /\ course' = [course EXCEPT !.status = "NEEDS_REVISION"]
  /\ \/ UNCHANGED run
     \/ /\ course.provider = "PRODUCTION_ENGINE"
        /\ \E targets \in SUBSET Lessons \ {{}}, fix \in Fixes :
             RequestProduction("VIDEO", [l \in Lessons |-> IF l \in targets THEN {fix} ELSE {}])
  /\ UNCHANGED <<script, video>> /\ WorkflowOnly

\* An author edits a lesson of a course under revision.
EditLesson(l) ==
  /\ course.status = "NEEDS_REVISION"
  /\ script[l] < MaxEdits
  /\ script' = [script EXCEPT ![l] = @ + 1]
  /\ UNCHANGED <<course, video, run>> /\ WorkflowOnly

\* submit_course under revision: engine-made video is remade first
\* (remake_after_resubmission).
Resubmit ==
  /\ course.status = "NEEDS_REVISION"
  /\ IF course.provider = "PRODUCTION_ENGINE"
     THEN RequestProduction("VIDEO", NoRework) /\ UNCHANGED course
     ELSE course' = [course EXCEPT !.status = "IN_REVIEW"] /\ UNCHANGED run
  /\ UNCHANGED <<script, video>> /\ WorkflowOnly

\* publish_course hands the course over for packaging, if the engine is on (finalize).
Publish ==
  /\ course.status = "IN_REVIEW"
  /\ course' = [course EXCEPT !.status = "PUBLISHED"]
  /\ IF enabled THEN RequestProduction("PACKAGE", NoRework) ELSE UNCHANGED run
  /\ UNCHANGED <<script, video>> /\ WorkflowOnly

RequestPackaging ==
  /\ course.status = "PUBLISHED"
  /\ RequestProduction("PACKAGE", NoRework)
  /\ UNCHANGED <<courseVars>> /\ WorkflowOnly

-----------------------------------------------------------------------------
(* Dispatching.                                                            *)

\* dispatch_run, after a commit or from the sweep: the row is claimed, then the message
\* is sent.
DispatchRun(r) ==
  /\ enabled
  /\ run[r].status = "QUEUED" /\ ~run[r].dispatched
  /\ message[r] < MaxMessages
  /\ run' = [run EXCEPT ![r].dispatched = TRUE]
  /\ \/ message' = [message EXCEPT ![r] = @ + 1]
     \/ "broker" \in Faults /\ UNCHANGED message
  /\ UNCHANGED <<courseVars, enabled, budget, board, asset, cost, bill, worker, crashes>>

\* Ten minutes have passed since a run that still waits was handed out (REDISPATCH_AFTER).
DispatchAges(r) ==
  /\ run[r].status = "QUEUED" /\ run[r].dispatched
  /\ run' = [run EXCEPT ![r].dispatched = FALSE]
  /\ UNCHANGED <<courseVars, enabled, budget, board, asset, cost, bill, message, worker,
                 crashes>>

WorkersOn(r) == {w \in Workers : worker[w].at # "idle" /\ worker[w].run = r}

\* dispatch_due_runs: a run whose worker has been silent (RUN_STALE_AFTER) is queued
\* again.  A live worker beats at every step; only a slow one is taken for dead.
RequeueSilent(r) ==
  /\ enabled
  /\ run[r].status = "RUNNING"
  /\ WorkersOn(r) = {} \/ "slow" \in Faults
  /\ run' = [run EXCEPT ![r].status = "QUEUED", ![r].dispatched = FALSE]
  /\ UNCHANGED <<courseVars, enabled, budget, board, asset, cost, bill, message, worker,
                 crashes>>

-----------------------------------------------------------------------------
(* A worker.                                                               *)

\* What a worker will not read again is dropped from its memory.
At(memory, step) == [Idle EXCEPT !.at = step, !.run = memory.run]
Goes(w, step) == worker' = [worker EXCEPT ![w].at = step]
Stops(w) == worker' = [worker EXCEPT ![w] = Idle]

\* Mutant of Failed: attempts are not counted.
FailedForever(rows, r, retry) ==
  IF rows[r].status # "RUNNING" THEN rows
  ELSE IF retry THEN [rows EXCEPT ![r].status = "QUEUED", ![r].dispatched = FALSE]
  ELSE [rows EXCEPT ![r].status = "FAILED"]

\* fail_run: only a run that still runs is queued again or failed.
Failed(rows, r, retry) ==
  IF rows[r].status # "RUNNING" THEN rows
  ELSE IF retry /\ rows[r].attempts < MaxAttempts
  THEN [rows EXCEPT ![r].status = "QUEUED", ![r].dispatched = FALSE]
  ELSE [rows EXCEPT ![r].status = "FAILED"]

\* Mutant of Checkpoint: the budget is not looked at.
CheckpointUnbounded(w, rows, memory) ==
  LET r == memory.run
      runs == rows[r].status = "RUNNING" IN
  /\ run' = IF runs /\ ~enabled
            THEN [rows EXCEPT ![r].status = "QUEUED", ![r].dispatched = FALSE] ELSE rows
  /\ worker' = [worker EXCEPT ![w] = IF ~(runs /\ enabled) THEN Idle ELSE memory]

\* RunLedger.checkpoint, after the step that left rows and memory: stop a run that is no
\* longer running, queue it while the engine is off, block it over budget, or go on.
Checkpoint(w, rows, memory) ==
  LET r == memory.run
      runs == rows[r].status = "RUNNING" IN
  /\ run' = IF runs /\ ~enabled
            THEN [rows EXCEPT ![r].status = "QUEUED", ![r].dispatched = FALSE] ELSE rows
  /\ worker' = [worker EXCEPT ![w] =
       IF ~(runs /\ enabled) THEN Idle
       ELSE IF memory.spent >= memory.budget THEN At(memory, "block") ELSE memory]

\* Mutant of OneMore: attempts are counted past what anybody compares them with.
OneMoreAlways(attempts) == attempts + 1

\* Attempts are counted up to MaxAttempts: fail_run, which alone asks, tells no more apart.
OneMore(attempts) == IF attempts < MaxAttempts THEN attempts + 1 ELSE attempts

\* Mutant of ClaimRun: a run is claimed whatever its state.
ClaimAnyRun(w, r) ==
  /\ worker[w].at = "idle"
  /\ message[r] > 0
  /\ message' = [message EXCEPT ![r] = @ - 1]
  /\ IF run[r].status \in {"QUEUED", "RUNNING"} /\ enabled
     THEN /\ run' = [run EXCEPT ![r].status = "RUNNING", ![r].attempts = OneMore(@)]
          /\ worker' = [worker EXCEPT ![w] =
               [Idle EXCEPT !.at = IF run[r].kind = "PACKAGE" THEN "package" ELSE "plan",
                            !.run = r, !.seen = script, !.spent = run[r].spent,
                            !.budget = run[r].budget, !.instructions = run[r].instructions]]
     ELSE UNCHANGED <<run, worker>>
  /\ UNCHANGED <<courseVars, enabled, budget, board, asset, cost, bill, crashes>>

\* run_production starts, and _claim: the run and its lessons are read into memory.
ClaimRun(w, r) ==
  /\ worker[w].at = "idle"
  /\ message[r] > 0
  /\ message' = [message EXCEPT ![r] = @ - 1]
  /\ IF run[r].status = "QUEUED" /\ enabled
     THEN /\ run' = [run EXCEPT ![r].status = "RUNNING", ![r].attempts = OneMore(@)]
          /\ worker' = [worker EXCEPT ![w] =
               [Idle EXCEPT !.at = IF run[r].kind = "PACKAGE" THEN "package" ELSE "plan",
                            !.run = r, !.seen = script, !.spent = run[r].spent,
                            !.budget = run[r].budget, !.instructions = run[r].instructions]]
     ELSE UNCHANGED <<run, worker>>
  /\ UNCHANGED <<courseVars, enabled, budget, board, asset, cost, bill, crashes>>

Todo(w)   == Lessons \ worker[w].done
Lesson(w) == Min(Todo(w))
Redo(w, l, action) == action \in worker[w].instructions[l]

\* A storyboard another run made of the same script; the newest run's is copied.
Earlier(r, l, s) == {q \in Runs \ {r} : board[q][l] # NoBoard /\ board[q][l].script = s}

\* The lessons are planned in order, then filmed in order.
Planned(w, l, b) ==
  LET memory == [worker[w] EXCEPT !.board[l] = b, !.done = @ \cup {l}] IN
  IF memory.done # Lessons THEN [memory EXCEPT !.at = "plan"]
  ELSE [memory EXCEPT !.at = "film", !.done = {}, !.seen = Idle.seen]

\* _plan_lesson: a storyboard of this run, a copy of an earlier one, or a new one, asked
\* for once the checkpoint lets it pass.
PlanLesson(w) ==
  LET r == worker[w].run
      l == Lesson(w)
      s == worker[w].seen[l]
      earlier == IF Redo(w, l, "RESTORYBOARD") THEN {} ELSE Earlier(r, l, s) IN
  /\ worker[w].at = "plan"
  /\ IF board[r][l] # NoBoard /\ board[r][l].script = s
     THEN /\ worker' = [worker EXCEPT ![w] = Planned(w, l, board[r][l])]
          /\ UNCHANGED <<run, board>>
     ELSE IF earlier # {}
     THEN LET copy == board[Max(earlier)][l] IN
          /\ board' = [board EXCEPT ![r][l] = copy]
          /\ worker' = [worker EXCEPT ![w] = Planned(w, l, copy)]
          /\ UNCHANGED run
     ELSE /\ Checkpoint(w, run, [worker[w] EXCEPT !.at = "planning"])
          /\ UNCHANGED board
  /\ UNCHANGED <<courseVars, enabled, budget, asset, cost, bill, message, crashes>>

\* RunLedger.charge saves what this worker thinks was spent.
Charged(r, memory, amount) == [run EXCEPT ![r].spent = memory.spent + amount]

\* The provider answers: scenes and charge in one transaction, then a checkpoint.
StorePlan(w) ==
  LET r == worker[w].run
      l == Lesson(w)
      new == [script |-> worker[w].seen[l], by |-> r] IN
  /\ worker[w].at = "planning"
  /\ board' = [board EXCEPT ![r][l] = new]
  /\ cost' = [cost EXCEPT ![r] = @ + 1]
  /\ bill' = [bill EXCEPT ![r] = @ + 1]
  /\ Checkpoint(w, Charged(r, worker[w], 1), [Planned(w, l, new) EXCEPT !.spent = @ + 1])
  /\ UNCHANGED <<courseVars, enabled, budget, asset, message, crashes>>

Narration(w, l) ==
  [kind |-> "NARRATION", lesson |-> l, board |-> worker[w].board[l],
   voice |-> IF Redo(w, l, "REVOICE") THEN worker[w].run ELSE 0, render |-> 0]
LessonVideo(w, l) ==
  [Narration(w, l) EXCEPT !.kind = "LESSON_VIDEO",
     !.render = IF Redo(w, l, "RERENDER") THEN worker[w].run ELSE 0]

\* Filmed: the next lesson, or trailer and thumbnail and on to the delivery.
Filmed(w, l) ==
  LET memory == [worker[w] EXCEPT !.done = @ \cup {l}, !.owed = 0] IN
  IF memory.done # Lessons THEN [memory EXCEPT !.at = "film"]
  ELSE [memory EXCEPT !.at = "deliver", !.done = {}, !.instructions = NoRework]

\* _narrate: a narration that is in the store is not paid for again; a new one is stored,
\* and owed in the worker's memory until the lesson is drawn.
Narrate(w) ==
  LET r == worker[w].run
      l == Lesson(w) IN
  /\ worker[w].at = "film"
  /\ IF Narration(w, l) \in asset
     THEN Goes(w, "filming") /\ UNCHANGED <<asset, bill>>
     ELSE /\ asset' = asset \cup {Narration(w, l)}
          /\ bill' = [bill EXCEPT ![r] = @ + 1]
          /\ worker' = [worker EXCEPT ![w].at = "filming", ![w].owed = 1]
  /\ UNCHANGED <<courseVars, enabled, budget, run, board, cost, message, crashes>>

\* The lesson is drawn, what is owed is charged, and a video of the same parts is reused;
\* a new one is rendered, checked and stored.  The last lesson's checkpoint is followed
\* by that of _produce_video.
FilmLesson(w) ==
  LET r == worker[w].run
      l == Lesson(w)
      memory == [Filmed(w, l) EXCEPT !.spent = @ + worker[w].owed]
      rows == IF worker[w].owed = 0 THEN run ELSE Charged(r, worker[w], worker[w].owed)
      last == memory.at = "deliver" IN
  /\ worker[w].at = "filming"
  /\ cost' = [cost EXCEPT ![r] = @ + worker[w].owed]
  /\ asset' = asset \cup {LessonVideo(w, l)}
  /\ IF LessonVideo(w, l) \in asset /\ ~last
     THEN run' = rows /\ worker' = [worker EXCEPT ![w] = memory]
     ELSE Checkpoint(w, rows, memory)
  /\ UNCHANGED <<courseVars, enabled, budget, board, bill, message, crashes>>

\* A lesson fails the quality gate on every take: what was owed is charged, and the run
\* fails for good.
QualityFails(w) ==
  LET r == worker[w].run
      l == Lesson(w) IN
  /\ "quality" \in Faults
  /\ worker[w].at = "filming"
  /\ LessonVideo(w, l) \notin asset
  /\ cost' = [cost EXCEPT ![r] = @ + worker[w].owed]
  /\ run' = Failed(IF worker[w].owed = 0 THEN run ELSE Charged(r, worker[w], worker[w].owed),
                   r, FALSE)
  /\ Stops(w)
  /\ UNCHANGED <<courseVars, enabled, budget, board, asset, bill, message, crashes>>

\* A provider fails, for now (AIProviderError.retryable) or for good; what the worker owes
\* is lost with its memory.
ProviderFails(w) ==
  /\ "provider" \in Faults
  /\ worker[w].at \in {"planning", "filming", "channels"}
  /\ \E retry \in BOOLEAN : run' = Failed(run, worker[w].run, retry)
  /\ Stops(w)
  /\ UNCHANGED <<courseVars, enabled, budget, board, asset, cost, bill, message, crashes>>

Attached(w) == [l \in Lessons |-> [made |-> "ENGINE", script |-> worker[w].board[l].script]]

\* Mutant of Deliver: the scripts are not compared.
DeliverUnchecked(w) ==
  /\ worker[w].at = "deliver"
  /\ IF course.status = "AWAITING_VIDEO" /\ course.provider = "CREATOR"
     THEN /\ run' = Failed(run, worker[w].run, FALSE)
          /\ Stops(w)
          /\ UNCHANGED <<course, video>>
     ELSE /\ video' = Attached(w)
          /\ course' = [course EXCEPT !.status =
               IF @ \in {"AWAITING_VIDEO", "NEEDS_REVISION"} THEN "IN_REVIEW" ELSE @]
          /\ worker' = [worker EXCEPT ![w] = At(@, "finish")]
          /\ UNCHANGED run
  /\ UNCHANGED <<script, enabled, budget, board, asset, cost, bill, message, crashes>>

\* _deliver: scripts edited meanwhile send the run round again; deliver_video refuses a
\* course whose creator makes the video; a course that moved on only gets the files.
Deliver(w) ==
  /\ worker[w].at = "deliver"
  /\ IF \E l \in Lessons : script[l] # worker[w].board[l].script
     THEN /\ run' = Failed(run, worker[w].run, TRUE)
          /\ Stops(w)
          /\ UNCHANGED <<course, video>>
     ELSE IF course.status = "AWAITING_VIDEO" /\ course.provider = "CREATOR"
     THEN /\ run' = Failed(run, worker[w].run, FALSE)
          /\ Stops(w)
          /\ UNCHANGED <<course, video>>
     ELSE /\ video' = Attached(w)
          /\ course' = [course EXCEPT !.status =
               IF @ \in {"AWAITING_VIDEO", "NEEDS_REVISION"} THEN "IN_REVIEW" ELSE @]
          /\ worker' = [worker EXCEPT ![w] = At(@, "finish")]
          /\ UNCHANGED run
  /\ UNCHANGED <<script, enabled, budget, board, asset, cost, bill, message, crashes>>

\* package_course: build and store, and a checkpoint.
BuildPackage(w) ==
  /\ worker[w].at = "package"
  /\ Checkpoint(w, run, [worker[w] EXCEPT !.at = "channels"])
  /\ UNCHANGED <<courseVars, enabled, budget, board, asset, cost, bill, message, crashes>>

\* Every channel has its package, or its refusal (Packaging).
DeliverChannels(w) ==
  /\ worker[w].at = "channels"
  /\ worker' = [worker EXCEPT ![w] = At(@, "finish")]
  /\ UNCHANGED <<courseVars, enabled, budget, run, board, asset, cost, bill, message, crashes>>

\* The budget is reached: finish writes BLOCKED over what the row says by now, unless
\* the course holds another active run.
BlockRun(w) ==
  LET r == worker[w].run IN
  /\ worker[w].at = "block"
  /\ run' = IF ActiveRuns \subseteq {r} THEN [run EXCEPT ![r].status = "BLOCKED"]
            ELSE Failed(run, r, FALSE)
  /\ Stops(w)
  /\ UNCHANGED <<courseVars, enabled, budget, board, asset, cost, bill, message, crashes>>

\* execute_run ends: finish writes COMPLETED over what the row says by now.
FinishRun(w) ==
  /\ worker[w].at = "finish"
  /\ run' = [run EXCEPT ![worker[w].run].status = "COMPLETED"]
  /\ Stops(w)
  /\ UNCHANGED <<courseVars, enabled, budget, board, asset, cost, bill, message, crashes>>

\* A worker dies; the message it had not acknowledged (acks_late) may come back.
WorkerCrashes(w) ==
  LET r == worker[w].run IN
  /\ "crash" \in Faults
  /\ worker[w].at # "idle"
  /\ crashes < MaxCrashes
  /\ crashes' = crashes + 1
  /\ Stops(w)
  /\ \/ UNCHANGED message
     \/ message[r] < MaxMessages /\ message' = [message EXCEPT ![r] = @ + 1]
  /\ UNCHANGED <<courseVars, enabled, budget, run, board, asset, cost, bill>>

-----------------------------------------------------------------------------
Init ==
  /\ course = [status |-> "FIRST_REVIEW", provider |-> "PRODUCTION_ENGINE"]
  /\ script = [l \in Lessons |-> 0]
  /\ video = [l \in Lessons |-> NoVideo]
  /\ enabled = TRUE
  /\ budget \in Budgets
  /\ run = [r \in Runs |-> NoRun]
  /\ board = [r \in Runs |-> [l \in Lessons |-> NoBoard]]
  /\ asset = {}
  /\ cost = [r \in Runs |-> 0]
  /\ bill = [r \in Runs |-> 0]
  /\ message = [r \in Runs |-> 0]
  /\ worker = [w \in Workers |-> Idle]
  /\ crashes = 0

Works(w) ==
  \/ PlanLesson(w) \/ StorePlan(w) \/ Narrate(w) \/ FilmLesson(w) \/ Deliver(w)
  \/ BuildPackage(w) \/ DeliverChannels(w) \/ BlockRun(w) \/ FinishRun(w)

Workflow ==
  \/ ApproveContent \/ SubmitVideo \/ RejectVideo \/ Resubmit \/ Publish \/ RequestPackaging
  \/ \E p \in {"CREATOR", "PRODUCTION_ENGINE"} : DecideVideo(p)
  \/ \E l \in Lessons : EditLesson(l)

Dispatching(r) == DispatchRun(r) \/ DispatchAges(r) \/ RequeueSilent(r)

Next ==
  \/ Workflow \/ SwitchEngine
  \/ \E b \in Budgets : SetBudget(b)
  \/ \E r \in Runs : CancelRun(r) \/ RetryRun(r) \/ Dispatching(r)
  \/ \E w \in Workers : Works(w) \/ QualityFails(w) \/ ProviderFails(w) \/ WorkerCrashes(w)
  \/ \E w \in Workers, r \in Runs : ClaimRun(w, r)

Spec == Init /\ [][Next]_vars

\* Beat sweeps every minute, the broker does not lose every message, time passes, and
\* workers take what is queued and go on.
Fairness ==
  /\ \A r \in Runs : SF_vars(DispatchRun(r) /\ message' # message)
                     /\ WF_vars(DispatchAges(r)) /\ WF_vars(RequeueSilent(r))
                     /\ SF_vars(\E w \in Workers : ClaimRun(w, r))
  /\ \A w \in Workers : WF_vars(Works(w))

FairSpec == Spec /\ Fairness
-----------------------------------------------------------------------------
(* What must hold.                                                         *)

\* A run is one worker's at a time, through duplicate messages, pauses, retries and
\* crashes, as long as a live worker is not taken for dead; and the row says so until
\* somebody cancels it.
OneWorkerPerRun ==
  "slow" \notin Faults =>
    \A r \in Runs :
      /\ Cardinality(WorkersOn(r)) <= 1
      /\ WorkersOn(r) # {} => run[r].status \in {"RUNNING", "CANCELLED"}

\* The row's spent_amount is the sum of the run's cost rows (ProductionRun.spent_amount),
\* although a worker adds to what it read when it claimed the run.
SpentIsSumOfCosts ==
  "slow" \notin Faults => \A r \in Runs : run[r].spent = cost[r]

\* Where the engine makes the video, reviewers and learners see one of the lesson's own
\* script, whatever is edited, reworked, retried or cancelled while a run is on its way.
ReviewedVideoIsCurrent ==
  course.provider = "PRODUCTION_ENGINE" /\ course.status \in {"IN_REVIEW", "PUBLISHED"} =>
    \A l \in Lessons : video[l] = [made |-> "ENGINE", script |-> script[l]]

\* A worker goes on to a call it will pay for only after it saw its run running and
\* within its budget: what a run spends passes its budget by one lesson's step at most.
BudgetBounds ==
  "slow" \notin Faults =>
    \A w \in Workers : worker[w].at = "planning" => cost[worker[w].run] < worker[w].budget

\* Work that waits is done or given up: as long as the engine stays on, a queued or a
\* running run comes to an end, although messages are lost and workers die.
RunSettles ==
  <>[]enabled =>
    \A r \in Runs : run[r].status \in {"QUEUED", "RUNNING"}
                    ~> run[r].status \notin {"QUEUED", "RUNNING"}

-----------------------------------------------------------------------------
(* What comments of the code promise and the code does not do.  The README *)
(* names for each the configuration that shows it.                         *)

\* spent_amount is the run's actual spend (ProductionRun.spent_amount): what providers
\* were asked for is charged, once no worker still owes it.
SpentIsActualSpend ==
  \A r \in Runs : WorkersOn(r) = {} => run[r].spent = bill[r]

\* Nothing is paid twice (asset_store): as many calls as there are results.
NothingPaidTwice ==
  \A r \in Runs : bill[r] <= Cardinality({k \in asset : k.kind = "NARRATION"})
                              + Cardinality({l \in Lessons : board[r][l] # NoBoard})

\* A cancelled run stays cancelled.
CancelIsFinal ==
  [][\A r \in Runs : run[r].status = "CANCELLED" => run'[r].status = "CANCELLED"]_vars

\* The engine leaves a course alone whose creator makes the video.
CreatorsVideoKept ==
  [][course.provider = "CREATOR" /\ video # video' => \A l \in Lessons : video'[l].made = "CREATOR"]_vars

\* A course published with the engine on has a run that packages it.
PublishedIsPackaged ==
  [][course.status # "PUBLISHED" /\ course'.status = "PUBLISHED" /\ enabled =>
     \E r \in Runs : run'[r].kind = "PACKAGE"]_vars
=============================================================================

------------------------ MODULE ProductionRun_proofs ------------------------
(* A run is one worker's and its row is true of its costs, and what reviewers *)
(* see is current, for any number of workers, runs, lessons, edits and faults. *)
EXTENDS ProductionRun, TLAPS, FiniteSetTheorems, WellFoundedInduction

\* A busy worker has a run; one that plans or films has a lesson left.
MemoryOK(m) ==
  m.at # "idle" => /\ m.run \in Runs
                   /\ m.at \in {"plan", "planning", "film", "filming"} => m.done # Lessons

WorkersOK == worker \in [Workers -> Memory] /\ \A w \in Workers : MemoryOK(worker[w])
RowsOK == run \in [Runs -> RunRow]

TypeInv == TypeOK /\ \A w \in Workers : MemoryOK(worker[w])

-----------------------------------------------------------------------------
(* Least and greatest numbers.                                             *)

LEMMA Least ==
  ASSUME NEW S \in SUBSET Nat, S # {}
  PROVE  \E n \in S : \A m \in S : n =< m
<1> DEFINE Less == OpToRel(<, Nat)
<1>1. IsWellFoundedOn(Less, Nat)
  BY NatLessThanWellFounded
<1>2. \A n, m \in Nat : m < n => <<m, n>> \in Less
  BY DEF OpToRel
<1> HIDE DEF Less
<1>3. PICK n \in S : \A m \in S : ~(<<m, n>> \in Less)
  BY <1>1, WFMin
<1>4. ASSUME NEW m \in S PROVE n =< m
  <2>1. n \in Nat /\ m \in Nat
    OBVIOUS
  <2>2. ~(m < n)
    BY <1>2, <1>3, <2>1
  <2> QED
    BY <2>1, <2>2
<1> QED
  BY <1>4

LEMMA MinIn ==
  ASSUME NEW S \in SUBSET Nat, S # {}
  PROVE  Min(S) \in S
BY Least DEF Min

LEMMA MaxIn ==
  ASSUME NEW n \in Nat, NEW S \in SUBSET (1..n), S # {}
  PROVE  Max(S) \in S
<1> DEFINE D == {d \in Nat : \E s \in S : d = n - s}
<1>1. ASSUME NEW s \in S PROVE n - s \in D /\ s \in 1..n
  <2>1. s \in 1..n
    OBVIOUS
  <2> QED
    BY <2>1
<1>2. D \in SUBSET Nat /\ D # {}
  BY <1>1
<1>3. PICK e \in D : \A d \in D : e =< d
  <2> HIDE DEF D
  <2> QED
    BY <1>2, Least
<1>4. PICK s \in S : e = n - s
  OBVIOUS
<1>5. ASSUME NEW t \in S PROVE s >= t
  BY <1>1, <1>3, <1>4
<1> QED
  BY <1>5 DEF Max

-----------------------------------------------------------------------------
(* Types: a step leaves rows, workers and storyboards well-formed.         *)

LEMMA Constants ==
  /\ Runs \subseteq Nat /\ Lessons \subseteq Nat /\ Lessons # {}
  /\ 0 \in 0..MaxEdits /\ NoBoard \in Boards /\ NoRework \in Instructions
  /\ NoRun \in RunRow /\ Idle \in Memory /\ MemoryOK(Idle)
<1>1. Runs \subseteq Nat /\ Lessons \subseteq Nat /\ Lessons # {} /\ 0 \in 0..MaxEdits
  BY SizeAssumption DEF Runs, Lessons
<1>2. NoBoard \in Boards /\ NoRework \in Instructions
  BY DEF Boards, NoRework, Instructions
<1>3. NoRun \in RunRow
  BY <1>2, SizeAssumption DEF NoRun, RunRow, RunStatuses
<1>4. Idle \in Memory
  BY <1>1, <1>2 DEF Idle, Memory, Steps, Salts
<1>5. MemoryOK(Idle)
  BY DEF MemoryOK, Idle
<1> QED BY <1>1, <1>2, <1>3, <1>4, <1>5

\* What the code writes into a row keeps it one.
LEMMA RowTyped ==
  ASSUME NEW row \in RunRow
  PROVE  /\ \A s \in RunStatuses, d \in BOOLEAN :
              /\ [row EXCEPT !.status = s] \in RunRow
              /\ [row EXCEPT !.status = s, !.dispatched = d] \in RunRow
         /\ \A d \in BOOLEAN : [row EXCEPT !.dispatched = d] \in RunRow
         /\ \A n \in Nat : [row EXCEPT !.spent = n] \in RunRow
         /\ \A i \in Instructions : [row EXCEPT !.instructions = i] \in RunRow
<1>1. \A s \in RunStatuses : [row EXCEPT !.status = s] \in RunRow
  BY DEF RunRow
<1>2. \A s \in RunStatuses, d \in BOOLEAN :
        [row EXCEPT !.status = s, !.dispatched = d] \in RunRow
  BY DEF RunRow
<1>3. \A d \in BOOLEAN : [row EXCEPT !.dispatched = d] \in RunRow
  BY DEF RunRow
<1>4. \A n \in Nat : [row EXCEPT !.spent = n] \in RunRow
  BY DEF RunRow
<1>5. \A i \in Instructions : [row EXCEPT !.instructions = i] \in RunRow
  BY DEF RunRow
<1> QED BY <1>1, <1>2, <1>3, <1>4, <1>5

LEMMA RequestTyped ==
  ASSUME RowsOK, budget \in Budgets, NEW kind \in {"VIDEO", "PACKAGE"},
         NEW instructions \in Instructions, RequestProduction(kind, instructions)
  PROVE  RowsOK'
<1>1. CASE ActiveRuns # {}
  <2>1. ASSUME NEW r \in Runs
        PROVE  [run[r] EXCEPT !.instructions = Merged(@, instructions)] \in RunRow
    <3>1. run[r] \in RunRow /\ run[r].instructions \in Instructions
      BY DEF RowsOK, RunRow
    <3>2. Merged(run[r].instructions, instructions) \in Instructions
      BY <3>1 DEF Merged, Instructions
    <3> QED
      BY <3>1, <3>2, RowTyped
  <2> QED
    BY <1>1, <2>1 DEF RequestProduction, RowsOK
<1>2. CASE ActiveRuns = {}
  <2>1. Min(FreeRows) \in Runs
    BY <1>2, MinIn, Constants DEF RequestProduction, FreeRows
  <2> DEFINE row == [NoRun EXCEPT !.kind = kind, !.instructions = instructions,
                       !.budget = budget,
                       !.status = IF RunQuote(kind) > budget THEN "BLOCKED" ELSE "QUEUED"]
  <2>2. row \in RunRow
    BY Constants DEF RunRow, RunStatuses
  <2> HIDE DEF row
  <2>3. run' = [run EXCEPT ![Min(FreeRows)] = row]
    BY <1>2 DEF RequestProduction, row
  <2> QED
    BY <2>1, <2>2, <2>3 DEF RowsOK
<1> QED BY <1>1, <1>2

LEMMA FailedTyped ==
  ASSUME NEW rows \in [Runs -> RunRow], NEW r \in Runs, NEW retry \in BOOLEAN
  PROVE  Failed(rows, r, retry) \in [Runs -> RunRow]
<1>1. /\ [rows[r] EXCEPT !.status = "QUEUED", !.dispatched = FALSE] \in RunRow
      /\ [rows[r] EXCEPT !.status = "FAILED"] \in RunRow
  BY RowTyped DEF RunStatuses
<1> QED
  BY <1>1 DEF Failed

LEMMA IdleTyped ==
  ASSUME WorkersOK, NEW w \in Workers, worker' = [worker EXCEPT ![w] = Idle]
  PROVE  WorkersOK'
BY Constants DEF WorkersOK

LEMMA MemoryTyped ==
  ASSUME WorkersOK, NEW w \in Workers, NEW m \in Memory, MemoryOK(m),
         worker' = [worker EXCEPT ![w] = m]
  PROVE  WorkersOK'
BY DEF WorkersOK

LEMMA AtTyped ==
  ASSUME NEW m \in Memory, m.run \in Runs, NEW step \in {"block", "finish"}
  PROVE  At(m, step) \in Memory /\ MemoryOK(At(m, step))
<1>1. At(m, step) \in Memory
  BY Constants DEF At, Memory, Salts, Steps
<1>2. At(m, step).at = step /\ At(m, step).run = m.run
  BY DEF At, Idle
<1> QED BY <1>1, <1>2 DEF MemoryOK

LEMMA CheckpointTyped ==
  ASSUME WorkersOK, NEW w \in Workers, NEW rows \in [Runs -> RunRow],
         NEW m \in Memory, m.run \in Runs, MemoryOK(m), Checkpoint(w, rows, m)
  PROVE  RowsOK' /\ WorkersOK'
<1>1. RowsOK'
  <2>1. [rows[m.run] EXCEPT !.status = "QUEUED", !.dispatched = FALSE] \in RunRow
    BY RowTyped DEF RunStatuses
  <2> QED
    BY <2>1 DEF Checkpoint, RowsOK
<1>2. WorkersOK'
  <2>1. PICK n : n \in {Idle, At(m, "block"), m} /\ worker' = [worker EXCEPT ![w] = n]
    BY DEF Checkpoint
  <2>2. n \in Memory /\ MemoryOK(n)
    BY <2>1, Constants, AtTyped
  <2> QED
    BY <2>1, <2>2, MemoryTyped
<1> QED BY <1>1, <1>2

\* The workflow and the administrators.
LEMMA WorkflowTyped ==
  ASSUME TypeInv, Workflow
  PROVE  TypeInv'
<1> USE DEF WorkersOK
<1>0. RowsOK /\ WorkersOK /\ budget \in Budgets /\ NoRework \in Instructions
  BY Constants DEF TypeInv, TypeOK, RowsOK
<1>1. WorkersOK' /\ UNCHANGED <<enabled, budget, board, asset, cost, bill, message, crashes>>
  BY <1>0 DEF Workflow, ApproveContent, DecideVideo, SubmitVideo, RejectVideo, EditLesson,
              Resubmit, Publish, RequestPackaging, WorkflowOnly
<1>2. ASSUME CancelActiveRun PROVE RowsOK'
  BY <1>0, <1>2, RowTyped DEF CancelActiveRun, RowsOK, RunStatuses
<1>3. ASSUME UNCHANGED run PROVE RowsOK'
  BY <1>0, <1>3 DEF RowsOK
<1>4. RowsOK'
  <2>1. CASE ApproveContent
    BY <2>1, <1>0, RequestTyped DEF ApproveContent
  <2>2. ASSUME NEW p \in {"CREATOR", "PRODUCTION_ENGINE"}, DecideVideo(p) PROVE RowsOK'
    BY <2>2, <1>0, <1>2, RequestTyped DEF DecideVideo
  <2>3. CASE SubmitVideo \/ \E l \in Lessons : EditLesson(l)
    BY <2>3, <1>3 DEF SubmitVideo, EditLesson
  <2>4. CASE RejectVideo
    <3>1. ASSUME NEW targets \in SUBSET Lessons, NEW fix \in Fixes
          PROVE  [l \in Lessons |-> IF l \in targets THEN {fix} ELSE {}] \in Instructions
      BY KindAssumption DEF Instructions
    <3> QED
      BY <2>4, <1>0, <1>3, <3>1, RequestTyped DEF RejectVideo
  <2>5. CASE Resubmit
    BY <2>5, <1>0, <1>3, RequestTyped DEF Resubmit
  <2>6. CASE Publish
    BY <2>6, <1>0, <1>3, RequestTyped DEF Publish
  <2>7. CASE RequestPackaging
    BY <2>7, <1>0, RequestTyped DEF RequestPackaging
  <2> QED
    BY <2>1, <2>2, <2>3, <2>4, <2>5, <2>6, <2>7 DEF Workflow
<1>5. course' \in [status : CourseStatuses, provider : {"PRODUCTION_ENGINE", "CREATOR"}]
  BY DEF TypeInv, TypeOK, Workflow, ApproveContent, DecideVideo, SubmitVideo, RejectVideo,
         EditLesson, Resubmit, Publish, RequestPackaging, courseVars, CourseStatuses
<1>6. script' \in [Lessons -> 0..MaxEdits]
  <2>1. ASSUME NEW l \in Lessons, EditLesson(l) PROVE script' \in [Lessons -> 0..MaxEdits]
    BY <2>1, SizeAssumption DEF TypeInv, TypeOK, EditLesson
  <2> QED
    BY <2>1 DEF TypeInv, TypeOK, Workflow, ApproveContent, DecideVideo, SubmitVideo,
                RejectVideo, Resubmit, Publish, RequestPackaging, courseVars
<1>7. video' \in [Lessons -> Videos]
  BY DEF TypeInv, TypeOK, Workflow, ApproveContent, DecideVideo, SubmitVideo, RejectVideo,
         EditLesson, Resubmit, Publish, RequestPackaging, courseVars, Videos
<1> QED
  BY <1>1, <1>4, <1>5, <1>6, <1>7 DEF TypeInv, TypeOK, RowsOK

LEMMA RunsTyped ==
  ASSUME TypeInv,
         \/ SwitchEngine \/ \E b \in Budgets : SetBudget(b)
         \/ \E r \in Runs : CancelRun(r) \/ RetryRun(r) \/ Dispatching(r)
  PROVE  TypeInv'
<1>0. RowsOK /\ budget \in Budgets
  BY DEF TypeInv, TypeOK, RowsOK
<1>1. CASE SwitchEngine \/ \E b \in Budgets : SetBudget(b)
  BY <1>1 DEF TypeInv, TypeOK, SwitchEngine, SetBudget, courseVars
<1>2. ASSUME NEW r \in Runs, CancelRun(r) PROVE TypeInv'
  <2>1. RowsOK'
    BY <1>0, <1>2, RowTyped DEF CancelRun, RowsOK, RunStatuses
  <2> QED
    BY <1>2, <2>1 DEF TypeInv, TypeOK, RowsOK, CancelRun, courseVars
<1>3. ASSUME NEW r \in Runs, RetryRun(r) PROVE TypeInv'
  <2>0. run[r] \in RunRow /\ 0 \in 0..MaxAttempts
    BY <1>0, SizeAssumption DEF RowsOK
  <2>1. [run[r] EXCEPT !.status = "QUEUED", !.attempts = 0, !.dispatched = FALSE,
                       !.budget = budget] \in RunRow
    BY <1>0, <2>0 DEF RunRow, RunStatuses
  <2>2. RowsOK'
    BY <1>0, <1>3, <2>1 DEF RetryRun, Requeued, RowsOK
  <2> QED
    BY <1>3, <2>2 DEF TypeInv, TypeOK, RowsOK, RetryRun, courseVars
<1>4. ASSUME NEW r \in Runs, DispatchRun(r) PROVE TypeInv'
  <2>1. RowsOK'
    BY <1>0, <1>4, RowTyped DEF DispatchRun, RowsOK
  <2>2. message' \in [Runs -> 0..MaxMessages]
    BY <1>4, SizeAssumption DEF TypeInv, TypeOK, DispatchRun
  <2> QED
    BY <1>4, <2>1, <2>2 DEF TypeInv, TypeOK, RowsOK, DispatchRun, courseVars
<1>5. ASSUME NEW r \in Runs, DispatchAges(r) PROVE TypeInv'
  <2>1. RowsOK'
    BY <1>0, <1>5, RowTyped DEF DispatchAges, RowsOK
  <2> QED
    BY <1>5, <2>1 DEF TypeInv, TypeOK, RowsOK, DispatchAges, courseVars
<1>6. ASSUME NEW r \in Runs, RequeueSilent(r) PROVE TypeInv'
  <2>1. [run[r] EXCEPT !.status = "QUEUED", !.dispatched = FALSE] \in RunRow
    BY <1>0, RowTyped DEF RowsOK, RunStatuses
  <2>2. RowsOK'
    BY <1>0, <1>6, <2>1 DEF RequeueSilent, RowsOK
  <2> QED
    BY <1>6, <2>2 DEF TypeInv, TypeOK, RowsOK, RequeueSilent, courseVars
<1> QED
  BY <1>1, <1>2, <1>3, <1>4, <1>5, <1>6 DEF Dispatching

\* The lesson a planning or filming worker is at.
LEMMA LessonTyped ==
  ASSUME TypeInv, NEW w \in Workers,
         worker[w].at \in {"plan", "planning", "film", "filming"}
  PROVE  Lesson(w) \in Lessons
<1>1. Todo(w) \in SUBSET Nat /\ Todo(w) # {}
  BY Constants DEF TypeInv, TypeOK, Memory, MemoryOK, Todo
<1> QED
  BY <1>1, MinIn DEF Lesson, Todo

\* A worker that planned or filmed a lesson has one left, or goes on to the next phase.
LEMMA PlannedTyped ==
  ASSUME TypeInv, NEW w \in Workers, NEW l \in Lessons, NEW b \in Boards,
         worker[w].at # "idle"
  PROVE  /\ Planned(w, l, b) \in Memory /\ MemoryOK(Planned(w, l, b))
         /\ Planned(w, l, b).run = worker[w].run
         /\ Planned(w, l, b).spent = worker[w].spent
         /\ Planned(w, l, b).at \in {"plan", "film"}
<1> DEFINE m == [worker[w] EXCEPT !.board[l] = b, !.done = @ \cup {l}]
           more == [m EXCEPT !.at = "plan"]
           all == [m EXCEPT !.at = "film", !.done = {}, !.seen = Idle.seen]
<1>0. worker[w] \in Memory /\ worker[w].run \in Runs
  BY DEF TypeInv, TypeOK, MemoryOK
<1>1. /\ m \in Memory /\ m.run = worker[w].run /\ m.spent = worker[w].spent
  BY <1>0 DEF Memory
<1> HIDE DEF m
<1>2. more \in Memory /\ more.run = m.run /\ more.spent = m.spent /\ more.at = "plan"
      /\ more.done = m.done
  BY <1>1 DEF Memory, Steps
<1>3. Idle.seen \in [Lessons -> 0..MaxEdits]
  BY Constants DEF Memory
<1>4. all \in Memory /\ all.run = m.run /\ all.spent = m.spent /\ all.at = "film"
      /\ all.done = {}
  BY <1>1, <1>3 DEF Memory, Steps
<1>5. Planned(w, l, b) = IF m.done # Lessons THEN more ELSE all
  BY DEF Planned, m
<1> HIDE DEF more, all
<1> QED
  BY <1>0, <1>1, <1>2, <1>4, <1>5, Constants DEF MemoryOK

LEMMA FilmedTyped ==
  ASSUME TypeInv, NEW w \in Workers, NEW l \in Lessons, worker[w].at # "idle"
  PROVE  /\ Filmed(w, l) \in Memory /\ MemoryOK(Filmed(w, l))
         /\ Filmed(w, l).run = worker[w].run
         /\ Filmed(w, l).spent = worker[w].spent
         /\ Filmed(w, l).at \in {"film", "deliver"}
<1> DEFINE m == [worker[w] EXCEPT !.done = @ \cup {l}, !.owed = 0]
           more == [m EXCEPT !.at = "film"]
           all == [m EXCEPT !.at = "deliver", !.done = {}, !.instructions = NoRework]
<1>0. worker[w] \in Memory /\ worker[w].run \in Runs
  BY DEF TypeInv, TypeOK, MemoryOK
<1>1. m \in Memory /\ m.run = worker[w].run /\ m.spent = worker[w].spent
  <2>1. worker[w].done \cup {l} \in SUBSET Lessons /\ 0 \in 0..1
    BY <1>0 DEF Memory
  <2>2. \A d \in SUBSET Lessons, n \in 0..1 :
          [worker[w] EXCEPT !.done = d, !.owed = n] \in Memory
    BY <1>0 DEF Memory
  <2> QED
    BY <1>0, <2>1, <2>2 DEF Memory
<1> HIDE DEF m
<1>2. more \in Memory /\ more.run = m.run /\ more.spent = m.spent /\ more.at = "film"
      /\ more.done = m.done
  BY <1>1 DEF Memory, Steps
<1>3. all \in Memory /\ all.run = m.run /\ all.spent = m.spent /\ all.at = "deliver"
  BY <1>1, Constants DEF Memory, Steps
<1>4. Filmed(w, l) = IF m.done # Lessons THEN more ELSE all
  BY DEF Filmed, m
<1> HIDE DEF more, all
<1> QED
  BY <1>0, <1>1, <1>2, <1>3, <1>4 DEF MemoryOK

\* A worker may write another step, or more money spent, over its memory.
LEMMA MemoryChanges ==
  ASSUME NEW m \in Memory
  PROVE  /\ \A step \in Steps : [m EXCEPT !.at = step] \in Memory
         /\ \A n \in Nat : [m EXCEPT !.spent = @ + n] \in Memory
         /\ \A step \in Steps : [m EXCEPT !.at = step, !.owed = 1] \in Memory
<1>1. \A step \in Steps : [m EXCEPT !.at = step] \in Memory
  BY DEF Memory
<1>2. \A n \in Nat : [m EXCEPT !.spent = @ + n] \in Memory
  <2>1. \A n \in Nat : m.spent + n \in Nat
    BY DEF Memory
  <2> QED
    BY <2>1 DEF Memory
<1>3. \A step \in Steps, n \in 0..1 : [m EXCEPT !.at = step, !.owed = n] \in Memory
  BY DEF Memory
<1>4. 1 \in 0..1
  OBVIOUS
<1> QED BY <1>1, <1>2, <1>3, <1>4

LEMMA ChargedTyped ==
  ASSUME RowsOK, NEW r \in Runs, NEW m \in Memory, NEW n \in Nat
  PROVE  Charged(r, m, n) \in [Runs -> RunRow]
<1>1. m.spent + n \in Nat
  BY DEF Memory
<1>2. [run[r] EXCEPT !.spent = m.spent + n] \in RunRow
  BY <1>1, RowTyped DEF RowsOK
<1> QED
  BY <1>2 DEF Charged, RowsOK

\* The parts of a lesson the store keys by.
LEMMA KeysTyped ==
  ASSUME TypeInv, NEW w \in Workers, NEW l \in Lessons, worker[w].at # "idle"
  PROVE  Narration(w, l) \in Key /\ LessonVideo(w, l) \in Key
<1>1. worker[w].board[l] \in Boards /\ worker[w].run \in Salts /\ 0 \in Salts
  BY DEF TypeInv, TypeOK, Memory, Salts
<1>2. Narration(w, l) \in Key
  BY <1>1 DEF Narration, Key
<1> DEFINE n == Narration(w, l)
<1>3. LessonVideo(w, l) = [n EXCEPT !.kind = "LESSON_VIDEO",
                            !.render = IF Redo(w, l, "RERENDER") THEN worker[w].run ELSE 0]
  BY DEF LessonVideo
<1> HIDE DEF n
<1>4. n \in Key
  BY <1>2 DEF n
<1>5. LessonVideo(w, l) \in Key
  BY <1>1, <1>3, <1>4 DEF Key
<1> QED BY <1>2, <1>5

\* The steps of a worker.
LEMMA WorkTyped ==
  ASSUME TypeInv, NEW w \in Workers,
         \/ Works(w) \/ QualityFails(w) \/ ProviderFails(w) \/ WorkerCrashes(w)
  PROVE  TypeInv'
<1> DEFINE r == worker[w].run
           l == Lesson(w)
<1>0. /\ RowsOK /\ WorkersOK /\ worker[w] \in Memory /\ MemoryOK(worker[w])
      /\ worker[w].at # "idle" /\ r \in Runs
  <2>1. worker[w].at # "idle"
    BY DEF Works, PlanLesson, StorePlan, Narrate, FilmLesson, Deliver, BuildPackage,
           DeliverChannels, BlockRun, FinishRun, QualityFails, ProviderFails, WorkerCrashes
  <2> QED
    BY <2>1 DEF TypeInv, TypeOK, RowsOK, WorkersOK, MemoryOK
<1>1. ASSUME RowsOK', WorkersOK',
             UNCHANGED <<courseVars, enabled, budget, board, asset, cost, bill, message, crashes>>
      PROVE  TypeInv'
  BY <1>1 DEF TypeInv, TypeOK, RowsOK, WorkersOK, courseVars
<1>2. ASSUME Goes(w, "filming"), worker[w].at = "film" PROVE WorkersOK'
  <2> DEFINE m == [worker[w] EXCEPT !.at = "filming"]
  <2>1. m \in Memory
    BY <1>0, MemoryChanges DEF Steps
  <2>2. MemoryOK(m)
    BY <1>0, <1>2 DEF MemoryOK, Memory
  <2>3. worker' = [worker EXCEPT ![w] = m]
    BY <1>0, <1>2 DEF Goes, WorkersOK
  <2> HIDE DEF m
  <2> QED
    BY <1>0, <2>1, <2>2, <2>3, MemoryTyped
<1>3. CASE PlanLesson(w)
  <2>1. l \in Lessons /\ worker[w].seen[l] \in 0..MaxEdits
    BY <1>0, <1>3, LessonTyped DEF PlanLesson, Memory
  <2>2. ASSUME NEW b \in Boards, worker' = [worker EXCEPT ![w] = Planned(w, l, b)]
        PROVE  WorkersOK'
    BY <1>0, <2>1, <2>2, PlannedTyped, MemoryTyped
  <2>3. CASE board[r][l] # NoBoard /\ board[r][l].script = worker[w].seen[l]
    <3>1. WorkersOK' /\ RowsOK' /\ UNCHANGED board
      BY <1>0, <1>3, <2>1, <2>2, <2>3 DEF PlanLesson, TypeInv, TypeOK, RowsOK
    <3> QED
      BY <1>1, <1>3, <3>1 DEF PlanLesson
  <2>4. ASSUME NEW earlier \in SUBSET Runs, earlier # {},
               board' = [board EXCEPT ![r][l] = board[Max(earlier)][l]],
               worker' = [worker EXCEPT ![w] = Planned(w, l, board[Max(earlier)][l])],
               UNCHANGED run
        PROVE  TypeInv'
    <3>1. Max(earlier) \in Runs
      BY <2>4, MaxIn, SizeAssumption DEF Runs
    <3>2. board[Max(earlier)][l] \in Boards
      BY <2>1, <3>1 DEF TypeInv, TypeOK
    <3>3. WorkersOK' /\ RowsOK'
      BY <1>0, <2>2, <2>4, <3>2 DEF RowsOK
    <3>4. board' \in [Runs -> [Lessons -> Boards]]
      BY <1>0, <2>1, <2>4, <3>2 DEF TypeInv, TypeOK
    <3> QED
      BY <1>3, <3>3, <3>4 DEF TypeInv, TypeOK, RowsOK, WorkersOK, PlanLesson, courseVars
  <2>5. ASSUME Checkpoint(w, run, [worker[w] EXCEPT !.at = "planning"]), UNCHANGED board
        PROVE  TypeInv'
    <3> DEFINE m == [worker[w] EXCEPT !.at = "planning"]
    <3>1. m \in Memory
      BY <1>0, MemoryChanges DEF Steps
    <3>2. MemoryOK(m) /\ m.run \in Runs
      BY <1>0, <1>3 DEF MemoryOK, Memory, PlanLesson
    <3> HIDE DEF m
    <3>3. Checkpoint(w, run, m)
      BY <2>5 DEF m
    <3>4. WorkersOK' /\ RowsOK'
      BY <1>0, <3>1, <3>2, <3>3, CheckpointTyped DEF RowsOK
    <3> QED
      BY <1>1, <1>3, <2>5, <3>4 DEF PlanLesson
  <2> DEFINE earlier == IF Redo(w, l, "RESTORYBOARD") THEN {}
                        ELSE Earlier(r, l, worker[w].seen[l])
  <2>6. earlier \in SUBSET Runs
    BY DEF Earlier
  <2>7. \/ board[r][l] # NoBoard /\ board[r][l].script = worker[w].seen[l]
        \/ /\ earlier # {}
           /\ board' = [board EXCEPT ![r][l] = board[Max(earlier)][l]]
           /\ worker' = [worker EXCEPT ![w] = Planned(w, l, board[Max(earlier)][l])]
           /\ UNCHANGED run
        \/ Checkpoint(w, run, [worker[w] EXCEPT !.at = "planning"]) /\ UNCHANGED board
    BY <1>3 DEF PlanLesson
  <2> HIDE DEF earlier
  <2> QED
    BY <2>3, <2>4, <2>5, <2>6, <2>7
<1>4. CASE StorePlan(w)
  <2> DEFINE new == [script |-> worker[w].seen[l], by |-> r]
             p == Planned(w, l, new)
             m == [p EXCEPT !.spent = @ + 1]
  <2>1. l \in Lessons /\ worker[w].seen[l] \in 0..MaxEdits
    BY <1>0, <1>4, LessonTyped DEF StorePlan, Memory
  <2>2. new \in Boards
    BY <1>0, <2>1 DEF Boards, Board
  <2>3. board' \in [Runs -> [Lessons -> Boards]]
    BY <1>0, <1>4, <2>1, <2>2 DEF TypeInv, TypeOK, StorePlan
  <2>4. cost' \in [Runs -> Nat] /\ bill' \in [Runs -> Nat]
    BY <1>0, <1>4 DEF TypeInv, TypeOK, StorePlan
  <2>5. p \in Memory /\ MemoryOK(p) /\ p.run = r /\ p.at \in {"plan", "film"}
    BY <1>0, <2>1, <2>2, PlannedTyped
  <2>6. Charged(r, worker[w], 1) \in [Runs -> RunRow]
    BY <1>0, ChargedTyped
  <2>7. Checkpoint(w, Charged(r, worker[w], 1), m)
    BY <1>4 DEF StorePlan
  <2> HIDE DEF p
  <2>8. m \in Memory
    BY <2>5, MemoryChanges
  <2>9. m.run \in Runs /\ MemoryOK(m)
    BY <1>0, <2>5 DEF MemoryOK, Memory
  <2>10. WorkersOK' /\ RowsOK'
    <3> HIDE DEF m
    <3> QED
      BY <1>0, <2>6, <2>7, <2>8, <2>9, CheckpointTyped
  <2> QED
    BY <1>4, <2>3, <2>4, <2>10 DEF TypeInv, TypeOK, RowsOK, WorkersOK, StorePlan, courseVars
<1>5. CASE Narrate(w)
  <2>1. l \in Lessons /\ Narration(w, l) \in Key
    BY <1>0, <1>5, LessonTyped, KeysTyped DEF Narrate
  <2>2. asset' \subseteq Key /\ bill' \in [Runs -> Nat]
    BY <1>0, <1>5, <2>1 DEF TypeInv, TypeOK, Narrate
  <2>3. ASSUME worker' = [worker EXCEPT ![w].at = "filming", ![w].owed = 1]
        PROVE  WorkersOK'
    <3> DEFINE m == [worker[w] EXCEPT !.at = "filming", !.owed = 1]
    <3>1. m \in Memory
      BY <1>0, MemoryChanges DEF Steps
    <3>2. MemoryOK(m)
      BY <1>0, <1>5 DEF MemoryOK, Memory, Narrate
    <3>3. worker' = [worker EXCEPT ![w] = m]
      BY <1>0, <2>3 DEF WorkersOK
    <3> HIDE DEF m
    <3> QED
      BY <1>0, <3>1, <3>2, <3>3, MemoryTyped
  <2>4. WorkersOK'
    BY <1>2, <1>5, <2>3 DEF Narrate
  <2> QED
    BY <1>5, <2>2, <2>4 DEF TypeInv, TypeOK, WorkersOK, Narrate, courseVars
<1>6. CASE FilmLesson(w)
  <2> DEFINE f == Filmed(w, l)
             m == [f EXCEPT !.spent = @ + worker[w].owed]
             rows == IF worker[w].owed = 0 THEN run ELSE Charged(r, worker[w], worker[w].owed)
  <2>1. l \in Lessons /\ LessonVideo(w, l) \in Key /\ worker[w].owed \in Nat
    BY <1>0, <1>6, LessonTyped, KeysTyped DEF FilmLesson, Memory
  <2>2. asset' \subseteq Key /\ cost' \in [Runs -> Nat]
    BY <1>0, <1>6, <2>1 DEF TypeInv, TypeOK, FilmLesson
  <2>3. f \in Memory /\ MemoryOK(f) /\ f.run = r
    BY <1>0, <2>1, FilmedTyped
  <2>4. rows \in [Runs -> RunRow]
    BY <1>0, <2>1, ChargedTyped DEF RowsOK
  <2>5. \/ run' = rows /\ worker' = [worker EXCEPT ![w] = m]
        \/ Checkpoint(w, rows, m)
    BY <1>6 DEF FilmLesson
  <2> HIDE DEF f
  <2>6. m \in Memory
    BY <2>1, <2>3, MemoryChanges
  <2>7. m.run \in Runs /\ MemoryOK(m)
    BY <1>0, <2>3 DEF MemoryOK, Memory
  <2>8. WorkersOK' /\ RowsOK'
    <3> HIDE DEF m, rows
    <3> QED
      BY <1>0, <2>4, <2>5, <2>6, <2>7, CheckpointTyped, MemoryTyped DEF RowsOK
  <2> QED
    BY <1>6, <2>2, <2>8 DEF TypeInv, TypeOK, RowsOK, WorkersOK, FilmLesson, courseVars
<1>7. CASE QualityFails(w)
  <2> DEFINE rows == IF worker[w].owed = 0 THEN run ELSE Charged(r, worker[w], worker[w].owed)
  <2>1. worker[w].owed \in Nat
    BY <1>0 DEF Memory
  <2>2. rows \in [Runs -> RunRow]
    BY <1>0, <2>1, ChargedTyped DEF RowsOK
  <2>3. run' = Failed(rows, r, FALSE)
    BY <1>7 DEF QualityFails
  <2> HIDE DEF rows
  <2>4. RowsOK' /\ WorkersOK'
    BY <1>0, <1>7, <2>2, <2>3, FailedTyped, IdleTyped DEF RowsOK, QualityFails, Stops
  <2>5. cost' \in [Runs -> Nat]
    BY <1>0, <1>7, <2>1 DEF TypeInv, TypeOK, QualityFails
  <2> QED
    BY <1>7, <2>4, <2>5 DEF TypeInv, TypeOK, RowsOK, WorkersOK, QualityFails, courseVars
<1>8. CASE ProviderFails(w)
  <2>1. RowsOK' /\ WorkersOK'
    BY <1>0, <1>8, FailedTyped, IdleTyped DEF RowsOK, ProviderFails, Stops
  <2> QED
    BY <1>1, <1>8, <2>1 DEF ProviderFails
<1>9. ASSUME worker' = [worker EXCEPT ![w] = At(@, "finish")] PROVE WorkersOK'
  <2> DEFINE m == At(worker[w], "finish")
  <2>1. m \in Memory /\ MemoryOK(m)
    BY <1>0, AtTyped
  <2>2. worker' = [worker EXCEPT ![w] = m]
    BY <1>0, <1>9 DEF WorkersOK
  <2> HIDE DEF m
  <2> QED
    BY <1>0, <2>1, <2>2, MemoryTyped
<1>10. CASE Deliver(w)
  <2>1. WorkersOK' /\ RowsOK'
    BY <1>0, <1>9, <1>10, FailedTyped, IdleTyped DEF Deliver, Stops, RowsOK
  <2>2. Attached(w) \in [Lessons -> Videos]
    <3>1. \A k \in Lessons : worker[w].board[k].script \in 0..MaxEdits
      BY <1>0, Constants DEF Memory, Boards, Board, NoBoard
    <3> QED
      BY <3>1 DEF Attached, Videos
  <2>3. video' \in [Lessons -> Videos]
    BY <1>10, <2>2 DEF Deliver, TypeInv, TypeOK
  <2>4. course' \in [status : CourseStatuses, provider : {"PRODUCTION_ENGINE", "CREATOR"}]
    BY <1>10 DEF Deliver, TypeInv, TypeOK, CourseStatuses
  <2> QED
    BY <1>10, <2>1, <2>3, <2>4 DEF TypeInv, TypeOK, RowsOK, WorkersOK, Deliver
<1>11. CASE BuildPackage(w)
  <2> DEFINE m == [worker[w] EXCEPT !.at = "channels"]
  <2>1. m \in Memory
    BY <1>0, MemoryChanges DEF Steps
  <2>2. MemoryOK(m) /\ m.run \in Runs
    BY <1>0 DEF MemoryOK, Memory
  <2>3. Checkpoint(w, run, m)
    BY <1>11 DEF BuildPackage
  <2> HIDE DEF m
  <2>4. WorkersOK' /\ RowsOK'
    BY <1>0, <2>1, <2>2, <2>3, CheckpointTyped DEF RowsOK
  <2> QED
    BY <1>1, <1>11, <2>4 DEF BuildPackage
<1>12. CASE DeliverChannels(w)
  BY <1>0, <1>1, <1>9, <1>12 DEF DeliverChannels, RowsOK
<1>13. CASE BlockRun(w)
  <2>1. [run[r] EXCEPT !.status = "BLOCKED"] \in RunRow
    BY <1>0, RowTyped DEF RowsOK, RunStatuses
  <2>2. RowsOK' /\ WorkersOK'
    BY <1>0, <1>13, <2>1, FailedTyped, IdleTyped DEF BlockRun, Stops, RowsOK
  <2> QED
    BY <1>1, <1>13, <2>2 DEF BlockRun
<1>14. CASE FinishRun(w)
  <2>1. [run[r] EXCEPT !.status = "COMPLETED"] \in RunRow
    BY <1>0, RowTyped DEF RowsOK, RunStatuses
  <2>2. RowsOK' /\ WorkersOK'
    BY <1>0, <1>14, <2>1, IdleTyped DEF FinishRun, Stops, RowsOK
  <2> QED
    BY <1>1, <1>14, <2>2 DEF FinishRun
<1>15. CASE WorkerCrashes(w)
  <2>1. WorkersOK' /\ RowsOK'
    BY <1>0, <1>15, IdleTyped DEF WorkerCrashes, Stops, RowsOK
  <2>2. message' \in [Runs -> 0..MaxMessages] /\ crashes' \in 0..MaxCrashes
    BY <1>0, <1>15, SizeAssumption DEF WorkerCrashes, TypeInv, TypeOK
  <2> QED
    BY <1>15, <2>1, <2>2 DEF TypeInv, TypeOK, RowsOK, WorkersOK, WorkerCrashes, courseVars
<1> QED
  BY <1>3, <1>4, <1>5, <1>6, <1>7, <1>8, <1>10, <1>11, <1>12, <1>13, <1>14, <1>15 DEF Works

LEMMA ClaimTyped ==
  ASSUME TypeInv, NEW w \in Workers, NEW r \in Runs, ClaimRun(w, r)
  PROVE  TypeInv'
<1> DEFINE m == [Idle EXCEPT !.at = IF run[r].kind = "PACKAGE" THEN "package" ELSE "plan",
                             !.run = r, !.seen = script, !.spent = run[r].spent,
                             !.budget = run[r].budget, !.instructions = run[r].instructions]
           row == [run[r] EXCEPT !.status = "RUNNING", !.attempts = OneMore(@)]
<1>0. RowsOK /\ WorkersOK /\ run[r] \in RunRow
  BY DEF TypeInv, TypeOK, RowsOK, WorkersOK
<1>1. message' \in [Runs -> 0..MaxMessages]
  BY SizeAssumption DEF ClaimRun, TypeInv, TypeOK
<1>2. row \in RunRow
  <2>1. OneMore(run[r].attempts) \in 0..MaxAttempts
    BY <1>0, SizeAssumption DEF OneMore, RunRow
  <2>2. \A n \in 0..MaxAttempts :
          [run[r] EXCEPT !.status = "RUNNING", !.attempts = n] \in RunRow
    BY <1>0 DEF RunRow, RunStatuses
  <2> QED
    BY <2>1, <2>2
<1>3. m \in Memory /\ MemoryOK(m)
  <2>0. run[r].budget \in Budgets \cup {0} /\ Budgets \cup {0} \subseteq Nat
    BY <1>0, MoneyAssumption DEF RunRow
  <2>1. /\ run[r].spent \in Nat /\ run[r].budget \in Nat
        /\ run[r].instructions \in Instructions /\ script \in [Lessons -> 0..MaxEdits]
    BY <1>0, <2>0 DEF RunRow, TypeInv, TypeOK
  <2>2. m \in Memory
    BY <2>1, Constants DEF Memory, Salts, Steps
  <2>3. m.run = r /\ m.done = {}
    BY DEF Idle
  <2> QED
    BY <2>2, <2>3, Constants DEF MemoryOK
<1>4. \/ run' = [run EXCEPT ![r] = row] /\ worker' = [worker EXCEPT ![w] = m]
      \/ UNCHANGED <<run, worker>>
  BY <1>0 DEF ClaimRun, RowsOK
<1>5. RowsOK' /\ WorkersOK'
  <2> HIDE DEF m, row
  <2> QED
    BY <1>0, <1>2, <1>3, <1>4, MemoryTyped DEF RowsOK, WorkersOK
<1> QED
  BY <1>1, <1>5 DEF TypeInv, TypeOK, RowsOK, WorkersOK, ClaimRun, courseVars

LEMMA TypeInit == Init => TypeInv
<1> SUFFICES ASSUME Init PROVE TypeInv
  OBVIOUS
<1>1. course \in [status : CourseStatuses, provider : {"PRODUCTION_ENGINE", "CREATOR"}]
  BY DEF Init, CourseStatuses
<1>2. video \in [Lessons -> Videos]
  BY Constants DEF Init, Videos, NoVideo
<1>3. 0 \in 0..MaxMessages /\ 0 \in 0..MaxCrashes
  BY SizeAssumption
<1> QED
  BY <1>1, <1>2, <1>3, Constants DEF Init, TypeInv, TypeOK

LEMMA TypeStep == TypeInv /\ [Next]_vars => TypeInv'
<1> SUFFICES ASSUME TypeInv, [Next]_vars PROVE TypeInv'
  OBVIOUS
<1>1. CASE UNCHANGED vars
  BY <1>1 DEF vars, courseVars, TypeInv, TypeOK
<1>2. CASE Next
  BY <1>2, WorkflowTyped, RunsTyped, WorkTyped, ClaimTyped DEF Next
<1> QED BY <1>1, <1>2

\* Every row, storyboard, key and worker is well-formed in every reachable state, and a
\* busy worker has a run and a lesson to work on.
THEOREM ProductionTypes == Spec => []TypeOK
<1>1. Spec => []TypeInv
  BY TypeInit, TypeStep, PTL DEF Spec
<1>2. TypeInv => TypeOK
  BY DEF TypeInv
<1> QED BY <1>1, <1>2, PTL

-----------------------------------------------------------------------------
(* What reviewers see.                                                     *)

\* The only steps that bring an engine-made course to the reviewers, or change a video
\* they see, are deliveries, which compare every script with the storyboard.
LEMMA CurrentStep ==
  TypeInv /\ ReviewedVideoIsCurrent /\ [Next]_vars => ReviewedVideoIsCurrent'
<1> SUFFICES ASSUME TypeInv, ReviewedVideoIsCurrent, [Next]_vars
             PROVE  ReviewedVideoIsCurrent'
  OBVIOUS
<1>1. ASSUME UNCHANGED courseVars PROVE ReviewedVideoIsCurrent'
  BY <1>1 DEF courseVars, ReviewedVideoIsCurrent
<1>2. CASE ApproveContent
  BY <1>2 DEF TypeInv, TypeOK, ApproveContent, ReviewedVideoIsCurrent
<1>3. ASSUME NEW p \in {"CREATOR", "PRODUCTION_ENGINE"}, DecideVideo(p)
      PROVE  ReviewedVideoIsCurrent'
  BY <1>3 DEF TypeInv, TypeOK, DecideVideo, ReviewedVideoIsCurrent
<1>4. CASE SubmitVideo
  BY <1>4 DEF TypeInv, TypeOK, SubmitVideo, ReviewedVideoIsCurrent
<1>5. CASE RejectVideo
  BY <1>5 DEF TypeInv, TypeOK, RejectVideo, ReviewedVideoIsCurrent
<1>6. ASSUME NEW l \in Lessons, EditLesson(l) PROVE ReviewedVideoIsCurrent'
  BY <1>6 DEF EditLesson, ReviewedVideoIsCurrent
<1>7. CASE Resubmit
  BY <1>7 DEF TypeInv, TypeOK, Resubmit, ReviewedVideoIsCurrent
<1>8. CASE Publish
  BY <1>8 DEF TypeInv, TypeOK, Publish, ReviewedVideoIsCurrent
<1>9. ASSUME NEW w \in Workers, Deliver(w) PROVE ReviewedVideoIsCurrent'
  <2>1. CASE UNCHANGED <<course, video>>
    BY <1>9, <2>1 DEF Deliver, ReviewedVideoIsCurrent
  <2>2. CASE /\ \A l \in Lessons : script[l] = worker[w].board[l].script
             /\ video' = Attached(w)
    BY <1>9, <2>2 DEF Deliver, Attached, ReviewedVideoIsCurrent
  <2> QED
    BY <1>9, <2>1, <2>2 DEF Deliver
<1>10. CASE RequestPackaging
  BY <1>1, <1>10 DEF RequestPackaging
<1>11. CASE \/ SwitchEngine \/ UNCHANGED vars \/ \E b \in Budgets : SetBudget(b)
            \/ \E r \in Runs : CancelRun(r) \/ RetryRun(r) \/ Dispatching(r)
            \/ \E w \in Workers, r \in Runs : ClaimRun(w, r)
  BY <1>1, <1>11 DEF vars, courseVars, SwitchEngine, SetBudget, CancelRun, RetryRun,
                     Dispatching, DispatchRun, DispatchAges, RequeueSilent, ClaimRun
<1>12. ASSUME NEW w \in Workers, ~Deliver(w),
              Works(w) \/ QualityFails(w) \/ ProviderFails(w) \/ WorkerCrashes(w)
       PROVE  ReviewedVideoIsCurrent'
  BY <1>1, <1>12 DEF Works, PlanLesson, StorePlan, Narrate, FilmLesson, BuildPackage,
                     DeliverChannels, BlockRun, FinishRun, QualityFails, ProviderFails,
                     WorkerCrashes
<1> QED
  BY <1>2, <1>3, <1>4, <1>5, <1>6, <1>7, <1>8, <1>9, <1>10, <1>11, <1>12 DEF Next, Workflow

\* Where the engine makes the video, reviewers and learners see one of the lessons' own
\* scripts, whatever is edited, reworked, retried, cancelled or lost meanwhile: the
\* comparison in _deliver is enough, with no other constraint on runs and workers.
THEOREM CurrentVideo == Spec => []ReviewedVideoIsCurrent
<1>1. Init => ReviewedVideoIsCurrent
  BY DEF Init, ReviewedVideoIsCurrent
<1>2. Spec => []TypeInv
  BY TypeInit, TypeStep, PTL DEF Spec
<1> QED BY <1>1, <1>2, CurrentStep, PTL DEF Spec

-----------------------------------------------------------------------------
(* Rows, costs and workers, where no live worker is taken for dead.        *)

Busy(w) == worker[w].at # "idle"

\* What a worker's memory says of its run.
MemoryTrue(m) ==
  /\ m.at \notin {"idle", "block", "finish"} => m.spent = cost[m.run]
  /\ m.at = "planning" => m.spent < m.budget

LedgerInv ==
  /\ \A r \in Runs : /\ run[r].spent = cost[r]
                     /\ run[r].status = "NONE" => cost[r] = 0
  /\ \A v, w \in Workers : Busy(v) /\ Busy(w) /\ worker[v].run = worker[w].run => v = w
  /\ \A w \in Workers : Busy(w) => run[worker[w].run].status \in {"RUNNING", "CANCELLED"}
  /\ \A w \in Workers : MemoryTrue(worker[w])

\* A step on the rows alone: money stays, and a row somebody works on stays running or
\* is cancelled.
RowsStep ==
  /\ UNCHANGED <<worker, cost>>
  /\ \A r \in Runs : /\ run'[r].spent = run[r].spent
                     /\ run'[r].status = "NONE" => run[r].status = "NONE"
  /\ \A w \in Workers :
       LET r == worker[w].run IN
       Busy(w) => run'[r].status \in {run[r].status, "CANCELLED"}

LEMMA RowsStepKeeps == TypeInv /\ LedgerInv /\ RowsStep => LedgerInv'
<1> SUFFICES ASSUME TypeInv, LedgerInv, RowsStep PROVE LedgerInv'
  OBVIOUS
<1>1. UNCHANGED <<worker, cost>>
  BY DEF RowsStep
<1>2. \A w \in Workers : Busy(w) => worker[w].run \in Runs
  BY DEF TypeInv, MemoryOK, Busy
<1>3. \A r \in Runs : run'[r].spent = cost'[r] /\ (run'[r].status = "NONE" => cost'[r] = 0)
  BY <1>1 DEF LedgerInv, RowsStep
<1>4. \A w \in Workers :
        Busy(w)' => run'[worker'[w].run].status \in {"RUNNING", "CANCELLED"}
  BY <1>1 DEF LedgerInv, RowsStep, Busy
<1>5. /\ \A v, w \in Workers :
           Busy(v)' /\ Busy(w)' /\ worker'[v].run = worker'[w].run => v = w
      /\ \A w \in Workers : MemoryTrue(worker[w])'
  BY <1>1 DEF LedgerInv, Busy, MemoryTrue
<1> QED BY <1>3, <1>4, <1>5 DEF LedgerInv

\* A step of one worker: it touches its own row, and is done with it or keeps it.
WorkStep(w) ==
  LET r == worker[w].run IN
  /\ Busy(w)
  /\ \A v \in Workers : v # w => worker'[v] = worker[v]
  /\ \A q \in Runs : q # r => run'[q] = run[q] /\ cost'[q] = cost[q]
  /\ run'[r].spent = cost'[r] /\ run'[r].status # "NONE"
  /\ Busy(w)' => /\ worker'[w].run = r
                 /\ run'[r].status \in {"RUNNING", "CANCELLED"}
                 /\ MemoryTrue(worker[w])'

LEMMA WorkStepKeeps ==
  ASSUME TypeInv, LedgerInv, NEW w \in Workers, WorkStep(w)
  PROVE  LedgerInv'
<1> DEFINE r == worker[w].run
<1>0. r \in Runs
  BY DEF TypeInv, MemoryOK, Busy, WorkStep
<1>1. \A q \in Runs : run'[q].spent = cost'[q] /\ (run'[q].status = "NONE" => cost'[q] = 0)
  BY <1>0 DEF LedgerInv, WorkStep
<1>2. ASSUME NEW v \in Workers, v # w, Busy(v)'
      PROVE  /\ Busy(v) /\ worker'[v] = worker[v] /\ worker[v].run \in Runs
             /\ worker[v].run # r
  BY <1>2 DEF LedgerInv, WorkStep, Busy, TypeInv, MemoryOK
<1>3. ASSUME NEW u \in Workers, NEW v \in Workers, Busy(u)', Busy(v)',
             worker'[u].run = worker'[v].run
      PROVE  u = v
  BY <1>2, <1>3 DEF LedgerInv, WorkStep
<1>4. ASSUME NEW v \in Workers, Busy(v)'
      PROVE  run'[worker'[v].run].status \in {"RUNNING", "CANCELLED"}
  <2>1. CASE v = w
    BY <1>4, <2>1 DEF WorkStep
  <2>2. CASE v # w
    BY <1>2, <1>4, <2>2 DEF LedgerInv, WorkStep
  <2> QED BY <2>1, <2>2
<1>5. ASSUME NEW v \in Workers PROVE MemoryTrue(worker[v])'
  <2>1. CASE v = w /\ Busy(v)'
    BY <2>1 DEF WorkStep
  <2>2. CASE ~Busy(v)'
    BY <2>2 DEF MemoryTrue, Busy
  <2>3. CASE v # w /\ Busy(v)'
    BY <1>2, <2>3 DEF LedgerInv, WorkStep, MemoryTrue
  <2> QED BY <2>1, <2>2, <2>3
<1> QED
  BY <1>1, <1>3, <1>4, <1>5 DEF LedgerInv

\* A checkpoint of a worker whose step left the row's money equal to its costs.
LEMMA CheckpointWorks ==
  ASSUME TypeInv, LedgerInv, NEW w \in Workers, Busy(w),
         NEW rows \in [Runs -> RunRow], NEW m \in Memory,
         m.run = worker[w].run, m.at \notin {"idle", "block", "finish"},
         \A q \in Runs : q # m.run => rows[q] = run[q] /\ cost'[q] = cost[q],
         rows[m.run].status = run[m.run].status,
         rows[m.run].spent = cost'[m.run], m.spent = cost'[m.run],
         Checkpoint(w, rows, m)
  PROVE  WorkStep(w)
<1> DEFINE r == m.run
<1>0. /\ r \in Runs /\ worker \in [Workers -> Memory]
      /\ run[r].status \in {"RUNNING", "CANCELLED"} /\ rows[r] \in RunRow
  BY DEF TypeInv, TypeOK, MemoryOK, LedgerInv, Busy
<1>1. \A v \in Workers : v # w => worker'[v] = worker[v]
  BY <1>0 DEF Checkpoint
<1>2. \A q \in Runs : q # r => run'[q] = rows[q]
  BY <1>0 DEF Checkpoint
<1>3. run'[r].spent = rows[r].spent /\ run'[r].status \in {rows[r].status, "QUEUED"}
  BY <1>0 DEF Checkpoint, RunRow
<1>4. \/ worker'[w] = Idle
      \/ /\ run' = rows
         /\ \/ worker'[w] = At(m, "block")
            \/ worker'[w] = m /\ ~(m.spent >= m.budget)
  BY <1>0 DEF Checkpoint
<1>5. ASSUME Busy(w)'
      PROVE  /\ worker'[w].run = r
             /\ run'[r].status \in {"RUNNING", "CANCELLED"}
             /\ MemoryTrue(worker[w])'
  <2>1. worker'[w] # Idle
    BY <1>5 DEF Busy, Idle
  <2>2. At(m, "block").at = "block" /\ At(m, "block").run = r
    BY DEF At, Idle
  <2>3. CASE worker'[w] = At(m, "block")
    BY <1>0, <1>4, <2>1, <2>2, <2>3 DEF MemoryTrue
  <2>4. CASE worker'[w] = m /\ ~(m.spent >= m.budget)
    <3>1. m.spent < m.budget
      BY <2>4 DEF Memory
    <3> QED
      BY <1>0, <1>4, <2>1, <2>4, <3>1 DEF MemoryTrue
  <2> QED
    BY <1>4, <2>1, <2>3, <2>4
<1> QED
  BY <1>0, <1>1, <1>2, <1>3, <1>5 DEF WorkStep

\* A worker that stops: whatever became of its row, the money is right.
LEMMA StopWorks ==
  ASSUME TypeInv, LedgerInv, NEW w \in Workers, Busy(w), Stops(w),
         \A q \in Runs : q # worker[w].run => run'[q] = run[q] /\ cost'[q] = cost[q],
         run'[worker[w].run].spent = cost'[worker[w].run],
         run'[worker[w].run].status # "NONE"
  PROVE  WorkStep(w)
<1>1. worker \in [Workers -> Memory]
  BY DEF TypeInv, TypeOK
<1>2. worker'[w] = Idle /\ \A v \in Workers : v # w => worker'[v] = worker[v]
  BY <1>1 DEF Stops
<1>3. ~Busy(w)'
  BY <1>2 DEF Busy, Idle
<1> QED
  BY <1>2, <1>3 DEF WorkStep

LEMMA FailedKeeps ==
  ASSUME NEW rows \in [Runs -> RunRow], NEW r \in Runs, NEW retry \in BOOLEAN,
         rows[r].status # "NONE"
  PROVE  /\ \A q \in Runs : q # r => Failed(rows, r, retry)[q] = rows[q]
         /\ Failed(rows, r, retry)[r].spent = rows[r].spent
         /\ Failed(rows, r, retry)[r].status # "NONE"
BY DEF Failed, RunRow

LEMMA RequestKeeps ==
  ASSUME TypeInv, LedgerInv, UNCHANGED <<worker, cost>>,
         NEW kind \in {"VIDEO", "PACKAGE"}, NEW instructions,
         RequestProduction(kind, instructions)
  PROVE  RowsStep
<1>0. run \in [Runs -> RunRow]
  BY DEF TypeInv, TypeOK
<1>1. CASE ActiveRuns # {}
  <2>1. ASSUME NEW r \in Runs
        PROVE  run'[r].spent = run[r].spent /\ run'[r].status = run[r].status
    BY <1>0, <1>1 DEF RequestProduction, RunRow
  <2>2. \A w \in Workers : Busy(w) => worker[w].run \in Runs
    BY DEF TypeInv, MemoryOK, Busy
  <2> QED
    BY <2>1, <2>2 DEF RowsStep
<1>2. CASE ActiveRuns = {}
  <2> DEFINE f == Min(FreeRows)
  <2>1. f \in Runs /\ run[f].status = "NONE"
    BY <1>2, MinIn, Constants DEF RequestProduction, FreeRows
  <2>2. run'[f].spent = 0 /\ run'[f].status \in {"BLOCKED", "QUEUED"}
    BY <1>0, <1>2, <2>1 DEF RequestProduction, NoRun
  <2>3. \A r \in Runs : r # f => run'[r] = run[r]
    BY <1>0, <1>2, <2>1 DEF RequestProduction
  <2>4. run[f].spent = 0
    BY <2>1 DEF LedgerInv
  <2>5. \A w \in Workers : Busy(w) => worker[w].run \in Runs /\ worker[w].run # f
    BY <2>1 DEF TypeInv, MemoryOK, Busy, LedgerInv
  <2> HIDE DEF f
  <2> QED
    BY <2>2, <2>3, <2>4, <2>5 DEF RowsStep
<1> QED BY <1>1, <1>2

LEMMA WorkflowKeeps ==
  ASSUME TypeInv, LedgerInv, Workflow
  PROVE  RowsStep
<1>0. /\ run \in [Runs -> RunRow]
      /\ \A w \in Workers : Busy(w) => worker[w].run \in Runs
  BY DEF TypeInv, TypeOK, MemoryOK, Busy
<1>1. UNCHANGED <<worker, cost>>
  BY DEF Workflow, ApproveContent, DecideVideo, SubmitVideo, RejectVideo, EditLesson,
         Resubmit, Publish, RequestPackaging, WorkflowOnly
<1>2. ASSUME UNCHANGED run PROVE RowsStep
  BY <1>1, <1>2 DEF RowsStep
<1>3. ASSUME CancelActiveRun PROVE RowsStep
  <2>1. ASSUME NEW r \in Runs
        PROVE  /\ run'[r].spent = run[r].spent
               /\ run'[r].status \in {run[r].status, "CANCELLED"}
    BY <1>0, <1>3 DEF CancelActiveRun, RunRow
  <2> QED
    BY <1>0, <1>1, <2>1 DEF RowsStep
<1>4. CASE ApproveContent
  BY <1>1, <1>4, RequestKeeps DEF ApproveContent
<1>5. ASSUME NEW p \in {"CREATOR", "PRODUCTION_ENGINE"}, DecideVideo(p) PROVE RowsStep
  BY <1>1, <1>3, <1>5, RequestKeeps DEF DecideVideo
<1>6. CASE SubmitVideo \/ \E l \in Lessons : EditLesson(l)
  BY <1>2, <1>6 DEF SubmitVideo, EditLesson
<1>7. CASE RejectVideo
  BY <1>1, <1>2, <1>7, RequestKeeps DEF RejectVideo
<1>8. CASE Resubmit
  BY <1>1, <1>2, <1>8, RequestKeeps DEF Resubmit
<1>9. CASE Publish
  BY <1>1, <1>2, <1>9, RequestKeeps DEF Publish
<1>10. CASE RequestPackaging
  BY <1>1, <1>10, RequestKeeps DEF RequestPackaging
<1> QED
  BY <1>4, <1>5, <1>6, <1>7, <1>8, <1>9, <1>10 DEF Workflow

\* Retries and sweeps take no row from a worker: a failed, blocked or queued run has
\* none, and a silent run is queued again only when its worker is gone.
LEMMA RunsKeep ==
  ASSUME TypeInv, LedgerInv, "slow" \notin Faults,
         \/ SwitchEngine \/ \E b \in Budgets : SetBudget(b)
         \/ \E r \in Runs : CancelRun(r) \/ RetryRun(r) \/ Dispatching(r)
  PROVE  RowsStep
<1>0. /\ run \in [Runs -> RunRow]
      /\ \A w \in Workers :
           Busy(w) => /\ worker[w].run \in Runs
                      /\ run[worker[w].run].status \in {"RUNNING", "CANCELLED"}
  BY DEF TypeInv, TypeOK, MemoryOK, Busy, LedgerInv
<1>1. CASE SwitchEngine \/ \E b \in Budgets : SetBudget(b)
  BY <1>1 DEF SwitchEngine, SetBudget, RowsStep
<1>2. ASSUME NEW r \in Runs, CancelRun(r) PROVE RowsStep
  BY <1>0, <1>2 DEF CancelRun, RowsStep, RunRow
<1>3. ASSUME NEW r \in Runs, RetryRun(r) PROVE RowsStep
  <2>1. /\ run'[r].spent = run[r].spent /\ run'[r].status = "QUEUED"
        /\ \A q \in Runs : q # r => run'[q] = run[q]
    BY <1>0, <1>3 DEF RetryRun, Requeued, RunRow
  <2>2. \A w \in Workers : Busy(w) => worker[w].run # r
    BY <1>0, <1>3 DEF RetryRun, RetryableStatuses
  <2> QED
    BY <1>0, <1>3, <2>1, <2>2 DEF RetryRun, RowsStep
<1>4. ASSUME NEW r \in Runs, DispatchRun(r) \/ DispatchAges(r) PROVE RowsStep
  <2>1. \A q \in Runs : run'[q].spent = run[q].spent /\ run'[q].status = run[q].status
    BY <1>0, <1>4 DEF DispatchRun, DispatchAges, RunRow
  <2> QED
    BY <1>0, <1>4, <2>1 DEF DispatchRun, DispatchAges, RowsStep
<1>5. ASSUME NEW r \in Runs, RequeueSilent(r) PROVE RowsStep
  <2>1. /\ run'[r].spent = run[r].spent /\ run'[r].status = "QUEUED"
        /\ \A q \in Runs : q # r => run'[q] = run[q]
    BY <1>0, <1>5 DEF RequeueSilent, RunRow
  <2>2. \A w \in Workers : Busy(w) => worker[w].run # r
    BY <1>5 DEF RequeueSilent, WorkersOn, Busy
  <2> QED
    BY <1>0, <1>5, <2>1, <2>2 DEF RequeueSilent, RowsStep
<1> QED
  BY <1>1, <1>2, <1>3, <1>4, <1>5 DEF Dispatching

\* A claim: the run was queued, so no worker is on it, and it is read as it stands.
LEMMA ClaimKeeps ==
  ASSUME TypeInv, LedgerInv, NEW w \in Workers, NEW r \in Runs, ClaimRun(w, r)
  PROVE  LedgerInv'
<1>0. /\ run \in [Runs -> RunRow] /\ worker \in [Workers -> Memory]
      /\ \A v \in Workers : Busy(v) => worker[v].run \in Runs
  BY DEF TypeInv, TypeOK, MemoryOK, Busy
<1>1. UNCHANGED cost
  BY DEF ClaimRun
<1>2. CASE UNCHANGED <<run, worker>>
  <2>1. RowsStep
    BY <1>1, <1>2 DEF RowsStep
  <2> QED
    BY <2>1, RowsStepKeeps
<1>3. CASE ~UNCHANGED <<run, worker>>
  <2> DEFINE m == worker'[w]
  <2>1. /\ m.at \in {"plan", "package"} /\ m.run = r /\ m.spent = run[r].spent
        /\ \A v \in Workers : v # w => worker'[v] = worker[v]
    <3> DEFINE c == [Idle EXCEPT !.at = IF run[r].kind = "PACKAGE" THEN "package" ELSE "plan",
                            !.run = r, !.seen = script, !.spent = run[r].spent,
                            !.budget = run[r].budget, !.instructions = run[r].instructions]
    <3>1. worker' = [worker EXCEPT ![w] = c]
      BY <1>3 DEF ClaimRun
    <3>2. c.at \in {"plan", "package"} /\ c.run = r /\ c.spent = run[r].spent
      BY DEF Idle
    <3> HIDE DEF c
    <3> QED
      BY <1>0, <3>1, <3>2
  <2>2. /\ run[r].status = "QUEUED" /\ run'[r].status = "RUNNING"
        /\ run'[r].spent = run[r].spent /\ \A q \in Runs : q # r => run'[q] = run[q]
    BY <1>0, <1>3 DEF ClaimRun, RunRow
  <2>3. \A v \in Workers : Busy(v) => worker[v].run # r
    BY <2>2 DEF LedgerInv
  <2> HIDE DEF m
  <2>4. \A q \in Runs : run'[q].spent = cost'[q] /\ (run'[q].status = "NONE" => cost'[q] = 0)
    BY <1>1, <2>2 DEF LedgerInv
  <2>5. ASSUME NEW v \in Workers, v # w, Busy(v)'
        PROVE  Busy(v) /\ worker'[v] = worker[v] /\ worker[v].run \in Runs \ {r}
    BY <1>0, <2>1, <2>3, <2>5 DEF Busy
  <2>6. ASSUME NEW u \in Workers, NEW v \in Workers, Busy(u)', Busy(v)',
               worker'[u].run = worker'[v].run
        PROVE  u = v
    BY <2>1, <2>5, <2>6 DEF LedgerInv, m
  <2>7. ASSUME NEW v \in Workers, Busy(v)'
        PROVE  run'[worker'[v].run].status \in {"RUNNING", "CANCELLED"}
    <3>1. CASE v = w
      BY <2>1, <2>2, <3>1 DEF m
    <3>2. CASE v # w
      BY <2>2, <2>5, <2>7, <3>2 DEF LedgerInv
    <3> QED BY <3>1, <3>2
  <2>8. ASSUME NEW v \in Workers PROVE MemoryTrue(worker[v])'
    <3>1. CASE v = w
      BY <1>1, <2>1, <3>1 DEF MemoryTrue, LedgerInv, m
    <3>2. CASE v # w /\ Busy(v)'
      BY <1>1, <2>5, <3>2 DEF MemoryTrue, LedgerInv
    <3>3. CASE ~Busy(v)'
      BY <3>3 DEF MemoryTrue, Busy
    <3> QED BY <3>1, <3>2, <3>3
  <2> QED
    BY <2>4, <2>6, <2>7, <2>8 DEF LedgerInv
<1> QED BY <1>2, <1>3

\* The steps of a worker: it writes what it read and what it was charged, and no other
\* worker writes that row meanwhile.
LEMMA WorkKeeps ==
  ASSUME TypeInv, LedgerInv, NEW w \in Workers,
         \/ Works(w) \/ QualityFails(w) \/ ProviderFails(w) \/ WorkerCrashes(w)
  PROVE  WorkStep(w)
<1> DEFINE r == worker[w].run
           l == Lesson(w)
<1>0. /\ Busy(w) /\ r \in Runs /\ worker[w] \in Memory /\ worker[w].owed \in Nat
      /\ run \in [Runs -> RunRow] /\ worker \in [Workers -> Memory]
      /\ cost \in [Runs -> Nat]
      /\ run[r].status \in {"RUNNING", "CANCELLED"} /\ run[r].spent = cost[r]
  <2>1. Busy(w)
    BY DEF Works, PlanLesson, StorePlan, Narrate, FilmLesson, Deliver, BuildPackage, Busy,
           DeliverChannels, BlockRun, FinishRun, QualityFails, ProviderFails, WorkerCrashes
  <2>2. worker[w] \in Memory /\ r \in Runs
    BY <2>1 DEF TypeInv, TypeOK, MemoryOK, Busy
  <2>3. worker[w].owed \in Nat
    BY <2>2 DEF Memory
  <2> QED
    BY <2>1, <2>2, <2>3 DEF TypeInv, TypeOK, LedgerInv
\* A step that leaves rows and costs alone.
<1>1. ASSUME NEW m, worker' = [worker EXCEPT ![w] = m], UNCHANGED <<run, cost>>,
             m.run = r,
             m.at \notin {"idle", "block", "finish"} => m.spent = cost[r],
             m.at # "planning"
      PROVE  WorkStep(w)
  <2>1. worker'[w] = m /\ \A v \in Workers : v # w => worker'[v] = worker[v]
    BY <1>0, <1>1
  <2> QED
    BY <1>0, <1>1, <2>1 DEF WorkStep, MemoryTrue
\* A step that charges what is owed.
<1>2. ASSUME NEW n \in Nat,
             worker[w].at \notin {"idle", "block", "finish"}
      PROVE  LET rows == Charged(r, worker[w], n) IN
             /\ rows \in [Runs -> RunRow]
             /\ \A q \in Runs : q # r => rows[q] = run[q]
             /\ rows[r].spent = cost[r] + n /\ rows[r].status = run[r].status
             /\ worker[w].spent = cost[r]
  <2>1. worker[w].spent = cost[r]
    BY <1>2 DEF LedgerInv, MemoryTrue
  <2>2. Charged(r, worker[w], n) \in [Runs -> RunRow]
    BY <1>0, ChargedTyped DEF RowsOK
  <2> QED
    BY <1>0, <2>1, <2>2 DEF Charged, RunRow
<1>3. CASE PlanLesson(w)
  <2>1. /\ worker[w].at = "plan" /\ l \in Lessons /\ worker[w].spent = cost[r]
        /\ UNCHANGED cost
    BY <1>3, LessonTyped DEF PlanLesson, LedgerInv, MemoryTrue
  <2>2. ASSUME NEW b \in Boards, worker' = [worker EXCEPT ![w] = Planned(w, l, b)],
               UNCHANGED run
        PROVE  WorkStep(w)
    <3> DEFINE p == Planned(w, l, b)
    <3>1. p.run = r /\ p.spent = worker[w].spent /\ p.at \in {"plan", "film"}
      BY <1>0, <2>1, PlannedTyped DEF Busy
    <3>2. worker' = [worker EXCEPT ![w] = p]
      BY <2>2
    <3> HIDE DEF p
    <3> QED
      BY <1>1, <2>1, <2>2, <3>1, <3>2
  <2>3. ASSUME Checkpoint(w, run, [worker[w] EXCEPT !.at = "planning"])
        PROVE  WorkStep(w)
    <3> DEFINE m == [worker[w] EXCEPT !.at = "planning"]
    <3>1. m \in Memory
      BY <1>0, MemoryChanges DEF Steps
    <3>2. m.run = r /\ m.at = "planning" /\ m.spent = cost[r]
      BY <1>0, <2>1 DEF Memory
    <3>3. Checkpoint(w, run, m)
      BY <2>3
    <3> HIDE DEF m
    <3> QED
      BY <1>0, <2>1, <3>1, <3>2, <3>3, CheckpointWorks
  <2>4. \A q \in Runs : board[q][l] \in Boards
    BY <2>1 DEF TypeInv, TypeOK
  <2> DEFINE earlier == IF Redo(w, l, "RESTORYBOARD") THEN {}
                        ELSE Earlier(r, l, worker[w].seen[l])
  <2>5. earlier \in SUBSET Runs
    BY DEF Earlier
  <2>6. \/ worker' = [worker EXCEPT ![w] = Planned(w, l, board[r][l])] /\ UNCHANGED run
        \/ /\ earlier # {}
           /\ worker' = [worker EXCEPT ![w] = Planned(w, l, board[Max(earlier)][l])]
           /\ UNCHANGED run
        \/ Checkpoint(w, run, [worker[w] EXCEPT !.at = "planning"])
    BY <1>3 DEF PlanLesson
  <2> HIDE DEF earlier
  <2>7. earlier # {} => Max(earlier) \in Runs
    BY <2>5, MaxIn, SizeAssumption DEF Runs
  <2> QED
    BY <1>0, <2>2, <2>3, <2>4, <2>6, <2>7
<1>4. CASE StorePlan(w)
  <2> DEFINE new == [script |-> worker[w].seen[l], by |-> r]
             p == Planned(w, l, new)
             m == [p EXCEPT !.spent = @ + 1]
             rows == Charged(r, worker[w], 1)
  <2>1. /\ worker[w].at = "planning" /\ l \in Lessons
        /\ worker[w].seen[l] \in 0..MaxEdits
    BY <1>0, <1>4, LessonTyped DEF StorePlan, Memory
  <2>2. new \in Boards
    BY <1>0, <2>1 DEF Boards, Board
  <2>3. p \in Memory /\ p.run = r /\ p.at \in {"plan", "film"} /\ p.spent = worker[w].spent
    BY <1>0, <2>1, <2>2, PlannedTyped DEF Busy
  <2>4. cost'[r] = cost[r] + 1 /\ \A q \in Runs : q # r => cost'[q] = cost[q]
    BY <1>0, <1>4 DEF StorePlan
  <2>5. /\ rows \in [Runs -> RunRow] /\ \A q \in Runs : q # r => rows[q] = run[q]
        /\ rows[r].spent = cost[r] + 1 /\ rows[r].status = run[r].status
        /\ worker[w].spent = cost[r]
    BY <1>2, <2>1
  <2>6. Checkpoint(w, rows, m)
    BY <1>4 DEF StorePlan
  <2> HIDE DEF p
  <2>7. m \in Memory
    BY <2>3, MemoryChanges
  <2>8. m.run = r /\ m.at \in {"plan", "film"} /\ m.spent = cost[r] + 1
    BY <2>3, <2>5 DEF Memory
  <2> HIDE DEF m, rows
  <2> QED
    BY <1>0, <2>4, <2>5, <2>6, <2>7, <2>8, CheckpointWorks
<1>5. CASE Narrate(w)
  <2>1. worker[w].at = "film" /\ worker[w].spent = cost[r] /\ UNCHANGED <<run, cost>>
    BY <1>5 DEF Narrate, LedgerInv, MemoryTrue
  <2>2. PICK m : /\ worker' = [worker EXCEPT ![w] = m]
                 /\ m.run = r /\ m.at = "filming" /\ m.spent = worker[w].spent
    <3>1. CASE worker' = [worker EXCEPT ![w].at = "filming"]
      <4> DEFINE m == [worker[w] EXCEPT !.at = "filming"]
      <4>1. m.run = r /\ m.at = "filming" /\ m.spent = worker[w].spent
        BY <1>0 DEF Memory
      <4>2. worker' = [worker EXCEPT ![w] = m]
        BY <1>0, <3>1
      <4> HIDE DEF m
      <4> QED
        BY <4>1, <4>2
    <3>2. CASE worker' = [worker EXCEPT ![w].at = "filming", ![w].owed = 1]
      <4> DEFINE m == [worker[w] EXCEPT !.at = "filming", !.owed = 1]
      <4>1. m.run = r /\ m.at = "filming" /\ m.spent = worker[w].spent
        BY <1>0 DEF Memory
      <4>2. worker' = [worker EXCEPT ![w] = m]
        BY <1>0, <3>2
      <4> HIDE DEF m
      <4> QED
        BY <4>1, <4>2
    <3> QED
      BY <1>5, <3>1, <3>2 DEF Narrate, Goes
  <2> QED
    BY <1>1, <2>1, <2>2
<1>6. CASE FilmLesson(w)
  <2> DEFINE f == Filmed(w, l)
             m == [f EXCEPT !.spent = @ + worker[w].owed]
             rows == IF worker[w].owed = 0 THEN run ELSE Charged(r, worker[w], worker[w].owed)
  <2>1. worker[w].at = "filming" /\ l \in Lessons
    BY <1>6, LessonTyped DEF FilmLesson
  <2>2. f \in Memory /\ f.run = r /\ f.at \in {"film", "deliver"} /\ f.spent = worker[w].spent
    BY <1>0, <2>1, FilmedTyped DEF Busy
  <2>3. /\ cost'[r] = cost[r] + worker[w].owed
        /\ \A q \in Runs : q # r => cost'[q] = cost[q]
    BY <1>0, <1>6 DEF FilmLesson
  <2>4. /\ rows \in [Runs -> RunRow] /\ \A q \in Runs : q # r => rows[q] = run[q]
        /\ rows[r].spent = cost'[r] /\ rows[r].status = run[r].status
        /\ worker[w].spent = cost[r]
    BY <1>0, <1>2, <2>1, <2>3
  <2>5. \/ run' = rows /\ worker' = [worker EXCEPT ![w] = m]
        \/ Checkpoint(w, rows, m)
    BY <1>6 DEF FilmLesson
  <2> HIDE DEF f
  <2>6. m \in Memory
    BY <1>0, <2>2, MemoryChanges
  <2>7. m.run = r /\ m.at \in {"film", "deliver"} /\ m.spent = cost'[r]
    BY <1>0, <2>2, <2>3, <2>4 DEF Memory
  <2> HIDE DEF m, rows
  <2>8. CASE Checkpoint(w, rows, m)
    BY <1>0, <2>3, <2>4, <2>6, <2>7, <2>8, CheckpointWorks
  <2>9. CASE run' = rows /\ worker' = [worker EXCEPT ![w] = m]
    <3>1. worker'[w] = m /\ \A v \in Workers : v # w => worker'[v] = worker[v]
      BY <1>0, <2>9
    <3>2. MemoryTrue(worker[w])'
      BY <2>7, <3>1 DEF MemoryTrue
    <3> QED
      BY <1>0, <2>3, <2>4, <2>7, <2>9, <3>1, <3>2 DEF WorkStep
  <2> QED
    BY <2>5, <2>8, <2>9
<1>7. CASE QualityFails(w)
  <2> DEFINE rows == IF worker[w].owed = 0 THEN run ELSE Charged(r, worker[w], worker[w].owed)
  <2>1. /\ cost'[r] = cost[r] + worker[w].owed
        /\ \A q \in Runs : q # r => cost'[q] = cost[q]
    BY <1>0, <1>7 DEF QualityFails
  <2>2. /\ rows \in [Runs -> RunRow] /\ \A q \in Runs : q # r => rows[q] = run[q]
        /\ rows[r].spent = cost'[r] /\ rows[r].status = run[r].status
    BY <1>0, <1>2, <1>7, <2>1 DEF QualityFails
  <2>3. run' = Failed(rows, r, FALSE) /\ Stops(w)
    BY <1>7 DEF QualityFails
  <2> HIDE DEF rows
  <2>4. rows[r].status # "NONE"
    BY <1>0, <2>2
  <2>5. /\ \A q \in Runs : q # r => run'[q] = rows[q]
        /\ run'[r].spent = rows[r].spent /\ run'[r].status # "NONE"
    BY <1>0, <2>2, <2>3, <2>4, FailedKeeps
  <2> QED
    BY <1>0, <2>1, <2>2, <2>3, <2>5, StopWorks
<1>8. ASSUME NEW retry \in BOOLEAN, run' = Failed(run, r, retry), Stops(w), UNCHANGED cost
      PROVE  WorkStep(w)
  BY <1>0, <1>8, FailedKeeps, StopWorks
<1>9. CASE ProviderFails(w)
  BY <1>8, <1>9 DEF ProviderFails
<1>10. ASSUME worker' = [worker EXCEPT ![w] = At(@, "finish")], UNCHANGED <<run, cost>>
       PROVE  WorkStep(w)
  <2> DEFINE m == At(worker[w], "finish")
  <2>1. m.run = r /\ m.at = "finish"
    BY DEF At, Idle
  <2>2. worker' = [worker EXCEPT ![w] = m]
    BY <1>0, <1>10
  <2> HIDE DEF m
  <2> QED
    BY <1>1, <1>10, <2>1, <2>2
<1>11. CASE Deliver(w)
  BY <1>8, <1>10, <1>11 DEF Deliver
<1>12. CASE BuildPackage(w)
  <2> DEFINE m == [worker[w] EXCEPT !.at = "channels"]
  <2>1. m \in Memory
    BY <1>0, MemoryChanges DEF Steps
  <2>2. m.run = r /\ m.at = "channels" /\ m.spent = cost[r]
    BY <1>0, <1>12 DEF Memory, BuildPackage, LedgerInv, MemoryTrue
  <2>3. Checkpoint(w, run, m) /\ UNCHANGED cost
    BY <1>12 DEF BuildPackage
  <2> HIDE DEF m
  <2> QED
    BY <1>0, <2>1, <2>2, <2>3, CheckpointWorks
<1>13. CASE DeliverChannels(w)
  BY <1>10, <1>13 DEF DeliverChannels
<1>14. CASE BlockRun(w)
  <2>1. CASE run' = [run EXCEPT ![r].status = "BLOCKED"]
    <3>1. /\ run'[r].spent = run[r].spent /\ run'[r].status = "BLOCKED"
          /\ \A q \in Runs : q # r => run'[q] = run[q]
      BY <1>0, <2>1 DEF RunRow
    <3> QED
      BY <1>0, <1>14, <3>1, StopWorks DEF BlockRun
  <2> QED
    BY <1>8, <1>14, <2>1 DEF BlockRun
<1>15. CASE FinishRun(w)
  <2>1. /\ run'[r].spent = run[r].spent /\ run'[r].status = "COMPLETED"
        /\ \A q \in Runs : q # r => run'[q] = run[q]
    BY <1>0, <1>15 DEF FinishRun, RunRow
  <2> QED
    BY <1>0, <1>15, <2>1, StopWorks DEF FinishRun
<1>16. CASE WorkerCrashes(w)
  BY <1>0, <1>16, StopWorks DEF WorkerCrashes
<1> QED
  BY <1>3, <1>4, <1>5, <1>6, <1>7, <1>9, <1>11, <1>12, <1>13, <1>14, <1>15, <1>16 DEF Works

LEMMA LedgerInit == Init => LedgerInv
<1> SUFFICES ASSUME Init PROVE LedgerInv
  OBVIOUS
<1>1. \A r \in Runs : run[r] = NoRun /\ cost[r] = 0
  BY DEF Init
<1>2. \A w \in Workers : worker[w].at = "idle"
  BY DEF Init, Idle
<1>3. NoRun.spent = 0
  BY DEF NoRun
<1> QED
  BY <1>1, <1>2, <1>3 DEF LedgerInv, Busy, MemoryTrue

LEMMA LedgerStep ==
  "slow" \notin Faults /\ TypeInv /\ LedgerInv /\ [Next]_vars => LedgerInv'
<1> SUFFICES ASSUME "slow" \notin Faults, TypeInv, LedgerInv, [Next]_vars PROVE LedgerInv'
  OBVIOUS
<1>1. CASE UNCHANGED vars
  BY <1>1 DEF vars, LedgerInv, Busy, MemoryTrue
<1>2. CASE Workflow
  BY <1>2, WorkflowKeeps, RowsStepKeeps
<1>3. CASE \/ SwitchEngine \/ \E b \in Budgets : SetBudget(b)
           \/ \E r \in Runs : CancelRun(r) \/ RetryRun(r) \/ Dispatching(r)
  BY <1>3, RunsKeep, RowsStepKeeps
<1>4. ASSUME NEW w \in Workers,
             Works(w) \/ QualityFails(w) \/ ProviderFails(w) \/ WorkerCrashes(w)
      PROVE  LedgerInv'
  BY <1>4, WorkKeeps, WorkStepKeeps
<1>5. ASSUME NEW w \in Workers, NEW r \in Runs, ClaimRun(w, r) PROVE LedgerInv'
  BY <1>5, ClaimKeeps
<1> QED
  BY <1>1, <1>2, <1>3, <1>4, <1>5 DEF Next

LEMMA LedgerHolds == "slow" \notin Faults => (Spec => []LedgerInv)
<1>1. Spec => []TypeInv
  BY TypeInit, TypeStep, PTL DEF Spec
<1> SUFFICES ASSUME "slow" \notin Faults PROVE Spec => []LedgerInv
  OBVIOUS
<1>2. TypeInv /\ LedgerInv /\ [Next]_vars => LedgerInv'
  BY LedgerStep
<1> QED BY <1>1, <1>2, LedgerInit, PTL DEF Spec

\* Without a slow worker, a run is in the hands of one worker at most, through duplicate
\* and lost messages, pauses, retries and crashes, and its row says running or cancelled.
THEOREM OneWorker == Spec => []OneWorkerPerRun
<1>1. "slow" \notin Faults /\ LedgerInv => OneWorkerPerRun
  <2> SUFFICES ASSUME LedgerInv, NEW r \in Runs
               PROVE  /\ Cardinality(WorkersOn(r)) <= 1
                      /\ WorkersOn(r) # {} => run[r].status \in {"RUNNING", "CANCELLED"}
    BY DEF OneWorkerPerRun
  <2>1. \A v, w \in WorkersOn(r) : v = w
    BY DEF LedgerInv, WorkersOn, Busy
  <2>2. WorkersOn(r) = {} \/ \E w : WorkersOn(r) = {w}
    BY <2>1
  <2>3. Cardinality(WorkersOn(r)) <= 1
    BY <2>2, FS_EmptySet, FS_Singleton
  <2>4. WorkersOn(r) # {} => run[r].status \in {"RUNNING", "CANCELLED"}
    BY DEF LedgerInv, WorkersOn, Busy
  <2> QED BY <2>3, <2>4
<1>2. "slow" \in Faults => OneWorkerPerRun
  BY DEF OneWorkerPerRun
<1>3. CASE "slow" \in Faults
  BY <1>2, <1>3, PTL
<1>4. CASE "slow" \notin Faults
  BY <1>1, <1>4, LedgerHolds, PTL
<1> QED BY <1>3, <1>4

\* Without a slow worker, the spent_amount of a row is the sum of the run's cost rows,
\* although the worker that writes it adds to what it read when it claimed the run.
THEOREM SpentIsCosts == Spec => []SpentIsSumOfCosts
<1>1. LedgerInv => SpentIsSumOfCosts
  BY DEF LedgerInv, SpentIsSumOfCosts
<1>2. "slow" \in Faults => SpentIsSumOfCosts
  BY DEF SpentIsSumOfCosts
<1>3. CASE "slow" \in Faults
  BY <1>2, <1>3, PTL
<1>4. CASE "slow" \notin Faults
  BY <1>1, <1>4, LedgerHolds, PTL
<1> QED BY <1>3, <1>4

\* Without a slow worker, a call that will be paid for starts below the run's budget by
\* the costs on record, so a run passes its budget by one lesson's step at most.
THEOREM BudgetHolds == Spec => []BudgetBounds
<1>1. LedgerInv => BudgetBounds
  BY DEF LedgerInv, MemoryTrue, BudgetBounds
<1>2. "slow" \in Faults => BudgetBounds
  BY DEF BudgetBounds
<1>3. CASE "slow" \in Faults
  BY <1>2, <1>3, PTL
<1>4. CASE "slow" \notin Faults
  BY <1>1, <1>4, LedgerHolds, PTL
<1> QED BY <1>3, <1>4

=============================================================================

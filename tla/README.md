# A formal model of the course builder's backend

The backend (Django, PostgreSQL, Celery on Redis) lets creators and developers
write courses, has staff review them through four seats, films them, publishes
them, and pays their creators, who withdraw the money to a bank. This directory
holds TLA+ modules translated from that code, TLC configurations that check them
on small instances, and proofs checked by TLAPS for every instance.

- [The system](#the-system): components, their state and how they interact
- [The modules](#the-modules): how they correspond to the code
- [The runs](#the-runs): questions, bounds, fairness
- [Where the code and its documentation part ways](#where-the-code-and-its-documentation-part-ways)
- [The proofs](#the-proofs)
- [What is not modelled](#what-is-not-modelled) and [the plan](#the-plan)

To run: `tlc -config CourseStaged.cfg MCCourseReview`, `tlc -config Platform.cfg
MCPlatform`, `tlapm Payout_proofs.tla`, and so on.

## The system

Every operation is an HTTP request served by one of several Django processes, a
Celery task run by one of several workers, or a periodic task that beat queues.
They share the database and nothing else. Three habits of the code make it hard:

1. **A request loads before it locks.** Views fetch the course with `get_object`
   outside any transaction; some services then lock and re-read the row
   (`approve_content`, `approve_qa`, `submit_course`, ...), others act on the
   instance they were given and save named columns (`reject_qa`,
   `record_video_decision`, `submit_video`) or all of them (`update_draft_course`).
2. **Money crosses a boundary.** A withdrawal leaves the wallet in one
   transaction, is sent to the processor outside any, and is settled by a webhook
   handled in a third. Each side may fail, repeat itself or come early.
3. **Tasks are queued after the commit and acknowledged when they start**
   (`transaction.on_commit`, no `acks_late` but for production runs): a task can be
   lost on either side, or run twice.

| component | state it keeps | operations | interacts with | hard behaviour |
|---|---|---|---|---|
| `courses` | `Course` row (status, stage, revision seat, review flow, provider, video, rejected_at, payout type, creator_paid_at), `CourseAppeal` | create, edit, delete, submit, resubmit, video decision, submit video, appeal, publish | reviews, production, payments, platform | stale instances saved over newer rows; appeals decided late |
| `reviews` | `ReviewAssignment` per stage (holder, decided) | claim, assign, take over, approve, reject, QA claim/approve/reject, release | courses, payments, users, authorization | four eyes over revisions, takeovers and role changes; unlocked QA claims |
| `payments` | `Transaction`, `InternalAccount.balance`, bank accounts | internal transfer, pay on approval, price | wallet, reviews | paid once, at one of two seats |
| `wallet` | `Wallet.balance`, `WithdrawalRequest`, `WalletAdjustment`, `TransferOutboxEvent` | request, confirm, dispatch, reverse, sweep, adjust | payments, authentication (codes), processor | ambiguous timeouts, retries, lost tasks, double spends |
| `webhooks` | `WebhookEvent` | receive, process, retry | wallet, processor | duplicates, early and late events, failures half way |
| `users` | account, KYC, profile | erase, KYC, availability | wallet, reviews | erasure racing money and seats |
| `authorization` | role, grants | change role, grants | reviews | seats of people who lose their role |
| `platform` | `PlatformSettings` | update settings (review mode) | courses | mode switched with courses in flight |
| `production` | `ProductionRun`, scenes, assets, costs | request, dispatch, claim, execute, deliver, retry, cancel, package | courses, mie | lost workers, stale runs, late results, money spent twice |
| `mie` | developer accounts and keys, ideas, idempotency keys, endpoints and webhook events | submit an idea, decide it, push its course, approve or reject an account, deliver webhooks | courses, production | racing submissions and decisions, retried requests, passes that overlap |
| `courses/ai` | AI jobs | start, claim, store part by part, cancel, retry, recover, sweep | courses | duplicate messages, dead workers, cancellations that race |
| `catalog` | topics, reservations | reserve, extend, expire | courses | a reservation that expires while used |
| `authentication` | tokens, codes, MFA, sessions, invites | issue, verify, log in, revoke | all | one active code, attempts, replays |
| `collaborators` | invites, members | invite, accept, revoke | courses | an invite accepted while revoked |
| others | `achievements`, `notification`, `onboarding`, `operations`, `quizzes`, `search`, `support` | single-row edits, reports, messages | | none that needs a model |

What makes each right: a course is published only with every seat's approval, by
four different people where the code demands it; its creator is paid exactly once,
at the right price, and never for a course that was not approved; the ledger
balances; a withdrawal is either paid by the processor or back in the wallet, never
both and never neither for ever; an event is applied once; nobody's seat, code, key
or claim outlives the right to it; work that is queued is done once, by one worker,
and ends; a developer is told the truth, and the same thing each time. `PROJECT.json` lists every component with its
sources, and every hazard at its line.

## The modules

| module | lines of | what it is |
|---|---|---|
| `ReviewFlow` | enums and tables of `reviews`, `courses`, `payments`, `users` | seats, their order, which role sits where in which flow, statuses, prices; no state |
| `CourseReview` | `course_service`, `review_service`, `course_appeal_service`, `course_payout_service`, `role_admin_service`, parts of `production` and `mie` | one course through the whole workflow; EXTENDS `ReviewFlow` |
| `Review` | | what a review is: approvals in seat order by different people, one payment, publishing over all of them as the end. Abstract; `CourseReview` implements it |
| `MCCourseReview` | | five reviewers, smaller pools, symmetry |
| `CourseReview_proofs`, `CourseSeats_proofs` | | its theorems: types and the payment; the seats, the price, and the refinement |
| `Withdrawal` | `wallet`, `webhooks`, `transaction_services`, `account_erasure_service`, `flutterwave_service` | one creator's money from the credit to the bank |
| `MCWithdrawal` | | two withdrawals, one course, two adjustments |
| `Payout` | | what a creator is promised: a withdrawal is held once, then paid or given back whole. Abstract; `Withdrawal` implements it |
| `Withdrawal_proofs`, `Payout_proofs` | | its theorems, and the refinement |
| `ProductionRun` | `production_service`, `run_ledger`, `lesson_video_service`, `packaging_service`, `production/tasks` | the engine's runs for one course and the workers that execute them |
| `MCProductionRun` | | two workers |
| `ProductionRun_proofs` | | its theorems |
| `GenerationJobs` | `ai_generation_service`, `courses/tasks`, `ai_generation_views` | one creator's AI generation jobs |
| `WebhookDelivery` | `webhook_dispatcher`, `webhook_endpoint_service`, parts of `developer_service` | webhooks to one developer |
| `DeveloperIdeas` | `submission_service`, `submission_admin_service`, `dedup_service`, `guardrail_service`, `course_push_service` | ideas of one title |
| `DeveloperAccount` | `developer_service`, `key_service` | one account and its key |
| `Idempotency` | `idempotency_service`, `mie/views/idempotency` | one Idempotency-Key |
| `MCPlatform` | | the last five side by side, in behaviours of one at a time |
| `GenerationJobs_proofs`, `DeveloperApi_proofs`, `Idempotency_proofs` | | their theorems; `DeveloperApi_proofs` has those of the account, the ideas and the webhooks |

### CourseReview

Variables are columns: `course` is the row, `seat` the `ReviewAssignment` rows,
`role` the reviewers' roles, `platformFlow` the platform's review mode, `run` the
course's production run, `appeal` the latest appeal. `credits` is what the wallet
received for the course, `verdict` a history variable (who approved each seat since
the cycle began; no guard reads it), and `req` the requests in flight with the
instances they loaded.

One action is one handler, from its first check to its commit. A handler that
works from the instance it loaded takes that instance as its argument `c`. The
action is used twice: with the current row (the request is served in one go) and,
for the handlers in the constant `Overlap`, with the row as it was when the request
was loaded (`Load`, then `Commit` or `Refuse`), with any other steps in between. A
handler that locks and re-reads takes no such argument: it sees the row at its
commit. `ApproveContent` and `RejectCourse` do both, as `_lock_open_seat` does: the
checks before the lock read the instance, the one after compares the two.

Scenario constants: `Overlap` (which handlers may be outdated), `Requests` (how many
at once), `Source` and `DeveloperVideo` (a creator's upload or a developer's course,
and who films it), `Payable` (a developer's plan may bypass payouts), `EngineOn`
(production enabled), `InitFlow`, `NewRoles` (roles given; `"ERASED"` is an erasure),
`LateAppeals` (an appeal may be decided after the course moved on: off, except in the
run about it, because everything a late appeal breaks is one finding). A course has a
creator price: without one `pay_on_approval` pays nothing and only logs it.

### Withdrawal

`balance` maps the wallet and four internal accounts to their amounts. For each
withdrawal: `request` and `debit` are the statuses the creator sees, `entry` the
`TransferOutboxEvent`, `task` the Celery task (where it is and its retries),
`processor` what the processor really did, and `event` the webhook events of each
kind. `code` is the one live confirmation code, `account` the creator's account,
`surfaced` what the sweep has reported.

A handler in one transaction is one action. `dispatch_transfer_task` is three,
`StartDispatch` (first transaction), `CallProcessor` (no transaction) and
`RecordAccepted` or `RecordRejected` (second transaction), because anything can
happen between them; `TimedOut`, `DispatchErrs` and `WorkerCrashes` are its other
exits. `ReceiveWebhook` is the view, `ProcessWebhook` and `WebhookErrs` the two
outcomes of `process_webhook_task`. `CheckErasure` and `EraseAccount` are the two
halves of `erase_account`, whose check for money precedes its transaction.
`ProcessorActs`, `Sends` and `WorkerCrashes` model code outside the repository: the
processor pays or bounces a transfer it accepted and may reverse one it paid.

`Faults` names what may go wrong in a run: `network` (the call times out, accepted
or not), `ambiguous` (an error answer to an accepted transfer), `error` (an
unexpected exception in any step of the task), `webhook` (processing fails and is
retried), `crash`, `broker` (a task cannot be queued after the commit) and `early`
(a webhook overtakes the answer to the call).

Abstractions: amounts are small numbers, one currency; `internal_transfer` is
atomic, as its transaction is; the request cooldown, the minimum amount and the KYC
requirement only restrict `request_withdrawal`; unknown references and malformed
events change no state the model has.

`Payout` has three variables: what was earned and corrected (`income`), what the
creator can spend (`available`) and the stage of each withdrawal. `Promised`, in
`Withdrawal`, maps them: income is what left the course payment and adjustment
accounts, available is the wallet, the stage is read from the outbox entry. The
property `KeepsPayout` says that every step is a step of `Payout` or none.

Course and money meet in one place, `pay_on_approval`: `PayOnApproval` in
`CourseReview` decides whether and when, `PayCreator` in `Withdrawal` what it does to
the ledger. That it happens once per course is `CourseReview`'s `PaidOnce`, which
`Withdrawal` takes as its guard.

### ProductionRun

The rows are `run` (the `ProductionRun`s of one course, oldest first), `board` (the
storyboard of a run's lesson), `asset` (narrations and videos by what went into
them) and `cost` (the sum of a run's `ProductionCost` rows); `course`, `script` and
`video` are what of the course matters here; `message` counts messages in the broker.
`worker` is what a process holds in memory: the run it claimed with the copy of
`spent_amount` and `budget` it made then, the scripts it read, the step it is at.
`bill` is history: what providers were really asked for.

A transaction is an action; a step that calls a provider is two, with the call in
between, so edits, cancellations, reworks and other workers come between any two
calls. `Checkpoint` is what a worker does before each step: it stops for a
cancellation, a switched-off engine or a spent budget. `run_production` is
acknowledged late: `WorkerCrashes` may bring its message back. `RequeueSilent` is the
sweep for silent runs; without the fault `slow` only dead workers are silent.
`CourseReview` keeps the run in one variable and lets it end at any time;
`ProductionRun` opens that up, and reduces the review to the moves that ask for,
accept or send back a video. No step of one is a step of the other: they share the
translation of `request_production`, `cancel_active_run`, `_deliver` and
`handle_rejection`, each with the part of the rows it needs.

### GenerationJobs

`job` is the `AIGenerationJob` row with its age (fresh, late, stale, for the code's
time limits), `courses` and `content` what was stored for it, `sent` its messages,
`worker` where each worker is in `generate_ai_course` and the course it knows of.
Looking for a cancellation (`Look`), calling the provider, hearing its answer
(`Answer`) and each transaction that stores something (`MakeCourse`, `StorePart`,
`CompleteJob`) are steps of their own. `ProviderFailsJob` covers a full provider, a
transient failure and a final one, with Celery's `retry` that may leave the job
QUEUED and no message. A live worker beats before each call, so rows age only when
nobody works on them.

### WebhookDelivery

`hook` are the `WebhookEvent` rows, one per occurrence and endpoint; `reading` the
endpoints `record_events` read before its insert; `pass` the memory of a dispatch
pass, from `due_events` through the dropped events, the posts, the rows read again
and the write of all outcomes, each a step. `dropping` is the half of
`reject_developer` that fails pending events after the status was saved. `posted`,
`received` and `doomed` are history. Backoff delays are left out: a pending event is
due at any time. Bodies and signatures are data.

### DeveloperIdeas, DeveloperAccount, Idempotency

Ideas of one title: `verdict` is what the duplicate checks said of an idea not
inserted yet, so two of them race; a crawler's submission holds the lock of its
account in between (`AccountFree`). Decisions and pushes lock the idea and are one
step; a rejection of a crawler's idea runs the circuit breaker with it. `announced`
is history: every course id a webhook, a decision or a push told the developer.

An account is read by the view and saved by the service column by column, so
`DeveloperAccount` has a step for the read and one for each save, with the status and
the key of the row that was read in `admin`. The check constraint (no key on an
inactive account) is the condition in `IssuesKey` and `SavesRejection`.

`Idempotency` has a step for each statement of `claim`: the insert, the read, the
conditional update of `_take_over`. Age is fresh, abandoned (past `IN_FLIGHT_LEASE`)
or expired (past `KEY_TTL`). `SlowRequests` decides whether a live request may outlive
its lease; the code's comment says it may not ("far above any push's run time").

## The runs

Runs that must pass (distinct states in parentheses):

| run | question | instance |
|---|---|---|
| `CourseStaged` | does the staged flow keep its nine promises, and is every step a step of `Review`, which has four eyes? (290 thousand) | five reviewers; approvals, rejections, QA claims outdated |
| `CourseDirect` | do four eyes hold where one pool sits the first two seats? (430 thousand) | five reviewers, no payout; approvals, rejections, edits, deletes, appeals, video decisions outdated |
| `CourseDeveloper` | a developer's course, handed over, archived, while reviewers change roles or are erased (260 thousand) | four reviewers, two new roles |
| `CourseOutdated` | is a course paid twice when role changes, QA rejections and video submissions act on old rows? (1.7 million) | three reviewers |
| `WithdrawalMoney` | does the ledger agree with outbox, request, transaction, wallet and processor under six faults, and is every step a step of `Payout`? (1.7 million) | two withdrawals of 1 and 2, a course of 2, adjustments +1 and -1, two retries |
| `WithdrawalSettles` | does every decided transfer settle, every stored event get processed? (14 thousand) | two withdrawals, failing webhook tasks, error answers to accepted transfers, fairness |
| `ProductionWorks` | is a run one worker's, within its budget, and does it deliver the video of the script that is reviewed? (1.2 million) | two workers, two runs, one lesson, an edit, two copies of a message, a crash |
| `ProductionSettles` | does a run end, with its row the sum of its costs? (170 thousand) | one run, two attempts, four kinds of faults, two crashes, two budgets, fairness |
| `Platform` | do generation and the developer API keep their eight promises? (260 thousand) | one job of two parts, two workers, three faults; one event, two passes, two endpoints, a crash; three ideas; three administrators, two keys; three requests, two bodies, a death, an expiry; fairness |

Three more end in a counterexample, see
[below](#where-the-code-and-its-documentation-part-ways).

**Why the bounds are enough.** A course shares no row with another, so one is
enough. Four-eyes conflicts need two people eligible for the same two seats: the full
pool has two Writers (in the direct flow, two of the first pool), a Verifier, a QA
Reviewer and an Admin, who may sit anywhere; the smaller pools let the Admin stand in
for QA and for the second Writer. One outdated request interleaves with every number
of complete ones; two outdated requests differ from that only when both commit from
the same load, which one request reaches as the second is served in one go. The mode
switch (`SwitchReviewFlow`) lets a run that starts in one flow reach the other, so
`CourseOutdated` meets video submissions although it starts direct. The two Writers
are interchangeable in every property, so the runs use symmetry where both exist and
no liveness is checked. Which handlers are outdated in which run is divided so that
each is in one: all at once exceeds what TLC explores in minutes. Two withdrawals of
different amounts on a wallet that cannot pay both at first exercise the double spend
and the code that confirms the wrong one; the events and tasks of one withdrawal never
read another's rows. Two retries show a retry that follows a retry.
In `ProductionWorks` a second run is what a cancellation or a package leaves behind,
and a lesson stands for all of them, which a worker takes one after the other;
`ProductionSettles` has one run, since liveness of one does not read another.
`MaxAttempts`, `MaxDispatch`, `MaxRetry` and `MaxAttempts` of the webhooks are 1 to 3
where the code has 3 to 5: enough for a first failure, one that is retried and one
that ends it. `Platform` runs five components that share no state in separate
behaviours (`part`), so that its states add up and do not multiply. Three ideas are
needed for one pending, one rejected and one that races; three administrators for a
rejection between the read and the two saves of an approval; three requests for two
retries that race for the row of one that died.
`CHECK_DEADLOCK FALSE` is set where the system may really stop (money withdrawn,
transfers settled) or where a run ends at its violation.

**Fairness** (`FairSpec` of `Withdrawal`): workers run what is queued (`Dispatch`,
`ProcessWebhook`), the processor redelivers until it is answered (`ReceiveWebhook`),
beat runs the sweep every ten minutes (`SurfaceStuck`). No fairness of people:
nobody has to request, confirm or approve. None of `ProcessorActs`: the processor may
never decide. `ProcessWebhook` is fair on failed events too, since its task is
retried five times: the runs assume that a transient failure ends before the retries
do, and say nothing of one that does not.

`FairSpec` of `ProductionRun`: beat sweeps every minute and requeues what is silent
(`RequeueSilent`), ten minutes pass (`DispatchAges`), the broker does not lose every
message (strong fairness of a dispatch that leaves one), workers take what is queued
(strong, since a switched-off engine may keep turning a claim away) and go on
(`Works`). `RunSettles` is asked under `<>[]enabled`: with the engine off, runs wait
by design. `PlatformSpec` has two weak fairness conditions: `GenerationGoesOn` (workers,
watchdog, time, and a creator who looks at the jobs now and then, which is when
stale ones are failed) and `DeliveryGoesOn` (beat starts a pass every minute and
passes go on). No fault, no person's decision, and no rejection's second half is
fair. Each of the two is one condition on all its steps together: with one job and
one live endpoint's event no step can starve another for ever.

**The properties.** Course: `PaidOnce`, `PaymentEarned`, `PaidAtItsPrice` (payout);
`FourEyes`, `NoBypass`, `EarlierSeatsStand`, `VerdictStands` (who approved what);
`SeatStates`, `SeatHeld` (rows agree with the status); `VideoReviewed`;
`PublishedIsFinal`; `KeepsReview` (all of it, against the abstract `Review`). Money: `MoneyConserved`, `BalancesAgree` (ledger); `PaidNotRefunded`, `ProcessedWasPaid`, `ProcessorAgrees` (ledger and world);
`RequestAgrees`, `CodeConfirmsPending`, `TaskAgrees` (rows and tasks);
`TransferIsFinal`; `ProcessedEventSettles`, `DecidedSettles`, `StoredIsProcessed`
(progress); `KeepsPayout` (all of it, against the abstract `Payout`). Production:
`OneWorkerPerRun`, `ReviewedVideoIsCurrent`, `BudgetBounds`, `SpentIsSumOfCosts`,
`RunSettles`. Platform: `NothingGeneratedTwice`, `CancelStops` (generation),
`OutcomesAreTrue` (webhooks), `AnnouncedCourse`, `QueueIsBounded` (ideas),
`RevokedKeyStaysDead` (accounts), `RepliesAreTrue` (idempotency keys), `WorkSettles`
(every job and every event of an approved developer ends). Each is stated at its definition; each has a mutant in `PROJECT.json`, a
plausible bug in one modelled definition that the same run catches.

## Where the code and its documentation part ways

Three runs check one statement of the code's own docstrings each and end in a
counterexample; they need no fault, or only a timeout, and no outdated request. They
are quoted under "findings" in `PROJECT.json`.

| run | what the trace shows |
|---|---|
| `CourseLateAppeal` | an appeal approved after the resubmission restarts a course in review |
| `WithdrawalReversed` | a reversal after success is ignored |
| `WithdrawalStuck` | a transfer left PROCESSING is reported by no sweep |

Further disagreements show when a configuration is changed as told here and the
property is put in it. `CourseReview` takes the configuration of `CourseLateAppeal`
(with `LateAppeals = FALSE`), `Withdrawal` that of `WithdrawalReversed`, `ProductionRun`
that of `ProductionWorks`, and the last rows that of `Platform`.

| change | property | what the code says, and what the trace shows |
|---|---|---|
| `Overlap = {"reject_qa"}` | `PublishedIsFinal` | "publishing is one-way" (`course_service.py:909`); a QA rejection loaded before the approval takes a published course back (`review_service.py:984`) |
| `Overlap = {"update_draft"}` | `PaidOnce` | "A course is paid once" (`course_payout_service.py:22`); an edit loaded before the payout saves its empty `creator_paid_at` (`course_service.py:265`) and the next approval pays again |
| `Overlap = {"record_video_decision"}` | `ChoiceEndsWithVideo` | "the choice can be changed until the video is submitted" (`course_service.py:518`); it changes while the video is in review |
| `Overlap = {"delete_draft"}` | `OnlyDraftsDeleted` | "Only Draft courses can be deleted" (`course_service.py:273`); a submitted course is deleted |
| `Overlap = {"submit_video"}`, `SmallPool`, `SmallTeam` | `FourEyes` | the content seats are "each held by a different person" (`reviews/enums.py:14`); a seat reopens behind a decided one and one person takes both |
| `Overlap = {"claim_qa"}`, `ReviewerSet`, `StagedTeam` | `ClaimTakesFreeSeat` | "already assigned to another QA reviewer" (`review_service.py:892`); of two claims the later replaces the earlier |
| `Overlap = {"change_role"}`, `NewRoles = {"ERASED"}` | `ReleaseReopensInReview` | a released seat takes its course from In Review to Submitted (`review_service.py:401`); an erasure sends back a course that had moved on |
| `Overlap = {}` | `EngineFilmsItsOwn` | "Only a course whose video the engine makes can receive it" (`course_service.py:646`); a retried run delivers engine video to a course its creator films |
| `Faults = {"ambiguous"}` | `PaidNotRefunded` | "API rejected it decisively" (`wallet/tasks.py:80`); an error answer to an accepted transfer (`flutterwave_service.py:395`) refunds what is then paid |
| `Faults = {"early"}` (or `"network"`, `"error"`, `"crash"`: the answer is never recorded) | `ProcessedEventSettles` | other states make an event "a duplicate or out-of-order delivery" (`flutterwave_webhook_services.py:103`); a first event that overtakes the answer is dropped for good |
| `Faults = {"broker"}`, `FairSpec` | `StoredIsProcessed` | redelivery keeps an event from being "silently stranded" (`flutterwave_webhook_views.py:118`); one stored while the broker was down is never queued again |
| `Faults = {}` | `PendingUntilSettled` | "the resulting PENDING debit Transaction" (`wallet_service.py:221`); the debit is COMPLETED from the start |
| `Faults = {}` | `ErasedWithoutMoney` | refused while "The account still holds a balance" (`account_erasure_service.py:90`); money arrives between the check and the commit |
| `Faults = {"provider"}`, `NRuns = 1`, `MaxAttempts = 2`, `MaxBill = 3` | `SpentIsActualSpend` | "Actual spend so far" (`production/models.py:91`); a lesson's amount is charged when the lesson is done, so a narration paid for before a later call fails is never charged (`lesson_video_service.py:136`) |
| `Faults = {"crash"}`, `MaxAttempts = 2`, `MaxBill = 3` | `NothingPaidTwice` | "the step is skipped and nothing is paid twice" (`asset_store.py:4`); a worker that dies between the answer and the asset row pays again |
| `Faults = {}` | `CancelIsFinal` | an admin cancels a run that has not finished (`production_service.py:222`); `finish` (`run_ledger.py:131`) saves COMPLETED or BLOCKED over a cancellation that came after the last checkpoint |
| `Faults = {}` | `CreatorsVideoKept` | a run is cancelled when "the creator chose to make the video after all" (`production_service.py:208`); its delivery replaces the creator's video all the same |
| `Faults = {}` | `PublishedIsPackaged` | the engine is called "when a course is published (PACKAGE)" (`production_service.py:139`); with a video run still active that run is returned and nothing packages the course |
| none | `DeliveredStays` | "Safe to overlap with an in-flight pass" (`mie/tasks.py:15`); a pass whose post failed writes its PENDING over the other's DELIVERED, and the event is sent again |
| none | `ApprovedHasKey` | "Credentials are issued only when none exist" (`developer_service.py:46`); an approval from a row read before a rejection leaves an approved account without a key |
| none | `OneCoursePerTitle` | a duplicate title is turned away (`dedup_service.py:34`); decisions are "callable from any state" (`submission_admin_service.py:62`) and two ideas of one title are approved and built |
| `SlowRequests = TRUE` | `RepliesAreTrue` | a retry "returns the first successful response instead of doing the work again"; a request that outlives its five-minute lease is taken over while it runs |

The passing runs leave out exactly what these show: `CourseStaged` has no outdated
`reject_qa`, `CourseOutdated` no outdated edit, `CourseDirect` no outdated
`submit_video`, no run but `CourseLateAppeal` a late appeal, `WithdrawalMoney` no
`ambiguous` answer, `WithdrawalSettles` no early event and no broker failure, and `Platform` no slow request. The others ask
weaker questions: `SpentIsSumOfCosts` compares the row with what was charged,
`OneWorkerPerRun` lets a cancelled run be overwritten, `OutcomesAreTrue` lets an event
be sent again. So they say what holds otherwise.

Two more are steps the models take and no text of the code denies: a retried
generation job runs beside another of its creator (`prepare_job_retry` does not ask),
and a rework asked for while a run that has read its instructions is still active is
merged into it and never carried out.

## The proofs

All are checked by tlapm to the last leaf, with Z3, Zenon and LS4; constants are
arbitrary, restricted only by the named assumptions of the modules
(`AmountAssumption`: amounts and prices are positive; `RetryAssumption`;
`FaultAssumption`; `RoleAssumption`, `CourseAssumption`, ... in `CourseReview`).

`CourseReview_proofs`
- `TypeCorrect`: `Spec => []TypeOK`, one lemma per kind of handler. The instances a
  request carries are rows of the right type, so a stale commit writes one.
- `PaidOnceUnlessEdited`: `Spec => []PaidOnce` for any reviewers, any number of
  overlapping requests and any source, if stale edits (`update_draft_course`) are
  not among them. Every step is shown to be a `LedgerStep` (it leaves `paid` and
  `credits` alone, deletes the course, or pays an unpaid one), and `LedgerInv` adds
  to `PaidOnce` that a request in flight belongs to a handler of `Overlap`, without
  which the excluded handler could not be excluded, and that a deleted course has no
  appeal, without which an appeal would revive it.

`CourseSeats_proofs`
- `FourEyesHold`, `StampsAreTrue`, `OpenSeatIsHeld`, `StatusAndSeatAgree`,
  `ReviewIsNotBypassed`, `VideoIsReviewed`, `ApprovalsAreNotReplaced`,
  `PublishingIsFinal`: the seat properties of `CourseReview`, for any number of
  reviewers and of requests in flight, both flows and all sources. None is inductive.
  What is, `SeatState`, is one picture: a course under review stands at a `Position`,
  the seats ranked below it carry a stamped approval of this cycle, the one at it
  carries none, those above are untouched (`SeatsStand`). A decision moves the position
  one seat on (`DecisionStands`), a return leaves it (`ReturnStands`), a new cycle starts
  it over (`EmptyStands`); each handler is one of these. Four eyes then follows from
  what a decision asks: the reviewer is none of those stamped below, and above there is
  nobody. With it go the frozen review mode (`ModeFrozen`), the video (`VideoKnown`) and
  the revision seat (`StageStates`).
- They assume `SafeRaces`: late are only the handlers that compare the locked row again
  (`Rechecked`), the video decision, the deletion of a draft and, if appeals are decided
  in time, the rejection by QA. The last is the interesting one, for it writes the seat
  of a stale instance: `Fits` says what still holds of the course by then, that a staged
  course which reached QA never falls behind it, and every step is shown to be `Onward`.
- `PaymentsAreEarned`, `PaidThePrice`: `PaymentEarned` and `PaidAtItsPrice`, from
  `PriceState`, which ties price, credits and position; late are only the `Rechecked`.
- `ReviewKept`: `Spec => KeepsReview`, under the same hypotheses. `Review` sees three
  things of a course: `approvedBy` (the history `verdict`), `payments` (how many
  credits) and whether it is published. Of the handlers only six then do anything. The two approvals are
  `Approve`, at the seat of the position; a submission, an appeal on a draft and a
  deletion are `StartOver`, which `PriceState` shows unpaid; `PublishCourse` is
  `Publish`. Everything else is a stutter, which is the point of `WithdrawnKeeps`: a
  rejection, a resubmission or a new video clears the seat at the position, and that one
  held no approval to lose.

Every hypothesis is needed. With the configuration of `CourseLateAppeal` changed as
told (`submit_video` with `SmallPool` and `SmallTeam`), TLC finds:

| late | what breaks |
|---|---|
| `submit_video` | `FourEyes` |
| `update_draft` | `SeatStates`, and `FourEyes` with `SmallPool` |
| `approve_appeal` | `SeatHeld` |
| `change_role`, `NewRoles = {"ERASED"}` | `SeatHeld`: the course is in review with no stage |
| `reject_qa`, with `LateAppeals` | `NoBypass`, `VideoReviewed`: a course that started over goes straight to QA |
| `LateAppeals`, a developer's course | `SeatStates`: the revision seat of an archived course comes back with it |
| `LateAppeals`, `reject_qa` or `delete_draft` | `PublishedIsFinal` |
| those, or `record_video_decision` | `PaymentEarned` (`reject_qa` with `InitFlow = "DIRECT"`, `LeastDirect`) |

`Withdrawal_proofs`
- `WithdrawalTypeCorrect`: `[]TypeOK`, retries bounded.
- `DoubleEntry`: `[]MoneyConserved`. Five steps move money, each between two
  different accounts.
- `CreatorSeesOutbox`, `CodeIsForPending`, `SettledIsFinal`: `[]RequestAgrees`,
  `[]CodeConfirmsPending` and `TransferIsFinal`. None is inductive alone: which entry
  a task may touch depends on where the task is. The invariant `RowsAgree` is their
  conjunction with `TaskAgrees`.
- `RefundedWasNotPaid` (if `"ambiguous" \notin Faults`), `BookedWasPaid`,
  `OutboxTellsTheTruth`: `[]PaidNotRefunded`, `[]ProcessedWasPaid`,
  `[]ProcessorAgrees`. The invariant `Outcomes` says, per withdrawal, what the
  processor can have done given its entry, its task and its events; it is preserved
  under `RowsAgree`. The one hypothesis is needed: see the table above.
- `SuccessIsNotLost`, if only `"ambiguous"`, `"webhook"` and `"broker"` are among the
  faults: `[]ProcessedEventSettles`. A success event finds its transfer in flight because
  the answer was recorded before it (`AnswersFirst`); each other fault lets one come
  first, and the table above names what happens then.
- `BooksAreRight`: `[]BalancesAgree`, under every fault. Balances are compared with sums
  over the rows (`Total`, a fold), and the library's induction theorems cannot be used
  here, so the sums have lemmas of their own (`TotalLess`, `TotalMore`, `TotalIsInt`):
  if one failed it would fail for a smallest finite set, and that set, less an element,
  is a smaller one (`SmallestSet`, `SumsAgree`, `SumsExist`). The invariant `Books` adds
  that the sets summed over are finite, since only finitely many rows are ever made even
  if the constant sets are infinite. A step then adds or takes one row of one sum.

`Payout_proofs`
- `PromiseKept`: `Spec => KeepsPayout`, the step simulation. Each way a transfer ends
  (`ReversePromised`, `SettlePromised`) is one step of `Payout` or none, which needs
  of `RowsAgree` where the task is, and `NeverOverdrawn`, that the wallet is not
  negative. From it and `PayoutSpec` a withdrawal is held once and ends once.

`ProductionRun_proofs`
- `ProductionTypes`: `[]TypeOK`. `TypeInv` adds that a busy worker has a run and, while
  it plans or films, a lesson left, which is what makes the next lesson a lesson.
- `CurrentVideo`: `[]ReviewedVideoIsCurrent`, with every fault. Given the types it is
  inductive: only a delivery brings an engine-made course to its reviewers, and it
  compares the scripts, so no property of runs or workers is needed for it.
- `OneWorker`, `SpentIsCosts`, `BudgetHolds`: `[]OneWorkerPerRun`,
  `[]SpentIsSumOfCosts` and `[]BudgetBounds`, all three from `LedgerInv` and all three
  if `"slow" \notin Faults`: a busy worker's run is running or cancelled and nobody
  else's, and its memory of what was spent is the sum of the cost rows. Every step is
  a `RowsStep`, which takes no row from a worker, a claim of a run that has none, or a
  `WorkStep` on the worker's own row.

`GenerationJobs_proofs`
- `OneCoursePerJob`, `CancellationWins`: `[]NothingGeneratedTwice` and `CancelStops`.
  `JobsInv` ties the two sides together: a busy worker's job is executing, fresh, and
  linked to the course the worker knows of; no two workers share one; the number of
  courses is the link. Fresh is what keeps the watchdog's copies away.

`DeveloperApi_proofs`
- `OneCourseAnnounced`, `QueueStaysBounded`: ids are reserved once, for one idea, never
  above the last one drawn; what was announced and built is what was reserved. For the
  cap, the crawler has one submission between check and insert (`CapHolds`).
- `RevokedStaysDead`: keys only grow, and the row holds none that was revoked.
- `WebhookOutcomesAreTrue`: `[]OutcomesAreTrue`, for any number of passes, crashes and
  attempts. The hard half is that an event given up for its attempts really was posted
  that often although passes write counts they read before. `DeliveryInv` counts: the
  attempts a row shows, and the posts of passes that have not written theirs yet
  (`Uncounted`), are together no more than the posts made; the same of the rows each
  pass has in memory. A pass that writes an old count over a newer one leaves posts out
  and adds none.

`Idempotency_proofs`
- `RepliesStayTrue`, if `~SlowRequests`: a working request holds the row (`OwnerHolds`),
  an answer stays in it for the life of the key (`AnswerHolds`), and a retry about to
  take over holds a row id no younger one has.

The inductive invariants of the seats and of the webhooks were checked by TLC on small
instances before they were proved; the hypotheses are what the failing runs left.

Only model-checked: the liveness properties (`DecidedSettles`, `StoredIsProcessed`,
`RunSettles`, `WorkSettles`), since fairness is out of the prover's reach; and four eyes
in the direct flow with late edits and late appeals (`CourseDirect`). That is not a
theorem: switched to the staged flow, with enough people in its first seat, a late edit
brings an old revision seat back and one person takes two seats.

## What is not modelled

- Row locks and lock order: a transaction is one step; a hazard in `PROJECT.json`
  names what that hides.
- The Paystack webhooks, which repeat Flutterwave's steps, and YouVerify's.
- Sign-in, MFA, sessions and staff invites: single handlers over a cache or one row.
- Collaborators and edit locks: one row each, read unlocked, nothing in more than two
  steps. Catalog: topic reservations and categories, the same.
- KYC: two providers answer for one record; no task retries, nothing competes.
- Generation of assists and thumbnails: they share the job's protocol and store one
  result. The push of a developer's video, demand scores, changes of an endpoint.
- Permissions are a static table: handlers start from the role.
- Documentation services, serializers, filters, migrations and views that only read,
  which are most of the lines of the repository: they have no state to model.
- Achievements, notifications, onboarding, operations, quizzes, search and support edit
  single rows, report or send messages, and have no protocol of their own.

## The plan

Done: `ReviewFlow`, `CourseReview`; `Withdrawal`; `ProductionRun`; `Payout` and `Review`
and their refinements; `GenerationJobs`, `WebhookDelivery`, `DeveloperIdeas`, `DeveloperAccount`,
`Idempotency`; their proofs. Every safety invariant and action property of the passing
runs is a theorem. What would add most next: `PaymentEarned` and `PaidAtItsPrice` with
late decisions about the video, as far as they go; liveness of the review under fair reviewers, in a
smaller configuration; the lock order of the five money moves.

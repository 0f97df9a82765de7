------------------------------ MODULE Withdrawal ------------------------------
(***************************************************************************)
(* One creator's money: what courses and administrators credit to the      *)
(* wallet, and withdrawals on their way to a bank.  A confirmed withdrawal *)
(* moves its amount into suspense and leaves an outbox entry; a Celery     *)
(* task sends it to the payment processor; the processor's webhooks settle *)
(* or reverse it; a sweep reports transfers that hang.                     *)
(*                                                                         *)
(* A handler or a task step that runs in one database transaction is one   *)
(* action; the call to the processor runs outside any transaction, so the  *)
(* dispatch task is three actions and everything else may happen between   *)
(* them.  Faults is the set of things that may go wrong:                   *)
(*   network    the call to the processor times out                       *)
(*   ambiguous  the processor answers an error to a transfer it accepted   *)
(*   error      dispatching hits an unexpected error (database, token)      *)
(*   webhook    processing a webhook fails and is retried                   *)
(*   crash      a worker dies and its task is lost with it                 *)
(*   broker     a task cannot be queued after the commit that asks for it  *)
(*   early      a webhook overtakes the answer to the call                 *)
(***************************************************************************)
EXTENDS Integers, FiniteSetsExt

CONSTANTS Withdrawals, Amount,        \* requests the creator may make
          Courses, Price,             \* courses that pay the creator
          Adjustments, AdjustBy,      \* idempotency keys, signed amounts
          MaxRetries,                 \* of dispatch_transfer_task
          Faults

FaultKinds == {"network", "ambiguous", "error", "webhook", "crash", "broker", "early"}

ASSUME AmountAssumption ==
  /\ Amount \in [Withdrawals -> Nat \ {0}]
  /\ Price \in [Courses -> Nat \ {0}]
  /\ AdjustBy \in [Adjustments -> Int \ {0}]
ASSUME RetryAssumption == MaxRetries \in Nat
ASSUME FaultAssumption == Faults \subseteq FaultKinds

VARIABLES
  balance,    \* Wallet.balance and InternalAccount.balance, by account
  account,    \* the creator: ACTIVE, CHECKED (an erasure is under way), ERASED
  paid,       \* courses that have paid the creator
  adjusted,   \* keys of the adjustments made
  request,    \* WithdrawalRequest.status
  code,       \* the withdrawal whose OTP is live, if any
  debit,      \* Transaction.status of the withdrawal's debit
  entry,      \* TransferOutboxEvent.status
  task,       \* dispatch_transfer_task: where it is, and its retries
  processor,  \* what the processor really did with the transfer
  event,      \* webhook events of each transfer, by kind
  surfaced    \* transfers the reconciliation sweep has reported

vars == <<balance, account, paid, adjusted, request, code, debit, entry, task,
          processor, event, surfaced>>

Accounts   == {"wallet", "suspense", "flutterwave_transfer", "course_payment",
               "adjustments"}
NoCode     == "none"
Terminal   == {"FAILED", "PROCESSED"}
InFlight   == {"PENDING", "PROCESSING", "SUBMITTED"}
EntryStates == {"NONE"} \cup InFlight \cup Terminal
Tasks == [at : {"none", "queued", "calling", "accepted", "rejected"},
          retries : 0..MaxRetries]
EventKinds == {"paid", "failed", "reversed"}

\* SENT: the processor keeps sending it; PENDING: stored and its task queued;
\* STRANDED: stored as PENDING, but its task was never queued.
EventStates == {"NONE", "SENT", "PENDING", "STRANDED", "FAILED", "PROCESSED"}

TypeOK ==
  /\ balance \in [Accounts -> Int]
  /\ account \in {"ACTIVE", "CHECKED", "ERASED"}
  /\ paid \subseteq Courses
  /\ adjusted \subseteq Adjustments
  /\ request \in [Withdrawals -> {"NONE", "PENDING_CONFIRMATION", "CONFIRMED", "EXPIRED"}]
  /\ code \in Withdrawals \cup {NoCode}
  /\ debit \in [Withdrawals -> {"NONE", "PENDING", "COMPLETED", "FAILED"}]
  /\ entry \in [Withdrawals -> EntryStates]
  /\ task \in [Withdrawals -> Tasks]
  /\ processor \in [Withdrawals -> {"NONE", "ACCEPTED", "PAID", "BOUNCED", "REVERSED"}]
  /\ event \in [Withdrawals -> [EventKinds -> EventStates]]
  /\ surfaced \subseteq Withdrawals

-----------------------------------------------------------------------------
(* The ledger.                                                             *)

\* Mutant of Moved: the second leg is lost.
OneLeg(from, to, amount) == [balance EXCEPT ![from] = @ - amount]

\* internal_transfer: two legs under one reference, or neither.
Moved(from, to, amount) ==
  [balance EXCEPT ![from] = @ - amount, ![to] = @ + amount]

\* pay_on_approval, once per course (CourseReview).
PayCreator(c) ==
  /\ c \notin paid
  /\ paid' = paid \cup {c}
  /\ balance' = Moved("course_payment", "wallet", Price[c])
  /\ UNCHANGED <<account, adjusted, request, code, debit, entry, task, processor,
                 event, surfaced>>

\* Mutant of AdjustWallet: the key is not asked.
AdjustAgain(k) ==
  /\ balance["wallet"] + AdjustBy[k] >= 0
  /\ adjusted' = adjusted \cup {k}
  /\ balance' = Moved("adjustments", "wallet", AdjustBy[k])
  /\ UNCHANGED <<account, paid, request, code, debit, entry, task, processor,
                 event, surfaced>>

\* adjust_wallet: a key moves money once, and never below zero.
AdjustWallet(k) ==
  /\ k \notin adjusted
  /\ balance["wallet"] + AdjustBy[k] >= 0
  /\ adjusted' = adjusted \cup {k}
  /\ balance' = Moved("adjustments", "wallet", AdjustBy[k])
  /\ UNCHANGED <<account, paid, request, code, debit, entry, task, processor,
                 event, surfaced>>

-----------------------------------------------------------------------------
(* The creator.                                                            *)

\* request_withdrawal reserves nothing; its code voids the code before it.
RequestWithdrawal(r) ==
  /\ account # "ERASED"
  /\ request[r] = "NONE"
  /\ Amount[r] <= balance["wallet"]
  /\ request' = [request EXCEPT ![r] = "PENDING_CONFIRMATION"]
  /\ code' = r
  /\ UNCHANGED <<balance, account, paid, adjusted, debit, entry, task, processor,
                 event, surfaced>>

\* The code expires.
CodeExpires ==
  /\ code # NoCode
  /\ code' = NoCode
  /\ UNCHANGED <<balance, account, paid, adjusted, request, debit, entry, task,
                 processor, event, surfaced>>

\* confirm_withdrawal: request, code, ledger and outbox in one transaction; the
\* dispatch task is queued after the commit.
ConfirmWithdrawal(r) ==
  /\ request[r] = "PENDING_CONFIRMATION"
  /\ code = r
  /\ Amount[r] <= balance["wallet"]
  /\ code' = NoCode
  /\ request' = [request EXCEPT ![r] = "CONFIRMED"]
  /\ balance' = Moved("wallet", "suspense", Amount[r])
  /\ debit' = [debit EXCEPT ![r] = "COMPLETED"]
  /\ entry' = [entry EXCEPT ![r] = "PENDING"]
  /\ \/ task' = [task EXCEPT ![r].at = "queued"]
     \/ "broker" \in Faults /\ UNCHANGED task
  /\ UNCHANGED <<account, paid, adjusted, processor, event, surfaced>>

-----------------------------------------------------------------------------
(* dispatch_transfer_task.                                                 *)

\* Mutants of Reverse: the outbox entry keeps its status; the money stays away.
ReverseRowsOnly(r) ==
  /\ entry' = [entry EXCEPT ![r] = "FAILED"]
  /\ debit' = [debit EXCEPT ![r] = "FAILED"]
  /\ request' = [request EXCEPT ![r] = "EXPIRED"]
  /\ UNCHANGED balance
ReverseMoneyOnly(r) ==
  /\ balance' = Moved("suspense", "wallet", Amount[r])
  /\ debit' = [debit EXCEPT ![r] = "FAILED"]
  /\ request' = [request EXCEPT ![r] = "EXPIRED"]
  /\ UNCHANGED entry

\* The money goes back to the wallet, and the withdrawal ends.
Reverse(r) ==
  /\ entry' = [entry EXCEPT ![r] = "FAILED"]
  /\ balance' = Moved("suspense", "wallet", Amount[r])
  /\ debit' = [debit EXCEPT ![r] = "FAILED"]
  /\ request' = [request EXCEPT ![r] = "EXPIRED"]

Leaves(r) == task' = [task EXCEPT ![r].at = "none"]

\* Mutant of StartDispatch: the claim is not saved before the call.
StartUnclaimed(r) ==
  /\ task[r].at = "queued"
  /\ task' = [task EXCEPT ![r].at = "calling"]
  /\ UNCHANGED <<balance, account, paid, adjusted, request, code, debit, entry,
                 processor, event, surfaced>>

\* The entry is claimed, unless it was already.
StartDispatch(r) ==
  /\ task[r].at = "queued"
  /\ IF entry[r] = "SUBMITTED" \/ (entry[r] = "PROCESSING" /\ task[r].retries = 0)
     THEN Leaves(r) /\ UNCHANGED entry
     ELSE /\ entry' = [entry EXCEPT ![r] = "PROCESSING"]
          /\ task' = [task EXCEPT ![r].at = "calling"]
  /\ UNCHANGED <<balance, account, paid, adjusted, request, code, debit, processor,
                 event, surfaced>>

\* The transfer is accepted once: its reference is the idempotency key.
Received(r) ==
  [processor EXCEPT ![r] = IF @ = "NONE" THEN "ACCEPTED" ELSE @]

\* Mutant of TimedOut: retried for ever.
TimedOutAlways(r) ==
  /\ "network" \in Faults
  /\ processor' \in {processor, Received(r)}
  /\ task' = [task EXCEPT ![r] = [at |-> "queued", retries |-> @.retries + 1]]

\* A timeout is ambiguous: the task is retried, and given up after MaxRetries.
TimedOut(r) ==
  /\ "network" \in Faults
  /\ processor' \in {processor, Received(r)}
  /\ task' = [task EXCEPT ![r] =
       IF @.retries < MaxRetries THEN [at |-> "queued", retries |-> @.retries + 1]
                                 ELSE [@ EXCEPT !.at = "none"]]

CallProcessor(r) ==
  /\ task[r].at = "calling"
  /\ \/ processor' = Received(r) /\ task' = [task EXCEPT ![r].at = "accepted"]
     \/ /\ processor[r] = "NONE"
        /\ UNCHANGED processor
        /\ task' = [task EXCEPT ![r].at = "rejected"]
     \/ /\ "ambiguous" \in Faults
        /\ processor' = Received(r)
        /\ task' = [task EXCEPT ![r].at = "rejected"]
     \/ TimedOut(r)
  /\ UNCHANGED <<balance, account, paid, adjusted, request, code, debit, entry,
                 event, surfaced>>

\* Mutant of RecordAccepted: the entry is not saved.
RecordNothing(r) ==
  /\ task[r].at = "accepted"
  /\ Leaves(r)
  /\ UNCHANGED <<balance, account, paid, adjusted, request, code, debit, entry,
                 processor, event, surfaced>>

RecordAccepted(r) ==
  /\ task[r].at = "accepted"
  /\ entry' = [entry EXCEPT ![r] = "SUBMITTED"]
  /\ Leaves(r)
  /\ UNCHANGED <<balance, account, paid, adjusted, request, code, debit, processor,
                 event, surfaced>>

RecordRejected(r) ==
  /\ task[r].at = "rejected"
  /\ Reverse(r)
  /\ Leaves(r)
  /\ UNCHANGED <<account, paid, adjusted, code, processor, event, surfaced>>

\* Mutant of DispatchErrs: the funds go back whatever the entry says.
ReversesAlways(r) ==
  /\ "error" \in Faults
  /\ task[r].at # "none"
  /\ Leaves(r)
  /\ Reverse(r)
  /\ UNCHANGED <<account, paid, adjusted, code, processor, event, surfaced>>

\* An unexpected error in any of the three steps: only an entry that was never
\* sent is reversed, and nobody runs the task again.
DispatchErrs(r) ==
  /\ "error" \in Faults
  /\ task[r].at # "none"
  /\ Leaves(r)
  /\ IF entry[r] = "PENDING" THEN Reverse(r)
     ELSE UNCHANGED <<balance, request, debit, entry>>
  /\ UNCHANGED <<account, paid, adjusted, code, processor, event, surfaced>>

\* Tasks are acknowledged when they start: a worker that dies loses them.
WorkerCrashes(r) ==
  /\ "crash" \in Faults
  /\ task[r].at \in {"calling", "accepted", "rejected"}
  /\ Leaves(r)
  /\ UNCHANGED <<balance, account, paid, adjusted, request, code, debit, entry,
                 processor, event, surfaced>>

-----------------------------------------------------------------------------
(* The processor, and its webhooks.                                        *)

Sends(r, k) == event' = [event EXCEPT ![r][k] = "SENT"]

ProcessorActs(r) ==
  /\ \/ /\ processor[r] = "ACCEPTED"
        /\ processor' = [processor EXCEPT ![r] = "PAID"]
        /\ Sends(r, "paid")
     \/ /\ processor[r] = "ACCEPTED"
        /\ processor' = [processor EXCEPT ![r] = "BOUNCED"]
        /\ Sends(r, "failed")
     \/ /\ processor[r] = "PAID"
        /\ processor' = [processor EXCEPT ![r] = "REVERSED"]
        /\ Sends(r, "reversed")
  /\ UNCHANGED <<balance, account, paid, adjusted, request, code, debit, entry, task,
                 surfaced>>

\* The view stores an event once and queues its task; a redelivery queues the
\* task again only when it had failed.
ReceiveWebhook(r, k) ==
  /\ event[r][k] \in {"SENT", "FAILED"}
  /\ "early" \in Faults \/ task[r].at = "none"
  /\ \/ event' = [event EXCEPT ![r][k] = "PENDING"]
     \/ "broker" \in Faults /\ event' = [event EXCEPT ![r][k] = "STRANDED"]
  /\ UNCHANGED <<balance, account, paid, adjusted, request, code, debit, entry, task,
                 processor, surfaced>>

\* The money leaves suspense for the processor's account.
SettlePaid(r) ==
  /\ entry' = [entry EXCEPT ![r] = "PROCESSED"]
  /\ balance' = Moved("suspense", "flutterwave_transfer", Amount[r])
  /\ debit' = [debit EXCEPT ![r] = "COMPLETED"]
  /\ UNCHANGED request

\* Mutants of Settle: a transfer already settled is settled again; every event is
\* a success; failures are not handled.
SettleAgain(r, k) == IF k = "paid" THEN SettlePaid(r) ELSE Reverse(r)
SettleAsPaid(r, k) ==
  IF entry[r] # "SUBMITTED" THEN UNCHANGED <<balance, request, debit, entry>>
  ELSE SettlePaid(r)
SettlePaidOnly(r, k) ==
  IF entry[r] # "SUBMITTED" \/ k # "paid"
  THEN UNCHANGED <<balance, request, debit, entry>>
  ELSE SettlePaid(r)

\* _handle_transfer_success, _handle_transfer_failure: only a SUBMITTED transfer
\* is settled; any other event is ignored, and counts as processed.
Settle(r, k) ==
  IF entry[r] # "SUBMITTED" THEN UNCHANGED <<balance, request, debit, entry>>
  ELSE IF k = "paid" THEN SettlePaid(r) ELSE Reverse(r)

\* Mutant of ProcessWebhook: a failed event waits to be delivered again.
ProcessQueuedOnly(r, k) ==
  /\ event[r][k] = "PENDING"
  /\ Settle(r, k)
  /\ event' = [event EXCEPT ![r][k] = "PROCESSED"]
  /\ UNCHANGED <<account, paid, adjusted, code, task, processor, surfaced>>

\* process_webhook_task: queued, or retried after it failed.
ProcessWebhook(r, k) ==
  /\ event[r][k] \in {"PENDING", "FAILED"}
  /\ Settle(r, k)
  /\ event' = [event EXCEPT ![r][k] = "PROCESSED"]
  /\ UNCHANGED <<account, paid, adjusted, code, task, processor, surfaced>>

\* Its transaction is rolled back, and the event marked.
WebhookErrs(r, k) ==
  /\ "webhook" \in Faults
  /\ event[r][k] = "PENDING"
  /\ event' = [event EXCEPT ![r][k] = "FAILED"]
  /\ UNCHANGED <<balance, account, paid, adjusted, request, code, debit, entry, task,
                 processor, surfaced>>

-----------------------------------------------------------------------------
(* The administrators.                                                     *)

\* reconcile_stuck_transfers_task, for a transfer that has hung for an hour.
SurfaceStuck(r) ==
  /\ entry[r] = "SUBMITTED"
  /\ surfaced' = surfaced \cup {r}
  /\ UNCHANGED <<balance, account, paid, adjusted, request, code, debit, entry, task,
                 processor, event>>

\* erase_account looks for money before its transaction, and not in it.
HasMoney == balance["wallet"] > 0 \/ \E r \in Withdrawals : entry[r] \in InFlight

CheckErasure ==
  /\ account = "ACTIVE"
  /\ ~HasMoney
  /\ account' = "CHECKED"
  /\ UNCHANGED <<balance, paid, adjusted, request, code, debit, entry, task, processor,
                 event, surfaced>>

\* Mutant of EraseAccount: the codes are left alone.
EraseKeepsCodes ==
  /\ account = "CHECKED"
  /\ account' = "ERASED"
  /\ request' = [r \in Withdrawals |->
       IF request[r] = "PENDING_CONFIRMATION" THEN "EXPIRED" ELSE request[r]]
  /\ UNCHANGED <<balance, code, paid, adjusted, debit, entry, task, processor, event,
                 surfaced>>

EraseAccount ==
  /\ account = "CHECKED"
  /\ account' = "ERASED"
  /\ code' = NoCode
  /\ request' = [r \in Withdrawals |->
       IF request[r] = "PENDING_CONFIRMATION" THEN "EXPIRED" ELSE request[r]]
  /\ UNCHANGED <<balance, paid, adjusted, debit, entry, task, processor, event, surfaced>>

-----------------------------------------------------------------------------
Init ==
  /\ balance = [a \in Accounts |-> 0]
  /\ account = "ACTIVE"
  /\ paid = {} /\ adjusted = {}
  /\ request = [r \in Withdrawals |-> "NONE"]
  /\ code = NoCode
  /\ debit = [r \in Withdrawals |-> "NONE"]
  /\ entry = [r \in Withdrawals |-> "NONE"]
  /\ task = [r \in Withdrawals |-> [at |-> "none", retries |-> 0]]
  /\ processor = [r \in Withdrawals |-> "NONE"]
  /\ event = [r \in Withdrawals |-> [k \in EventKinds |-> "NONE"]]
  /\ surfaced = {}

Dispatch(r) ==
  StartDispatch(r) \/ CallProcessor(r) \/ RecordAccepted(r) \/ RecordRejected(r)

TransferStep(r) ==
  \/ RequestWithdrawal(r) \/ ConfirmWithdrawal(r)
  \/ Dispatch(r) \/ DispatchErrs(r) \/ WorkerCrashes(r)
  \/ ProcessorActs(r) \/ SurfaceStuck(r)
  \/ \E k \in EventKinds : ReceiveWebhook(r, k) \/ ProcessWebhook(r, k) \/ WebhookErrs(r, k)

Next ==
  \/ \E r \in Withdrawals : TransferStep(r)
  \/ \E c \in Courses : PayCreator(c)
  \/ \E k \in Adjustments : AdjustWallet(k)
  \/ CodeExpires \/ CheckErasure \/ EraseAccount

Spec == Init /\ [][Next]_vars

\* Workers run what is queued, the processor redelivers until it is answered,
\* and beat runs the sweep.
Fairness ==
  /\ \A r \in Withdrawals : WF_vars(Dispatch(r)) /\ WF_vars(SurfaceStuck(r))
  /\ \A r \in Withdrawals, k \in EventKinds :
       WF_vars(ReceiveWebhook(r, k)) /\ WF_vars(ProcessWebhook(r, k))

FairSpec == Spec /\ Fairness
-----------------------------------------------------------------------------
(* What must hold.                                                         *)

Total(f, S) == MapThenSumSet(LAMBDA x : f[x], S)

\* Double entry: no step creates or loses money, through reversals, retries and
\* errors between the two legs.
MoneyConserved ==
  balance["wallet"] + balance["suspense"] + balance["flutterwave_transfer"]
    + balance["course_payment"] + balance["adjustments"] = 0

\* The balances are what the rows say, through retries, crashes, duplicate events and
\* adjustments sent again: suspense holds exactly the transfers in flight, the wallet
\* what was earned and adjusted less the withdrawals that were not reversed, and
\* never less than nothing (Wallet.balance).
BalancesAgree ==
  /\ balance["suspense"] = Total(Amount, {r \in Withdrawals : entry[r] \in InFlight})
  /\ balance["wallet"] = Total(Price, paid) + Total(AdjustBy, adjusted)
       - Total(Amount, {r \in Withdrawals : entry[r] \in InFlight \cup {"PROCESSED"}})
  /\ balance["wallet"] >= 0

\* No refund of a payment: when the money is back in the wallet the processor has
\* not paid and never will, whatever timed out, was retried or came late.
PaidNotRefunded ==
  \A r \in Withdrawals :
    entry[r] = "FAILED" => processor[r] \in {"NONE", "BOUNCED", "REVERSED"}

\* A transfer booked as paid out was paid.
ProcessedWasPaid ==
  \A r \in Withdrawals :
    entry[r] = "PROCESSED" => processor[r] \in {"PAID", "REVERSED"}

\* Through retries and webhooks that overtake it, a task calls the processor, or
\* records its answer, only for an entry that is claimed and not settled.
TaskAgrees ==
  \A r \in Withdrawals :
    /\ task[r].at = "queued" => entry[r] \in {"PENDING", "PROCESSING"}
    /\ task[r].at \in {"calling", "accepted", "rejected"} => entry[r] = "PROCESSING"

\* Nothing is sent before its entry is claimed, what was submitted was received,
\* a rejected transfer was not, and events tell what the processor did.
ProcessorAgrees ==
  \A r \in Withdrawals :
    /\ entry[r] \in {"NONE", "PENDING"} => processor[r] = "NONE"
    /\ entry[r] = "SUBMITTED" => processor[r] # "NONE"
    /\ task[r].at = "accepted" => processor[r] # "NONE"
    /\ "ambiguous" \notin Faults /\ task[r].at = "rejected" => processor[r] = "NONE"
    /\ event[r]["paid"] # "NONE" => processor[r] \in {"PAID", "REVERSED"}
    /\ event[r]["failed"] # "NONE" => processor[r] = "BOUNCED"
    /\ event[r]["reversed"] # "NONE" => processor[r] = "REVERSED"

\* What the creator sees (request and transaction) agrees with the outbox.
RequestAgrees ==
  \A r \in Withdrawals :
    /\ entry[r] = "NONE" <=> debit[r] = "NONE"
    /\ entry[r] = "FAILED" <=> debit[r] = "FAILED"
    /\ entry[r] \in InFlight \cup {"PROCESSED"} <=> request[r] = "CONFIRMED"
    /\ entry[r] = "FAILED" => request[r] = "EXPIRED"

\* An OTP confirms a withdrawal that still waits for it, and only the last one
\* requested.
CodeConfirmsPending == code # NoCode => request[code] = "PENDING_CONFIRMATION"

\* A settled transfer stays settled: duplicate and late events change nothing.
TransferIsFinal ==
  [][\A r \in Withdrawals : entry[r] \in Terminal => entry'[r] = entry[r]]_vars

\* A success event is ignored only as a duplicate or out of order
\* (_handle_transfer_success): once it counts as processed, its transfer is settled.
ProcessedEventSettles ==
  \A r \in Withdrawals : event[r]["paid"] = "PROCESSED" => entry[r] \in Terminal

\* A transfer the processor has decided is settled in the end.
DecidedSettles ==
  \A r \in Withdrawals :
    entry[r] \in InFlight /\ processor[r] \in {"PAID", "BOUNCED", "REVERSED"}
      ~> entry[r] \in Terminal

\* A transient failure does not strand an event (FlutterwaveWebhookView.post).
StoredIsProcessed ==
  \A r \in Withdrawals, k \in EventKinds :
    event[r][k] \in {"PENDING", "STRANDED", "FAILED"} ~> event[r][k] = "PROCESSED"

-----------------------------------------------------------------------------
(* What the creator is promised (Payout), and how the rows keep it.        *)

StageOf(r) ==
  CASE entry[r] = "NONE" -> "open"
    [] entry[r] \in InFlight -> "held"
    [] entry[r] = "PROCESSED" -> "paid"
    [] entry[r] = "FAILED" -> "refunded"

Promised == INSTANCE Payout WITH
              income <- -(balance["course_payment"] + balance["adjustments"]),
              available <- balance["wallet"],
              stage <- [r \in Withdrawals |-> StageOf(r)]

\* Through timeouts, retries, crashes and events in any order, a withdrawal leaves
\* the wallet once and comes back whole or not at all: each step of the handlers is
\* a step of Payout or none.
KeepsPayout == Promised!PayoutSpec

-----------------------------------------------------------------------------
(* What docstrings of the code promise and the code does not do.  The      *)
(* README names for each the configuration that shows it.                  *)

\* Money left in suspense by an ambiguous call is left for the reconciliation
\* sweep (dispatch_transfer_task): the sweep reports it.
StuckSurfaces ==
  \A r \in Withdrawals :
    entry[r] = "PROCESSING" ~> entry[r] # "PROCESSING" \/ r \in surfaced

\* A transfer the processor reversed is reversed in the ledger
\* (FlutterwaveWebhookServices._handle_transfer_failure).
ReversalRefunds ==
  \A r \in Withdrawals : event[r]["reversed"] = "PROCESSED" => entry[r] = "FAILED"

\* A confirmed withdrawal is a PENDING debit until it settles (confirm_withdrawal).
PendingUntilSettled ==
  \A r \in Withdrawals : entry[r] \in InFlight => debit[r] = "PENDING"

\* An account is erased without money on the platform (AccountHasMoney).
ErasedWithoutMoney ==
  [][account # "ERASED" /\ account' = "ERASED" => ~HasMoney]_vars
=============================================================================

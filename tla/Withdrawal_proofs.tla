-------------------------- MODULE Withdrawal_proofs --------------------------
(***************************************************************************)
(* Proofs about Withdrawal, for any creator, any amounts and any faults:   *)
(* its types, double entry, that a transfer is never both paid by the      *)
(* processor and refunded to the wallet, that no success event is used up  *)
(* in vain, and that the balances are the sums of the rows.                *)
(***************************************************************************)
EXTENDS Withdrawal, FiniteSetTheorems, WellFoundedInduction, TLAPS

-----------------------------------------------------------------------------
(* Types.                                                                  *)

\* A transfer between two accounts leaves every balance a number.
LEMMA MovedType ==
  ASSUME TypeOK, NEW from \in Accounts, NEW to \in Accounts, NEW amount \in Int
  PROVE  Moved(from, to, amount) \in [Accounts -> Int]
BY DEF Moved, TypeOK

LEMMA AmountTypes ==
  /\ \A r \in Withdrawals : Amount[r] \in Int
  /\ \A c \in Courses : Price[c] \in Int
  /\ \A k \in Adjustments : AdjustBy[k] \in Int
BY AmountAssumption

\* Reversing or settling a transfer moves its money and marks its rows.
LEMMA ReverseTypes ==
  ASSUME TypeOK, NEW r \in Withdrawals, Reverse(r)
  PROVE  /\ balance' \in [Accounts -> Int]
         /\ entry' \in [Withdrawals -> EntryStates]
         /\ debit' \in [Withdrawals -> {"NONE", "PENDING", "COMPLETED", "FAILED"}]
         /\ request' \in [Withdrawals -> {"NONE", "PENDING_CONFIRMATION", "CONFIRMED", "EXPIRED"}]
<1>1. balance' \in [Accounts -> Int]
  BY MovedType, AmountTypes DEF Reverse, Accounts
<1> QED
  BY <1>1 DEF Reverse, TypeOK, EntryStates, Terminal

LEMMA SettleTypes ==
  ASSUME TypeOK, NEW r \in Withdrawals, NEW k \in EventKinds, Settle(r, k)
  PROVE  /\ balance' \in [Accounts -> Int]
         /\ entry' \in [Withdrawals -> EntryStates]
         /\ debit' \in [Withdrawals -> {"NONE", "PENDING", "COMPLETED", "FAILED"}]
         /\ request' \in [Withdrawals -> {"NONE", "PENDING_CONFIRMATION", "CONFIRMED", "EXPIRED"}]
<1>1. CASE UNCHANGED <<balance, request, debit, entry>>
  BY <1>1 DEF TypeOK
<1>2. CASE Reverse(r)
  BY <1>2, ReverseTypes
<1>3. CASE SettlePaid(r)
  <2>1. balance' \in [Accounts -> Int]
    BY <1>3, MovedType, AmountTypes DEF SettlePaid, Accounts
  <2> QED
    BY <1>3, <2>1 DEF SettlePaid, TypeOK, EntryStates, Terminal
<1> QED
  BY <1>1, <1>2, <1>3 DEF Settle

LEMMA LeavesTypes ==
  ASSUME TypeOK, NEW r \in Withdrawals, Leaves(r)
  PROVE  task' \in [Withdrawals -> Tasks]
BY DEF Leaves, TypeOK, Tasks

\* A retry is counted, and never beyond MaxRetries.
LEMMA TimedOutType ==
  ASSUME TypeOK, NEW r \in Withdrawals, TimedOut(r)
  PROVE  task' \in [Withdrawals -> Tasks]
<1>1. task \in [Withdrawals -> Tasks]
  BY DEF TypeOK
<1>2. CASE task[r].retries < MaxRetries
  <2> DEFINE t == [at |-> "queued", retries |-> task[r].retries + 1]
  <2>1. task[r].retries \in 0..MaxRetries
    BY <1>1 DEF Tasks
  <2>2. task[r].retries + 1 \in 0..MaxRetries
    BY <1>2, <2>1, RetryAssumption
  <2>3. t \in Tasks
    BY <2>2 DEF Tasks
  <2>4. task' = [task EXCEPT ![r] = t]
    BY <1>2 DEF TimedOut
  <2> HIDE DEF t
  <2> QED
    BY <1>1, <2>3, <2>4
<1>3. CASE ~(task[r].retries < MaxRetries)
  <2>1. task' = [task EXCEPT ![r] = [task[r] EXCEPT !.at = "none"]]
    BY <1>3 DEF TimedOut
  <2>2. [task[r] EXCEPT !.at = "none"] \in Tasks
    BY <1>1 DEF Tasks
  <2> QED
    BY <1>1, <2>1, <2>2
<1> QED
  BY <1>2, <1>3

LEMMA ReceivedType ==
  ASSUME TypeOK, NEW r \in Withdrawals
  PROVE  Received(r) \in [Withdrawals -> {"NONE", "ACCEPTED", "PAID", "BOUNCED", "REVERSED"}]
BY DEF Received, TypeOK

\* The creator's own steps, and the money that comes in.
LEMMA CreatorTypes ==
  ASSUME TypeOK
  PROVE  /\ \A c \in Courses : PayCreator(c) => TypeOK'
         /\ \A k \in Adjustments : AdjustWallet(k) => TypeOK'
         /\ \A r \in Withdrawals : RequestWithdrawal(r) => TypeOK'
         /\ \A r \in Withdrawals : ConfirmWithdrawal(r) => TypeOK'
         /\ CodeExpires \/ CheckErasure \/ EraseAccount => TypeOK'
<1>1. ASSUME NEW c \in Courses, PayCreator(c) PROVE TypeOK'
  <2>1. balance' \in [Accounts -> Int]
    BY <1>1, MovedType, AmountTypes DEF PayCreator, Accounts
  <2> QED
    BY <1>1, <2>1 DEF PayCreator, TypeOK
<1>2. ASSUME NEW k \in Adjustments, AdjustWallet(k) PROVE TypeOK'
  <2>1. balance' \in [Accounts -> Int]
    BY <1>2, MovedType, AmountTypes DEF AdjustWallet, Accounts
  <2> QED
    BY <1>2, <2>1 DEF AdjustWallet, TypeOK
<1>3. ASSUME NEW r \in Withdrawals, RequestWithdrawal(r) PROVE TypeOK'
  BY <1>3 DEF RequestWithdrawal, TypeOK
<1>4. ASSUME NEW r \in Withdrawals, ConfirmWithdrawal(r) PROVE TypeOK'
  <2>1. balance' \in [Accounts -> Int]
    BY <1>4, MovedType, AmountTypes DEF ConfirmWithdrawal, Accounts
  <2>2. task' \in [Withdrawals -> Tasks]
    BY <1>4 DEF ConfirmWithdrawal, TypeOK, Tasks
  <2> QED
    BY <1>4, <2>1, <2>2 DEF ConfirmWithdrawal, TypeOK, EntryStates, InFlight
<1>5. ASSUME CodeExpires \/ CheckErasure \/ EraseAccount PROVE TypeOK'
  BY <1>5 DEF CodeExpires, CheckErasure, EraseAccount, TypeOK
<1> QED
  BY <1>1, <1>2, <1>3, <1>4, <1>5

\* The dispatch task.
LEMMA DispatchTypes ==
  ASSUME TypeOK, NEW r \in Withdrawals
  PROVE  /\ Dispatch(r) => TypeOK'
         /\ DispatchErrs(r) => TypeOK'
         /\ WorkerCrashes(r) => TypeOK'
<1>1. ASSUME StartDispatch(r) PROVE TypeOK'
  <2>1. CASE Leaves(r) /\ UNCHANGED entry
    BY <1>1, <2>1, LeavesTypes DEF StartDispatch, TypeOK
  <2>2. CASE /\ entry' = [entry EXCEPT ![r] = "PROCESSING"]
             /\ task' = [task EXCEPT ![r].at = "calling"]
    BY <1>1, <2>2 DEF StartDispatch, TypeOK, Tasks, EntryStates, InFlight
  <2> QED
    BY <1>1, <2>1, <2>2 DEF StartDispatch
<1>2. ASSUME CallProcessor(r) PROVE TypeOK'
  <2>1. processor' \in [Withdrawals -> {"NONE", "ACCEPTED", "PAID", "BOUNCED", "REVERSED"}]
    BY <1>2, ReceivedType DEF CallProcessor, TimedOut, TypeOK
  <2>2. task' \in [Withdrawals -> Tasks]
    <3>1. CASE \E s \in {"accepted", "rejected"} : task' = [task EXCEPT ![r].at = s]
      BY <3>1 DEF TypeOK, Tasks
    <3>2. CASE TimedOut(r)
      BY <3>2, TimedOutType
    <3> QED
      BY <1>2, <3>1, <3>2 DEF CallProcessor
  <2> QED
    BY <1>2, <2>1, <2>2 DEF CallProcessor, TypeOK
<1>3. ASSUME RecordAccepted(r) PROVE TypeOK'
  BY <1>3, LeavesTypes DEF RecordAccepted, TypeOK, EntryStates, InFlight
<1>4. ASSUME RecordRejected(r) PROVE TypeOK'
  BY <1>4, LeavesTypes, ReverseTypes DEF RecordRejected, TypeOK
<1>5. ASSUME DispatchErrs(r) PROVE TypeOK'
  <2>1. CASE Reverse(r)
    BY <1>5, <2>1, LeavesTypes, ReverseTypes DEF DispatchErrs, TypeOK
  <2>2. CASE UNCHANGED <<balance, request, debit, entry>>
    BY <1>5, <2>2, LeavesTypes DEF DispatchErrs, TypeOK
  <2> QED
    BY <1>5, <2>1, <2>2 DEF DispatchErrs
<1>6. ASSUME WorkerCrashes(r) PROVE TypeOK'
  BY <1>6, LeavesTypes DEF WorkerCrashes, TypeOK
<1> QED
  BY <1>1, <1>2, <1>3, <1>4, <1>5, <1>6 DEF Dispatch

\* The processor, its webhooks and the sweep.
LEMMA WebhookTypes ==
  ASSUME TypeOK, NEW r \in Withdrawals
  PROVE  /\ ProcessorActs(r) => TypeOK'
         /\ SurfaceStuck(r) => TypeOK'
         /\ \A k \in EventKinds :
              ReceiveWebhook(r, k) \/ ProcessWebhook(r, k) \/ WebhookErrs(r, k) => TypeOK'
<1>1. ASSUME NEW k \in EventKinds, NEW s \in EventStates
      PROVE  [event EXCEPT ![r][k] = s] \in [Withdrawals -> [EventKinds -> EventStates]]
  BY DEF TypeOK
<1>2. /\ {"SENT", "PENDING", "STRANDED", "FAILED", "PROCESSED"} \subseteq EventStates
      /\ {"paid", "failed", "reversed"} \subseteq EventKinds
  BY DEF EventStates, EventKinds
<1>3. ASSUME ProcessorActs(r) PROVE TypeOK'
  <2>1. event' \in [Withdrawals -> [EventKinds -> EventStates]]
    BY <1>1, <1>2, <1>3 DEF ProcessorActs, Sends
  <2> QED
    BY <1>3, <2>1 DEF ProcessorActs, TypeOK
<1>4. ASSUME SurfaceStuck(r) PROVE TypeOK'
  BY <1>4 DEF SurfaceStuck, TypeOK
<1>5. ASSUME NEW k \in EventKinds, ReceiveWebhook(r, k) PROVE TypeOK'
  <2>1. event' \in [Withdrawals -> [EventKinds -> EventStates]]
    BY <1>1, <1>2, <1>5 DEF ReceiveWebhook
  <2> QED
    BY <1>5, <2>1 DEF ReceiveWebhook, TypeOK
<1>6. ASSUME NEW k \in EventKinds, ProcessWebhook(r, k) PROVE TypeOK'
  <2>1. event' \in [Withdrawals -> [EventKinds -> EventStates]]
    BY <1>1, <1>2, <1>6 DEF ProcessWebhook
  <2> QED
    BY <1>6, <2>1, SettleTypes DEF ProcessWebhook, TypeOK
<1>7. ASSUME NEW k \in EventKinds, WebhookErrs(r, k) PROVE TypeOK'
  <2>1. event' \in [Withdrawals -> [EventKinds -> EventStates]]
    BY <1>1, <1>2, <1>7 DEF WebhookErrs
  <2> QED
    BY <1>7, <2>1 DEF WebhookErrs, TypeOK
<1> QED
  BY <1>3, <1>4, <1>5, <1>6, <1>7

LEMMA InitTypes == Init => TypeOK
BY RetryAssumption DEF Init, TypeOK, Tasks, EntryStates, EventStates

LEMMA TypeStep == ASSUME TypeOK, [Next]_vars PROVE TypeOK'
<1>1. CASE UNCHANGED vars
  BY <1>1 DEF vars, TypeOK
<1>2. ASSUME NEW r \in Withdrawals, TransferStep(r) PROVE TypeOK'
  BY <1>2, CreatorTypes, DispatchTypes, WebhookTypes DEF TransferStep
<1> QED
  BY <1>1, <1>2, CreatorTypes DEF Next

\* Every reachable state of the creator's money is well typed: no request, entry,
\* task or event ever takes a value its column cannot hold, and retries stay bounded.
THEOREM WithdrawalTypeCorrect == Spec => []TypeOK
BY InitTypes, TypeStep, PTL DEF Spec

-----------------------------------------------------------------------------
(* Double entry.                                                           *)

LEMMA MovedConserves ==
  ASSUME TypeOK, MoneyConserved,
         NEW from \in Accounts, NEW to \in Accounts, from # to,
         NEW amount \in Int, balance' = Moved(from, to, amount)
  PROVE  MoneyConserved'
<1>1. \A a \in Accounts : balance[a] \in Int
  BY DEF TypeOK
<1>2. \A a \in Accounts :
        balance'[a] = IF a = from THEN balance[a] - amount
                      ELSE IF a = to THEN balance[a] + amount ELSE balance[a]
  BY DEF Moved, TypeOK
<1>3. /\ "wallet" \in Accounts /\ "suspense" \in Accounts
      /\ "flutterwave_transfer" \in Accounts
      /\ "course_payment" \in Accounts /\ "adjustments" \in Accounts
  BY DEF Accounts
<1> QED
  BY <1>1, <1>2, <1>3 DEF MoneyConserved, Accounts

LEMMA UnmovedConserves ==
  ASSUME MoneyConserved, UNCHANGED balance
  PROVE  MoneyConserved'
BY DEF MoneyConserved

\* Only five steps move money, each between two different accounts.
LEMMA ConservedStep ==
  ASSUME TypeOK, MoneyConserved, [Next]_vars
  PROVE  MoneyConserved'
<1>1. CASE UNCHANGED balance
  BY <1>1, UnmovedConserves
<1>2. ASSUME NEW c \in Courses, PayCreator(c) PROVE MoneyConserved'
  BY <1>2, MovedConserves, AmountTypes DEF PayCreator, Accounts
<1>3. ASSUME NEW k \in Adjustments, AdjustWallet(k) PROVE MoneyConserved'
  BY <1>3, MovedConserves, AmountTypes DEF AdjustWallet, Accounts
<1>4. ASSUME NEW r \in Withdrawals, TransferStep(r) PROVE MoneyConserved'
  <2>1. CASE Reverse(r)
    BY <2>1, MovedConserves, AmountTypes DEF Reverse, Accounts
  <2>2. CASE SettlePaid(r)
    BY <2>2, MovedConserves, AmountTypes DEF SettlePaid, Accounts
  <2>3. CASE ConfirmWithdrawal(r)
    BY <2>3, MovedConserves, AmountTypes DEF ConfirmWithdrawal, Accounts
  <2>4. ASSUME NEW k \in EventKinds, ProcessWebhook(r, k)
        PROVE  UNCHANGED balance \/ Reverse(r) \/ SettlePaid(r)
    BY <2>4 DEF ProcessWebhook, Settle
  <2>5. UNCHANGED balance \/ Reverse(r) \/ SettlePaid(r) \/ ConfirmWithdrawal(r)
    BY <1>4, <2>4 DEF TransferStep, Dispatch, RequestWithdrawal, StartDispatch,
       CallProcessor, RecordAccepted, RecordRejected, DispatchErrs, WorkerCrashes,
       ProcessorActs, SurfaceStuck, ReceiveWebhook, WebhookErrs
  <2> QED
    BY <1>1, <2>1, <2>2, <2>3, <2>5
<1>5. CASE CodeExpires \/ CheckErasure \/ EraseAccount \/ UNCHANGED vars
  BY <1>1, <1>5 DEF CodeExpires, CheckErasure, EraseAccount, vars
<1> QED
  BY <1>2, <1>3, <1>4, <1>5 DEF Next

\* No step of any handler, task or webhook creates or loses money, whatever fails.
THEOREM DoubleEntry == Spec => []MoneyConserved
<1>1. Init => MoneyConserved
  BY DEF Init, MoneyConserved, Accounts
<1>2. TypeOK /\ MoneyConserved /\ [Next]_vars => MoneyConserved'
  BY ConservedStep
<1> QED
  BY <1>1, <1>2, WithdrawalTypeCorrect, PTL DEF Spec

-----------------------------------------------------------------------------
(* The rows of a withdrawal agree: request, transaction, outbox and task.   *)

\* Agreement is inductive only together: what a settled entry may become depends
\* on where its task is, and what a code confirms on its request.
RowsAgree == RequestAgrees /\ TaskAgrees /\ CodeConfirmsPending

LEMMA CreatorAgrees ==
  ASSUME TypeOK, RowsAgree
  PROVE  /\ \A c \in Courses : PayCreator(c) => RowsAgree'
         /\ \A k \in Adjustments : AdjustWallet(k) => RowsAgree'
         /\ \A r \in Withdrawals : RequestWithdrawal(r) => RowsAgree'
         /\ \A r \in Withdrawals : ConfirmWithdrawal(r) => RowsAgree'
         /\ CodeExpires \/ CheckErasure \/ EraseAccount => RowsAgree'
<1> USE DEF RowsAgree, RequestAgrees, TaskAgrees, CodeConfirmsPending
<1>1. ASSUME NEW c \in Courses, PayCreator(c) PROVE RowsAgree'
  BY <1>1 DEF PayCreator
<1>2. ASSUME NEW k \in Adjustments, AdjustWallet(k) PROVE RowsAgree'
  BY <1>2 DEF AdjustWallet
<1>3. ASSUME NEW r \in Withdrawals, RequestWithdrawal(r) PROVE RowsAgree'
  <2>1. entry[r] = "NONE"
    BY <1>3 DEF RequestWithdrawal, TypeOK, EntryStates, Terminal
  <2> QED
    BY <1>3, <2>1 DEF RequestWithdrawal, TypeOK, InFlight
<1>4. ASSUME NEW r \in Withdrawals, ConfirmWithdrawal(r) PROVE RowsAgree'
  <2>1. entry[r] = "NONE" /\ task[r].at = "none"
    BY <1>4 DEF ConfirmWithdrawal, TypeOK, EntryStates, Tasks, Terminal
  <2> QED
    BY <1>4, <2>1 DEF ConfirmWithdrawal, TypeOK, Tasks, InFlight
<1>5. ASSUME CodeExpires \/ CheckErasure PROVE RowsAgree'
  BY <1>5 DEF CodeExpires, CheckErasure
<1>6. ASSUME EraseAccount PROVE RowsAgree'
  BY <1>6 DEF EraseAccount, TypeOK, InFlight
<1> QED
  BY <1>1, <1>2, <1>3, <1>4, <1>5, <1>6

\* Reversing, or settling, a transfer in flight whose task is done.
LEMMA ReverseAgrees ==
  ASSUME TypeOK, RowsAgree, NEW r \in Withdrawals, Reverse(r),
         entry[r] \in InFlight, task'[r].at = "none", UNCHANGED code,
         \A q \in Withdrawals \ {r} : task'[q] = task[q]
  PROVE  RowsAgree'
<1> USE DEF RowsAgree, RequestAgrees, TaskAgrees, CodeConfirmsPending
<1>1. request[r] = "CONFIRMED"
  OBVIOUS
<1>2. \A q \in Withdrawals \ {r} :
        entry'[q] = entry[q] /\ debit'[q] = debit[q] /\ request'[q] = request[q]
  BY DEF Reverse, TypeOK
<1>3. entry'[r] = "FAILED" /\ debit'[r] = "FAILED" /\ request'[r] = "EXPIRED"
  BY DEF Reverse, TypeOK
<1>4. RequestAgrees' /\ TaskAgrees'
  BY <1>2, <1>3 DEF InFlight
<1>5. CodeConfirmsPending'
  BY <1>1, <1>2, <1>3 DEF TypeOK
<1> QED
  BY <1>4, <1>5

LEMMA SettleAgrees ==
  ASSUME TypeOK, RowsAgree, NEW r \in Withdrawals, NEW k \in EventKinds,
         Settle(r, k), UNCHANGED <<code, task>>
  PROVE  RowsAgree'
<1> USE DEF RowsAgree, RequestAgrees, TaskAgrees, CodeConfirmsPending
<1>1. CASE entry[r] # "SUBMITTED"
  BY <1>1 DEF Settle
<1>2. CASE entry[r] = "SUBMITTED"
  <2>1. task[r].at = "none"
    BY <1>2 DEF TypeOK, Tasks
  <2>2. CASE Reverse(r)
    BY <1>2, <2>1, <2>2, ReverseAgrees DEF InFlight
  <2>3. CASE SettlePaid(r)
    BY <1>2, <2>1, <2>3 DEF SettlePaid, TypeOK, InFlight
  <2> QED
    BY <1>2, <2>2, <2>3 DEF Settle
<1> QED
  BY <1>1, <1>2

LEMMA TransferAgrees ==
  ASSUME TypeOK, RowsAgree, NEW r \in Withdrawals, TransferStep(r)
  PROVE  RowsAgree'
<1> USE DEF RowsAgree, RequestAgrees, TaskAgrees, CodeConfirmsPending
<1>1. CASE RequestWithdrawal(r) \/ ConfirmWithdrawal(r)
  BY <1>1, CreatorAgrees
<1>2. CASE StartDispatch(r)
  <2>1. entry[r] \in {"PENDING", "PROCESSING"}
    BY <1>2 DEF StartDispatch
  <2>2. /\ entry'[r] \in {"PENDING", "PROCESSING"}
        /\ \/ task'[r].at = "none"
           \/ task'[r].at = "calling" /\ entry'[r] = "PROCESSING"
    BY <1>2, <2>1 DEF StartDispatch, Leaves, TypeOK, Tasks
  <2>3. \A q \in Withdrawals \ {r} : entry'[q] = entry[q] /\ task'[q] = task[q]
    BY <1>2 DEF StartDispatch, Leaves, TypeOK
  <2>4. UNCHANGED <<request, debit, code>>
    BY <1>2 DEF StartDispatch
  <2>5. RequestAgrees'
    BY <2>1, <2>2, <2>3, <2>4 DEF InFlight
  <2>6. TaskAgrees'
    BY <2>2, <2>3
  <2> QED
    BY <2>4, <2>5, <2>6
<1>3. CASE CallProcessor(r)
  <2>1. entry[r] = "PROCESSING"
    BY <1>3 DEF CallProcessor
  <2>2. \A q \in Withdrawals \ {r} : task'[q] = task[q]
    BY <1>3 DEF CallProcessor, TimedOut, TypeOK
  <2> QED
    BY <1>3, <2>1, <2>2 DEF CallProcessor
<1>4. CASE RecordAccepted(r)
  BY <1>4 DEF RecordAccepted, Leaves, TypeOK, Tasks, InFlight
<1>5. CASE RecordRejected(r)
  <2>1. task'[r].at = "none" /\ \A q \in Withdrawals \ {r} : task'[q] = task[q]
    BY <1>5 DEF RecordRejected, Leaves, TypeOK, Tasks
  <2> QED
    BY <1>5, <2>1, ReverseAgrees DEF RecordRejected, InFlight
<1>6. CASE DispatchErrs(r)
  <2>1. task'[r].at = "none" /\ \A q \in Withdrawals \ {r} : task'[q] = task[q]
    BY <1>6 DEF DispatchErrs, Leaves, TypeOK, Tasks
  <2>2. CASE entry[r] = "PENDING"
    BY <1>6, <2>1, <2>2, ReverseAgrees DEF DispatchErrs, InFlight
  <2>3. CASE entry[r] # "PENDING"
    BY <1>6, <2>1, <2>3 DEF DispatchErrs
  <2> QED
    BY <2>2, <2>3
<1>7. CASE WorkerCrashes(r)
  BY <1>7 DEF WorkerCrashes, Leaves, TypeOK, Tasks
<1>8. CASE ProcessorActs(r) \/ SurfaceStuck(r)
  BY <1>8 DEF ProcessorActs, SurfaceStuck
<1>9. ASSUME NEW k \in EventKinds,
             ReceiveWebhook(r, k) \/ ProcessWebhook(r, k) \/ WebhookErrs(r, k)
      PROVE  RowsAgree'
  <2>1. CASE ProcessWebhook(r, k)
    BY <2>1, SettleAgrees DEF ProcessWebhook
  <2>2. CASE ReceiveWebhook(r, k) \/ WebhookErrs(r, k)
    BY <2>2 DEF ReceiveWebhook, WebhookErrs
  <2> QED
    BY <1>9, <2>1, <2>2
<1> QED
  BY <1>1, <1>2, <1>3, <1>4, <1>5, <1>6, <1>7, <1>8, <1>9 DEF TransferStep, Dispatch

LEMMA RowsAgreeStep ==
  ASSUME TypeOK, RowsAgree, [Next]_vars
  PROVE  RowsAgree'
<1>1. CASE UNCHANGED vars
  BY <1>1 DEF vars, RowsAgree, RequestAgrees, TaskAgrees, CodeConfirmsPending
<1> QED
  BY <1>1, CreatorAgrees, TransferAgrees DEF Next

LEMMA RowsAgreeAlways == Spec => []RowsAgree
<1>1. Init => RowsAgree
  BY DEF Init, RowsAgree, RequestAgrees, TaskAgrees, CodeConfirmsPending, InFlight
<1>2. TypeOK /\ RowsAgree /\ [Next]_vars => RowsAgree'
  BY RowsAgreeStep
<1> QED
  BY <1>1, <1>2, WithdrawalTypeCorrect, PTL DEF Spec

\* Whatever is retried, reversed or erased, the request and the transaction the
\* creator sees say what the outbox says.
THEOREM CreatorSeesOutbox == Spec => []RequestAgrees
<1>1. RowsAgree => RequestAgrees
  BY DEF RowsAgree
<1> QED
  BY <1>1, RowsAgreeAlways, PTL

\* A live code is always that of a withdrawal still waiting for it, so it can move
\* no money twice, nor after an erasure.
THEOREM CodeIsForPending == Spec => []CodeConfirmsPending
<1>1. RowsAgree => CodeConfirmsPending
  BY DEF RowsAgree
<1> QED
  BY <1>1, RowsAgreeAlways, PTL

\* No retry of a task, and no late, duplicate or contradicting event, changes a
\* transfer once it is settled.
THEOREM SettledIsFinal == Spec => TransferIsFinal
<1> DEFINE Final == \A r \in Withdrawals : entry[r] \in Terminal => entry'[r] = entry[r]
<1>1. ASSUME TypeOK, RowsAgree, Next, NEW r \in Withdrawals, entry[r] \in Terminal
      PROVE  entry'[r] = entry[r]
  <2>1. /\ entry[r] \notin {"NONE", "PENDING", "PROCESSING", "SUBMITTED"}
        /\ task[r].at \notin {"queued", "calling", "accepted", "rejected"}
        /\ request[r] # "PENDING_CONFIRMATION"
    BY <1>1 DEF RowsAgree, RequestAgrees, TaskAgrees, Terminal, InFlight
  <2>2. ASSUME NEW q \in Withdrawals, TransferStep(q) PROVE entry'[r] = entry[r]
    <3>1. CASE q # r
      BY <1>1, <2>2, <3>1 DEF TransferStep, RequestWithdrawal, ConfirmWithdrawal, Dispatch,
         StartDispatch, CallProcessor, RecordAccepted, RecordRejected, DispatchErrs,
         WorkerCrashes, ProcessorActs, SurfaceStuck, ReceiveWebhook, ProcessWebhook,
         WebhookErrs, Settle, SettlePaid, Reverse, TypeOK
    <3>2. CASE q = r
      BY <2>1, <2>2, <3>2 DEF TransferStep, RequestWithdrawal, ConfirmWithdrawal, Dispatch,
         StartDispatch, CallProcessor, RecordAccepted, RecordRejected, DispatchErrs,
         WorkerCrashes, ProcessorActs, SurfaceStuck, ReceiveWebhook, ProcessWebhook,
         WebhookErrs, Settle
    <3> QED
      BY <3>1, <3>2
  <2>3. CASE \E c \in Courses : PayCreator(c)
    BY <2>3 DEF PayCreator
  <2>4. CASE \E k \in Adjustments : AdjustWallet(k)
    BY <2>4 DEF AdjustWallet
  <2>5. CASE CodeExpires \/ CheckErasure \/ EraseAccount
    BY <2>5 DEF CodeExpires, CheckErasure, EraseAccount
  <2> QED
    BY <1>1, <2>2, <2>3, <2>4, <2>5 DEF Next
<1>2. TypeOK /\ RowsAgree /\ [Next]_vars => [Final]_vars
  BY <1>1
<1> QED
  BY <1>2, WithdrawalTypeCorrect, RowsAgreeAlways, PTL DEF Spec, TransferIsFinal

-----------------------------------------------------------------------------
(* The outbox and the processor agree.                                      *)

\* What the ledger books for r is what the processor did, as long as it answers
\* an error only to a transfer it did not accept.
OutcomeOf(r) ==
  /\ entry[r] \in {"NONE", "PENDING"} => processor[r] = "NONE"
  /\ entry[r] = "SUBMITTED" => processor[r] # "NONE"
  /\ task[r].at = "accepted" => processor[r] # "NONE"
  /\ "ambiguous" \notin Faults /\ task[r].at = "rejected" => processor[r] = "NONE"
  /\ event[r]["paid"] # "NONE" => processor[r] \in {"PAID", "REVERSED"}
  /\ event[r]["failed"] # "NONE" => processor[r] = "BOUNCED"
  /\ event[r]["reversed"] # "NONE" => processor[r] = "REVERSED"
  /\ entry[r] = "PROCESSED" => processor[r] \in {"PAID", "REVERSED"}
  /\ "ambiguous" \notin Faults /\ entry[r] = "FAILED"
       => processor[r] \in {"NONE", "BOUNCED", "REVERSED"}

Outcomes == \A r \in Withdrawals : OutcomeOf(r)

LEMMA SameOutcome ==
  ASSUME NEW r, OutcomeOf(r), entry'[r] = entry[r], task'[r].at = task[r].at,
         processor'[r] = processor[r], event'[r] = event[r]
  PROVE  OutcomeOf(r)'
BY DEF OutcomeOf

\* A step of one transfer touches no other.
LEMMA OthersUntouched ==
  ASSUME TypeOK, NEW r \in Withdrawals, TransferStep(r), NEW q \in Withdrawals \ {r}
  PROVE  /\ entry'[q] = entry[q] /\ task'[q] = task[q]
         /\ processor'[q] = processor[q] /\ event'[q] = event[q]
<1>1. entry'[q] = entry[q]
  BY DEF TransferStep, RequestWithdrawal, ConfirmWithdrawal, Dispatch,
     StartDispatch, CallProcessor, RecordAccepted, RecordRejected, DispatchErrs,
     WorkerCrashes, ProcessorActs, SurfaceStuck, ReceiveWebhook, ProcessWebhook,
     WebhookErrs, Settle, SettlePaid, Reverse, TypeOK
<1>2. task'[q] = task[q]
  BY DEF TransferStep, RequestWithdrawal, ConfirmWithdrawal, Dispatch,
     StartDispatch, CallProcessor, TimedOut, RecordAccepted, RecordRejected, DispatchErrs,
     WorkerCrashes, ProcessorActs, SurfaceStuck, ReceiveWebhook, ProcessWebhook,
     WebhookErrs, Leaves, TypeOK
<1>3. processor'[q] = processor[q]
  BY DEF TransferStep, RequestWithdrawal, ConfirmWithdrawal, Dispatch,
     StartDispatch, CallProcessor, TimedOut, Received, RecordAccepted, RecordRejected,
     DispatchErrs, WorkerCrashes, ProcessorActs, SurfaceStuck, ReceiveWebhook,
     ProcessWebhook, WebhookErrs, TypeOK
<1>4. event'[q] = event[q]
  BY DEF TransferStep, RequestWithdrawal, ConfirmWithdrawal, Dispatch,
     StartDispatch, CallProcessor, RecordAccepted, RecordRejected,
     DispatchErrs, WorkerCrashes, ProcessorActs, Sends, SurfaceStuck, ReceiveWebhook,
     ProcessWebhook, WebhookErrs, TypeOK
<1> QED
  BY <1>1, <1>2, <1>3, <1>4

LEMMA CallOutcome ==
  ASSUME TypeOK, RowsAgree, NEW r \in Withdrawals, OutcomeOf(r), CallProcessor(r)
  PROVE  OutcomeOf(r)'
<1>1. /\ entry[r] = "PROCESSING" /\ entry'[r] = "PROCESSING"
      /\ event'[r] = event[r]
  BY DEF CallProcessor, RowsAgree, TaskAgrees
<1>2. Received(r)[r] = IF processor[r] = "NONE" THEN "ACCEPTED" ELSE processor[r]
  BY DEF Received, TypeOK
<1>3. CASE processor' = Received(r) /\ task' = [task EXCEPT ![r].at = "accepted"]
  BY <1>1, <1>2, <1>3 DEF OutcomeOf, TypeOK, Tasks
<1>4. CASE processor[r] = "NONE" /\ UNCHANGED processor
           /\ task' = [task EXCEPT ![r].at = "rejected"]
  BY <1>1, <1>4 DEF OutcomeOf, TypeOK, Tasks
<1>5. CASE "ambiguous" \in Faults /\ processor' = Received(r)
           /\ task' = [task EXCEPT ![r].at = "rejected"]
  BY <1>1, <1>2, <1>5 DEF OutcomeOf, TypeOK, Tasks
<1>6. CASE TimedOut(r)
  <2>1. task'[r].at \in {"none", "queued"}
    BY <1>6 DEF TimedOut, TypeOK, Tasks
  <2>2. processor'[r] \in {processor[r], Received(r)[r]}
    BY <1>6 DEF TimedOut
  <2> QED
    BY <1>1, <1>2, <2>1, <2>2 DEF OutcomeOf
<1> QED
  BY <1>3, <1>4, <1>5, <1>6 DEF CallProcessor

LEMMA DispatchOutcome ==
  ASSUME TypeOK, RowsAgree, NEW r \in Withdrawals, OutcomeOf(r),
         Dispatch(r) \/ DispatchErrs(r) \/ WorkerCrashes(r)
  PROVE  OutcomeOf(r)'
<1>1. CASE StartDispatch(r)
  <2>1. /\ entry'[r] \in {entry[r], "PROCESSING"}
        /\ task'[r].at \in {"none", "calling"}
        /\ UNCHANGED <<processor, event>>
    BY <1>1 DEF StartDispatch, Leaves, TypeOK, Tasks
  <2> QED
    BY <2>1 DEF OutcomeOf
<1>2. CASE CallProcessor(r)
  BY <1>2, CallOutcome
<1>3. CASE RecordAccepted(r)
  <2>1. /\ entry'[r] = "SUBMITTED" /\ task'[r].at = "none"
        /\ UNCHANGED <<processor, event>>
    BY <1>3 DEF RecordAccepted, Leaves, TypeOK, Tasks
  <2> QED
    BY <1>3, <2>1 DEF RecordAccepted, OutcomeOf
<1>4. CASE RecordRejected(r)
  <2>1. /\ entry'[r] = "FAILED" /\ task'[r].at = "none"
        /\ UNCHANGED <<processor, event>>
    BY <1>4 DEF RecordRejected, Reverse, Leaves, TypeOK, Tasks
  <2> QED
    BY <1>4, <2>1 DEF RecordRejected, OutcomeOf
<1>5. CASE DispatchErrs(r)
  <2>1. /\ entry'[r] = IF entry[r] = "PENDING" THEN "FAILED" ELSE entry[r]
        /\ task'[r].at = "none"
        /\ UNCHANGED <<processor, event>>
    BY <1>5 DEF DispatchErrs, Reverse, Leaves, TypeOK, Tasks
  <2> QED
    BY <2>1 DEF OutcomeOf
<1>6. CASE WorkerCrashes(r)
  <2>1. entry'[r] = entry[r] /\ task'[r].at = "none" /\ UNCHANGED <<processor, event>>
    BY <1>6 DEF WorkerCrashes, Leaves, TypeOK, Tasks
  <2> QED
    BY <2>1 DEF OutcomeOf
<1> QED
  BY <1>1, <1>2, <1>3, <1>4, <1>5, <1>6 DEF Dispatch

LEMMA EventOutcome ==
  ASSUME TypeOK, RowsAgree, NEW r \in Withdrawals, OutcomeOf(r), NEW k \in EventKinds,
         ReceiveWebhook(r, k) \/ ProcessWebhook(r, k) \/ WebhookErrs(r, k)
  PROVE  OutcomeOf(r)'
<1>1. /\ event[r][k] # "NONE"
      /\ \A j \in EventKinds \ {k} : event'[r][j] = event[r][j]
      /\ UNCHANGED <<task, processor>>
  BY DEF ReceiveWebhook, ProcessWebhook, WebhookErrs, TypeOK
<1>2. \A j \in EventKinds : event'[r][j] # "NONE" => event[r][j] # "NONE"
  BY <1>1
<1>3. \/ entry'[r] = entry[r]
      \/ entry[r] = "SUBMITTED" /\ k = "paid" /\ entry'[r] = "PROCESSED"
      \/ entry[r] = "SUBMITTED" /\ k # "paid" /\ entry'[r] = "FAILED"
  BY DEF ReceiveWebhook, ProcessWebhook, WebhookErrs, Settle, SettlePaid, Reverse, TypeOK
<1>4. CASE entry'[r] = entry[r]
  BY <1>1, <1>2, <1>4 DEF OutcomeOf, EventKinds
<1>5. CASE entry[r] = "SUBMITTED" /\ k = "paid" /\ entry'[r] = "PROCESSED"
  BY <1>1, <1>2, <1>5 DEF OutcomeOf, EventKinds
<1>6. CASE entry[r] = "SUBMITTED" /\ k # "paid" /\ entry'[r] = "FAILED"
  BY <1>1, <1>2, <1>6 DEF OutcomeOf, EventKinds
<1> QED
  BY <1>3, <1>4, <1>5, <1>6

LEMMA TransferOutcome ==
  ASSUME TypeOK, RowsAgree, NEW r \in Withdrawals, OutcomeOf(r), TransferStep(r)
  PROVE  OutcomeOf(r)'
<1>1. CASE RequestWithdrawal(r) \/ SurfaceStuck(r)
  BY <1>1, SameOutcome DEF RequestWithdrawal, SurfaceStuck
<1>2. CASE ConfirmWithdrawal(r)
  <2>1. entry[r] = "NONE" /\ task[r].at = "none"
    BY <1>2 DEF ConfirmWithdrawal, RowsAgree, RequestAgrees, TaskAgrees, TypeOK, EntryStates,
       Tasks, Terminal
  <2>2. /\ entry'[r] = "PENDING" /\ task'[r].at \in {"none", "queued"}
        /\ UNCHANGED <<processor, event>>
    BY <1>2, <2>1 DEF ConfirmWithdrawal, TypeOK, Tasks
  <2> QED
    BY <2>1, <2>2 DEF OutcomeOf
<1>3. CASE Dispatch(r) \/ DispatchErrs(r) \/ WorkerCrashes(r)
  BY <1>3, DispatchOutcome
<1>4. CASE ProcessorActs(r)
  <2>1. \/ /\ processor[r] = "ACCEPTED" /\ processor'[r] = "PAID"
           /\ event' = [event EXCEPT ![r]["paid"] = "SENT"]
        \/ /\ processor[r] = "ACCEPTED" /\ processor'[r] = "BOUNCED"
           /\ event' = [event EXCEPT ![r]["failed"] = "SENT"]
        \/ /\ processor[r] = "PAID" /\ processor'[r] = "REVERSED"
           /\ event' = [event EXCEPT ![r]["reversed"] = "SENT"]
    BY <1>4 DEF ProcessorActs, Sends, TypeOK
  <2>2. UNCHANGED <<entry, task>>
    BY <1>4 DEF ProcessorActs
  <2> QED
    BY <2>1, <2>2 DEF OutcomeOf, TypeOK, EventKinds
<1>5. ASSUME NEW k \in EventKinds,
             ReceiveWebhook(r, k) \/ ProcessWebhook(r, k) \/ WebhookErrs(r, k)
      PROVE  OutcomeOf(r)'
  BY <1>5, EventOutcome
<1> QED
  BY <1>1, <1>2, <1>3, <1>4, <1>5 DEF TransferStep

LEMMA OutcomeStep ==
  ASSUME TypeOK, RowsAgree, Outcomes, [Next]_vars
  PROVE  Outcomes'
<1>1. CASE UNCHANGED <<entry, task, processor, event>>
  BY <1>1, SameOutcome DEF Outcomes
<1>2. ASSUME NEW r \in Withdrawals, TransferStep(r) PROVE Outcomes'
  <2>1. OutcomeOf(r)'
    BY <1>2, TransferOutcome DEF Outcomes
  <2>2. ASSUME NEW q \in Withdrawals \ {r} PROVE OutcomeOf(q)'
    BY <1>2, OthersUntouched, SameOutcome DEF Outcomes
  <2> QED
    BY <2>1, <2>2 DEF Outcomes
<1> QED
  BY <1>1, <1>2 DEF Next, vars, PayCreator, AdjustWallet, CodeExpires, CheckErasure,
     EraseAccount

LEMMA OutcomesAlways == Spec => []Outcomes
<1>1. Init => Outcomes
  BY DEF Init, Outcomes, OutcomeOf, EventKinds
<1>2. TypeOK /\ RowsAgree /\ Outcomes /\ [Next]_vars => Outcomes'
  BY OutcomeStep
<1> QED
  BY <1>1, <1>2, WithdrawalTypeCorrect, RowsAgreeAlways, PTL DEF Spec

\* Money that is back in the wallet was not paid by the processor and never will
\* be, through timeouts, retries, crashes and early, late or duplicate events; the
\* one assumption is that an error answer means the transfer was not accepted.
THEOREM RefundedWasNotPaid ==
  ASSUME "ambiguous" \notin Faults
  PROVE  Spec => []PaidNotRefunded
<1>1. Outcomes => PaidNotRefunded
  BY DEF Outcomes, OutcomeOf, PaidNotRefunded
<1> QED
  BY <1>1, OutcomesAlways, PTL

\* A transfer booked as paid out was paid, whatever the faults.
THEOREM BookedWasPaid == Spec => []ProcessedWasPaid
<1>1. Outcomes => ProcessedWasPaid
  BY DEF Outcomes, OutcomeOf, ProcessedWasPaid
<1> QED
  BY <1>1, OutcomesAlways, PTL

\* The outbox, the task and the events never claim what the processor did not do.
THEOREM OutboxTellsTheTruth == Spec => []ProcessorAgrees
<1>1. Outcomes => ProcessorAgrees
  BY DEF Outcomes, OutcomeOf, ProcessorAgrees
<1> QED
  BY <1>1, OutcomesAlways, PTL

-----------------------------------------------------------------------------
(* A success event that counts as processed has settled its transfer.       *)

\* Nothing is received before its task has called, and the answer of a transfer
\* that was received is recorded before a webhook about it is taken.
AnsweredFirst(r) ==
  /\ task[r].at \in {"queued", "calling"} => processor[r] = "NONE"
  /\ processor[r] # "NONE" /\ task[r].at = "none" => entry[r] \in Terminal \cup {"SUBMITTED"}
  /\ event[r]["paid"] \notin {"NONE", "SENT"} =>
       task[r].at = "none" /\ entry[r] \in Terminal \cup {"SUBMITTED"}
  /\ event[r]["paid"] = "PROCESSED" => entry[r] \in Terminal

AnswersFirst == \A r \in Withdrawals : AnsweredFirst(r)

LEMMA SameAnswer ==
  ASSUME NEW r, AnsweredFirst(r), entry'[r] = entry[r], task'[r].at = task[r].at,
         processor'[r] = processor[r], event'[r] = event[r]
  PROVE  AnsweredFirst(r)'
BY DEF AnsweredFirst

LEMMA DispatchAnswers ==
  ASSUME Faults \subseteq {"ambiguous", "webhook", "broker"}, TypeOK, RowsAgree,
         NEW r \in Withdrawals, OutcomeOf(r), AnsweredFirst(r), Dispatch(r)
  PROVE  AnsweredFirst(r)'
<1>1. CASE StartDispatch(r)
  <2>1. /\ task[r].at = "queued" /\ UNCHANGED <<processor, event>>
        /\ \/ task'[r].at = "none" /\ entry'[r] = entry[r]
           \/ task'[r].at = "calling" /\ entry'[r] = "PROCESSING"
    BY <1>1 DEF StartDispatch, Leaves, TypeOK, Tasks
  <2> QED
    BY <2>1 DEF AnsweredFirst
<1>2. CASE CallProcessor(r)
  <2>1. task[r].at = "calling" /\ UNCHANGED <<entry, event>> /\ ~TimedOut(r)
    BY <1>2 DEF CallProcessor, TimedOut
  <2>2. \E s \in {"accepted", "rejected"} : task' = [task EXCEPT ![r].at = s]
    BY <1>2, <2>1 DEF CallProcessor
  <2>3. task'[r].at \in {"accepted", "rejected"}
    BY <2>2 DEF TypeOK, Tasks
  <2> QED
    BY <2>1, <2>3 DEF AnsweredFirst
<1>3. CASE RecordAccepted(r)
  <2>1. /\ task[r].at = "accepted" /\ UNCHANGED <<processor, event>>
        /\ task'[r].at = "none" /\ entry'[r] = "SUBMITTED"
    BY <1>3 DEF RecordAccepted, Leaves, TypeOK, Tasks
  <2> QED
    BY <2>1 DEF AnsweredFirst
<1>4. CASE RecordRejected(r)
  <2>1. /\ task[r].at = "rejected" /\ UNCHANGED <<processor, event>>
        /\ task'[r].at = "none" /\ entry'[r] = "FAILED"
    BY <1>4 DEF RecordRejected, Reverse, Leaves, TypeOK, Tasks
  <2> QED
    BY <2>1 DEF AnsweredFirst, Terminal
<1> QED
  BY <1>1, <1>2, <1>3, <1>4 DEF Dispatch

LEMMA EventAnswers ==
  ASSUME Faults \subseteq {"ambiguous", "webhook", "broker"}, TypeOK, RowsAgree,
         NEW r \in Withdrawals, OutcomeOf(r), AnsweredFirst(r), NEW k \in EventKinds,
         ReceiveWebhook(r, k) \/ ProcessWebhook(r, k) \/ WebhookErrs(r, k)
  PROVE  AnsweredFirst(r)'
<1> USE DEF AnsweredFirst, Terminal
<1>1. /\ \A j \in EventKinds \ {k} : event'[r][j] = event[r][j]
      /\ UNCHANGED <<task, processor>> /\ "paid" \in EventKinds
  BY DEF ReceiveWebhook, ProcessWebhook, WebhookErrs, TypeOK, EventKinds
<1>2. CASE ReceiveWebhook(r, k)
  <2>1. task[r].at = "none" /\ event[r][k] # "NONE" /\ UNCHANGED entry
    BY <1>2 DEF ReceiveWebhook
  <2>2. event'[r]["paid"] \in {event[r]["paid"], "PENDING", "STRANDED"}
    BY <1>2, <1>1 DEF ReceiveWebhook, TypeOK
  <2>3. processor[r] # "NONE"
    BY <2>1 DEF OutcomeOf, EventKinds
  <2> QED
    BY <1>1, <2>1, <2>2, <2>3
<1>3. CASE ProcessWebhook(r, k)
  <2>1. event'[r][k] = "PROCESSED" /\ event[r][k] \in {"PENDING", "FAILED"}
    BY <1>3 DEF ProcessWebhook, TypeOK
  <2>2. /\ entry[r] # "SUBMITTED" => entry'[r] = entry[r]
        /\ entry[r] = "SUBMITTED" => entry'[r] \in {"PROCESSED", "FAILED"}
    BY <1>3 DEF ProcessWebhook, Settle, SettlePaid, Reverse, TypeOK
  <2>3. CASE k = "paid"
    BY <1>1, <2>1, <2>2, <2>3
  <2>4. CASE k # "paid"
    BY <1>1, <2>2, <2>4
  <2> QED
    BY <2>3, <2>4
<1>4. CASE WebhookErrs(r, k)
  <2>1. event[r][k] = "PENDING" /\ event'[r][k] = "FAILED" /\ UNCHANGED entry
    BY <1>4 DEF WebhookErrs, TypeOK
  <2> QED
    BY <1>1, <2>1
<1> QED
  BY <1>2, <1>3, <1>4

LEMMA TransferAnswers ==
  ASSUME Faults \subseteq {"ambiguous", "webhook", "broker"}, TypeOK, RowsAgree,
         NEW r \in Withdrawals, OutcomeOf(r), AnsweredFirst(r), TransferStep(r)
  PROVE  AnsweredFirst(r)'
<1>1. CASE RequestWithdrawal(r) \/ SurfaceStuck(r)
  BY <1>1, SameAnswer DEF RequestWithdrawal, SurfaceStuck
<1>2. CASE ConfirmWithdrawal(r)
  <2>1. entry[r] = "NONE"
    BY <1>2 DEF ConfirmWithdrawal, RowsAgree, RequestAgrees, TypeOK, EntryStates, Terminal
  <2>2. processor[r] = "NONE" /\ event[r]["paid"] = "NONE" /\ UNCHANGED <<processor, event>>
    BY <1>2, <2>1 DEF OutcomeOf, ConfirmWithdrawal
  <2> QED
    BY <2>2 DEF AnsweredFirst
<1>3. CASE Dispatch(r)
  BY <1>3, DispatchAnswers
<1>4. CASE ProcessorActs(r)
  <2>1. /\ processor[r] # "NONE" /\ UNCHANGED <<entry, task>>
        /\ event'[r]["paid"] \in {event[r]["paid"], "SENT"}
    BY <1>4 DEF ProcessorActs, Sends, TypeOK, EventKinds
  <2> QED
    BY <2>1 DEF AnsweredFirst
<1>5. ASSUME NEW k \in EventKinds,
             ReceiveWebhook(r, k) \/ ProcessWebhook(r, k) \/ WebhookErrs(r, k)
      PROVE  AnsweredFirst(r)'
  BY <1>5, EventAnswers
<1>6. ~DispatchErrs(r) /\ ~WorkerCrashes(r)
  BY DEF DispatchErrs, WorkerCrashes
<1> QED
  BY <1>1, <1>2, <1>3, <1>4, <1>5, <1>6 DEF TransferStep

LEMMA AnswersFirstAlways ==
  ASSUME Faults \subseteq {"ambiguous", "webhook", "broker"}
  PROVE  Spec => []AnswersFirst
<1>1. Init => AnswersFirst
  BY DEF Init, AnswersFirst, AnsweredFirst, EventKinds
<1>2. ASSUME TypeOK, RowsAgree, Outcomes, AnswersFirst, [Next]_vars PROVE AnswersFirst'
  <2>1. CASE UNCHANGED <<entry, task, processor, event>>
    BY <1>2, <2>1, SameAnswer DEF AnswersFirst
  <2>2. ASSUME NEW r \in Withdrawals, TransferStep(r) PROVE AnswersFirst'
    <3>1. AnsweredFirst(r)'
      BY <1>2, <2>2, TransferAnswers DEF AnswersFirst, Outcomes
    <3>2. ASSUME NEW q \in Withdrawals \ {r} PROVE AnsweredFirst(q)'
      BY <1>2, <2>2, OthersUntouched, SameAnswer DEF AnswersFirst
    <3> QED
      BY <3>1, <3>2 DEF AnswersFirst
  <2> QED
    BY <1>2, <2>1, <2>2 DEF Next, vars, PayCreator, AdjustWallet, CodeExpires, CheckErasure,
       EraseAccount
<1> QED
  BY <1>1, <1>2, WithdrawalTypeCorrect, RowsAgreeAlways, OutcomesAlways, PTL DEF Spec

\* As long as every call is answered and every answer recorded before a webhook about
\* it is taken, no success event is used up on a transfer that stays open: neither an
\* error answer to an accepted transfer, nor webhooks that fail or whose task is lost.
\* After a timeout, a crash or an unexpected error of the task, or with a webhook that
\* is early, one may be.
THEOREM SuccessIsNotLost ==
  ASSUME Faults \subseteq {"ambiguous", "webhook", "broker"}
  PROVE  Spec => []ProcessedEventSettles
<1>1. AnswersFirst => ProcessedEventSettles
  BY DEF AnswersFirst, AnsweredFirst, ProcessedEventSettles
<1> QED
  BY <1>1, AnswersFirstAlways, PTL

-----------------------------------------------------------------------------
(* Sums over finite sets.  The library's induction theorems cannot be used  *)
(* here, so each induction is an argument about a smallest counterexample.  *)

Picked(S) == CHOOSE x \in S : TRUE

\* sums[T] is the total of f over T, for every T within S.
Adds(f, S, sums) ==
  sums = [T \in SUBSET S |-> IF T = {} THEN 0 ELSE f[Picked(T)] + sums[T \ {Picked(T)}]]

Sums(f, S) == CHOOSE sums : Adds(f, S, sums)

LEMMA TotalIsSums == \A f, S : Total(f, S) = Sums(f, S)[S]
BY DEF Total, Sums, Adds, Picked, MapThenSumSet, MapThenFoldSet

LEMMA PickedIn == \A S : S # {} => Picked(S) \in S /\ S \ {Picked(S)} # S
BY DEF Picked

\* A property that fails of a finite set fails of one whose parts all have it.
LEMMA SmallestSet ==
  ASSUME NEW S, IsFiniteSet(S), NEW Bad \in SUBSET SUBSET S, Bad # {}
  PROVE  \E A \in Bad : \A B \in SUBSET A : B # A => B \notin Bad
<1>1. Bad \subseteq FiniteSubsetsOf(S)
  BY FS_FiniteSubsetsOfFinite
<1>2. \E A \in Bad : \A B \in Bad : ~(<<B, A>> \in StrictSubsetOrdering(S))
  BY <1>1, FS_StrictSubsetOrderingWellFounded, WFMin
<1> QED
  BY <1>2 DEF StrictSubsetOrdering

LEMMA AddsAt ==
  ASSUME NEW f, NEW S, NEW sums, Adds(f, S, sums), NEW T \in SUBSET S
  PROVE  /\ T = {} => sums[T] = 0
         /\ T # {} => sums[T] = f[Picked(T)] + sums[T \ {Picked(T)}]
BY DEF Adds

LEMMA SumsAgree ==
  ASSUME NEW f, NEW S, NEW R, IsFiniteSet(S), NEW g, NEW h, Adds(f, S, g), Adds(f, R, h),
         NEW T \in SUBSET (S \cap R)
  PROVE  g[T] = h[T]
<1> DEFINE Bad == {A \in SUBSET (S \cap R) : g[A] # h[A]}
<1> SUFFICES ASSUME Bad # {} PROVE FALSE
  OBVIOUS
<1>1. PICK A \in Bad : \A B \in SUBSET A : B # A => B \notin Bad
  <2>1. Bad \in SUBSET SUBSET S
    OBVIOUS
  <2> HIDE DEF Bad
  <2> QED
    BY <2>1, SmallestSet
<1>2. A \in SUBSET S /\ A \in SUBSET R
  OBVIOUS
<1>3. CASE A = {}
  BY <1>2, <1>3, AddsAt
<1>4. CASE A # {}
  <2> DEFINE B == A \ {Picked(A)}
  <2>1. B \in SUBSET A /\ B # A
    BY <1>4, PickedIn
  <2>2. g[B] = h[B]
    BY <1>1, <1>2, <2>1
  <2>3. g[A] = f[Picked(A)] + g[B] /\ h[A] = f[Picked(A)] + h[B]
    BY <1>2, <1>4, AddsAt
  <2> QED
    BY <2>2, <2>3
<1> QED
  BY <1>3, <1>4

LEMMA SumsExist ==
  ASSUME NEW f, NEW S, IsFiniteSet(S)
  PROVE  Adds(f, S, Sums(f, S))
<1> DEFINE Bad == {A \in SUBSET S : ~Adds(f, A, Sums(f, A))}
<1> SUFFICES ASSUME Bad # {} PROVE FALSE
  OBVIOUS
<1>1. PICK A \in Bad : \A B \in SUBSET A : B # A => B \notin Bad
  <2>1. Bad \in SUBSET SUBSET S
    OBVIOUS
  <2> HIDE DEF Bad
  <2> QED
    BY <2>1, SmallestSet
<1>2. ASSUME NEW B \in SUBSET A, B # A
      PROVE  Adds(f, B, Sums(f, B)) /\ IsFiniteSet(B)
  BY <1>1, <1>2, FS_Subset
<1> DEFINE Rest(T) == T \ {Picked(T)}
           sums == [T \in SUBSET A |->
                      IF T = {} THEN 0 ELSE f[Picked(T)] + Sums(f, Rest(T))[Rest(T)]]
<1>3. ASSUME NEW B \in SUBSET A, B # A PROVE sums[B] = Sums(f, B)[B]
  <2>1. CASE B = {}
    <3>1. Sums(f, B)[B] = 0
      BY <1>2, <1>3, <2>1, AddsAt
    <3> QED
      BY <1>3, <2>1, <3>1
  <2>2. CASE B # {}
    <3>1. Rest(B) \in SUBSET A /\ Rest(B) # A /\ Rest(B) \in SUBSET (Rest(B) \cap B)
      BY <1>3, <2>2, PickedIn
    <3>2. Adds(f, B, Sums(f, B)) /\ Adds(f, Rest(B), Sums(f, Rest(B))) /\ IsFiniteSet(Rest(B))
      BY <1>2, <1>3, <3>1
    <3> HIDE DEF Rest
    <3>3. Sums(f, Rest(B))[Rest(B)] = Sums(f, B)[Rest(B)]
      BY <3>1, <3>2, SumsAgree
    <3>4. Sums(f, B)[B] = f[Picked(B)] + Sums(f, B)[Rest(B)]
      BY <2>2, <3>2, AddsAt DEF Rest
    <3>5. sums[B] = f[Picked(B)] + Sums(f, Rest(B))[Rest(B)]
      BY <2>2
    <3> QED
      BY <3>3, <3>4, <3>5
  <2> QED
    BY <2>1, <2>2
<1>4. Adds(f, A, sums)
  <2>1. ASSUME NEW T \in SUBSET A, T # {} PROVE sums[Rest(T)] = Sums(f, Rest(T))[Rest(T)]
    <3>1. Rest(T) \in SUBSET A /\ Rest(T) # A
      BY <2>1, PickedIn
    <3> HIDE DEF Rest, sums
    <3> QED
      BY <1>3, <3>1
  <2>2. sums = [T \in SUBSET A |-> IF T = {} THEN 0 ELSE f[Picked(T)] + sums[Rest(T)]]
    BY <2>1
  <2> QED
    BY <2>2 DEF Adds
<1>5. Adds(f, A, Sums(f, A))
  BY <1>4 DEF Sums
<1> QED
  BY <1>1, <1>5

\* The total over nothing is nothing, and any element may be counted last.
LEMMA TotalOfNone == \A f : Total(f, {}) = 0
BY TotalIsSums, SumsExist, AddsAt, FS_EmptySet

LEMMA TotalUnfolds ==
  ASSUME NEW f, NEW S, IsFiniteSet(S), S # {}
  PROVE  Total(f, S) = f[Picked(S)] + Total(f, S \ {Picked(S)})
<1> DEFINE T == S \ {Picked(S)}
<1>1. IsFiniteSet(T) /\ T \in SUBSET (T \cap S)
  BY FS_RemoveElement
<1>2. Adds(f, S, Sums(f, S)) /\ Adds(f, T, Sums(f, T))
  BY <1>1, SumsExist
<1>3. Sums(f, S)[T] = Sums(f, T)[T]
  BY <1>1, <1>2, SumsAgree
<1>4. Sums(f, S)[S] = f[Picked(S)] + Sums(f, S)[T]
  BY <1>2, AddsAt
<1> QED
  BY <1>3, <1>4, TotalIsSums

LEMMA TotalIsInt ==
  ASSUME NEW S, IsFiniteSet(S), NEW f, \A x \in S : f[x] \in Int
  PROVE  Total(f, S) \in Int
<1> DEFINE Bad == {A \in SUBSET S : Total(f, A) \notin Int}
<1> SUFFICES ASSUME Bad # {} PROVE FALSE
  OBVIOUS
<1>1. PICK A \in Bad : \A B \in SUBSET A : B # A => B \notin Bad
  <2>1. Bad \in SUBSET SUBSET S
    OBVIOUS
  <2> HIDE DEF Bad
  <2> QED
    BY <2>1, SmallestSet
<1>2. A # {}
  BY TotalOfNone
<1>3. IsFiniteSet(A) /\ Picked(A) \in S /\ Total(f, A \ {Picked(A)}) \in Int
  BY <1>1, <1>2, PickedIn, FS_Subset
<1> QED
  BY <1>2, <1>3, TotalUnfolds

LEMMA TotalLess ==
  ASSUME NEW S, IsFiniteSet(S), NEW f, \A x \in S : f[x] \in Int
  PROVE  \A e \in S : Total(f, S) = f[e] + Total(f, S \ {e})
<1> DEFINE Counts(A) == \A e \in A : Total(f, A) = f[e] + Total(f, A \ {e})
           Bad == {A \in SUBSET S : ~Counts(A)}
<1> SUFFICES ASSUME Bad # {} PROVE FALSE
  <2>1. S \in Bad \/ Counts(S)
    OBVIOUS
  <2> QED
    BY <2>1
<1>1. PICK A \in Bad : \A B \in SUBSET A : B # A => B \notin Bad
  <2>1. Bad \in SUBSET SUBSET S
    OBVIOUS
  <2> HIDE DEF Bad
  <2> QED
    BY <2>1, SmallestSet
<1>2. A \in SUBSET S /\ IsFiniteSet(A) /\ \A B \in SUBSET A : B # A => Counts(B)
  BY <1>1, FS_Subset
<1>3. PICK e \in A : Total(f, A) # f[e] + Total(f, A \ {e})
  BY <1>1
<1> DEFINE x == Picked(A)
<1>4. x \in A /\ Total(f, A) = f[x] + Total(f, A \ {x})
  BY <1>2, <1>3, PickedIn, TotalUnfolds
<1> HIDE DEF x
<1>5. x # e
  BY <1>3, <1>4
<1>6. Total(f, A \ {x}) = f[e] + Total(f, (A \ {x}) \ {e})
  BY <1>2, <1>3, <1>4, <1>5
<1>7. Total(f, A \ {e}) = f[x] + Total(f, (A \ {e}) \ {x})
  BY <1>2, <1>3, <1>4, <1>5
<1>8. (A \ {x}) \ {e} = (A \ {e}) \ {x}
  OBVIOUS
<1>9. /\ f[e] \in Int /\ f[x] \in Int
      /\ Total(f, (A \ {e}) \ {x}) \in Int
  <2>1. IsFiniteSet((A \ {e}) \ {x}) /\ (A \ {e}) \ {x} \in SUBSET S
    BY <1>2, FS_Subset
  <2> QED
    BY <1>2, <1>3, <1>4, <2>1, TotalIsInt
<1>10. \A a, b, c \in Int : a + (b + c) = b + (a + c)
  OBVIOUS
<1> HIDE DEF Counts, Bad
<1>11. Total(f, A) = f[x] + (f[e] + Total(f, (A \ {e}) \ {x}))
  BY <1>4, <1>6, <1>8, Zenon
<1>12. Total(f, A) = f[e] + (f[x] + Total(f, (A \ {e}) \ {x}))
  BY <1>9, <1>10, <1>11, Zenon
<1> QED
  BY <1>3, <1>7, <1>12, Zenon

\* A set that gains or loses one element, and one that is counted twice.
LEMMA TotalMore ==
  ASSUME NEW S, IsFiniteSet(S), NEW e, e \notin S, NEW f, f[e] \in Int,
         \A x \in S : f[x] \in Int
  PROVE  /\ IsFiniteSet(S \cup {e})
         /\ Total(f, S \cup {e}) = Total(f, S) + f[e]
<1>1. IsFiniteSet(S \cup {e}) /\ (S \cup {e}) \ {e} = S
  BY FS_AddElement
<1>2. Total(f, S \cup {e}) = f[e] + Total(f, (S \cup {e}) \ {e})
  BY <1>1, TotalLess
<1>3. Total(f, S) \in Int
  BY TotalIsInt
<1>4. \A a, b \in Int : a + b = b + a
  OBVIOUS
<1>5. Total(f, S \cup {e}) = f[e] + Total(f, S)
  BY <1>1, <1>2, Zenon
<1> QED
  BY <1>1, <1>3, <1>4, <1>5, Zenon

-----------------------------------------------------------------------------
(* The balances are what the rows say.                                      *)

Travelling == {r \in Withdrawals : entry[r] \in InFlight}
Left       == {r \in Withdrawals : entry[r] \in InFlight \cup {"PROCESSED"}}

\* The sums are defined because only finitely many rows have ever been written.
Books ==
  /\ IsFiniteSet(Travelling) /\ IsFiniteSet(Left)
  /\ IsFiniteSet(paid) /\ IsFiniteSet(adjusted)
  /\ BalancesAgree

LEMMA BooksTypes ==
  ASSUME TypeOK, Books
  PROVE  /\ Total(Amount, Travelling) \in Int /\ Total(Amount, Left) \in Int
         /\ Total(Price, paid) \in Int /\ Total(AdjustBy, adjusted) \in Int
         /\ \A a \in Accounts : balance[a] \in Int
<1>1. \A r \in Travelling : Amount[r] \in Int
  BY AmountTypes DEF Travelling
<1>2. \A r \in Left : Amount[r] \in Int
  BY AmountTypes DEF Left
<1>3. /\ \A c \in paid : Price[c] \in Int
      /\ \A k \in adjusted : AdjustBy[k] \in Int
  BY AmountTypes DEF TypeOK
<1> QED
  BY <1>1, <1>2, <1>3, TotalIsInt DEF Books, TypeOK

LEMMA BooksKept ==
  ASSUME IsFiniteSet(Travelling'), IsFiniteSet(Left'), IsFiniteSet(paid'), IsFiniteSet(adjusted'),
         balance'["suspense"] = Total(Amount, Travelling'),
         balance'["wallet"] = Total(Price, paid') + Total(AdjustBy, adjusted') - Total(Amount, Left'),
         balance'["wallet"] >= 0
  PROVE  Books'
BY DEF Books, BalancesAgree, Travelling, Left

LEMMA BooksBalance ==
  ASSUME Books
  PROVE  /\ balance["suspense"] = Total(Amount, Travelling)
         /\ balance["wallet"] = Total(Price, paid) + Total(AdjustBy, adjusted) - Total(Amount, Left)
         /\ balance["wallet"] >= 0
BY DEF Books, BalancesAgree, Travelling, Left

LEMMA MovedBalances ==
  ASSUME TypeOK, NEW from \in Accounts, NEW to \in Accounts, from # to,
         NEW amount \in Int, balance' = Moved(from, to, amount)
  PROVE  \A a \in Accounts :
           /\ balance[a] \in Int
           /\ balance'[a] = IF a = from THEN balance[a] - amount
                            ELSE IF a = to THEN balance[a] + amount ELSE balance[a]
BY DEF Moved, TypeOK

\* No money moves, and no row enters or leaves the transfers in flight.
LEMMA QuietBooks ==
  ASSUME Books, UNCHANGED <<balance, paid, adjusted>>,
         \A r \in Withdrawals :
           \/ entry'[r] = entry[r]
           \/ entry[r] \in InFlight /\ entry'[r] \in InFlight
  PROVE  Books'
<1>1. Travelling' = Travelling /\ Left' = Left
  BY DEF Travelling, Left, InFlight
<1> QED
  BY <1>1 DEF Books, BalancesAgree, Travelling, Left

LEMMA IncomeBooks ==
  ASSUME TypeOK, Books
  PROVE  /\ \A c \in Courses : PayCreator(c) => Books'
         /\ \A k \in Adjustments : AdjustWallet(k) => Books'
<1>1. ASSUME UNCHANGED entry PROVE Travelling' = Travelling /\ Left' = Left
  BY <1>1 DEF Travelling, Left
<1>2. ASSUME NEW c \in Courses, PayCreator(c) PROVE Books'
  <2>1. /\ c \notin paid /\ paid' = paid \cup {c} /\ UNCHANGED <<adjusted, entry>>
        /\ balance' = Moved("course_payment", "wallet", Price[c])
    BY <1>2 DEF PayCreator
  <2>2. Price[c] \in Int /\ Price[c] > 0
    BY AmountAssumption
  <2>3. /\ balance'["wallet"] = balance["wallet"] + Price[c]
        /\ balance'["suspense"] = balance["suspense"]
    BY <2>1, <2>2, MovedBalances DEF Accounts
  <2>4. /\ IsFiniteSet(paid')
        /\ Total(Price, paid') = Total(Price, paid) + Price[c]
    <3>1. \A x \in paid : Price[x] \in Int
      BY AmountTypes DEF TypeOK
    <3> QED
      BY <2>1, <2>2, <3>1, TotalMore DEF Books
  <2>5. Travelling' = Travelling /\ Left' = Left
    BY <1>1, <2>1
  <2>6. /\ Total(Amount, Left) \in Int /\ Total(Price, paid) \in Int
        /\ Total(AdjustBy, adjusted) \in Int /\ balance["wallet"] \in Int
    BY BooksTypes DEF Accounts
  <2>7. /\ balance'["suspense"] = Total(Amount, Travelling')
        /\ balance'["wallet"] = Total(Price, paid') + Total(AdjustBy, adjusted') - Total(Amount, Left')
        /\ balance'["wallet"] >= 0
    BY <2>1, <2>2, <2>3, <2>4, <2>5, <2>6, BooksBalance
  <2> QED
    BY <2>1, <2>4, <2>5, <2>7, BooksKept DEF Books
<1>3. ASSUME NEW k \in Adjustments, AdjustWallet(k) PROVE Books'
  <2>1. /\ k \notin adjusted /\ adjusted' = adjusted \cup {k} /\ UNCHANGED <<paid, entry>>
        /\ balance["wallet"] + AdjustBy[k] >= 0
        /\ balance' = Moved("adjustments", "wallet", AdjustBy[k])
    BY <1>3 DEF AdjustWallet
  <2>2. AdjustBy[k] \in Int
    BY AmountTypes
  <2>3. /\ balance'["wallet"] = balance["wallet"] + AdjustBy[k]
        /\ balance'["suspense"] = balance["suspense"]
    BY <2>1, <2>2, MovedBalances DEF Accounts
  <2>4. /\ IsFiniteSet(adjusted')
        /\ Total(AdjustBy, adjusted') = Total(AdjustBy, adjusted) + AdjustBy[k]
    <3>1. \A x \in adjusted : AdjustBy[x] \in Int
      BY AmountTypes DEF TypeOK
    <3> QED
      BY <2>1, <2>2, <3>1, TotalMore DEF Books
  <2>5. Travelling' = Travelling /\ Left' = Left
    BY <1>1, <2>1
  <2>6. /\ Total(Amount, Left) \in Int /\ Total(Price, paid) \in Int
        /\ Total(AdjustBy, adjusted) \in Int /\ balance["wallet"] \in Int
    BY BooksTypes DEF Accounts
  <2>7. /\ balance'["suspense"] = Total(Amount, Travelling')
        /\ balance'["wallet"] = Total(Price, paid') + Total(AdjustBy, adjusted') - Total(Amount, Left')
        /\ balance'["wallet"] >= 0
    BY <2>1, <2>2, <2>3, <2>4, <2>5, <2>6, BooksBalance
  <2> QED
    BY <2>1, <2>4, <2>5, <2>7, BooksKept DEF Books
<1> QED
  BY <1>2, <1>3

\* A withdrawal leaves the wallet for suspense.
LEMMA ConfirmedBooks ==
  ASSUME TypeOK, Books, NEW r \in Withdrawals, entry[r] = "NONE",
         entry' = [entry EXCEPT ![r] = "PENDING"], Amount[r] <= balance["wallet"],
         balance' = Moved("wallet", "suspense", Amount[r]), UNCHANGED <<paid, adjusted>>
  PROVE  Books'
<1>1. /\ r \notin Travelling /\ r \notin Left
      /\ Travelling' = Travelling \cup {r} /\ Left' = Left \cup {r}
  BY DEF Travelling, Left, InFlight, TypeOK
<1>2. Amount[r] \in Int
  BY AmountTypes
<1>3. /\ balance'["wallet"] = balance["wallet"] - Amount[r]
      /\ balance'["suspense"] = balance["suspense"] + Amount[r]
  BY <1>2, MovedBalances DEF Accounts
<1>4. /\ IsFiniteSet(Travelling') /\ Total(Amount, Travelling') = Total(Amount, Travelling) + Amount[r]
      /\ IsFiniteSet(Left') /\ Total(Amount, Left') = Total(Amount, Left) + Amount[r]
  <2>1. \A x \in Travelling \cup Left : Amount[x] \in Int
    BY AmountTypes DEF Travelling, Left
  <2> QED
    BY <1>1, <1>2, <2>1, TotalMore DEF Books
<1>5. /\ Total(Amount, Left) \in Int /\ Total(Price, paid) \in Int
      /\ Total(AdjustBy, adjusted) \in Int /\ Total(Amount, Travelling) \in Int
      /\ balance["wallet"] \in Int
  BY BooksTypes DEF Accounts
<1>6. /\ balance'["suspense"] = Total(Amount, Travelling')
      /\ balance'["wallet"] = Total(Price, paid') + Total(AdjustBy, adjusted') - Total(Amount, Left')
      /\ balance'["wallet"] >= 0
  BY <1>2, <1>3, <1>4, <1>5, BooksBalance
<1> QED
  BY <1>4, <1>6, BooksKept DEF Books

\* A transfer in flight comes back to the wallet.
LEMMA ReversedBooks ==
  ASSUME TypeOK, Books, NEW r \in Withdrawals, entry[r] \in InFlight, Reverse(r),
         UNCHANGED <<paid, adjusted>>
  PROVE  Books'
<1>1. /\ r \in Travelling /\ r \in Left
      /\ Travelling' = Travelling \ {r} /\ Left' = Left \ {r}
  BY DEF Travelling, Left, InFlight, TypeOK, Reverse
<1>2. Amount[r] \in Int /\ Amount[r] > 0
  BY AmountAssumption
<1>3. /\ balance'["wallet"] = balance["wallet"] + Amount[r]
      /\ balance'["suspense"] = balance["suspense"] - Amount[r]
  BY <1>2, MovedBalances DEF Accounts, Reverse
<1>4. /\ IsFiniteSet(Travelling') /\ Total(Amount, Travelling) = Amount[r] + Total(Amount, Travelling')
      /\ IsFiniteSet(Left') /\ Total(Amount, Left) = Amount[r] + Total(Amount, Left')
      /\ Total(Amount, Travelling') \in Int /\ Total(Amount, Left') \in Int
  <2>1. \A x \in Travelling \cup Left : Amount[x] \in Int
    BY AmountTypes DEF Travelling, Left
  <2>2. IsFiniteSet(Travelling \ {r}) /\ IsFiniteSet(Left \ {r})
    BY FS_RemoveElement DEF Books
  <2> QED
    BY <1>1, <2>1, <2>2, TotalLess, TotalIsInt DEF Books
<1>5. /\ Total(Price, paid) \in Int /\ Total(AdjustBy, adjusted) \in Int
      /\ balance["wallet"] \in Int
  BY BooksTypes DEF Accounts
<1>6. /\ balance'["suspense"] = Total(Amount, Travelling')
      /\ balance'["wallet"] = Total(Price, paid') + Total(AdjustBy, adjusted') - Total(Amount, Left')
      /\ balance'["wallet"] >= 0
  BY <1>2, <1>3, <1>4, <1>5, BooksBalance
<1> QED
  BY <1>4, <1>6, BooksKept DEF Books

\* A transfer in flight is paid out.
LEMMA SettledBooks ==
  ASSUME TypeOK, Books, NEW r \in Withdrawals, entry[r] \in InFlight, SettlePaid(r),
         UNCHANGED <<paid, adjusted>>
  PROVE  Books'
<1>1. r \in Travelling /\ Travelling' = Travelling \ {r} /\ Left' = Left
  BY DEF Travelling, Left, InFlight, TypeOK, SettlePaid
<1>2. Amount[r] \in Int
  BY AmountTypes
<1>3. /\ balance'["wallet"] = balance["wallet"]
      /\ balance'["suspense"] = balance["suspense"] - Amount[r]
  BY <1>2, MovedBalances DEF Accounts, SettlePaid
<1>4. /\ IsFiniteSet(Travelling') /\ Total(Amount, Travelling) = Amount[r] + Total(Amount, Travelling')
      /\ Total(Amount, Travelling') \in Int
  <2>1. \A x \in Travelling : Amount[x] \in Int
    BY AmountTypes DEF Travelling
  <2>2. IsFiniteSet(Travelling \ {r})
    BY FS_RemoveElement DEF Books
  <2> QED
    BY <1>1, <2>1, <2>2, TotalLess, TotalIsInt DEF Books
<1>5. /\ balance'["suspense"] = Total(Amount, Travelling')
      /\ balance'["wallet"] = Total(Price, paid') + Total(AdjustBy, adjusted') - Total(Amount, Left')
      /\ balance'["wallet"] >= 0
  BY <1>1, <1>2, <1>3, <1>4, BooksBalance
<1> QED
  BY <1>1, <1>4, <1>5, BooksKept DEF Books

LEMMA TransferBooks ==
  ASSUME TypeOK, RowsAgree, Books, NEW r \in Withdrawals, TransferStep(r)
  PROVE  Books'
<1> USE DEF RowsAgree, RequestAgrees, TaskAgrees
<1>1. UNCHANGED <<paid, adjusted>>
  BY DEF TransferStep, RequestWithdrawal, ConfirmWithdrawal, Dispatch, StartDispatch,
     CallProcessor, RecordAccepted, RecordRejected, DispatchErrs, WorkerCrashes,
     ProcessorActs, SurfaceStuck, ReceiveWebhook, ProcessWebhook, WebhookErrs
<1>2. CASE ConfirmWithdrawal(r)
  <2>1. entry[r] = "NONE"
    BY <1>2 DEF ConfirmWithdrawal, TypeOK, EntryStates, Terminal
  <2> QED
    BY <1>1, <1>2, <2>1, ConfirmedBooks DEF ConfirmWithdrawal
<1>3. CASE StartDispatch(r) \/ RecordAccepted(r)
  <2>1. UNCHANGED balance /\ entry[r] \in InFlight /\ entry'[r] \in InFlight
    BY <1>3 DEF StartDispatch, RecordAccepted, InFlight, TypeOK
  <2>2. \A q \in Withdrawals \ {r} : entry'[q] = entry[q]
    BY <1>3 DEF StartDispatch, RecordAccepted, TypeOK
  <2> QED
    BY <1>1, <2>1, <2>2, QuietBooks
<1>4. CASE RecordRejected(r)
  BY <1>1, <1>4, ReversedBooks DEF RecordRejected, InFlight
<1>5. CASE DispatchErrs(r)
  <2>1. CASE entry[r] = "PENDING"
    BY <1>1, <1>5, <2>1, ReversedBooks DEF DispatchErrs, InFlight
  <2>2. CASE entry[r] # "PENDING"
    BY <1>1, <1>5, <2>2, QuietBooks DEF DispatchErrs
  <2> QED
    BY <2>1, <2>2
<1>6. ASSUME NEW k \in EventKinds, ProcessWebhook(r, k) PROVE Books'
  <2>1. CASE entry[r] = "SUBMITTED"
    BY <1>1, <1>6, <2>1, ReversedBooks, SettledBooks DEF ProcessWebhook, Settle, InFlight
  <2>2. CASE entry[r] # "SUBMITTED"
    BY <1>1, <1>6, <2>2, QuietBooks DEF ProcessWebhook, Settle
  <2> QED
    BY <2>1, <2>2
<1>7. CASE RequestWithdrawal(r) \/ CallProcessor(r) \/ WorkerCrashes(r)
           \/ ProcessorActs(r) \/ SurfaceStuck(r)
           \/ \E k \in EventKinds : ReceiveWebhook(r, k) \/ WebhookErrs(r, k)
  BY <1>1, <1>7, QuietBooks DEF RequestWithdrawal, CallProcessor, WorkerCrashes,
     ProcessorActs, SurfaceStuck, ReceiveWebhook, WebhookErrs
<1> QED
  BY <1>2, <1>3, <1>4, <1>5, <1>6, <1>7 DEF TransferStep, Dispatch

LEMMA BooksStep ==
  ASSUME TypeOK, RowsAgree, Books, [Next]_vars
  PROVE  Books'
<1>1. CASE CodeExpires \/ CheckErasure \/ EraseAccount \/ UNCHANGED vars
  BY <1>1, QuietBooks DEF CodeExpires, CheckErasure, EraseAccount, vars
<1> QED
  BY <1>1, IncomeBooks, TransferBooks DEF Next

LEMMA InitBooks == Init => Books
<1> SUFFICES ASSUME Init PROVE Books
  OBVIOUS
<1>1. /\ {r \in Withdrawals : entry[r] \in InFlight} = {}
      /\ {r \in Withdrawals : entry[r] \in InFlight \cup {"PROCESSED"}} = {}
      /\ paid = {} /\ adjusted = {} /\ balance["suspense"] = 0 /\ balance["wallet"] = 0
  BY DEF Init, InFlight, Accounts
<1>2. Total(Amount, {}) = 0 /\ Total(Price, {}) = 0 /\ Total(AdjustBy, {}) = 0 /\ IsFiniteSet({})
  BY TotalOfNone, FS_EmptySet
<1>3. BalancesAgree
  BY <1>1, <1>2 DEF BalancesAgree
<1> QED
  BY <1>1, <1>2, <1>3 DEF Books, Travelling, Left

\* For any number of withdrawals, courses and corrections of any amounts, and whatever
\* is retried, lost, late or sent again: suspense holds exactly what is in flight, and
\* the wallet what was earned and corrected less what left it, never below zero.
THEOREM BooksAreRight == Spec => []BalancesAgree
<1>1. TypeOK /\ RowsAgree /\ Books /\ [Next]_vars => Books'
  BY BooksStep
<1>2. Books => BalancesAgree
  BY DEF Books
<1> QED
  BY <1>1, <1>2, InitBooks, WithdrawalTypeCorrect, RowsAgreeAlways, PTL DEF Spec
=============================================================================

----------------------------- MODULE Payout_proofs -----------------------------
(***************************************************************************)
(* Withdrawal implements Payout, for any creator, amounts and faults: every *)
(* step of a handler, a task or a webhook is a step of the promise or none. *)
(***************************************************************************)
EXTENDS Withdrawal_proofs

Stages == [r \in Withdrawals |-> StageOf(r)]
Income == -(balance["course_payment"] + balance["adjustments"])

-----------------------------------------------------------------------------
(* What the accounts of the promise do when money moves.                   *)

LEMMA AccountNames ==
  /\ "wallet" \in Accounts /\ "suspense" \in Accounts
  /\ "flutterwave_transfer" \in Accounts
  /\ "course_payment" \in Accounts /\ "adjustments" \in Accounts
BY DEF Accounts

\* Income reaches the wallet in full.
LEMMA CreditMoves ==
  ASSUME TypeOK, NEW from \in {"course_payment", "adjustments"}, NEW amount \in Int,
         balance' = Moved(from, "wallet", amount)
  PROVE  /\ Income \in Int /\ Income' \in Int
         /\ balance'["wallet"] = balance["wallet"] + (Income' - Income)
         /\ balance'["wallet"] = balance["wallet"] + amount
<1>1. from \in Accounts /\ from # "wallet"
  BY DEF Accounts
<1>2. \A a \in Accounts :
        /\ balance[a] \in Int
        /\ balance'[a] = IF a = from THEN balance[a] - amount
                         ELSE IF a = "wallet" THEN balance[a] + amount ELSE balance[a]
  BY <1>1, MovedBalances, AccountNames
<1> QED
  BY <1>2, AccountNames DEF Income

\* Money of a withdrawal does not touch the accounts that income comes from.
LEMMA TransferMoves ==
  ASSUME TypeOK, NEW from \in {"wallet", "suspense"},
         NEW to \in {"wallet", "suspense", "flutterwave_transfer"}, from # to,
         NEW amount \in Int, balance' = Moved(from, to, amount)
  PROVE  /\ Income' = Income
         /\ from = "wallet" => balance'["wallet"] = balance["wallet"] - amount
         /\ to = "wallet" => balance'["wallet"] = balance["wallet"] + amount
         /\ "wallet" \notin {from, to} => balance'["wallet"] = balance["wallet"]
<1>1. from \in Accounts /\ to \in Accounts
  BY DEF Accounts
<1>2. \A a \in Accounts :
        /\ balance[a] \in Int
        /\ balance'[a] = IF a = from THEN balance[a] - amount
                         ELSE IF a = to THEN balance[a] + amount ELSE balance[a]
  BY <1>1, MovedBalances
<1> QED
  BY <1>2, AccountNames DEF Income

-----------------------------------------------------------------------------
(* What a step does to the stage of a withdrawal.                          *)

\* The stage says no more than the outbox entry does.
LEMMA StageOfEntry ==
  ASSUME NEW r \in Withdrawals
  PROVE  /\ entry[r] = "NONE" => StageOf(r) = "open"
         /\ entry[r] \in InFlight => StageOf(r) = "held"
         /\ entry[r] = "PROCESSED" => StageOf(r) = "paid"
         /\ entry[r] = "FAILED" => StageOf(r) = "refunded"
BY DEF StageOf, InFlight

LEMMA StageKept ==
  ASSUME TypeOK, NEW r \in Withdrawals,
         entry'[r] = entry[r] \/ (entry[r] \in InFlight /\ entry'[r] \in InFlight)
  PROVE  StageOf(r)' = StageOf(r)
BY DEF StageOf, InFlight

\* One withdrawal's stage changes, to what its entry says now.
LEMMA StageChanges ==
  ASSUME NEW r \in Withdrawals, NEW s,
         StageOf(r)' = s,
         \A q \in Withdrawals \ {r} : StageOf(q)' = StageOf(q)
  PROVE  Stages' = [Stages EXCEPT ![r] = s]
BY DEF Stages

LEMMA ReversePromised ==
  ASSUME TypeOK, NEW r \in Withdrawals, Reverse(r), entry[r] \in InFlight
  PROVE  Promised!Refund(r)
<1>1. entry'[r] = "FAILED" /\ \A q \in Withdrawals \ {r} : entry'[q] = entry[q]
  BY DEF Reverse, TypeOK
<1>2. StageOf(r) = "held" /\ StageOf(r)' = "refunded"
  BY <1>1, StageOfEntry DEF StageOf, InFlight
<1>3. \A q \in Withdrawals \ {r} : StageOf(q)' = StageOf(q)
  BY <1>1, StageKept
<1>4. Stages' = [Stages EXCEPT ![r] = "refunded"]
  BY <1>2, <1>3, StageChanges
<1>5. balance'["wallet"] = balance["wallet"] + Amount[r] /\ Income' = Income
  BY TransferMoves, AmountTypes DEF Reverse
<1> QED
  BY <1>2, <1>4, <1>5 DEF Promised!Refund, Stages, Income

LEMMA SettlePromised ==
  ASSUME TypeOK, NEW r \in Withdrawals, SettlePaid(r), entry[r] \in InFlight
  PROVE  Promised!PayOut(r)
<1>1. entry'[r] = "PROCESSED" /\ \A q \in Withdrawals \ {r} : entry'[q] = entry[q]
  BY DEF SettlePaid, TypeOK
<1>2. StageOf(r) = "held" /\ StageOf(r)' = "paid"
  BY <1>1, StageOfEntry DEF StageOf, InFlight
<1>3. \A q \in Withdrawals \ {r} : StageOf(q)' = StageOf(q)
  BY <1>1, StageKept
<1>4. Stages' = [Stages EXCEPT ![r] = "paid"]
  BY <1>2, <1>3, StageChanges
<1>5. balance'["wallet"] = balance["wallet"] /\ Income' = Income
  BY TransferMoves, AmountTypes DEF SettlePaid
<1> QED
  BY <1>2, <1>4, <1>5 DEF Promised!PayOut, Stages, Income

LEMMA ConfirmPromised ==
  ASSUME TypeOK, RowsAgree, NEW r \in Withdrawals, ConfirmWithdrawal(r)
  PROVE  Promised!Hold(r)
<1>1. /\ entry[r] = "NONE" /\ entry'[r] = "PENDING"
      /\ \A q \in Withdrawals \ {r} : entry'[q] = entry[q]
  BY DEF ConfirmWithdrawal, RowsAgree, RequestAgrees, TypeOK, EntryStates, Terminal
<1>2. StageOf(r) = "open" /\ StageOf(r)' = "held"
  BY <1>1, StageOfEntry DEF StageOf, InFlight
<1>3. \A q \in Withdrawals \ {r} : StageOf(q)' = StageOf(q)
  BY <1>1, StageKept
<1>4. Stages' = [Stages EXCEPT ![r] = "held"]
  BY <1>2, <1>3, StageChanges
<1>5. balance'["wallet"] = balance["wallet"] - Amount[r] /\ Income' = Income
  BY TransferMoves, AmountTypes DEF ConfirmWithdrawal
<1>6. Amount[r] <= balance["wallet"]
  BY DEF ConfirmWithdrawal
<1> QED
  BY <1>2, <1>4, <1>5, <1>6 DEF Promised!Hold, Stages, Income

\* Money and stages both stay: the promise stutters.
LEMMA KeptIsStutter ==
  ASSUME TypeOK, UNCHANGED balance,
         \A q \in Withdrawals :
           entry'[q] = entry[q] \/ (entry[q] \in InFlight /\ entry'[q] \in InFlight)
  PROVE  UNCHANGED Promised!payoutVars
<1>1. \A q \in Withdrawals : StageOf(q)' = StageOf(q)
  BY StageKept
<1> QED
  BY <1>1 DEF Promised!payoutVars

\* A step of a transfer holds, pays, refunds, or leaves the promise alone.
LEMMA TransferPromised ==
  ASSUME TypeOK, RowsAgree, NEW r \in Withdrawals, TransferStep(r)
  PROVE  \/ UNCHANGED Promised!payoutVars
         \/ Promised!Hold(r) \/ Promised!PayOut(r) \/ Promised!Refund(r)
<1>1. CASE ConfirmWithdrawal(r)
  BY <1>1, ConfirmPromised
<1>2. CASE RecordRejected(r)
  BY <1>2, ReversePromised DEF RecordRejected, RowsAgree, TaskAgrees, InFlight
<1>3. CASE DispatchErrs(r)
  <2>1. CASE entry[r] = "PENDING"
    BY <1>3, <2>1, ReversePromised DEF DispatchErrs, InFlight
  <2>2. CASE entry[r] # "PENDING"
    BY <1>3, <2>2, KeptIsStutter DEF DispatchErrs
  <2> QED
    BY <2>1, <2>2
<1>4. ASSUME NEW k \in EventKinds, ProcessWebhook(r, k)
      PROVE  UNCHANGED Promised!payoutVars \/ Promised!PayOut(r) \/ Promised!Refund(r)
  <2>1. CASE entry[r] # "SUBMITTED"
    BY <1>4, <2>1, KeptIsStutter DEF ProcessWebhook, Settle
  <2>2. CASE entry[r] = "SUBMITTED"
    BY <1>4, <2>2, SettlePromised, ReversePromised DEF ProcessWebhook, Settle, InFlight
  <2> QED
    BY <2>1, <2>2
<1>5. CASE StartDispatch(r)
  <2>1. entry[r] \in InFlight
    BY <1>5 DEF StartDispatch, RowsAgree, TaskAgrees, InFlight
  <2>2. \A q \in Withdrawals :
          entry'[q] = entry[q] \/ (q = r /\ entry'[q] = "PROCESSING")
    BY <1>5 DEF StartDispatch, TypeOK
  <2> QED
    BY <1>5, <2>1, <2>2, KeptIsStutter DEF StartDispatch, InFlight
<1>6. CASE RecordAccepted(r)
  <2>1. entry[r] \in InFlight
    BY <1>6 DEF RecordAccepted, RowsAgree, TaskAgrees, InFlight
  <2>2. \A q \in Withdrawals :
          entry'[q] = entry[q] \/ (q = r /\ entry'[q] = "SUBMITTED")
    BY <1>6 DEF RecordAccepted, TypeOK
  <2> QED
    BY <1>6, <2>1, <2>2, KeptIsStutter DEF RecordAccepted, InFlight
<1>7. CASE RequestWithdrawal(r) \/ CallProcessor(r) \/ WorkerCrashes(r)
           \/ ProcessorActs(r) \/ SurfaceStuck(r)
           \/ \E k \in EventKinds : ReceiveWebhook(r, k) \/ WebhookErrs(r, k)
  BY <1>7, KeptIsStutter DEF RequestWithdrawal, CallProcessor, WorkerCrashes,
     ProcessorActs, SurfaceStuck, ReceiveWebhook, WebhookErrs
<1> QED
  BY <1>1, <1>2, <1>3, <1>4, <1>5, <1>6, <1>7 DEF TransferStep, Dispatch

-----------------------------------------------------------------------------
(* The wallet is never overdrawn, and the promise is kept.                 *)

NeverOverdrawn == balance["wallet"] >= 0

\* Every step keeps the promise, and the wallet above zero.
LEMMA PromisedStep ==
  ASSUME TypeOK, RowsAgree, NeverOverdrawn, [Next]_vars
  PROVE  NeverOverdrawn' /\ [Promised!PayoutNext]_(Promised!payoutVars)
<1>1. \A a \in Accounts : balance[a] \in Int
  BY DEF TypeOK
<1>2. ASSUME NEW from \in {"course_payment", "adjustments"}, NEW amount \in Int,
             balance' = Moved(from, "wallet", amount),
             balance["wallet"] + amount >= 0, UNCHANGED entry
      PROVE  NeverOverdrawn' /\ Promised!PayoutNext
  <2>1. /\ Income' \in Int
        /\ balance'["wallet"] = balance["wallet"] + (Income' - Income)
        /\ balance'["wallet"] \in Nat
    BY <1>1, <1>2, CreditMoves, AccountNames
  <2>2. Stages' = Stages
    BY <1>2 DEF Stages, StageOf
  <2> QED
    BY <2>1, <2>2 DEF NeverOverdrawn, Promised!PayoutNext, Promised!Credit, Income, Stages
<1>3. ASSUME NEW c \in Courses, PayCreator(c)
      PROVE  NeverOverdrawn' /\ Promised!PayoutNext
  <2>1. Price[c] \in Nat
    BY AmountAssumption
  <2>2. balance["wallet"] + Price[c] >= 0
    BY <1>1, <2>1, AccountNames DEF NeverOverdrawn
  <2> QED
    BY <1>2, <1>3, <2>1, <2>2 DEF PayCreator
<1>4. ASSUME NEW k \in Adjustments, AdjustWallet(k)
      PROVE  NeverOverdrawn' /\ Promised!PayoutNext
  BY <1>2, <1>4, AmountTypes DEF AdjustWallet
<1>5. ASSUME NEW r \in Withdrawals, TransferStep(r)
      PROVE  NeverOverdrawn' /\ [Promised!PayoutNext]_(Promised!payoutVars)
  <2>1. Amount[r] \in Nat
    BY AmountAssumption
  <2>2. CASE UNCHANGED Promised!payoutVars
    BY <2>2 DEF Promised!payoutVars, NeverOverdrawn
  <2>3. CASE Promised!Hold(r)
    <3>1. NeverOverdrawn'
      BY <1>1, <2>1, <2>3, AccountNames DEF Promised!Hold, NeverOverdrawn
    <3> QED
      BY <2>3, <3>1 DEF Promised!PayoutNext
  <2>4. CASE Promised!PayOut(r)
    BY <2>4 DEF Promised!PayOut, Promised!PayoutNext, NeverOverdrawn
  <2>5. CASE Promised!Refund(r)
    <3>1. NeverOverdrawn'
      BY <1>1, <2>1, <2>5, AccountNames DEF Promised!Refund, NeverOverdrawn
    <3> QED
      BY <2>5, <3>1 DEF Promised!PayoutNext
  <2> QED
    BY <1>5, <2>2, <2>3, <2>4, <2>5, TransferPromised
<1>6. CASE CodeExpires \/ CheckErasure \/ EraseAccount \/ UNCHANGED vars
  <2>1. UNCHANGED <<balance, entry>>
    BY <1>6 DEF CodeExpires, CheckErasure, EraseAccount, vars
  <2>2. UNCHANGED Promised!payoutVars
    BY <2>1, KeptIsStutter
  <2>3. NeverOverdrawn'
    BY <2>1 DEF NeverOverdrawn
  <2> QED
    BY <2>2, <2>3
<1> QED
  BY <1>3, <1>4, <1>5, <1>6 DEF Next

LEMMA PromisedInit == Init => Promised!PayoutInit /\ NeverOverdrawn
<1> SUFFICES ASSUME Init PROVE Promised!PayoutInit /\ NeverOverdrawn
  OBVIOUS
<1>1. \A a \in Accounts : balance[a] = 0
  BY DEF Init
<1>2. \A r \in Withdrawals : StageOf(r) = "open"
  BY StageOfEntry DEF Init
<1>3. [r \in Withdrawals |-> StageOf(r)] = [r \in Withdrawals |-> "open"]
  BY <1>2
<1> QED
  BY <1>1, <1>3, AccountNames DEF Promised!PayoutInit, NeverOverdrawn

\* The detailed wallet, outbox, task and events implement the promise to the
\* creator, under every fault.
THEOREM PromiseKept == Spec => KeepsPayout
<1>1. TypeOK /\ RowsAgree /\ NeverOverdrawn /\ [Next]_vars
        => NeverOverdrawn' /\ [Promised!PayoutNext]_(Promised!payoutVars)
  BY PromisedStep
<1> QED
  BY <1>1, PromisedInit, WithdrawalTypeCorrect, RowsAgreeAlways, PTL
     DEF Spec, KeepsPayout, Promised!PayoutSpec
=============================================================================

-------------------------------- MODULE Payout --------------------------------
(***************************************************************************)
(* What the wallet promises a creator, without outbox, tasks and events: a *)
(* withdrawal takes its amount out of the wallet once, when it is          *)
(* confirmed, and ends either paid out or with the whole amount back.      *)
(* Withdrawal implements it (Withdrawal!KeepsPayout).                      *)
(***************************************************************************)
EXTENDS Integers

CONSTANTS Withdrawals, Amount

VARIABLES income,     \* earned, and corrected by administrators
          available,  \* what the creator can spend of it
          stage       \* of each withdrawal

payoutVars == <<income, available, stage>>

PayoutInit ==
  income = 0 /\ available = 0 /\ stage = [r \in Withdrawals |-> "open"]

\* Earnings and corrections reach the wallet in full, and overdraw nothing.
Credit ==
  /\ income' \in Int
  /\ available' = available + (income' - income)
  /\ available' \in Nat
  /\ UNCHANGED stage

Hold(r) ==
  /\ stage[r] = "open"
  /\ Amount[r] <= available
  /\ available' = available - Amount[r]
  /\ stage' = [stage EXCEPT ![r] = "held"]
  /\ UNCHANGED income

PayOut(r) ==
  /\ stage[r] = "held"
  /\ stage' = [stage EXCEPT ![r] = "paid"]
  /\ UNCHANGED <<income, available>>

Refund(r) ==
  /\ stage[r] = "held"
  /\ available' = available + Amount[r]
  /\ stage' = [stage EXCEPT ![r] = "refunded"]
  /\ UNCHANGED income

PayoutNext == Credit \/ \E r \in Withdrawals : Hold(r) \/ PayOut(r) \/ Refund(r)

PayoutSpec == PayoutInit /\ [][PayoutNext]_payoutVars
=============================================================================

----------------------------- MODULE MCWithdrawal -----------------------------
(* Small instances of Withdrawal: two withdrawals that the wallet cannot both *)
(* pay at first, a course, a correction up and a correction down.             *)
EXTENDS Withdrawal, TLC

CONSTANTS t1, t2, c1, k1, k2

Transfers   == {t1, t2}
OneTransfer == {t1}
Amounts     == t1 :> 1 @@ t2 :> 2
OneAmount   == t1 :> 2

Earned   == {c1}
Prices   == c1 :> 2
Keys     == {k1, k2}
AdjustedBy == k1 :> 1 @@ k2 :> -1
NoKeys   == {}
NoAdjustment == [k \in {} |-> 1]
=============================================================================

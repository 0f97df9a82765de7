-------------------------- MODULE Idempotency_proofs --------------------------
(* A key's replies are true, for any number of requests, bodies and deaths,   *)
(* while no request outlives the lease.                                       *)
EXTENDS Idempotency, TLAPS

\* The row is the one its owner claimed, in this life of the key.
OwnerHolds == \A r \in Requests :
  req[r].at \in Owners =>
    /\ req[r].id = key.id /\ req[r].body = key.body
    /\ key.state = "claimed" /\ key.age = "fresh" /\ req[r].life = lives

\* What was answered in this life is in the row until it expires.
AnswerHolds == \A r \in Requests :
  req[r].at = "answered" /\ req[r].life = lives =>
    key.state = "completed" /\ key.by = r /\ key.age = "fresh"

\* A row is completed by a request with its body that was answered.
RowIsTrue ==
  key.state = "completed" =>
    /\ key.by \in Requests /\ key.age # "abandoned"
    /\ req[key.by].at = "answered" /\ req[key.by].body = key.body

ReplayIsTrue == \A r \in Requests :
  req[r].at = "replayed" =>
    req[r].by \in Requests /\ req[req[r].by].at = "answered" /\ req[req[r].by].body = req[r].body

\* Rows have ids of their own; nobody holds the id of a row to come,
\* or claimed in a life to come.
IdsAreOld ==
  /\ key.id <= rows /\ (key.state = "absent" => key = NoKey)
  /\ \A r \in Requests : req[r].id <= rows /\ req[r].life <= lives

OnePerLife == \A q, r \in Requests :
  /\ req[q].at \in Owners \cup {"answered"} /\ req[r].at \in Owners \cup {"answered"}
  /\ req[q].life = req[r].life
  => q = r

\* Nobody owns or has answered in this life when the row is free to take.
LifeIsFree == \A r \in Requests :
  key.age \in {"abandoned", "expired"} \/ key.state = "absent" =>
    (req[r].at \in Owners \cup {"answered"} => req[r].life < lives)

KeyInv ==
  /\ IdempotencyTypeOK
  /\ OwnerHolds /\ AnswerHolds /\ RowIsTrue /\ ReplayIsTrue /\ IdsAreOld /\ OnePerLife
  /\ LifeIsFree

\* The sets of the type invariant.
ReqSet == [at : {"unsent", "reading", "taking"} \cup Owners \cup Ended,
           body : Bodies \cup {None}, id : Nat, by : Requests \cup {None}, life : 0..MaxLives]
KeySet == [id : Nat, state : {"absent", "claimed", "completed"},
           age : {"fresh", "abandoned", "expired"},
           body : Bodies \cup {None}, by : Requests \cup {None}]

LEMMA KeyInitInv == IdempotencyInit => KeyInv
BY RequestsAssumption, KeyLivesAssumption
   DEF IdempotencyInit, KeyInv, IdempotencyTypeOK, OwnerHolds, AnswerHolds, RowIsTrue,
       ReplayIsTrue, IdsAreOld, OnePerLife, LifeIsFree, NoKey, Unsent, Owners, Ended, None

LEMMA KeyStepInv ==
  ASSUME ~SlowRequests, KeyInv, [IdempotencyNext]_keyVars
  PROVE  KeyInv'
<1>k. key \in KeySet
  BY DEF KeyInv, IdempotencyTypeOK, KeySet
<1>q. req \in [Requests -> ReqSet]
  BY DEF KeyInv, IdempotencyTypeOK, ReqSet
<1>t. /\ key.id \in Nat /\ rows \in Nat /\ lives \in Nat
      /\ \A q \in Requests : req[q].id \in Nat /\ req[q].life \in Nat
  BY KeyLivesAssumption DEF KeyInv, IdempotencyTypeOK
<1>l. lives \in 0..MaxLives /\ deaths \in 0..MaxDeaths
  BY DEF KeyInv, IdempotencyTypeOK
<1>1. CASE UNCHANGED keyVars
  BY <1>1 DEF keyVars, KeyInv, IdempotencyTypeOK, OwnerHolds, AnswerHolds, RowIsTrue,
     ReplayIsTrue, IdsAreOld, OnePerLife, LifeIsFree
<1>2. ASSUME NEW r \in Requests, NEW b \in Bodies, ClaimKey(r, b) PROVE KeyInv'
  <2>1. CASE key.state = "absent"
    <3>1. \A q \in Requests : q # r => req'[q] = req[q]
      BY <1>2, <2>1, <1>k, <1>q, <1>t DEF KeyInv, IdsAreOld, NoKey, Unsent, None, ClaimKey
    <3>2. /\ req'[r].at = "running" /\ req'[r].body = b /\ req'[r].id = rows + 1
          /\ req'[r].life = lives /\ req[r].at = "unsent"
      BY <1>2, <2>1, <1>k, <1>q, <1>t
         DEF ReqSet, KeyInv, IdsAreOld, NoKey, Unsent, None, ClaimKey
    <3>3. /\ key'.id = rows + 1 /\ key'.state = "claimed" /\ key'.age = "fresh"
          /\ key'.body = b /\ key'.by = "none"
      BY <1>2, <2>1, <1>k, <1>q, <1>t
         DEF KeySet, KeyInv, IdsAreOld, NoKey, Unsent, None, ClaimKey
    <3>4. rows' = rows + 1 /\ lives' = lives
      BY <1>2, <2>1, <1>k, <1>q, <1>t DEF KeyInv, IdsAreOld, NoKey, Unsent, None, ClaimKey
    <3>5. key' \in KeySet /\ rows' \in Nat /\ lives' \in 0..MaxLives /\ deaths' \in 0..MaxDeaths
      BY <1>2, <2>1, <1>k, <1>q, <1>t, <1>l, <3>1, <3>2, <3>3, <3>4, KeyLivesAssumption
         DEF KeySet, ReqSet, None, NoKey, KeyInv, IdsAreOld, NoKey, Unsent, None, ClaimKey
    <3>6. req' \in [Requests -> ReqSet]
      BY <1>2, <2>1, <1>k, <1>q, <1>l, <3>1, <3>2, <3>3, <3>4
         DEF KeySet, ReqSet, Owners, Ended, None, KeyInv, IdsAreOld, NoKey, Unsent, None, ClaimKey
    <3>7. IdempotencyTypeOK'
      BY <3>5, <3>6 DEF IdempotencyTypeOK, KeySet, ReqSet
    <3>8. OwnerHolds'
      BY <2>1, <1>t, <3>1, <3>2, <3>3, <3>4 DEF KeyInv, OwnerHolds, Owners, NoKey, None
    <3>9. AnswerHolds'
      BY <2>1, <1>t, <3>1, <3>2, <3>3, <3>4 DEF KeyInv, AnswerHolds, Owners, NoKey, None
    <3>10. RowIsTrue'
      BY <2>1, <1>t, <3>1, <3>2, <3>3, <3>4 DEF KeyInv, RowIsTrue, Owners, NoKey, None
    <3>11. ReplayIsTrue'
      BY <2>1, <1>t, <3>1, <3>2, <3>3, <3>4 DEF KeyInv, ReplayIsTrue, Owners, NoKey, None
    <3>12. IdsAreOld'
      BY <2>1, <1>t, <3>1, <3>2, <3>3, <3>4 DEF KeyInv, IdsAreOld, Owners, NoKey, None
    <3>13. OnePerLife'
      BY <2>1, <1>t, <3>1, <3>2, <3>3, <3>4
         DEF KeyInv, OnePerLife, Owners, NoKey, None, LifeIsFree
    <3>14. LifeIsFree'
      BY <2>1, <1>t, <3>1, <3>2, <3>3, <3>4 DEF KeyInv, LifeIsFree, Owners, NoKey, None
    <3> QED BY <3>7, <3>8, <3>9, <3>10, <3>11, <3>12, <3>13, <3>14 DEF KeyInv
  <2>2. CASE key.state # "absent"
    <3>1. \A q \in Requests : q # r => req'[q] = req[q]
      BY <1>2, <2>2, <1>k, <1>q, <1>t DEF Unsent, ClaimKey
    <3>2. req'[r].at = "reading" /\ req'[r].id = 0 /\ req'[r].life = 0 /\ req[r].at = "unsent"
      BY <1>2, <2>2, <1>k, <1>q, <1>t DEF ReqSet, Unsent, ClaimKey
    <3>3. UNCHANGED <<key, rows, lives>>
      BY <1>2, <2>2, <1>k, <1>q, <1>t DEF Unsent, ClaimKey
    <3>4. key' \in KeySet /\ rows' \in Nat /\ lives' \in 0..MaxLives /\ deaths' \in 0..MaxDeaths
      BY <1>2, <2>2, <1>k, <1>q, <1>t, <1>l, <3>1, <3>2, <3>3, KeyLivesAssumption
         DEF KeySet, ReqSet, None, NoKey, Unsent, ClaimKey
    <3>5. req' \in [Requests -> ReqSet]
      BY <1>2, <2>2, <1>k, <1>q, <1>l, <3>1, <3>2, <3>3
         DEF KeySet, ReqSet, Owners, Ended, None, Unsent, ClaimKey
    <3>6. IdempotencyTypeOK'
      BY <3>4, <3>5 DEF IdempotencyTypeOK, KeySet, ReqSet
    <3>7. OwnerHolds'
      BY <2>2, <1>t, <3>1, <3>2, <3>3 DEF KeyInv, OwnerHolds, Owners, NoKey, None
    <3>8. AnswerHolds'
      BY <2>2, <1>t, <3>1, <3>2, <3>3 DEF KeyInv, AnswerHolds, Owners, NoKey, None
    <3>9. RowIsTrue'
      BY <2>2, <1>t, <3>1, <3>2, <3>3 DEF KeyInv, RowIsTrue, Owners, NoKey, None
    <3>10. ReplayIsTrue'
      BY <2>2, <1>t, <3>1, <3>2, <3>3 DEF KeyInv, ReplayIsTrue, Owners, NoKey, None
    <3>11. IdsAreOld'
      BY <2>2, <1>t, <3>1, <3>2, <3>3 DEF KeyInv, IdsAreOld, Owners, NoKey, None
    <3>12. OnePerLife'
      BY <2>2, <1>t, <3>1, <3>2, <3>3 DEF KeyInv, OnePerLife, Owners, NoKey, None
    <3>13. LifeIsFree'
      BY <2>2, <1>t, <3>1, <3>2, <3>3 DEF KeyInv, LifeIsFree, Owners, NoKey, None
    <3> QED BY <3>6, <3>7, <3>8, <3>9, <3>10, <3>11, <3>12, <3>13 DEF KeyInv
  <2> QED BY <2>1, <2>2
<1>3. ASSUME NEW r \in Requests, ReadKey(r) PROVE KeyInv'
  <2>1. \A q \in Requests : q # r => req'[q] = req[q]
    BY <1>3, <1>k, <1>q, <1>t DEF ReadKey, Goes
  <2>2. UNCHANGED <<key, rows, lives>>
    BY <1>3, <1>k, <1>q, <1>t DEF ReadKey, Goes
  <2>3. /\ req[r].at = "reading" /\ req'[r].at \in {"failed", "taking", "replayed", "refused"}
        /\ req'[r].body = req[r].body /\ req'[r].life = req[r].life
    BY <1>3, <1>k, <1>q, <1>t DEF ReqSet, ReadKey, Goes
  <2>4. req'[r].id = req[r].id \/ req'[r].id = key.id
    BY <1>3, <1>k, <1>q, <1>t DEF KeySet, ReqSet, ReadKey, Goes
  <2>5. req'[r].at = "replayed" => key.state = "completed" /\ req'[r].by = key.by /\ key.body = req[r].body
    BY <1>3, <1>k, <1>q, <1>t DEF KeySet, ReqSet, ReadKey, Goes
  <2>6. key' \in KeySet /\ rows' \in Nat /\ lives' \in 0..MaxLives /\ deaths' \in 0..MaxDeaths
    BY <1>3, <1>k, <1>q, <1>t, <1>l, <2>1, <2>2, <2>3, <2>4, <2>5, KeyLivesAssumption
       DEF KeySet, ReqSet, None, NoKey, ReadKey, Goes
  <2>7. req' \in [Requests -> ReqSet]
    BY <1>3, <1>k, <1>q, <1>l, <2>1, <2>2, <2>3, <2>4, <2>5
       DEF KeySet, ReqSet, Owners, Ended, None, ReadKey, Goes
  <2>8. IdempotencyTypeOK'
    BY <2>6, <2>7 DEF IdempotencyTypeOK, KeySet, ReqSet
  <2>9. OwnerHolds'
    BY <1>t, <2>1, <2>2, <2>3, <2>4, <2>5 DEF KeyInv, OwnerHolds, Owners, NoKey, None
  <2>10. AnswerHolds'
    BY <1>t, <2>1, <2>2, <2>3, <2>4, <2>5 DEF KeyInv, AnswerHolds, Owners, NoKey, None
  <2>11. RowIsTrue'
    BY <1>t, <2>1, <2>2, <2>3, <2>4, <2>5 DEF KeyInv, RowIsTrue, Owners, NoKey, None
  <2>12. ReplayIsTrue'
    BY <1>t, <2>1, <2>2, <2>3, <2>4, <2>5
       DEF KeyInv, ReplayIsTrue, Owners, NoKey, None, RowIsTrue
  <2>13. IdsAreOld'
    BY <1>t, <2>1, <2>2, <2>3, <2>4, <2>5 DEF KeyInv, IdsAreOld, Owners, NoKey, None
  <2>14. OnePerLife'
    BY <1>t, <2>1, <2>2, <2>3, <2>4, <2>5 DEF KeyInv, OnePerLife, Owners, NoKey, None
  <2>15. LifeIsFree'
    BY <1>t, <2>1, <2>2, <2>3, <2>4, <2>5 DEF KeyInv, LifeIsFree, Owners, NoKey, None
  <2> QED BY <2>8, <2>9, <2>10, <2>11, <2>12, <2>13, <2>14, <2>15 DEF KeyInv
<1>4. ASSUME NEW r \in Requests, TakeOver(r) PROVE KeyInv'
  <2>1. CASE key.id = req[r].id /\ key.age # "fresh"
    <3>1. \A q \in Requests : q # r => req'[q] = req[q]
      BY <1>4, <2>1, <1>k, <1>q, <1>t DEF TakeOver, Restart, Goes
    <3>2. /\ req[r].at = "taking" /\ req'[r].at = "running" /\ req'[r].life = lives
          /\ req'[r].body = req[r].body /\ req'[r].id = req[r].id
      BY <1>4, <2>1, <1>k, <1>q, <1>t DEF ReqSet, TakeOver, Restart, Goes
    <3>3. /\ key'.id = key.id /\ key'.state = "claimed" /\ key'.age = "fresh"
          /\ key'.body = req[r].body /\ key'.by = None
      BY <1>4, <2>1, <1>k, <1>q, <1>t DEF KeySet, ReqSet, TakeOver, Restart, Goes
    <3>4. rows' = rows /\ lives' = lives /\ key.age \in {"abandoned", "expired"}
      BY <1>4, <2>1, <1>k, <1>q, <1>t DEF KeySet, TakeOver, Restart, Goes
    <3>5. key' \in KeySet /\ rows' \in Nat /\ lives' \in 0..MaxLives /\ deaths' \in 0..MaxDeaths
      BY <1>4, <2>1, <1>k, <1>q, <1>t, <1>l, <3>1, <3>2, <3>3, <3>4, KeyLivesAssumption
         DEF KeySet, ReqSet, None, NoKey, TakeOver, Restart, Goes
    <3>6. req' \in [Requests -> ReqSet]
      BY <1>4, <2>1, <1>k, <1>q, <1>l, <3>1, <3>2, <3>3, <3>4
         DEF KeySet, ReqSet, Owners, Ended, None, TakeOver, Restart, Goes
    <3>7. IdempotencyTypeOK'
      BY <3>5, <3>6 DEF IdempotencyTypeOK, KeySet, ReqSet
    <3>8. OwnerHolds'
      BY <2>1, <1>t, <3>1, <3>2, <3>3, <3>4
         DEF KeyInv, OwnerHolds, Owners, NoKey, None, LifeIsFree, IdsAreOld
    <3>9. AnswerHolds'
      BY <2>1, <1>t, <3>1, <3>2, <3>3, <3>4
         DEF KeyInv, AnswerHolds, Owners, NoKey, None, LifeIsFree
    <3>10. RowIsTrue'
      BY <2>1, <1>t, <3>1, <3>2, <3>3, <3>4 DEF KeyInv, RowIsTrue, Owners, NoKey, None
    <3>11. ReplayIsTrue'
      BY <2>1, <1>t, <3>1, <3>2, <3>3, <3>4 DEF KeyInv, ReplayIsTrue, Owners, NoKey, None
    <3>12. IdsAreOld'
      BY <2>1, <1>t, <3>1, <3>2, <3>3, <3>4 DEF KeyInv, IdsAreOld, Owners, NoKey, None
    <3>13. OnePerLife'
      BY <2>1, <1>t, <3>1, <3>2, <3>3, <3>4
         DEF KeyInv, OnePerLife, Owners, NoKey, None, LifeIsFree, IdsAreOld
    <3>14. LifeIsFree'
      BY <2>1, <1>t, <3>1, <3>2, <3>3, <3>4 DEF KeyInv, LifeIsFree, Owners, NoKey, None
    <3> QED BY <3>7, <3>8, <3>9, <3>10, <3>11, <3>12, <3>13, <3>14 DEF KeyInv
  <2>2. CASE ~(key.id = req[r].id /\ key.age # "fresh")
    <3>1. \A q \in Requests : q # r => req'[q] = req[q]
      BY <1>4, <2>2, <1>k, <1>q, <1>t DEF TakeOver, Restart, Goes
    <3>2. UNCHANGED <<key, rows, lives>>
      BY <1>4, <2>2, <1>k, <1>q, <1>t DEF TakeOver, Restart, Goes
    <3>3. /\ req[r].at = "taking" /\ req'[r].at = "refused"
          /\ req'[r].life = req[r].life /\ req'[r].id = req[r].id
      BY <1>4, <2>2, <1>k, <1>q, <1>t DEF ReqSet, TakeOver, Restart, Goes
    <3>4. key' \in KeySet /\ rows' \in Nat /\ lives' \in 0..MaxLives /\ deaths' \in 0..MaxDeaths
      BY <1>4, <2>2, <1>k, <1>q, <1>t, <1>l, <3>1, <3>2, <3>3, KeyLivesAssumption
         DEF KeySet, ReqSet, None, NoKey, TakeOver, Restart, Goes
    <3>5. req' \in [Requests -> ReqSet]
      BY <1>4, <2>2, <1>k, <1>q, <1>l, <3>1, <3>2, <3>3
         DEF KeySet, ReqSet, Owners, Ended, None, TakeOver, Restart, Goes
    <3>6. IdempotencyTypeOK'
      BY <3>4, <3>5 DEF IdempotencyTypeOK, KeySet, ReqSet
    <3>7. OwnerHolds'
      BY <2>2, <1>t, <3>1, <3>2, <3>3 DEF KeyInv, OwnerHolds, Owners, NoKey, None
    <3>8. AnswerHolds'
      BY <2>2, <1>t, <3>1, <3>2, <3>3 DEF KeyInv, AnswerHolds, Owners, NoKey, None
    <3>9. RowIsTrue'
      BY <2>2, <1>t, <3>1, <3>2, <3>3 DEF KeyInv, RowIsTrue, Owners, NoKey, None
    <3>10. ReplayIsTrue'
      BY <2>2, <1>t, <3>1, <3>2, <3>3 DEF KeyInv, ReplayIsTrue, Owners, NoKey, None
    <3>11. IdsAreOld'
      BY <2>2, <1>t, <3>1, <3>2, <3>3 DEF KeyInv, IdsAreOld, Owners, NoKey, None
    <3>12. OnePerLife'
      BY <2>2, <1>t, <3>1, <3>2, <3>3 DEF KeyInv, OnePerLife, Owners, NoKey, None
    <3>13. LifeIsFree'
      BY <2>2, <1>t, <3>1, <3>2, <3>3 DEF KeyInv, LifeIsFree, Owners, NoKey, None
    <3> QED BY <3>6, <3>7, <3>8, <3>9, <3>10, <3>11, <3>12, <3>13 DEF KeyInv
  <2> QED BY <2>1, <2>2, <1>4 DEF TakeOver, Restart, Goes
<1>5. ASSUME NEW r \in Requests, HandleRequest(r) PROVE KeyInv'
  <2>1. \A q \in Requests : q # r => req'[q] = req[q]
    BY <1>5, <1>k, <1>q, <1>t DEF HandleRequest, Goes
  <2>2. UNCHANGED <<key, rows, lives>>
    BY <1>5, <1>k, <1>q, <1>t DEF HandleRequest, Goes
  <2>3. /\ req[r].at = "running" /\ req'[r].at \in {"succeeded", "failing"}
        /\ req'[r].life = req[r].life /\ req'[r].id = req[r].id /\ req'[r].body = req[r].body
    BY <1>5, <1>k, <1>q, <1>t DEF ReqSet, HandleRequest, Goes
  <2>4. key' \in KeySet /\ rows' \in Nat /\ lives' \in 0..MaxLives /\ deaths' \in 0..MaxDeaths
    BY <1>5, <1>k, <1>q, <1>t, <1>l, <2>1, <2>2, <2>3, KeyLivesAssumption
       DEF KeySet, ReqSet, None, NoKey, HandleRequest, Goes
  <2>5. req' \in [Requests -> ReqSet]
    BY <1>5, <1>k, <1>q, <1>l, <2>1, <2>2, <2>3
       DEF KeySet, ReqSet, Owners, Ended, None, HandleRequest, Goes
  <2>6. IdempotencyTypeOK'
    BY <2>4, <2>5 DEF IdempotencyTypeOK, KeySet, ReqSet
  <2>7. OwnerHolds'
    BY <1>t, <2>1, <2>2, <2>3 DEF KeyInv, OwnerHolds, Owners, NoKey, None
  <2>8. AnswerHolds'
    BY <1>t, <2>1, <2>2, <2>3 DEF KeyInv, AnswerHolds, Owners, NoKey, None
  <2>9. RowIsTrue'
    BY <1>t, <2>1, <2>2, <2>3 DEF KeyInv, RowIsTrue, Owners, NoKey, None
  <2>10. ReplayIsTrue'
    BY <1>t, <2>1, <2>2, <2>3 DEF KeyInv, ReplayIsTrue, Owners, NoKey, None
  <2>11. IdsAreOld'
    BY <1>t, <2>1, <2>2, <2>3 DEF KeyInv, IdsAreOld, Owners, NoKey, None
  <2>12. OnePerLife'
    BY <1>t, <2>1, <2>2, <2>3 DEF KeyInv, OnePerLife, Owners, NoKey, None
  <2>13. LifeIsFree'
    BY <1>t, <2>1, <2>2, <2>3 DEF KeyInv, LifeIsFree, Owners, NoKey, None
  <2> QED BY <2>6, <2>7, <2>8, <2>9, <2>10, <2>11, <2>12, <2>13 DEF KeyInv
<1>6. ASSUME NEW r \in Requests, CompleteKey(r) PROVE KeyInv'
  <2>1. \A q \in Requests : q # r => req'[q] = req[q]
    BY <1>6, <1>k, <1>q, <1>t DEF KeyInv, OwnerHolds, Owners, CompleteKey, Goes
  <2>2. /\ req[r].at = "succeeded" /\ req'[r].at = "answered"
        /\ req'[r].life = req[r].life /\ req'[r].id = req[r].id /\ req'[r].body = req[r].body
    BY <1>6, <1>k, <1>q, <1>t DEF ReqSet, KeyInv, OwnerHolds, Owners, CompleteKey, Goes
  <2>3. /\ req[r].life = lives /\ key.state = "claimed" /\ key.age = "fresh" /\ key.body = req[r].body
    BY <1>6, <1>k, <1>q, <1>t
       DEF KeySet, ReqSet, KeyInv, OwnerHolds, Owners, CompleteKey, Goes
  <2>4. /\ key'.id = key.id /\ key'.state = "completed" /\ key'.age = "fresh"
        /\ key'.body = key.body /\ key'.by = r
    BY <1>6, <1>k, <1>q, <1>t DEF KeySet, KeyInv, OwnerHolds, Owners, CompleteKey, Goes
  <2>5. rows' = rows /\ lives' = lives
    BY <1>6, <1>k, <1>q, <1>t DEF KeyInv, OwnerHolds, Owners, CompleteKey, Goes
  <2>6. key' \in KeySet /\ rows' \in Nat /\ lives' \in 0..MaxLives /\ deaths' \in 0..MaxDeaths
    BY <1>6, <1>k, <1>q, <1>t, <1>l, <2>1, <2>2, <2>3, <2>4, <2>5, KeyLivesAssumption
       DEF KeySet, ReqSet, None, NoKey, KeyInv, OwnerHolds, Owners, CompleteKey, Goes
  <2>7. req' \in [Requests -> ReqSet]
    BY <1>6, <1>k, <1>q, <1>l, <2>1, <2>2, <2>3, <2>4, <2>5
       DEF KeySet, ReqSet, Owners, Ended, None, KeyInv, OwnerHolds, Owners, CompleteKey, Goes
  <2>8. IdempotencyTypeOK'
    BY <2>6, <2>7 DEF IdempotencyTypeOK, KeySet, ReqSet
  <2>9. OwnerHolds'
    BY <1>t, <2>1, <2>2, <2>3, <2>4, <2>5
       DEF KeyInv, OwnerHolds, Owners, NoKey, None, OnePerLife
  <2>10. AnswerHolds'
    BY <1>t, <2>1, <2>2, <2>3, <2>4, <2>5 DEF KeyInv, AnswerHolds, Owners, NoKey, None
  <2>11. RowIsTrue'
    BY <1>t, <2>1, <2>2, <2>3, <2>4, <2>5 DEF KeyInv, RowIsTrue, Owners, NoKey, None
  <2>12. ReplayIsTrue'
    BY <1>t, <2>1, <2>2, <2>3, <2>4, <2>5 DEF KeyInv, ReplayIsTrue, Owners, NoKey, None
  <2>13. IdsAreOld'
    BY <1>t, <2>1, <2>2, <2>3, <2>4, <2>5 DEF KeyInv, IdsAreOld, Owners, NoKey, None
  <2>14. OnePerLife'
    BY <1>t, <2>1, <2>2, <2>3, <2>4, <2>5 DEF KeyInv, OnePerLife, Owners, NoKey, None
  <2>15. LifeIsFree'
    BY <1>t, <2>1, <2>2, <2>3, <2>4, <2>5 DEF KeyInv, LifeIsFree, Owners, NoKey, None
  <2> QED BY <2>8, <2>9, <2>10, <2>11, <2>12, <2>13, <2>14, <2>15 DEF KeyInv
<1>7. ASSUME NEW r \in Requests, ReleaseKey(r) PROVE KeyInv'
  <2>1. \A q \in Requests : q # r => req'[q] = req[q]
    BY <1>7, <1>k, <1>q, <1>t DEF KeyInv, OwnerHolds, Owners, ReleaseKey, Goes
  <2>2. /\ req[r].at = "failing" /\ req'[r].at = "failed"
        /\ req'[r].life = req[r].life /\ req'[r].id = req[r].id
    BY <1>7, <1>k, <1>q, <1>t DEF ReqSet, KeyInv, OwnerHolds, Owners, ReleaseKey, Goes
  <2>3. req[r].life = lives /\ key.state = "claimed" /\ key.age = "fresh"
    BY <1>7, <1>k, <1>q, <1>t
       DEF KeySet, ReqSet, KeyInv, OwnerHolds, Owners, ReleaseKey, Goes
  <2>4. key' = NoKey /\ rows' = rows /\ lives' = lives
    BY <1>7, <1>k, <1>q, <1>t DEF KeySet, KeyInv, OwnerHolds, Owners, ReleaseKey, Goes
  <2>5. key' \in KeySet /\ rows' \in Nat /\ lives' \in 0..MaxLives /\ deaths' \in 0..MaxDeaths
    BY <1>7, <1>k, <1>q, <1>t, <1>l, <2>1, <2>2, <2>3, <2>4, KeyLivesAssumption
       DEF KeySet, ReqSet, None, NoKey, KeyInv, OwnerHolds, Owners, ReleaseKey, Goes
  <2>6. req' \in [Requests -> ReqSet]
    BY <1>7, <1>k, <1>q, <1>l, <2>1, <2>2, <2>3, <2>4
       DEF KeySet, ReqSet, Owners, Ended, None, KeyInv, OwnerHolds, Owners, ReleaseKey, Goes
  <2>7. IdempotencyTypeOK'
    BY <2>5, <2>6 DEF IdempotencyTypeOK, KeySet, ReqSet
  <2>8. OwnerHolds'
    BY <1>t, <2>1, <2>2, <2>3, <2>4
       DEF KeyInv, OwnerHolds, Owners, NoKey, None, OnePerLife
  <2>9. AnswerHolds'
    BY <1>t, <2>1, <2>2, <2>3, <2>4 DEF KeyInv, AnswerHolds, Owners, NoKey, None
  <2>10. RowIsTrue'
    BY <1>t, <2>1, <2>2, <2>3, <2>4 DEF KeyInv, RowIsTrue, Owners, NoKey, None
  <2>11. ReplayIsTrue'
    BY <1>t, <2>1, <2>2, <2>3, <2>4 DEF KeyInv, ReplayIsTrue, Owners, NoKey, None
  <2>12. IdsAreOld'
    BY <1>t, <2>1, <2>2, <2>3, <2>4 DEF KeyInv, IdsAreOld, Owners, NoKey, None
  <2>13. OnePerLife'
    BY <1>t, <2>1, <2>2, <2>3, <2>4 DEF KeyInv, OnePerLife, Owners, NoKey, None
  <2>14. LifeIsFree'
    BY <1>t, <2>1, <2>2, <2>3, <2>4
       DEF KeyInv, LifeIsFree, Owners, NoKey, None, OnePerLife, IdsAreOld
  <2> QED BY <2>7, <2>8, <2>9, <2>10, <2>11, <2>12, <2>13, <2>14 DEF KeyInv
<1>8. ASSUME NEW r \in Requests, RequestDies(r) PROVE KeyInv'
  <2>1. \A q \in Requests : q # r => req'[q] = req[q]
    BY <1>8, <1>k, <1>q, <1>t DEF RequestDies, Goes, Owners
  <2>2. UNCHANGED <<key, rows, lives>>
    BY <1>8, <1>k, <1>q, <1>t DEF RequestDies, Goes, Owners
  <2>3. /\ req[r].at # "answered" /\ req'[r].at = "dead"
        /\ req'[r].life = req[r].life /\ req'[r].id = req[r].id
    BY <1>8, <1>k, <1>q, <1>t DEF ReqSet, RequestDies, Goes, Owners
  <2>4. key' \in KeySet /\ rows' \in Nat /\ lives' \in 0..MaxLives /\ deaths' \in 0..MaxDeaths
    BY <1>8, <1>k, <1>q, <1>t, <1>l, <2>1, <2>2, <2>3, KeyLivesAssumption
       DEF KeySet, ReqSet, None, NoKey, RequestDies, Goes, Owners
  <2>5. req' \in [Requests -> ReqSet]
    BY <1>8, <1>k, <1>q, <1>l, <2>1, <2>2, <2>3
       DEF KeySet, ReqSet, Owners, Ended, None, RequestDies, Goes, Owners
  <2>6. IdempotencyTypeOK'
    BY <2>4, <2>5 DEF IdempotencyTypeOK, KeySet, ReqSet
  <2>7. OwnerHolds'
    BY <1>t, <2>1, <2>2, <2>3 DEF KeyInv, OwnerHolds, Owners, NoKey, None
  <2>8. AnswerHolds'
    BY <1>t, <2>1, <2>2, <2>3 DEF KeyInv, AnswerHolds, Owners, NoKey, None
  <2>9. RowIsTrue'
    BY <1>t, <2>1, <2>2, <2>3 DEF KeyInv, RowIsTrue, Owners, NoKey, None
  <2>10. ReplayIsTrue'
    BY <1>t, <2>1, <2>2, <2>3 DEF KeyInv, ReplayIsTrue, Owners, NoKey, None
  <2>11. IdsAreOld'
    BY <1>t, <2>1, <2>2, <2>3 DEF KeyInv, IdsAreOld, Owners, NoKey, None
  <2>12. OnePerLife'
    BY <1>t, <2>1, <2>2, <2>3 DEF KeyInv, OnePerLife, Owners, NoKey, None
  <2>13. LifeIsFree'
    BY <1>t, <2>1, <2>2, <2>3 DEF KeyInv, LifeIsFree, Owners, NoKey, None
  <2> QED BY <2>6, <2>7, <2>8, <2>9, <2>10, <2>11, <2>12, <2>13 DEF KeyInv
<1>9. CASE LeaseEnds
  <2>1. req' = req /\ rows' = rows /\ lives' = lives /\ deaths' = deaths
    BY <1>9, <1>k, <1>q, <1>t DEF ReqSet, Outlived, KeyInv, OwnerHolds, LeaseEnds
  <2>2. \A q \in Requests : req[q].at \notin Owners
    BY <1>9, <1>k, <1>q, <1>t DEF ReqSet, Outlived, KeyInv, OwnerHolds, LeaseEnds
  <2>3. /\ key.state = "claimed" /\ key.age = "fresh" /\ key'.age = "abandoned" /\ key'.state = key.state
        /\ key'.id = key.id /\ key'.body = key.body /\ key'.by = key.by
    BY <1>9, <1>k, <1>q, <1>t DEF KeySet, Outlived, KeyInv, OwnerHolds, LeaseEnds
  <2>4. key' \in KeySet /\ rows' \in Nat /\ lives' \in 0..MaxLives /\ deaths' \in 0..MaxDeaths
    BY <1>9, <1>k, <1>q, <1>t, <1>l, <2>1, <2>2, <2>3, KeyLivesAssumption
       DEF KeySet, ReqSet, None, NoKey, Outlived, KeyInv, OwnerHolds, LeaseEnds
  <2>5. req' \in [Requests -> ReqSet]
    BY <1>9, <1>k, <1>q, <1>l, <2>1, <2>2, <2>3
       DEF KeySet, ReqSet, Owners, Ended, None, Outlived, KeyInv, OwnerHolds, LeaseEnds
  <2>6. IdempotencyTypeOK'
    BY <2>4, <2>5 DEF IdempotencyTypeOK, KeySet, ReqSet
  <2>7. OwnerHolds'
    BY <1>t, <2>1, <2>2, <2>3 DEF KeyInv, OwnerHolds, Owners, NoKey, None
  <2>8. AnswerHolds'
    BY <1>t, <2>1, <2>2, <2>3 DEF KeyInv, AnswerHolds, Owners, NoKey, None
  <2>9. RowIsTrue'
    BY <1>t, <2>1, <2>2, <2>3 DEF KeyInv, RowIsTrue, Owners, NoKey, None
  <2>10. ReplayIsTrue'
    BY <1>t, <2>1, <2>2, <2>3 DEF KeyInv, ReplayIsTrue, Owners, NoKey, None
  <2>11. IdsAreOld'
    BY <1>t, <2>1, <2>2, <2>3 DEF KeyInv, IdsAreOld, Owners, NoKey, None
  <2>12. OnePerLife'
    BY <1>t, <2>1, <2>2, <2>3 DEF KeyInv, OnePerLife, Owners, NoKey, None
  <2>13. LifeIsFree'
    BY <1>t, <2>1, <2>2, <2>3
       DEF KeyInv, LifeIsFree, Owners, NoKey, None, AnswerHolds, IdsAreOld
  <2> QED BY <2>6, <2>7, <2>8, <2>9, <2>10, <2>11, <2>12, <2>13 DEF KeyInv
<1>10. CASE KeyExpires
  <2>1. req' = req /\ rows' = rows /\ lives' = lives + 1 /\ lives < MaxLives /\ deaths' = deaths
    BY <1>10, <1>k, <1>q, <1>t DEF ReqSet, Outlived, KeyInv, OwnerHolds, KeyExpires
  <2>2. \A q \in Requests : req[q].at \notin Owners
    BY <1>10, <1>k, <1>q, <1>t DEF ReqSet, Outlived, KeyInv, OwnerHolds, KeyExpires
  <2>3. /\ key.state # "absent" /\ key'.age = "expired" /\ key'.state = key.state
        /\ key'.id = key.id /\ key'.body = key.body /\ key'.by = key.by
    BY <1>10, <1>k, <1>q, <1>t DEF KeySet, Outlived, KeyInv, OwnerHolds, KeyExpires
  <2>4. key' \in KeySet /\ rows' \in Nat /\ lives' \in 0..MaxLives /\ deaths' \in 0..MaxDeaths
    BY <1>10, <1>k, <1>q, <1>t, <1>l, <2>1, <2>2, <2>3, KeyLivesAssumption
       DEF KeySet, ReqSet, None, NoKey, Outlived, KeyInv, OwnerHolds, KeyExpires
  <2>5. req' \in [Requests -> ReqSet]
    BY <1>10, <1>k, <1>q, <1>l, <2>1, <2>2, <2>3
       DEF KeySet, ReqSet, Owners, Ended, None, Outlived, KeyInv, OwnerHolds, KeyExpires
  <2>6. IdempotencyTypeOK'
    BY <2>4, <2>5 DEF IdempotencyTypeOK, KeySet, ReqSet
  <2>7. OwnerHolds'
    BY <1>t, <2>1, <2>2, <2>3 DEF KeyInv, OwnerHolds, Owners, NoKey, None
  <2>8. AnswerHolds'
    BY <1>t, <2>1, <2>2, <2>3 DEF KeyInv, AnswerHolds, Owners, NoKey, None, IdsAreOld
  <2>9. RowIsTrue'
    BY <1>t, <2>1, <2>2, <2>3 DEF KeyInv, RowIsTrue, Owners, NoKey, None
  <2>10. ReplayIsTrue'
    BY <1>t, <2>1, <2>2, <2>3 DEF KeyInv, ReplayIsTrue, Owners, NoKey, None
  <2>11. IdsAreOld'
    BY <1>t, <2>1, <2>2, <2>3 DEF KeyInv, IdsAreOld, Owners, NoKey, None
  <2>12. OnePerLife'
    BY <1>t, <2>1, <2>2, <2>3 DEF KeyInv, OnePerLife, Owners, NoKey, None
  <2>13. LifeIsFree'
    BY <1>t, <2>1, <2>2, <2>3 DEF KeyInv, LifeIsFree, Owners, NoKey, None, IdsAreOld
  <2> QED BY <2>6, <2>7, <2>8, <2>9, <2>10, <2>11, <2>12, <2>13 DEF KeyInv
<1>11. CASE PurgeExpired
  <2>1. key.age = "expired" /\ key' = NoKey /\ UNCHANGED <<req, rows, lives, deaths>>
    BY <1>11, <1>k, <1>q, <1>t DEF PurgeExpired
  <2>2. key' \in KeySet /\ rows' \in Nat /\ lives' \in 0..MaxLives /\ deaths' \in 0..MaxDeaths
    BY <1>11, <1>k, <1>q, <1>t, <1>l, <2>1, KeyLivesAssumption
       DEF KeySet, ReqSet, None, NoKey, PurgeExpired
  <2>3. req' \in [Requests -> ReqSet]
    BY <1>11, <1>k, <1>q, <1>l, <2>1 DEF KeySet, ReqSet, Owners, Ended, None, PurgeExpired
  <2>4. IdempotencyTypeOK'
    BY <2>2, <2>3 DEF IdempotencyTypeOK, KeySet, ReqSet
  <2>5. OwnerHolds'
    BY <1>t, <2>1 DEF KeyInv, OwnerHolds, Owners, NoKey, None
  <2>6. AnswerHolds'
    BY <1>t, <2>1 DEF KeyInv, AnswerHolds, Owners, NoKey, None
  <2>7. RowIsTrue'
    BY <1>t, <2>1 DEF KeyInv, RowIsTrue, Owners, NoKey, None
  <2>8. ReplayIsTrue'
    BY <1>t, <2>1 DEF KeyInv, ReplayIsTrue, Owners, NoKey, None
  <2>9. IdsAreOld'
    BY <1>t, <2>1 DEF KeyInv, IdsAreOld, Owners, NoKey, None
  <2>10. OnePerLife'
    BY <1>t, <2>1 DEF KeyInv, OnePerLife, Owners, NoKey, None
  <2>11. LifeIsFree'
    BY <1>t, <2>1 DEF KeyInv, LifeIsFree, Owners, NoKey, None
  <2> QED BY <2>4, <2>5, <2>6, <2>7, <2>8, <2>9, <2>10, <2>11 DEF KeyInv
<1> QED
  BY <1>1, <1>2, <1>3, <1>4, <1>5, <1>6, <1>7, <1>8, <1>9, <1>10, <1>11
     DEF IdempotencyNext

\* While no request outlives the lease ("Far above any push's run time"), replays are
\* the answer of a request with the same body, and one request of a life of the key
\* does its work, for every number of requests, deaths and expiries.
THEOREM RepliesStayTrue ==
  ASSUME ~SlowRequests
  PROVE  IdempotencySpec => []RepliesAreTrue
<1>1. KeyInv => RepliesAreTrue
  BY DEF KeyInv, RepliesAreTrue, OnePerLife, ReplayIsTrue
<1>2. KeyInv /\ [IdempotencyNext]_keyVars => KeyInv'
  BY KeyStepInv
<1> QED
  BY <1>1, <1>2, KeyInitInv, PTL DEF IdempotencySpec
=============================================================================

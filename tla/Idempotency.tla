----------------------------- MODULE Idempotency -----------------------------
(***************************************************************************)
(* Idempotency-Key on a developer's POSTs: requests that carry one key      *)
(* claim its row, run, and store their answer in it, or release it.  Each   *)
(* statement of a claim is a step: the insert, the read after a failed      *)
(* insert, and the conditional update that takes an old row over.           *)
(***************************************************************************)
EXTENDS Integers

CONSTANTS Requests, Bodies,
          MaxDeaths,     \* requests whose process dies
          MaxLives,      \* how often KEY_TTL passes
          SlowRequests   \* whether a request may outlive IN_FLIGHT_LEASE

ASSUME RequestsAssumption == "none" \notin Requests /\ "none" \notin Bodies
ASSUME KeyLivesAssumption == MaxLives \in Nat /\ MaxDeaths \in Nat /\ SlowRequests \in BOOLEAN

VARIABLES key,     \* the IdempotencyKey row
          req,     \* what each request does, and in which life of the key it claimed
          rows,    \* rows inserted so far
          lives,   \* how often the row expired
          deaths

keyVars == <<key, req, rows, lives, deaths>>

None   == "none"
NoKey  == [id |-> 0, state |-> "absent", age |-> "fresh", body |-> None, by |-> None]
Unsent == [at |-> "unsent", body |-> None, id |-> 0, by |-> None, life |-> 0]
Owners == {"running", "failing", "succeeded"}
Ended  == {"answered", "replayed", "refused", "failed", "dead"}

IdempotencyTypeOK ==
  /\ key \in [id : Nat, state : {"absent", "claimed", "completed"},
              age : {"fresh", "abandoned", "expired"},
              body : Bodies \cup {None}, by : Requests \cup {None}]
  /\ req \in [Requests -> [at : {"unsent", "reading", "taking"} \cup Owners \cup Ended,
              body : Bodies \cup {None}, id : Nat, by : Requests \cup {None},
              life : 0..MaxLives]]
  /\ rows \in Nat
  /\ lives \in 0..MaxLives
  /\ deaths \in 0..MaxDeaths

Goes(r, at) == req' = [req EXCEPT ![r].at = at]

-----------------------------------------------------------------------------
(* claim                                                                   *)

\* The insert, or none: the developer has a row of that key.
ClaimKey(r, b) ==
  /\ req[r] = Unsent
  /\ IF key.state = "absent"
     THEN /\ rows' = rows + 1
          /\ key' = [key EXCEPT !.id = rows + 1, !.state = "claimed", !.body = b]
          /\ req' = [req EXCEPT ![r].at = "running", ![r].body = b,
                                ![r].id = rows + 1, ![r].life = lives]
     ELSE /\ req' = [req EXCEPT ![r].at = "reading", ![r].body = b]
          /\ UNCHANGED <<key, rows>>
  /\ UNCHANGED <<lives, deaths>>

\* Gone again; old; of another request; answered; abandoned; or still running.
ReadKey(r) ==
  /\ req[r].at = "reading"
  /\ \/ key.state = "absent" /\ Goes(r, "failed")
     \/ /\ key.state # "absent"
        /\ key.age = "expired" \/ (key.body = req[r].body /\ key.age = "abandoned")
        /\ req' = [req EXCEPT ![r].at = "taking", ![r].id = key.id]
     \/ /\ key.state = "completed" /\ key.age # "expired" /\ key.body = req[r].body
        /\ req' = [req EXCEPT ![r].at = "replayed", ![r].by = key.by]
     \/ /\ key.state # "absent" /\ key.age # "expired"
        /\ key.body # req[r].body \/ (key.state = "claimed" /\ key.age = "fresh")
        /\ Goes(r, "refused")
  /\ UNCHANGED <<key, rows, lives, deaths>>

Restart(r) ==
  /\ key' = [key EXCEPT !.state = "claimed", !.age = "fresh", !.body = req[r].body, !.by = None]
  /\ req' = [req EXCEPT ![r].at = "running", ![r].life = lives]

\* Mutant of TakeOver: the update does not ask again whether the row is old.
TakeOverAny(r) ==
  /\ req[r].at = "taking"
  /\ IF key.id = req[r].id THEN Restart(r) ELSE UNCHANGED key /\ Goes(r, "refused")
  /\ UNCHANGED <<rows, lives, deaths>>

\* _take_over: of two requests for one old row, one wins.
TakeOver(r) ==
  /\ req[r].at = "taking"
  /\ IF key.id = req[r].id /\ key.age # "fresh"
     THEN Restart(r) ELSE UNCHANGED key /\ Goes(r, "refused")
  /\ UNCHANGED <<rows, lives, deaths>>

-----------------------------------------------------------------------------
(* respond_idempotently                                                    *)

HandleRequest(r) ==
  /\ req[r].at = "running"
  /\ Goes(r, "succeeded") \/ Goes(r, "failing")
  /\ UNCHANGED <<key, rows, lives, deaths>>

\* A save of the row by its id, whoever claimed it last; with no row it raises.
CompleteKey(r) ==
  /\ req[r].at = "succeeded"
  /\ IF key.id = req[r].id
     THEN /\ key' = [key EXCEPT !.state = "completed", !.by = r,
                       !.age = IF @ = "abandoned" THEN "fresh" ELSE @]
          /\ Goes(r, "answered")
     ELSE UNCHANGED key /\ Goes(r, "failed")
  /\ UNCHANGED <<rows, lives, deaths>>

ReleaseKey(r) ==
  /\ req[r].at = "failing"
  /\ key' = IF key.id = req[r].id /\ key.state = "claimed" THEN NoKey ELSE key
  /\ Goes(r, "failed")
  /\ UNCHANGED <<rows, lives, deaths>>

RequestDies(r) ==
  /\ req[r].at \in Owners \cup {"reading", "taking"}
  /\ deaths < MaxDeaths
  /\ deaths' = deaths + 1
  /\ Goes(r, "dead")
  /\ UNCHANGED <<key, rows, lives>>

-----------------------------------------------------------------------------
(* Time.                                                                   *)

\* "Far above any push's run time": only a request that died is outlived.
Outlived == SlowRequests \/ \A r \in Requests : req[r].at \in Owners => req[r].id # key.id

LeaseEnds ==
  /\ key.state = "claimed" /\ key.age = "fresh" /\ Outlived
  /\ key' = [key EXCEPT !.age = "abandoned"]
  /\ UNCHANGED <<req, rows, lives, deaths>>

KeyExpires ==
  /\ key.state # "absent" /\ key.age # "expired" /\ Outlived
  /\ lives < MaxLives
  /\ key' = [key EXCEPT !.age = "expired"]
  /\ lives' = lives + 1
  /\ UNCHANGED <<req, rows, deaths>>

PurgeExpired ==
  /\ key.age = "expired"
  /\ key' = NoKey
  /\ UNCHANGED <<req, rows, lives, deaths>>

-----------------------------------------------------------------------------
IdempotencyInit ==
  /\ key = NoKey /\ req = [r \in Requests |-> Unsent]
  /\ rows = 0 /\ lives = 0 /\ deaths = 0

IdempotencyNext ==
  \/ \E r \in Requests :
       \/ \E b \in Bodies : ClaimKey(r, b)
       \/ ReadKey(r) \/ TakeOver(r) \/ HandleRequest(r)
       \/ CompleteKey(r) \/ ReleaseKey(r) \/ RequestDies(r)
  \/ LeaseEnds \/ KeyExpires \/ PurgeExpired

IdempotencySpec == IdempotencyInit /\ [][IdempotencyNext]_keyVars
-----------------------------------------------------------------------------
\* "Retrying with the same key and the same body within 24 hours returns the first
\* successful response instead of doing the work again": a replay is the answer of a
\* request with that body, and within a life of the key one request at a time runs,
\* none after one that was answered, whatever retries, failures and deaths race.
RepliesAreTrue ==
  /\ \A r \in Requests : req[r].at = "replayed" =>
       \E q \in Requests : /\ req[r].by = q /\ req[q].at = "answered"
                           /\ req[q].body = req[r].body
  /\ \A q, r \in Requests :
       /\ req[q].at \in Owners \cup {"answered"} /\ req[r].at \in Owners \cup {"answered"}
       /\ req[q].life = req[r].life
       => q = r
=============================================================================

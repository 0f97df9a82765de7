--------------------------- MODULE DeveloperAccount ---------------------------
(***************************************************************************)
(* A developer's account and its API key.  Administrators approve, reject   *)
(* and suspend it from a row they read before and nobody locks: each of     *)
(* these is a read and one step per save, each save names its columns, and  *)
(* the database refuses a key on an account that is not active.             *)
(***************************************************************************)
EXTENDS Integers

CONSTANTS Admins, MaxKeys

ASSUME KeysAssumption == MaxKeys \in Nat

VARIABLES dev,      \* the DeveloperAccount row; key 0 is a blank hash
          admin,    \* what each administrator does, and the key of the row it read
          keys,     \* keys issued so far
          revoked   \* keys a rejection took away

devVars == <<dev, admin, keys, revoked>>

Away == [at |-> "away", key |-> 0]

AccountTypeOK ==
  /\ dev \in [status : {"PENDING", "APPROVED", "SUSPENDED", "REJECTED"}, key : 0..MaxKeys]
  /\ admin \in [Admins -> [at : {"away", "approving", "issuing", "rejecting",
                                 "closing", "suspending"}, key : 0..MaxKeys]]
  /\ keys \in 0..MaxKeys
  /\ revoked \subseteq 1..MaxKeys

\* authenticate_key
Authenticates(k) == dev.key = k /\ dev.status = "APPROVED"

Turns(a, at) == admin' = [admin EXCEPT ![a].at = at]
Finishes(a)  == admin' = [admin EXCEPT ![a] = Away]

-----------------------------------------------------------------------------
\* The view reads the row; the service asks for the status that was read.
ReadsAccount(a, at) ==
  /\ admin[a] = Away
  /\ \/ at = "approving" /\ dev.status # "APPROVED"
     \/ at = "rejecting" /\ dev.status # "REJECTED"
     \/ at = "suspending" /\ dev.status = "APPROVED"
  /\ admin' = [admin EXCEPT ![a] = [at |-> at, key |-> dev.key]]
  /\ UNCHANGED <<dev, keys, revoked>>

\* Mutant of SavesApproval: the whole row is saved as it was read.
SavesWholeRow(a) ==
  /\ admin[a].at = "approving"
  /\ dev' = [status |-> "APPROVED", key |-> admin[a].key]
  /\ IF admin[a].key = 0 THEN Turns(a, "issuing") ELSE Finishes(a)
  /\ UNCHANGED <<keys, revoked>>

\* approve_developer: the status; then a key, if the row that was read had none.
SavesApproval(a) ==
  /\ admin[a].at = "approving"
  /\ dev' = [dev EXCEPT !.status = "APPROVED"]
  /\ IF admin[a].key = 0 THEN Turns(a, "issuing") ELSE Finishes(a)
  /\ UNCHANGED <<keys, revoked>>

\* issue_credentials
IssuesKey(a) ==
  /\ admin[a].at = "issuing" /\ keys < MaxKeys
  /\ keys' = keys + 1
  /\ dev' = IF dev.status \in {"APPROVED", "SUSPENDED"} THEN [dev EXCEPT !.key = keys + 1] ELSE dev
  /\ Finishes(a)
  /\ UNCHANGED revoked

\* reject_developer: revoke_key blanks the key in a save of its own.
RevokesKey(a) ==
  /\ admin[a].at = "rejecting"
  /\ dev' = [dev EXCEPT !.key = 0]
  /\ revoked' = revoked \cup ({dev.key} \ {0})
  /\ Turns(a, "closing")
  /\ UNCHANGED keys

\* Then the status; the save fails if a key was issued in between.
SavesRejection(a) ==
  /\ admin[a].at = "closing"
  /\ dev' = IF dev.key = 0 THEN [dev EXCEPT !.status = "REJECTED"] ELSE dev
  /\ Finishes(a)
  /\ UNCHANGED <<keys, revoked>>

SavesSuspension(a) ==
  /\ admin[a].at = "suspending"
  /\ dev' = [dev EXCEPT !.status = "SUSPENDED"]
  /\ Finishes(a)
  /\ UNCHANGED <<keys, revoked>>

-----------------------------------------------------------------------------
AccountInit ==
  /\ dev = [status |-> "PENDING", key |-> 0]
  /\ admin = [a \in Admins |-> Away]
  /\ keys = 0 /\ revoked = {}

AccountNext == \E a \in Admins :
  \/ \E at \in {"approving", "rejecting", "suspending"} : ReadsAccount(a, at)
  \/ SavesApproval(a) \/ IssuesKey(a)
  \/ RevokesKey(a) \/ SavesRejection(a) \/ SavesSuspension(a)

AccountSpec == AccountInit /\ [][AccountNext]_devVars
-----------------------------------------------------------------------------
\* "Rejection must leave zero active credentials" (revoke_key): a key a rejection took
\* away never opens the API again, and a rejected account has none, though
\* administrators decide from rows they read before and save column by column.
RevokedKeyStaysDead ==
  /\ \A k \in revoked : ~Authenticates(k)
  /\ dev.status \in {"PENDING", "REJECTED"} => dev.key = 0

\* Violated: an approval from a row whose key a rejection wiped meanwhile issues none.
ApprovedHasKey ==
  dev.status = "APPROVED" /\ (\A a \in Admins : admin[a] = Away) => dev.key # 0
=============================================================================

--------------------------- MODULE WebhookDelivery ---------------------------
(***************************************************************************)
(* Webhooks to one developer.  An occurrence is recorded as one event per   *)
(* live endpoint; a pass reads the due events, drops those of a rejected    *)
(* account or a deleted endpoint, posts the others outside any transaction, *)
(* then reads their rows again and writes every outcome.  Passes may        *)
(* overlap, workers may die between any two of these steps, and the account *)
(* and the endpoints may change at any time.                                *)
(***************************************************************************)
EXTENDS Integers, FiniteSets

CONSTANTS Occurrences, Endpoints, Passes,
          Takes,           \* the occurrences each endpoint subscribes to
          MaxAttempts,     \* MAX_ATTEMPTS, 5 in the code
          MaxPassCrashes   \* workers that die during a pass

ASSUME AttemptsAssumption == MaxAttempts \in Nat \ {0}
ASSUME TakesAssumption == Takes \in [Endpoints -> SUBSET Occurrences]

VARIABLES account,   \* DeveloperAccount.status
          dropping,  \* a rejection was saved, and its events are not dropped yet
          live,      \* endpoints not deleted
          reading,   \* occurrences being recorded: the endpoints read for each
          hook,      \* WebhookEvent rows
          pass,      \* what each dispatch pass does
          posted,    \* how often each event was posted
          received,  \* events whose endpoint answered at least once
          doomed,    \* events a rejection reached or dropped
          passCrashes

hookVars ==
  <<account, dropping, live, reading, hook, pass, posted, received, doomed, passCrashes>>

Events == Occurrences \X Endpoints
NoRow  == [status |-> "NONE", attempts |-> 0]
HookRow == [status : {"NONE", "PENDING", "DELIVERED", "FAILED"},
            attempts : 0..MaxAttempts + 1]
Settled == {"DELIVERED", "FAILED"}
NoPass  == [at |-> "idle", drop |-> {}, send |-> {}, ok |-> {}, rows |-> <<>>]

DeliveryTypeOK ==
  /\ account \in {"APPROVED", "SUSPENDED", "REJECTED"}
  /\ dropping \in BOOLEAN
  /\ live \subseteq Endpoints /\ live # {}
  /\ reading \in [Occurrences -> SUBSET Endpoints]
  /\ hook \in [Events -> HookRow]
  /\ \A p \in Passes : pass[p].at \in {"idle", "read", "sending", "sent", "applying"}
  /\ \A e \in Events : posted[e] \in Nat
  /\ received \subseteq Events /\ doomed \subseteq Events
  /\ passCrashes \in 0..MaxPassCrashes

Pending == {e \in Events : hook[e].status = "PENDING"}

FailAll(S) == [e \in Events |->
                 IF e \in S THEN [hook[e] EXCEPT !.status = "FAILED"] ELSE hook[e]]

-----------------------------------------------------------------------------
(* The account and its endpoints.                                          *)

ApproveAccount ==
  /\ account # "APPROVED"
  /\ account' = "APPROVED"
  /\ UNCHANGED <<dropping, live, reading, hook, pass, posted, received, doomed, passCrashes>>

SuspendAccount ==
  /\ account = "APPROVED"
  /\ account' = "SUSPENDED"
  /\ UNCHANGED <<dropping, live, reading, hook, pass, posted, received, doomed, passCrashes>>

\* reject_developer saves the status, and then drops what is pending.
RejectAccount ==
  /\ account # "REJECTED"
  /\ account' = "REJECTED"
  /\ dropping' = TRUE
  /\ doomed' = doomed \cup {e \in Events : hook[e].status # "NONE" \/ reading[e[1]] # {}}
  /\ UNCHANGED <<live, reading, hook, pass, posted, received, passCrashes>>

\* drop_events_for_rejected_account: whatever the account is by now.
DropEvents ==
  /\ dropping
  /\ dropping' = FALSE
  /\ hook' = FailAll(Pending)
  /\ doomed' = doomed \cup Pending
  /\ UNCHANGED <<account, live, reading, pass, posted, received, passCrashes>>

\* Mutant of DeleteEndpoint: the events of every endpoint are failed.
DeleteAndFailAll(n) ==
  /\ n \in live /\ live # {n}
  /\ live' = live \ {n}
  /\ hook' = FailAll(Pending)
  /\ UNCHANGED <<account, dropping, reading, pass, posted, received, doomed, passCrashes>>

\* delete_endpoint: never the last one; its pending events have nowhere to go.
DeleteEndpoint(n) ==
  /\ n \in live /\ live # {n}
  /\ live' = live \ {n}
  /\ hook' = FailAll({e \in Pending : e[2] = n})
  /\ UNCHANGED <<account, dropping, reading, pass, posted, received, doomed, passCrashes>>

\* record_events: one read of the endpoints, one insert of the rows.
RecordReads(o) ==
  /\ \A n \in Endpoints : hook[<<o, n>>].status = "NONE"
  /\ reading[o] = {}
  /\ reading' = [reading EXCEPT ![o] = {n \in live : o \in Takes[n]}]
  /\ doomed' = IF account = "REJECTED" THEN doomed \cup ({o} \X Endpoints) ELSE doomed
  /\ UNCHANGED <<account, dropping, live, hook, pass, posted, received, passCrashes>>

RecordInserts(o) ==
  /\ reading[o] # {}
  /\ hook' = [e \in Events |->
       IF e[1] = o /\ e[2] \in reading[o]
       THEN [NoRow EXCEPT !.status = "PENDING"] ELSE hook[e]]
  /\ reading' = [reading EXCEPT ![o] = {}]
  /\ UNCHANGED <<account, dropping, live, pass, posted, received, doomed, passCrashes>>

-----------------------------------------------------------------------------
(* A dispatch pass.                                                        *)

\* due_events, _partition_by_account_state: the pending events whose delay is over;
\* a suspended account's are left.
PassReads(p) == \E due \in SUBSET Pending \ {{}} :
  /\ pass[p] = NoPass
  /\ pass' = [pass EXCEPT ![p] = [NoPass EXCEPT !.at = "read",
       !.drop = {e \in due : account = "REJECTED" \/ e[2] \notin live},
       !.send = {e \in due : account = "APPROVED" /\ e[2] \in live}]]
  /\ UNCHANGED <<account, dropping, live, reading, hook, posted, received, doomed, passCrashes>>

PassDrops(p) ==
  /\ pass[p].at = "read"
  /\ hook' = FailAll(pass[p].drop)
  /\ pass' = [pass EXCEPT ![p] =
       IF @.send = {} THEN NoPass ELSE [@ EXCEPT !.at = "sending", !.drop = {}]]
  /\ UNCHANGED <<account, dropping, live, reading, posted, received, doomed, passCrashes>>

\* _send_all: an endpoint may take an event and its answer be lost.
PassPosts(p) ==
  /\ pass[p].at = "sending"
  /\ \E got \in SUBSET pass[p].send : \E ok \in SUBSET got :
       /\ received' = received \cup got
       /\ pass' = [pass EXCEPT ![p].at = "sent", ![p].ok = ok]
  /\ posted' = [e \in Events |-> IF e \in pass[p].send THEN posted[e] + 1 ELSE posted[e]]
  /\ UNCHANGED <<account, dropping, live, reading, hook, doomed, passCrashes>>

\* _apply_outcomes reads the rows again, without a lock.
PassRereads(p) ==
  /\ pass[p].at = "sent"
  /\ pass' = [pass EXCEPT ![p].at = "applying",
                          ![p].rows = [e \in pass[p].send |-> hook[e]]]
  /\ UNCHANGED <<account, dropping, live, reading, hook, posted, received, doomed, passCrashes>>

\* Delivered; or out of attempts; or to be tried again after a delay.
Outcome(row, ok) ==
  LET n == IF row.attempts <= MaxAttempts THEN row.attempts + 1 ELSE row.attempts IN
  [attempts |-> n,
   status |-> IF ok THEN "DELIVERED" ELSE IF n >= MaxAttempts THEN "FAILED" ELSE row.status]

PassWrites(p) ==
  /\ pass[p].at = "applying"
  /\ hook' = [e \in Events |-> IF e \in pass[p].send
                THEN Outcome(pass[p].rows[e], e \in pass[p].ok) ELSE hook[e]]
  /\ pass' = [pass EXCEPT ![p] = NoPass]
  /\ UNCHANGED <<account, dropping, live, reading, posted, received, doomed, passCrashes>>

PassCrashes(p) ==
  /\ pass[p] # NoPass /\ passCrashes < MaxPassCrashes
  /\ passCrashes' = passCrashes + 1
  /\ pass' = [pass EXCEPT ![p] = NoPass]
  /\ UNCHANGED <<account, dropping, live, reading, hook, posted, received, doomed>>

-----------------------------------------------------------------------------
DeliveryInit ==
  /\ account = "APPROVED" /\ dropping = FALSE /\ live = Endpoints
  /\ reading = [o \in Occurrences |-> {}]
  /\ hook = [e \in Events |-> NoRow]
  /\ pass = [p \in Passes |-> NoPass]
  /\ posted = [e \in Events |-> 0]
  /\ received = {} /\ doomed = {} /\ passCrashes = 0

PassTurns(p) ==
  PassReads(p) \/ PassDrops(p) \/ PassPosts(p) \/ PassRereads(p) \/ PassWrites(p)

\* Beat starts a pass every minute, and every delay ends.
DeliveryStep == \E p \in Passes : PassTurns(p)

DeliveryNext ==
  \/ DeliveryStep
  \/ ApproveAccount \/ SuspendAccount \/ RejectAccount \/ DropEvents
  \/ \E n \in Endpoints : DeleteEndpoint(n)
  \/ \E o \in Occurrences : RecordReads(o) \/ RecordInserts(o)
  \/ \E p \in Passes : PassCrashes(p)

DeliverySpec == DeliveryInit /\ [][DeliveryNext]_hookVars
-----------------------------------------------------------------------------
\* Between passes that overlap and die and an account that changes, an event is marked
\* delivered only if its endpoint answered, and given up only for the cause the
\* developer is told: every attempt made, a rejection, or a deleted endpoint.
OutcomesAreTrue ==
  \A e \in Events :
    /\ hook[e].status = "DELIVERED" => e \in received
    /\ hook[e].status = "FAILED" =>
         posted[e] >= MaxAttempts \/ e \in doomed \/ e[2] \notin live

\* Every event of an approved developer is delivered or given up.
EventSettles ==
  \A e \in Events :
    hook[e].status = "PENDING" ~> hook[e].status \in Settled \/ account # "APPROVED"

\* A delivered event stays delivered ("Safe to overlap", dispatch_due_webhooks_task).
DeliveredStays ==
  [][\A e \in Events : hook[e].status = "DELIVERED" => hook'[e].status = "DELIVERED"]_hookVars
=============================================================================

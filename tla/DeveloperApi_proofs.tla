------------------------- MODULE DeveloperApi_proofs -------------------------
(***************************************************************************)
(* Proofs about what the developer API (MIE) promises its developers: a    *)
(* revoked key stays dead, one course is announced for an idea and the     *)
(* queue stays bounded, and what is written of a webhook is true.  The     *)
(* three components share no state: each theorem is about the              *)
(* specification of one.                                                   *)
(***************************************************************************)
EXTENDS DeveloperAccount, DeveloperIdeas, WebhookDelivery, FiniteSetTheorems, TLAPS

-----------------------------------------------------------------------------
(* Accounts: a revoked key stays dead, for any number of administrators    *)
(* and keys.                                                               *)

\* A key is older than the ones not issued yet, so the row never gets one back.
AccountInv ==
  /\ AccountTypeOK
  /\ dev.key <= keys
  /\ \A k \in revoked : k <= keys /\ k # dev.key
  /\ dev.status \in {"PENDING", "REJECTED"} => dev.key = 0

LEMMA AccountInitInv == AccountInit => AccountInv
BY KeysAssumption DEF AccountInit, AccountInv, AccountTypeOK, Away

LEMMA AccountStepInv == AccountInv /\ [AccountNext]_devVars => AccountInv'
<1> SUFFICES ASSUME AccountInv, [AccountNext]_devVars PROVE AccountInv'
  OBVIOUS
<1> USE KeysAssumption DEF AccountInv, AccountTypeOK, Turns, Finishes, Away
<1>1. CASE UNCHANGED devVars
  BY <1>1 DEF devVars
<1>2. ASSUME NEW a \in Admins, NEW at \in {"approving", "rejecting", "suspending"},
             ReadsAccount(a, at)
      PROVE AccountInv'
  BY <1>2 DEF ReadsAccount
<1>3. ASSUME NEW a \in Admins, SavesApproval(a) PROVE AccountInv'
  BY <1>3 DEF SavesApproval
<1>4. ASSUME NEW a \in Admins, IssuesKey(a) PROVE AccountInv'
  BY <1>4 DEF IssuesKey
<1>5. ASSUME NEW a \in Admins, RevokesKey(a) PROVE AccountInv'
  BY <1>5 DEF RevokesKey
<1>6. ASSUME NEW a \in Admins, SavesRejection(a) PROVE AccountInv'
  BY <1>6 DEF SavesRejection
<1>7. ASSUME NEW a \in Admins, SavesSuspension(a) PROVE AccountInv'
  BY <1>7 DEF SavesSuspension
<1> QED
  BY <1>1, <1>2, <1>3, <1>4, <1>5, <1>6, <1>7 DEF AccountNext

\* A key that a rejection took away (revoke_key) never authenticates again, and a
\* rejected account has none, whatever the administrators' saves interleave to.
THEOREM RevokedStaysDead == AccountSpec => []RevokedKeyStaysDead
<1>1. AccountInv => RevokedKeyStaysDead
  BY DEF AccountInv, RevokedKeyStaysDead, Authenticates
<1> QED
  BY <1>1, AccountInitInv, AccountStepInv, PTL DEF AccountSpec

-----------------------------------------------------------------------------
(* Ideas: one course is announced for an idea, and the queue stays         *)
(* bounded, for any number of ideas and course ids and any cap.            *)

\* Only what is reserved is announced and built, and a reserved id stays.
IdeaOK(i) ==
  /\ idea[i].course # 0 => idea[i].course = idea[i].reserved /\ built[idea[i].course] # "none"
  /\ idea[i].status = "APPROVED" => idea[i].reserved # 0
  /\ idea[i].reserved <= courseIds
  /\ announced[i] \subseteq {idea[i].reserved} \ {0}

\* An id is reserved for one idea.
OneReserves == \A i, j \in Ideas :
  idea[i].reserved = idea[j].reserved /\ idea[i].reserved # 0 => i = j

OnePending == \A i, j \in Ideas :
  idea[i].status = "PENDING_REVIEW" /\ idea[j].status = "PENDING_REVIEW" => i = j

\* The account's lock is held by the one submission that counted the day's ideas.
CapHolds ==
  /\ IsFiniteSet(today) /\ Cardinality(today) <= DailyCap
  /\ \A i \in Crawled : verdict[i] # "none" =>
       Cardinality(today) < DailyCap /\ \A j \in Crawled : verdict[j] # "none" => j = i

BuiltOK == built \in [1..MaxCourseIds -> {"none", "editable", "in flight"}]

IdeasInv ==
  /\ IdeasTypeOK
  /\ \A i \in Ideas : IdeaOK(i)
  /\ OneReserves /\ OnePending /\ CapHolds

LEMMA IdsOfRows ==
  \A row \in IdeaRow : /\ row.reserved \in Nat /\ row.reserved <= MaxCourseIds
                       /\ row.course # 0 => row.course \in 1..MaxCourseIds
BY IdeasAssumption DEF IdeaRow

LEMMA ApprovedRow ==
  ASSUME NEW row \in IdeaRow, NEW id \in 0..MaxCourseIds
  PROVE  LET to == [row EXCEPT !.status = "APPROVED", !.reserved = id]
         IN  to \in IdeaRow /\ to.reserved = id /\ to.course = row.course /\ to.status = "APPROVED"
BY DEF IdeaRow

LEMMA IdeasInitInv == IdeasInit => IdeasInv
<1> SUFFICES ASSUME IdeasInit PROVE IdeasInv
  OBVIOUS
<1> USE IdeasAssumption DEF IdeasInit
<1>1. IdeasTypeOK
  BY DEF IdeasTypeOK, IdeaRow, NoIdea
<1>2. (\A i \in Ideas : IdeaOK(i)) /\ OneReserves /\ OnePending
  BY DEF IdeaOK, NoIdea, OneReserves, OnePending
<1>3. CapHolds
  BY FS_EmptySet DEF CapHolds
<1> QED
  BY <1>1, <1>2, <1>3 DEF IdeasInv

\* A step that leaves the ideas' rows and what was said of them alone.
LEMMA RowsStay ==
  ASSUME IdeasInv, IdeasTypeOK', UNCHANGED <<idea, announced, courseIds>>,
         \A c \in 1..MaxCourseIds : built[c] # "none" => built'[c] # "none", CapHolds'
  PROVE  IdeasInv'
<1>1. ASSUME NEW i \in Ideas PROVE IdeaOK(i)'
  <2>1. idea[i] \in IdeaRow /\ IdeaOK(i)
    BY DEF IdeasInv, IdeasTypeOK
  <2>2. idea[i].course # 0 => idea[i].course \in 1..MaxCourseIds
    BY <2>1, IdeasAssumption DEF IdeaRow
  <2> QED
    BY <2>1, <2>2 DEF IdeaOK
<1> QED
  BY <1>1 DEF IdeasInv, OneReserves, OnePending

\* A step that changes one idea's row and what its developer is told of it.
LEMMA RowChanges ==
  ASSUME IdeasInv, NEW i \in Ideas, NEW row \in IdeaRow, idea' = [idea EXCEPT ![i] = row],
         UNCHANGED <<verdict, crawler, today>>, counted' \subseteq Crawled,
         courseIds' \in Nat, courseIds <= courseIds', courseIds' <= MaxCourseIds,
         NEW said \in SUBSET ({row.reserved} \ {0}),
         announced' = [announced EXCEPT ![i] = said],
         BuiltOK',
         \A c \in 1..MaxCourseIds : built[c] # "none" => built'[c] # "none",
         row.course # 0 => row.course = row.reserved /\ built'[row.course] # "none",
         row.status = "APPROVED" => row.reserved # 0,
         row.status # "PENDING_REVIEW",
         row.reserved <= courseIds',
         row.reserved = idea[i].reserved \/ row.reserved > courseIds
  PROVE  IdeasInv'
<1>m. MaxCourseIds \in Nat
  BY IdeasAssumption
<1>a. /\ idea \in [Ideas -> IdeaRow] /\ announced \in [Ideas -> SUBSET (1..MaxCourseIds)]
      /\ courseIds \in 0..MaxCourseIds /\ \A j \in Ideas : IdeaOK(j)
  BY Zenon DEF IdeasInv, IdeasTypeOK
<1>n. courseIds \in Nat
  BY <1>a, <1>m
<1>b. \A r \in IdeaRow : /\ r.reserved \in Nat /\ r.reserved <= MaxCourseIds
                         /\ r.course # 0 => r.course \in 1..MaxCourseIds
  BY IdsOfRows
<1>1. idea'[i] = row /\ announced'[i] = said
      /\ \A j \in Ideas : j # i => idea'[j] = idea[j] /\ announced'[j] = announced[j]
  BY <1>a, <1>n
<1>2. IdeasTypeOK'
  <2>1. row.reserved \in 0..MaxCourseIds
    BY <1>b, <1>m
  <2>2. said \in SUBSET (1..MaxCourseIds) /\ courseIds' \in 0..MaxCourseIds
    BY <2>1, <1>a, <1>m
  <2> QED
    BY <1>a, <1>n, <2>2 DEF IdeasInv, IdeasTypeOK, BuiltOK
<1>3. ASSUME NEW j \in Ideas PROVE IdeaOK(j)'
  <2>1. CASE j = i
    BY <1>1, <2>1 DEF IdeaOK
  <2>2. CASE j # i
    <3>1. /\ idea[j] \in IdeaRow /\ IdeaOK(j) /\ idea[j].reserved \in Nat
          /\ idea[j].course # 0 => idea[j].course \in 1..MaxCourseIds
      BY <1>a, <1>n, <1>b
    <3>2. idea'[j] = idea[j] /\ announced'[j] = announced[j]
      BY <1>1, <2>2
    <3> QED
      BY <1>a, <1>n, <3>1, <3>2 DEF IdeaOK
  <2> QED BY <2>1, <2>2
<1>4. OneReserves'
  <2>1. \A j \in Ideas : idea[j].reserved \in Nat /\ idea[j].reserved <= courseIds
    BY <1>a, <1>n, <1>b DEF IdeaOK
  <2>2. row.reserved \in Nat
    BY <1>b
  <2> QED
    BY <1>1, <1>a, <1>n, <2>1, <2>2 DEF IdeasInv, OneReserves
<1>5. OnePending' /\ CapHolds'
  BY <1>1 DEF IdeasInv, OnePending, CapHolds
<1> QED
  BY <1>2, <1>3, <1>4, <1>5 DEF IdeasInv

\* Crawled ideas and what the cap says of them, when a day's idea leaves.
LEMMA DayLeaves ==
  ASSUME CapHolds, NEW i, today' = today \ {i}, verdict' = verdict
  PROVE  CapHolds'
<1>1. IsFiniteSet(today') /\ Cardinality(today') <= Cardinality(today)
  BY FS_Subset, FS_CardinalityType, FS_RemoveElement DEF CapHolds
<1>2. Cardinality(today) \in Nat /\ Cardinality(today') \in Nat
  BY <1>1, FS_CardinalityType DEF CapHolds
<1> QED
  BY <1>1, <1>2, IdeasAssumption DEF CapHolds

LEMMA IdeasStepInv == IdeasInv /\ [IdeasNext]_ideaVars => IdeasInv'
<1> SUFFICES ASSUME IdeasInv, [IdeasNext]_ideaVars PROVE IdeasInv'
  OBVIOUS
<1>t. IdeasTypeOK /\ CapHolds
  BY DEF IdeasInv
<1>i. idea \in [Ideas -> IdeaRow] /\ announced \in [Ideas -> SUBSET (1..MaxCourseIds)]
  BY <1>t, Zenon DEF IdeasTypeOK
<1>1. CASE UNCHANGED ideaVars
  <2>1. IdeasTypeOK' /\ CapHolds'
    BY <1>1, <1>t DEF ideaVars, IdeasTypeOK, CapHolds
  <2> QED
    BY <1>1, <2>1, RowsStay DEF ideaVars
<1>2. ASSUME NEW i \in Ideas, SubmitIdea(i) PROVE IdeasInv'
  <2>1. TitleVerdict \in {"PENDING_REVIEW"} \cup Duplicates
    BY DEF TitleVerdict, Duplicates
  <2>2. IdeasTypeOK'
    BY <1>2, <1>t, <2>1 DEF SubmitIdea, IdeasTypeOK
  <2>3. /\ today' = today
        /\ i \in Crawled => /\ Cardinality(today) < DailyCap
                            /\ \A j \in Crawled : verdict[j] = "none"
        /\ \A j \in Ideas : j # i => verdict'[j] = verdict[j]
    BY <1>2, <1>t DEF SubmitIdea, AccountFree, IdeasTypeOK
  <2>4. CapHolds'
    <3>1. ASSUME NEW j \in Crawled, NEW k \in Crawled, verdict'[j] # "none", verdict'[k] # "none"
          PROVE  Cardinality(today) < DailyCap /\ k = j
      <4>1. j \in Ideas /\ k \in Ideas
        BY IdeasAssumption
      <4>2. CASE i \in Crawled
        BY <2>3, <3>1, <4>1, <4>2
      <4>3. CASE i \notin Crawled
        BY <1>t, <2>3, <3>1, <4>1, <4>3 DEF CapHolds
      <4> QED BY <4>2, <4>3
    <3> QED
      BY <1>t, <2>3, <3>1 DEF CapHolds
  <2> QED
    BY <1>2, <2>2, <2>4, RowsStay DEF SubmitIdea
<1>3. ASSUME NEW i \in Ideas, InsertIdea(i) PROVE IdeasInv'
  <2>1. verdict[i] \in {"PENDING_REVIEW"} \cup Duplicates
    BY <1>3, <1>t DEF InsertIdea, IdeasTypeOK
  <2>2. StoredStatus(i) \in {"PENDING_REVIEW"} \cup Duplicates
    BY <2>1 DEF StoredStatus, Duplicates
  <2> DEFINE row == [idea[i] EXCEPT !.status = StoredStatus(i)]
  <2>3. /\ row \in IdeaRow /\ row.status = StoredStatus(i)
        /\ row.reserved = idea[i].reserved /\ row.course = idea[i].course
    BY <1>i, <2>2 DEF IdeaRow
  <2>4. idea' = [idea EXCEPT ![i] = row] /\ UNCHANGED <<crawler, counted, announced, built, courseIds>>
    BY <1>3, <1>i DEF InsertIdea
  <2> HIDE DEF row
  <2>5. idea'[i] = row /\ \A j \in Ideas : j # i => idea'[j] = idea[j]
    BY <1>i, <2>4
  <2>6. CapHolds'
    <3>1. /\ verdict'[i] = "none" /\ \A j \in Ideas : j # i => verdict'[j] = verdict[j]
          /\ today' = today \cup ({i} \cap Crawled) /\ verdict[i] # "none"
      BY <1>3, <1>t DEF InsertIdea, IdeasTypeOK
    <3>2. CASE i \notin Crawled
      BY <1>t, <3>1, <3>2, IdeasAssumption DEF CapHolds
    <3>3. CASE i \in Crawled
      <4>1. /\ Cardinality(today) < DailyCap /\ IsFiniteSet(today)
            /\ \A j \in Crawled : verdict[j] # "none" => j = i
        BY <1>t, <3>1, <3>3 DEF CapHolds
      <4>2. today' = today \cup {i}
        BY <3>1, <3>3
      <4>3. IsFiniteSet(today') /\ Cardinality(today') <= Cardinality(today) + 1
        <5>1. Cardinality(today) \in Nat
          BY <4>1, FS_CardinalityType
        <5>2. /\ IsFiniteSet(today \cup {i})
              /\ Cardinality(today \cup {i}) =
                   IF i \in today THEN Cardinality(today) ELSE Cardinality(today) + 1
          BY <4>1, FS_AddElement, Zenon
        <5> QED BY <4>2, <5>1, <5>2
      <4>4. Cardinality(today) \in Nat /\ Cardinality(today') \in Nat
        BY <4>1, <4>3, FS_CardinalityType
      <4>5. \A j \in Crawled : verdict'[j] = "none"
        BY <3>1, <4>1, IdeasAssumption
      <4> QED
        BY <4>1, <4>3, <4>4, <4>5, IdeasAssumption DEF CapHolds
    <3> QED BY <3>2, <3>3
  <2>7. IdeasTypeOK'
    <3>1. idea' \in [Ideas -> IdeaRow]
      BY <1>i, <2>3, <2>4
    <3>2. verdict' \in [Ideas -> {"none", "PENDING_REVIEW"} \cup Duplicates] /\ today' \subseteq Crawled
      BY <1>3, <1>t DEF InsertIdea, IdeasTypeOK
    <3> QED
      BY <1>t, <2>4, <3>1, <3>2, Zenon DEF IdeasTypeOK
  <2>8. \A j \in Ideas : IdeaOK(j)'
    BY <2>2, <2>3, <2>4, <2>5 DEF IdeasInv, IdeaOK, Duplicates
  <2>9. OneReserves'
    BY <2>3, <2>5 DEF IdeasInv, OneReserves
  <2>10. OnePending'
    BY <2>3, <2>5 DEF IdeasInv, OnePending, StoredStatus
  <2> QED
    BY <2>6, <2>7, <2>8, <2>9, <2>10 DEF IdeasInv
<1>4. ASSUME NEW i \in Ideas, DayPasses(i) PROVE IdeasInv'
  <2>1. CapHolds'
    BY <1>4, <1>t, DayLeaves DEF DayPasses
  <2>2. IdeasTypeOK'
    BY <1>4, <1>t DEF DayPasses, IdeasTypeOK
  <2> QED
    BY <1>4, <2>1, <2>2, RowsStay DEF DayPasses
<1>5. ASSUME NEW i \in Ideas, ApproveIdea(i) PROVE IdeasInv'
  <2> DEFINE row == [idea[i] EXCEPT !.status = "APPROVED", !.reserved = Reserved(i)]
  <2>m. MaxCourseIds \in Nat
    BY IdeasAssumption
  <2>0. courseIds \in 0..MaxCourseIds /\ IdeaOK(i) /\ IdeasTypeOK
    BY Zenon DEF IdeasInv, IdeasTypeOK
  <2>1. /\ idea[i] \in IdeaRow /\ IdeaOK(i) /\ courseIds \in Nat
        /\ courseIds <= MaxCourseIds
    BY <1>i, <2>0, <2>m
  <2>2. idea[i].reserved \in Nat /\ idea[i].course \in Nat
    BY <2>1, <2>m DEF IdeaRow
  <2>3. /\ Reserved(i) \in Nat \ {0} /\ Reserved(i) <= MaxCourseIds
        /\ Reserved(i) = idea[i].reserved \/ Reserved(i) = courseIds + 1
        /\ idea[i].course # 0 => Reserved(i) = idea[i].course
        /\ idea[i].reserved # 0 => Reserved(i) = idea[i].reserved
    BY <1>5, <2>1, <2>2, <2>m DEF ApproveIdea, Reserved, IdeaOK, IdeaRow
  <2>4. /\ row \in IdeaRow /\ row.reserved = Reserved(i) /\ row.course = idea[i].course
        /\ row.status = "APPROVED"
    <3>1. Reserved(i) \in 0..MaxCourseIds
      BY <2>3, <2>m
    <3> QED
      BY <2>1, <3>1, ApprovedRow
  <2> HIDE DEF row
  <2> DEFINE said == announced[i] \cup Told(row)
  <2>5. said \in SUBSET ({row.reserved} \ {0})
    <3>1. Told(row) = {row.reserved}
      BY <2>3, <2>4 DEF Told, StableId
    <3>2. announced[i] \subseteq {idea[i].reserved} \ {0}
      BY <2>1 DEF IdeaOK
    <3> QED BY <2>3, <2>4, <3>1, <3>2
  <2>6. /\ idea' = [idea EXCEPT ![i] = row] /\ announced' = [announced EXCEPT ![i] = said]
        /\ courseIds' = IF Reserved(i) > courseIds THEN Reserved(i) ELSE courseIds
        /\ UNCHANGED <<verdict, crawler, today, built>> /\ counted' \subseteq Crawled
    BY <1>5, <1>i, <1>t, <2>4 DEF ApproveIdea, IdeasTypeOK, row
  <2> HIDE DEF said
  <2>7. courseIds' \in Nat /\ courseIds <= courseIds' /\ courseIds' <= MaxCourseIds
    BY <2>1, <2>3, <2>6
  <2>8. row.reserved <= courseIds' /\ (row.reserved = idea[i].reserved \/ row.reserved > courseIds)
    BY <2>1, <2>2, <2>3, <2>4, <2>6
  <2>9. BuiltOK' /\ built' = built
    BY <2>0, <2>6 DEF IdeasTypeOK, BuiltOK
  <2>10. row.course # 0 => row.course = row.reserved /\ built'[row.course] # "none"
    BY <2>1, <2>3, <2>4, <2>9 DEF IdeaOK
  <2>11. row.reserved # 0 /\ row.status # "PENDING_REVIEW"
    BY <2>3, <2>4
  <2> QED
    BY <2>4, <2>5, <2>6, <2>7, <2>8, <2>9, <2>10, <2>11, RowChanges
<1>6. ASSUME NEW i \in Ideas, PushCourse(i) PROVE IdeasInv'
  <2> DEFINE c    == StableId(idea[i])
             row  == [idea[i] EXCEPT !.course = c]
             said == announced[i] \cup {c}
  <2>m. MaxCourseIds \in Nat
    BY IdeasAssumption
  <2>0. courseIds \in 0..MaxCourseIds /\ IdeaOK(i) /\ IdeasTypeOK
    BY Zenon DEF IdeasInv, IdeasTypeOK
  <2>1. idea[i] \in IdeaRow /\ courseIds \in Nat /\ courseIds <= MaxCourseIds
    BY <1>i, <2>0, <2>m
  <2>2. idea[i].status = "APPROVED" /\ c = idea[i].reserved /\ c # 0
    BY <1>6, <2>0 DEF PushCourse, StableId, IdeaOK
  <2>3. c \in 1..MaxCourseIds
    BY <2>1, <2>2, <2>m DEF IdeaRow
  <2>4. /\ row \in IdeaRow /\ row.reserved = idea[i].reserved /\ row.course = c
        /\ row.status = "APPROVED"
    BY <2>1, <2>2, <2>3, <2>m DEF IdeaRow
  <2>5. /\ idea' = [idea EXCEPT ![i] = row] /\ announced' = [announced EXCEPT ![i] = said]
        /\ built' = [built EXCEPT ![c] = "in flight"]
        /\ UNCHANGED <<verdict, crawler, today, counted, courseIds>>
    BY <1>6, <1>i DEF PushCourse
  <2> HIDE DEF c, row
  <2>6. said \in SUBSET ({row.reserved} \ {0})
    BY <2>0, <2>2, <2>4 DEF IdeaOK
  <2> HIDE DEF said
  <2>7. BuiltOK' /\ built'[c] = "in flight"
        /\ \A d \in 1..MaxCourseIds : built[d] # "none" => built'[d] # "none"
    BY <2>0, <2>3, <2>5 DEF IdeasTypeOK, BuiltOK
  <2>8. row.course # 0 => row.course = row.reserved /\ built'[row.course] # "none"
    BY <2>2, <2>4, <2>7
  <2>9. counted' \subseteq Crawled /\ row.reserved <= courseIds' /\ courseIds' = courseIds
    BY <2>0, <2>4, <2>5 DEF IdeasTypeOK, IdeaOK
  <2>10. row.reserved # 0 /\ row.status # "PENDING_REVIEW"
    BY <2>2, <2>4
  <2> QED
    <3>1. courseIds' \in Nat /\ courseIds <= courseIds' /\ courseIds' <= MaxCourseIds
      BY <2>1, <2>9
    <3>2. UNCHANGED <<verdict, crawler, today>>
      BY <2>5
    <3> QED
      BY <2>4, <2>5, <2>6, <2>7, <2>8, <2>9, <2>10, <3>1, <3>2, RowChanges
<1>7. ASSUME NEW S \in SUBSET Ideas, RejectIdeas(S) PROVE IdeasInv'
  <2>1. ASSUME NEW i \in Ideas
        PROVE  /\ idea'[i] \in IdeaRow /\ idea'[i].reserved = idea[i].reserved
               /\ idea'[i].course = idea[i].course
               /\ idea'[i].status \in {idea[i].status, "REJECTED"}
               /\ announced'[i] \subseteq announced[i] \cup Told(idea[i])
    BY <1>7, <1>i DEF RejectIdeas, IdeaRow
  <2>2. UNCHANGED <<verdict, today, built, courseIds>>
    BY <1>7 DEF RejectIdeas
  <2>3. ASSUME NEW i \in Ideas PROVE Told(idea[i]) \subseteq {idea[i].reserved} \ {0}
    BY DEF IdeasInv, IdeaOK, Told, StableId
  <2>4. \A i \in Ideas : IdeaOK(i)'
    BY <2>1, <2>2, <2>3 DEF IdeasInv, IdeaOK
  <2>5. OneReserves' /\ OnePending' /\ CapHolds'
    BY <2>1, <2>2 DEF IdeasInv, OneReserves, OnePending, CapHolds
  <2>6. IdeasTypeOK'
    <3>1. idea' = [i \in Ideas |-> idea'[i]] /\ announced' = [i \in Ideas |-> announced'[i]]
      BY <1>7 DEF RejectIdeas
    <3>2. ASSUME NEW i \in Ideas PROVE announced'[i] \subseteq 1..MaxCourseIds
      <4>1. idea[i].reserved \in Nat /\ idea[i].reserved <= MaxCourseIds
        BY <1>i, IdsOfRows
      <4>2. {idea[i].reserved} \ {0} \subseteq 1..MaxCourseIds
        BY <4>1, IdeasAssumption
      <4> QED BY <1>i, <2>1, <2>3, <4>2
    <3>3. idea' \in [Ideas -> IdeaRow] /\ announced' \in [Ideas -> SUBSET (1..MaxCourseIds)]
      BY <2>1, <3>1, <3>2, Zenon
    <3>4. crawler' \in BOOLEAN /\ counted' \subseteq Crawled
      BY <1>7, <1>t DEF RejectIdeas, IdeasTypeOK
    <3> QED
      BY <1>t, <2>2, <3>3, <3>4 DEF IdeasTypeOK
  <2> QED
    BY <2>4, <2>5, <2>6 DEF IdeasInv
<1>8. ASSUME NEW c \in 1..MaxCourseIds, CourseSentBack(c) PROVE IdeasInv'
  <2>1. /\ BuiltOK /\ built' = [built EXCEPT ![c] = "editable"]
        /\ UNCHANGED <<idea, verdict, crawler, today, counted, announced, courseIds>>
    BY <1>8, <1>t DEF CourseSentBack, IdeasTypeOK, BuiltOK
  <2>2. BuiltOK' /\ \A d \in 1..MaxCourseIds : built[d] # "none" => built'[d] # "none"
    BY <2>1 DEF BuiltOK
  <2>3. IdeasTypeOK' /\ CapHolds'
    BY <1>t, <2>1, <2>2 DEF IdeasTypeOK, BuiltOK, CapHolds
  <2> QED
    BY <2>1, <2>2, <2>3, RowsStay
<1>9. CASE CrawlerDecided
  <2>1. IdeasTypeOK' /\ CapHolds'
    BY <1>9, <1>t DEF CrawlerDecided, IdeasTypeOK, CapHolds
  <2> QED
    BY <1>9, <2>1, RowsStay DEF CrawlerDecided
<1> QED
  BY <1>1, <1>2, <1>3, <1>4, <1>5, <1>6, <1>7, <1>8, <1>9 DEF IdeasNext

\* One course is announced for each idea, through any number of decisions reversed, pushes
\* and races of submissions: _reserve_course_id, stable_course_id, push_course.
THEOREM OneCourseAnnounced == IdeasSpec => []AnnouncedCourse
<1>1. IdeasInv => AnnouncedCourse
  <2> SUFFICES ASSUME IdeasInv PROVE AnnouncedCourse
    OBVIOUS
  <2>1. ASSUME NEW i \in Ideas
        PROVE  /\ announced[i] \subseteq {idea[i].reserved} \ {0}
               /\ Told(idea[i]) = {idea[i].reserved} \ {0}
               /\ idea[i].course # 0 => built[idea[i].course] # "none"
    BY DEF IdeasInv, IdeaOK, Told, StableId
  <2>2. ASSUME NEW i \in Ideas, NEW j \in Ideas, i # j
        PROVE  announced[i] \cap announced[j] = {}
    BY <2>1, <2>2 DEF IdeasInv, OneReserves
  <2> QED
    BY <2>1, <2>2 DEF AnnouncedCourse
<1>2. IdeasInv /\ [IdeasNext]_ideaVars => IdeasInv'
  BY IdeasStepInv
<1> QED
  BY <1>1, <1>2, IdeasInitInv, PTL DEF IdeasSpec

\* A title is pending once and the crawler keeps to its cap, however submissions race:
\* unique_pending_title_per_queue, _record_lost_race, _enforce_daily_cap.
THEOREM QueueStaysBounded == IdeasSpec => []QueueIsBounded
<1>1. IdeasInv => QueueIsBounded
  BY DEF IdeasInv, OnePending, CapHolds, QueueIsBounded
<1>2. IdeasInv /\ [IdeasNext]_ideaVars => IdeasInv'
  BY IdeasStepInv
<1> QED
  BY <1>1, <1>2, IdeasInitInv, PTL DEF IdeasSpec

-----------------------------------------------------------------------------
(* Webhooks: what is written of an event is true of it.                     *)

RowsRead == {<<>>} \cup UNION {[S -> HookRow] : S \in SUBSET Events}
PassRow == [at : {"idle", "read", "sending", "sent", "applying"}, drop : SUBSET Events,
            send : SUBSET Events, ok : SUBSET Events, rows : RowsRead]

DeliveryTypes ==
  /\ account \in {"APPROVED", "SUSPENDED", "REJECTED"}
  /\ live \subseteq Endpoints
  /\ reading \in [Occurrences -> SUBSET Endpoints]
  /\ hook \in [Events -> HookRow]
  /\ pass \in [Passes -> PassRow]
  /\ posted \in [Events -> Nat]

\* Passes that have posted an event and not counted the attempt yet.
Uncounted(e) == {p \in Passes : pass[p].at \in {"sent", "applying"} /\ e \in pass[p].send}

\* What a row says of its event, in the table or in the memory of a pass.
RowTrue(e, row) ==
  /\ row.status # "NONE"
  /\ row.status = "DELIVERED" => e \in received
  /\ row.status = "FAILED" => posted[e] >= MaxAttempts \/ e \in doomed \/ e[2] \notin live

\* The attempts a row counts, and those its passes have yet to count, were made:
\* a pass that writes an old count over a newer one leaves out some, and adds none.
EventTrue(e) ==
  /\ hook[e].status # "NONE" => RowTrue(e, hook[e])
  /\ IsFiniteSet(Uncounted(e))
  /\ hook[e].attempts + Cardinality(Uncounted(e)) <= posted[e]
  /\ account = "REJECTED" /\ (hook[e].status # "NONE" \/ reading[e[1]] # {}) => e \in doomed
  /\ reading[e[1]] # {} => hook[e].status = "NONE"

\* A pass drops only what a rejection or a deleted endpoint ended, and has rows that
\* were true when it read them.
PassTrue(p) ==
  /\ pass[p].at = "read" =>
       \A e \in pass[p].drop : hook[e].status # "NONE" /\ (e \in doomed \/ e[2] \notin live)
  /\ \A e \in pass[p].send : hook[e].status # "NONE"
  /\ pass[p].at \in {"sent", "applying"} => pass[p].ok \subseteq received
  /\ pass[p].at = "applying" =>
       /\ pass[p].rows \in [pass[p].send -> HookRow]
       /\ \A e \in pass[p].send :
            /\ RowTrue(e, pass[p].rows[e])
            /\ pass[p].rows[e].attempts + Cardinality(Uncounted(e)) <= posted[e]

DeliveryInv ==
  /\ DeliveryTypes
  /\ \A e \in Events : EventTrue(e)
  /\ \A p \in Passes : PassTrue(p)

LEMMA HookRows ==
  \A row \in HookRow : row.attempts \in Nat /\ row.status \in {"NONE", "PENDING", "DELIVERED", "FAILED"}
BY AttemptsAssumption DEF HookRow

LEMMA EventParts == \A e \in Events : e[1] \in Occurrences /\ e[2] \in Endpoints
BY DEF Events

LEMMA DeliveryInitInv == DeliveryInit => DeliveryInv
<1> SUFFICES ASSUME DeliveryInit PROVE DeliveryInv
  OBVIOUS
<1> USE AttemptsAssumption DEF DeliveryInit, NoPass, NoRow
<1>1. DeliveryTypes
  <2>1. NoRow \in HookRow /\ NoPass \in PassRow
    BY DEF HookRow, PassRow, RowsRead
  <2> HIDE DEF NoRow, NoPass
  <2> QED
    BY <2>1 DEF DeliveryTypes
<1>2. ASSUME NEW e \in Events PROVE EventTrue(e)
  <2>1. Uncounted(e) = {}
    BY DEF Uncounted
  <2> QED
    BY <2>1, FS_EmptySet, EventParts DEF EventTrue
<1>3. ASSUME NEW p \in Passes PROVE PassTrue(p)
  BY DEF PassTrue
<1> QED
  BY <1>1, <1>2, <1>3 DEF DeliveryInv

LEMMA UncountedIsNat ==
  ASSUME DeliveryInv, NEW e \in Events PROVE Cardinality(Uncounted(e)) \in Nat
BY FS_CardinalityType DEF DeliveryInv, EventTrue

\* Only one pass moves: it joins or leaves those that have attempts to count.
LEMMA OnePassMoves ==
  ASSUME DeliveryInv, NEW p \in Passes, \A q \in Passes \ {p} : pass'[q] = pass[q],
         NEW e \in Events
  PROVE  LET waits == pass[p].at \in {"sent", "applying"} /\ e \in pass[p].send IN
         /\ IsFiniteSet(Uncounted(e)')
         /\ pass'[p].at \in {"sent", "applying"} /\ e \in pass'[p].send =>
              Cardinality(Uncounted(e)') = Cardinality(Uncounted(e)) + (IF waits THEN 0 ELSE 1)
         /\ ~(pass'[p].at \in {"sent", "applying"} /\ e \in pass'[p].send) =>
              Cardinality(Uncounted(e)') = Cardinality(Uncounted(e)) - (IF waits THEN 1 ELSE 0)
<1>1. IsFiniteSet(Uncounted(e)) /\ Cardinality(Uncounted(e)) \in Nat
  BY UncountedIsNat DEF DeliveryInv, EventTrue
<1>2. p \in Uncounted(e) <=> pass[p].at \in {"sent", "applying"} /\ e \in pass[p].send
  BY DEF Uncounted
<1>3. CASE pass'[p].at \in {"sent", "applying"} /\ e \in pass'[p].send
  <2>1. Uncounted(e)' = Uncounted(e) \cup {p}
    BY <1>3 DEF Uncounted
  <2> QED
    BY <1>1, <1>2, <1>3, <2>1, FS_AddElement
<1>4. CASE ~(pass'[p].at \in {"sent", "applying"} /\ e \in pass'[p].send)
  <2>1. Uncounted(e)' = Uncounted(e) \ {p}
    BY <1>4 DEF Uncounted
  <2> QED
    BY <1>1, <1>2, <1>4, <2>1, FS_RemoveElement
<1> QED
  BY <1>3, <1>4

\* What may happen to an event outside a pass's own step leaves the pass true.
LEMMA PassStays ==
  ASSUME DeliveryInv, NEW p \in Passes, pass'[p] = pass[p],
         received \subseteq received', doomed \subseteq doomed', live' \subseteq live,
         \A e \in Events : /\ hook[e].status # "NONE" => hook'[e].status # "NONE"
                           /\ Cardinality(Uncounted(e)') - Cardinality(Uncounted(e)) <= posted'[e] - posted[e]
                           /\ posted'[e] >= posted[e] /\ posted'[e] \in Nat
                           /\ Cardinality(Uncounted(e)') \in Nat
  PROVE  PassTrue(p)'
<1>1. PassTrue(p) /\ pass[p] \in PassRow /\ posted \in [Events -> Nat]
  BY DEF DeliveryInv, DeliveryTypes
<1>2. ASSUME pass[p].at = "applying", NEW e \in pass[p].send
      PROVE  /\ RowTrue(e, pass[p].rows[e])'
             /\ pass'[p].rows[e].attempts + Cardinality(Uncounted(e)') <= posted'[e]
  <2>1. e \in Events /\ pass[p].rows[e] \in HookRow
    BY <1>1, <1>2 DEF PassRow, PassTrue
  <2>2. Cardinality(Uncounted(e)) \in Nat /\ pass[p].rows[e].attempts \in Nat
    BY <2>1, HookRows, UncountedIsNat
  <2>3. /\ RowTrue(e, pass[p].rows[e])
        /\ pass[p].rows[e].attempts + Cardinality(Uncounted(e)) <= posted[e]
    BY <1>1, <1>2 DEF PassTrue
  <2> QED
    BY <1>1, <2>1, <2>2, <2>3, AttemptsAssumption DEF RowTrue
<1> QED
  BY <1>1, <1>2 DEF PassTrue, PassRow

\* How a step around the passes may change an event: the account, its endpoints, and
\* what is recorded.
EventMoves(e) ==
  /\ hook[e].status # "NONE" => hook'[e].status # "NONE"
  /\ hook'[e].status # "NONE" => RowTrue(e, hook[e])'
  /\ hook'[e].attempts <= hook[e].attempts
  /\ account' = "REJECTED" /\ (hook'[e].status # "NONE" \/ reading'[e[1]] # {}) => e \in doomed'
  /\ reading'[e[1]] # {} => hook'[e].status = "NONE"

LEMMA AroundPasses ==
  ASSUME DeliveryInv, DeliveryTypes', UNCHANGED <<pass, posted, received>>,
         doomed \subseteq doomed', live' \subseteq live,
         \A e \in Events : EventMoves(e)
  PROVE  DeliveryInv'
<1>1. \A e \in Events : Uncounted(e)' = Uncounted(e)
  BY DEF Uncounted
<1>2. ASSUME NEW e \in Events PROVE EventTrue(e)'
  <2>1. /\ hook[e] \in HookRow /\ hook'[e] \in HookRow
        /\ posted[e] \in Nat /\ posted'[e] = posted[e]
    BY DEF DeliveryInv, DeliveryTypes
  <2>2. hook[e].attempts \in Nat /\ hook'[e].attempts \in Nat
    BY <2>1, HookRows
  <2>3. Cardinality(Uncounted(e)) \in Nat
    BY UncountedIsNat
  <2> QED
    BY <1>1, <2>1, <2>2, <2>3 DEF EventTrue, DeliveryInv, EventMoves
<1>3. ASSUME NEW p \in Passes PROVE PassTrue(p)'
  <2>1. \A e \in Events : posted[e] \in Nat /\ posted'[e] = posted[e]
    BY DEF DeliveryInv, DeliveryTypes
  <2> QED
    BY <1>1, <2>1, PassStays, UncountedIsNat DEF EventMoves
<1> QED
  BY <1>2, <1>3 DEF DeliveryInv

LEMMA FailedAt ==
  ASSUME hook \in [Events -> HookRow], NEW S
  PROVE  /\ FailAll(S) \in [Events -> HookRow]
         /\ \A e \in Events : /\ FailAll(S)[e].attempts = hook[e].attempts
                              /\ FailAll(S)[e].status = IF e \in S THEN "FAILED" ELSE hook[e].status
BY DEF FailAll, HookRow

LEMMA AccountDelivers ==
  ASSUME DeliveryInv,
         ApproveAccount \/ SuspendAccount \/ RejectAccount \/ DropEvents
  PROVE  DeliveryInv'
<1>1. \A e \in Events : hook[e].attempts \in Nat
  BY HookRows DEF DeliveryInv, DeliveryTypes
<1>2. DeliveryTypes /\ \A e \in Events : EventTrue(e)
  BY DEF DeliveryInv
<1>3. CASE ApproveAccount \/ SuspendAccount
  <2>1. /\ UNCHANGED <<live, reading, hook, pass, posted, received, doomed>>
        /\ account' \in {"APPROVED", "SUSPENDED"}
    BY <1>3 DEF ApproveAccount, SuspendAccount
  <2>2. DeliveryTypes'
    BY <1>2, <2>1 DEF DeliveryTypes
  <2>3. ASSUME NEW e \in Events PROVE EventMoves(e)
    BY <1>1, <1>2, <2>1, <2>2, AttemptsAssumption DEF EventTrue, RowTrue, EventMoves, DeliveryTypes
  <2> QED
    BY <2>1, <2>2, <2>3, AroundPasses
<1>4. CASE RejectAccount
  <2>1. /\ UNCHANGED <<live, reading, hook, pass, posted, received>>
        /\ account' = "REJECTED"
        /\ doomed' = doomed \cup {e \in Events : hook[e].status # "NONE" \/ reading[e[1]] # {}}
    BY <1>4 DEF RejectAccount
  <2>2. DeliveryTypes'
    BY <1>2, <2>1 DEF DeliveryTypes
  <2>3. ASSUME NEW e \in Events PROVE EventMoves(e)
    BY <1>1, <1>2, <2>1, <2>2, AttemptsAssumption DEF EventTrue, RowTrue, EventMoves, DeliveryTypes
  <2> QED
    BY <2>1, <2>2, <2>3, AroundPasses
<1>5. CASE DropEvents
  <2>1. /\ UNCHANGED <<account, live, reading, pass, posted, received>>
        /\ hook' = FailAll(Pending) /\ doomed' = doomed \cup Pending
    BY <1>5 DEF DropEvents
  <2>2. DeliveryTypes'
    BY <1>2, <2>1, FailedAt DEF DeliveryTypes
  <2>3. ASSUME NEW e \in Events PROVE EventMoves(e)
    <3>1. EventTrue(e) /\ hook[e].attempts \in Nat
      BY <1>1, <1>2
    <3>2. /\ hook'[e].attempts = hook[e].attempts
          /\ hook'[e].status = IF e \in Pending THEN "FAILED" ELSE hook[e].status
      BY <1>2, <2>1, FailedAt DEF DeliveryTypes
    <3> QED
      BY <2>1, <3>1, <3>2 DEF EventTrue, RowTrue, Pending, EventMoves
  <2> QED
    BY <2>1, <2>2, <2>3, AroundPasses
<1> QED
  BY <1>3, <1>4, <1>5

LEMMA RecordingDelivers ==
  ASSUME DeliveryInv
  PROVE  /\ \A n \in Endpoints : DeleteEndpoint(n) => DeliveryInv'
         /\ \A o \in Occurrences : RecordReads(o) \/ RecordInserts(o) => DeliveryInv'
<1>1. /\ DeliveryTypes
      /\ \A e \in Events : hook[e].attempts \in Nat /\ EventTrue(e)
  BY HookRows DEF DeliveryInv, DeliveryTypes
<1>2. ASSUME NEW n \in Endpoints, DeleteEndpoint(n) PROVE DeliveryInv'
  <2>1. /\ UNCHANGED <<account, reading, pass, posted, received, doomed>>
        /\ live' = live \ {n} /\ hook' = FailAll({e \in Pending : e[2] = n})
    BY <1>2 DEF DeleteEndpoint
  <2>2. DeliveryTypes'
    BY <1>1, <2>1, FailedAt DEF DeliveryTypes
  <2>3. ASSUME NEW e \in Events PROVE EventMoves(e)
    <3>1. EventTrue(e) /\ hook[e].attempts \in Nat
      BY <1>1
    <3>2. /\ hook'[e].attempts = hook[e].attempts
          /\ hook'[e].status = IF e \in Pending /\ e[2] = n THEN "FAILED" ELSE hook[e].status
      BY <1>1, <2>1, FailedAt DEF DeliveryTypes
    <3> QED
      BY <2>1, <3>1, <3>2 DEF EventTrue, RowTrue, Pending, EventMoves
  <2> QED
    BY <2>1, <2>2, <2>3, AroundPasses
<1>3. ASSUME NEW o \in Occurrences, RecordReads(o) PROVE DeliveryInv'
  <2>1. /\ UNCHANGED <<account, live, hook, pass, posted, received>>
        /\ \A n \in Endpoints : hook[<<o, n>>].status = "NONE"
        /\ reading' = [reading EXCEPT ![o] = {n \in live : o \in Takes[n]}]
        /\ doomed' = IF account = "REJECTED" THEN doomed \cup ({o} \X Endpoints) ELSE doomed
    BY <1>3 DEF RecordReads
  <2>2. DeliveryTypes'
    BY <1>1, <2>1 DEF DeliveryTypes
  <2>3. ASSUME NEW e \in Events
        PROVE  /\ reading'[e[1]] = IF e[1] = o THEN {n \in live : o \in Takes[n]} ELSE reading[e[1]]
               /\ e[1] = o => hook[e].status = "NONE" /\ e \in {o} \X Endpoints
    <3>1. e[1] \in Occurrences /\ e[2] \in Endpoints /\ e = <<e[1], e[2]>>
      BY DEF Events
    <3> QED
      BY <1>1, <2>1, <3>1 DEF DeliveryTypes
  <2>4. ASSUME NEW e \in Events PROVE EventMoves(e)
    <3>1. EventTrue(e) /\ hook[e].attempts \in Nat
      BY <1>1
    <3> QED
      BY <2>1, <2>3, <3>1 DEF EventTrue, RowTrue, EventMoves
  <2> QED
    BY <2>1, <2>2, <2>4, AroundPasses
<1>4. ASSUME NEW o \in Occurrences, RecordInserts(o) PROVE DeliveryInv'
  <2>1. /\ UNCHANGED <<account, live, pass, posted, received, doomed>>
        /\ reading[o] # {} /\ reading' = [reading EXCEPT ![o] = {}]
        /\ hook' = [e \in Events |-> IF e[1] = o /\ e[2] \in reading[o]
                                     THEN [NoRow EXCEPT !.status = "PENDING"] ELSE hook[e]]
    BY <1>4 DEF RecordInserts
  <2>2. [NoRow EXCEPT !.status = "PENDING"] = [status |-> "PENDING", attempts |-> 0]
    BY DEF NoRow
  <2>3. DeliveryTypes'
    BY <1>1, <2>1, <2>2, AttemptsAssumption DEF HookRow, DeliveryTypes
  <2>4. ASSUME NEW e \in Events
        PROVE  /\ reading'[e[1]] = IF e[1] = o THEN {} ELSE reading[e[1]]
               /\ hook'[e] = IF e[1] = o /\ e[2] \in reading[o]
                             THEN [status |-> "PENDING", attempts |-> 0] ELSE hook[e]
    BY <1>1, <2>1, <2>2, EventParts DEF DeliveryTypes
  <2>5. ASSUME NEW e \in Events PROVE EventMoves(e)
    <3>1. EventTrue(e) /\ hook[e].attempts \in Nat
      BY <1>1
    <3> QED
      BY <2>1, <2>4, <3>1 DEF EventTrue, RowTrue, EventMoves
  <2> QED
    BY <2>1, <2>3, <2>5, AroundPasses
<1> QED
  BY <1>2, <1>3, <1>4

\* How a step of one pass may change an event: it stays recorded, its row stays true,
\* and no attempt is counted that was not made.
EventPassed(e) ==
  /\ hook'[e].status # "NONE" <=> hook[e].status # "NONE"
  /\ hook'[e].status # "NONE" => RowTrue(e, hook[e])'
  /\ posted'[e] \in Nat /\ posted'[e] >= posted[e]
  /\ Cardinality(Uncounted(e)') - Cardinality(Uncounted(e)) <= posted'[e] - posted[e]
  /\ hook'[e].attempts + Cardinality(Uncounted(e)') <= posted'[e]

LEMMA OnePassStep ==
  ASSUME DeliveryInv, DeliveryTypes', NEW p \in Passes, \A q \in Passes \ {p} : pass'[q] = pass[q],
         UNCHANGED <<account, live, reading, doomed>>, received \subseteq received',
         \A e \in Events : EventPassed(e), PassTrue(p)'
  PROVE  DeliveryInv'
<1>1. \A e \in Events : IsFiniteSet(Uncounted(e)') /\ Cardinality(Uncounted(e)') \in Nat
  BY OnePassMoves, FS_CardinalityType
<1>2. ASSUME NEW e \in Events PROVE EventTrue(e)'
  BY <1>1 DEF EventTrue, EventPassed, DeliveryInv
<1>3. ASSUME NEW q \in Passes \ {p} PROVE PassTrue(q)'
  <2>1. \A e \in Events :
          /\ hook[e].status # "NONE" => hook'[e].status # "NONE"
          /\ Cardinality(Uncounted(e)') - Cardinality(Uncounted(e)) <= posted'[e] - posted[e]
          /\ posted'[e] >= posted[e] /\ posted'[e] \in Nat
          /\ Cardinality(Uncounted(e)') \in Nat
    BY <1>1 DEF EventPassed
  <2> QED
    BY <2>1, PassStays
<1> QED
  BY <1>2, <1>3 DEF DeliveryInv

LEMMA PassFacts ==
  ASSUME DeliveryInv, NEW p \in Passes
  PROVE  /\ DeliveryTypes /\ PassTrue(p) /\ pass[p] \in PassRow
         /\ pass[p].send \subseteq Events /\ pass[p].drop \subseteq Events
         /\ \A e \in Events : /\ EventTrue(e) /\ hook[e] \in HookRow /\ hook[e].attempts \in Nat
                              /\ posted[e] \in Nat /\ Cardinality(Uncounted(e)) \in Nat
BY HookRows, UncountedIsNat DEF DeliveryInv, DeliveryTypes, PassRow

\* Nothing but this pass's memory changes, and it posts nothing.
LEMMA OnlyMemory ==
  ASSUME DeliveryInv, DeliveryTypes', NEW p \in Passes, \A q \in Passes \ {p} : pass'[q] = pass[q],
         UNCHANGED <<account, live, reading, hook, posted, received, doomed>>, PassTrue(p)',
         \A e \in Events : Cardinality(Uncounted(e)') <= Cardinality(Uncounted(e))
  PROVE  DeliveryInv'
<1>1. ASSUME NEW e \in Events PROVE EventPassed(e)
  <2>1. /\ EventTrue(e) /\ hook[e].attempts \in Nat /\ posted[e] \in Nat
        /\ Cardinality(Uncounted(e)) \in Nat
    BY PassFacts
  <2>2. Cardinality(Uncounted(e)') \in Nat
    BY OnePassMoves, FS_CardinalityType
  <2> QED
    BY <2>1, <2>2 DEF EventTrue, RowTrue, EventPassed
<1> QED
  BY <1>1, OnePassStep

LEMMA IdleIsTrue ==
  ASSUME NEW p \in Passes, pass'[p] = NoPass
  PROVE  PassTrue(p)'
BY DEF PassTrue, NoPass

LEMMA NoPassType == NoPass \in PassRow
BY DEF NoPass, PassRow, RowsRead

LEMMA ReadsDeliver ==
  ASSUME DeliveryInv, NEW p \in Passes, PassReads(p) PROVE DeliveryInv'
<1>1. DeliveryTypes /\ PassTrue(p) /\ \A e \in Events : EventTrue(e)
  BY PassFacts
<1>2. PICK due \in SUBSET Pending \ {{}} :
        pass' = [pass EXCEPT ![p] = [NoPass EXCEPT !.at = "read",
          !.drop = {e \in due : account = "REJECTED" \/ e[2] \notin live},
          !.send = {e \in due : account = "APPROVED" /\ e[2] \in live}]]
  BY DEF PassReads
<1> DEFINE to == [at |-> "read", drop |-> {e \in due : account = "REJECTED" \/ e[2] \notin live},
                  send |-> {e \in due : account = "APPROVED" /\ e[2] \in live}, ok |-> {}, rows |-> <<>>]
<1>3. /\ UNCHANGED <<account, live, reading, hook, posted, received, doomed>>
      /\ pass[p] = NoPass /\ pass' = [pass EXCEPT ![p] = to]
  BY <1>2 DEF PassReads, NoPass
<1>4. to \in PassRow
  BY DEF PassRow, RowsRead, Pending
<1>5. DeliveryTypes' /\ pass'[p] = to /\ \A q \in Passes \ {p} : pass'[q] = pass[q]
  <2> HIDE DEF to
  <2> QED
    BY <1>1, <1>3, <1>4 DEF DeliveryTypes
<1>6. PassTrue(p)'
  BY <1>1, <1>3, <1>5 DEF PassTrue, EventTrue, Pending
<1>7. \A e \in Events : Cardinality(Uncounted(e)') <= Cardinality(Uncounted(e))
  <2>1. pass'[p].at = "read" /\ pass[p].at = "idle"
    BY <1>3, <1>5 DEF NoPass
  <2> QED
    BY <1>5, <2>1, OnePassMoves, UncountedIsNat
<1> QED
  BY <1>3, <1>5, <1>6, <1>7, OnlyMemory

LEMMA CrashesDeliver ==
  ASSUME DeliveryInv, NEW p \in Passes, PassCrashes(p) PROVE DeliveryInv'
<1>1. /\ UNCHANGED <<account, live, reading, hook, posted, received, doomed>>
      /\ pass' = [pass EXCEPT ![p] = NoPass]
  BY DEF PassCrashes
<1>2. DeliveryTypes' /\ pass'[p] = NoPass /\ \A q \in Passes \ {p} : pass'[q] = pass[q]
  BY <1>1, PassFacts, NoPassType DEF DeliveryTypes
<1>3. \A e \in Events : Cardinality(Uncounted(e)') <= Cardinality(Uncounted(e))
  <2>1. pass'[p].at = "idle"
    BY <1>2 DEF NoPass
  <2> QED
    BY <1>2, <2>1, OnePassMoves, UncountedIsNat
<1> QED
  BY <1>1, <1>2, <1>3, IdleIsTrue, OnlyMemory

LEMMA DropsDeliver ==
  ASSUME DeliveryInv, NEW p \in Passes, PassDrops(p) PROVE DeliveryInv'
<1> DEFINE to == IF pass[p].send = {} THEN NoPass ELSE [pass[p] EXCEPT !.at = "sending", !.drop = {}]
<1>1. /\ UNCHANGED <<account, live, reading, posted, received, doomed>>
      /\ pass[p].at = "read" /\ hook' = FailAll(pass[p].drop) /\ pass' = [pass EXCEPT ![p] = to]
  BY DEF PassDrops
<1>2. DeliveryTypes /\ PassTrue(p) /\ pass[p] \in PassRow
  BY PassFacts
<1>3. to \in PassRow /\ to.at \in {"idle", "sending"} /\ to.send = pass[p].send
  <2>1. CASE pass[p].send = {}
    BY <2>1, NoPassType DEF NoPass
  <2>2. CASE pass[p].send # {}
    BY <1>2, <2>2 DEF PassRow
  <2> QED
    BY <2>1, <2>2
<1>4. DeliveryTypes' /\ pass'[p] = to /\ \A q \in Passes \ {p} : pass'[q] = pass[q]
  <2> HIDE DEF to
  <2> QED
    BY <1>1, <1>2, <1>3, FailedAt DEF DeliveryTypes
<1>5. \A e \in Events :
        /\ hook'[e].attempts = hook[e].attempts
        /\ hook'[e].status = IF e \in pass[p].drop THEN "FAILED" ELSE hook[e].status
  BY <1>1, <1>2, FailedAt DEF DeliveryTypes
<1>6. pass'[p].at \in {"idle", "sending"} /\ pass'[p].send = pass[p].send
  BY <1>3, <1>4
<1> HIDE DEF to
<1>7. ASSUME NEW e \in Events PROVE EventPassed(e)
  <2>1. /\ EventTrue(e) /\ hook[e].attempts \in Nat /\ posted[e] \in Nat
        /\ Cardinality(Uncounted(e)) \in Nat
    BY PassFacts
  <2>2. Cardinality(Uncounted(e)') = Cardinality(Uncounted(e))
    BY <1>1, <1>4, <1>6, <2>1, OnePassMoves
  <2>3. /\ hook'[e].attempts = hook[e].attempts
        /\ hook'[e].status = IF e \in pass[p].drop THEN "FAILED" ELSE hook[e].status
        /\ e \in pass[p].drop => hook[e].status # "NONE" /\ (e \in doomed \/ e[2] \notin live)
    BY <1>1, <1>2, <1>5 DEF PassTrue
  <2> QED
    BY <1>1, <2>1, <2>2, <2>3 DEF EventTrue, RowTrue, EventPassed
<1>8. PassTrue(p)'
  <2>1. \A e \in pass[p].send : hook'[e].status # "NONE"
    BY <1>2, <1>5 DEF PassTrue, PassRow
  <2> QED
    BY <1>6, <2>1 DEF PassTrue
<1> QED
  BY <1>1, <1>4, <1>7, <1>8, OnePassStep

LEMMA PostsDeliver ==
  ASSUME DeliveryInv, NEW p \in Passes, PassPosts(p) PROVE DeliveryInv'
<1>1. DeliveryTypes /\ PassTrue(p) /\ pass[p] \in PassRow
  BY PassFacts
<1>2. PICK got \in SUBSET pass[p].send : \E ok \in SUBSET got :
        received' = received \cup got /\ pass' = [pass EXCEPT ![p].at = "sent", ![p].ok = ok]
  BY DEF PassPosts
<1>3. PICK ok \in SUBSET got : pass' = [pass EXCEPT ![p].at = "sent", ![p].ok = ok]
  BY <1>2
<1> DEFINE to == [pass[p] EXCEPT !.at = "sent", !.ok = ok]
<1>4. /\ UNCHANGED <<account, live, reading, hook, doomed>> /\ pass[p].at = "sending"
      /\ posted' = [e \in Events |-> IF e \in pass[p].send THEN posted[e] + 1 ELSE posted[e]]
      /\ received' = received \cup got /\ pass' = [pass EXCEPT ![p] = to]
  BY <1>1, <1>2, <1>3 DEF PassPosts, DeliveryTypes, PassRow
<1>5. to \in PassRow /\ to.at = "sent" /\ to.ok = ok /\ to.send = pass[p].send
  BY <1>1 DEF PassRow
<1>6. DeliveryTypes' /\ pass'[p] = to /\ \A q \in Passes \ {p} : pass'[q] = pass[q]
  <2> HIDE DEF to
  <2> QED
    BY <1>1, <1>4, <1>5 DEF DeliveryTypes
<1> HIDE DEF to
<1>7. ASSUME NEW e \in Events PROVE EventPassed(e)
  <2>1. /\ EventTrue(e) /\ hook[e].attempts \in Nat /\ posted[e] \in Nat
        /\ Cardinality(Uncounted(e)) \in Nat
    BY PassFacts
  <2>2. posted'[e] = IF e \in pass[p].send THEN posted[e] + 1 ELSE posted[e]
    BY <1>4
  <2>3. Cardinality(Uncounted(e)') =
          Cardinality(Uncounted(e)) + (IF e \in pass[p].send THEN 1 ELSE 0)
    BY <1>4, <1>5, <1>6, <2>1, OnePassMoves
  <2>4. /\ posted'[e] \in Nat /\ posted'[e] >= posted[e]
        /\ Cardinality(Uncounted(e)') - Cardinality(Uncounted(e)) <= posted'[e] - posted[e]
        /\ hook'[e].attempts + Cardinality(Uncounted(e)') <= posted'[e]
    BY <1>4, <2>1, <2>2, <2>3 DEF EventTrue
  <2>5. hook'[e].status # "NONE" => RowTrue(e, hook[e])'
    BY <1>4, <2>1, <2>4, AttemptsAssumption DEF EventTrue, RowTrue
  <2> QED
    BY <1>4, <2>4, <2>5 DEF EventPassed
<1>8. PassTrue(p)'
  BY <1>1, <1>4, <1>5, <1>6 DEF PassTrue
<1> QED
  BY <1>4, <1>6, <1>7, <1>8, OnePassStep

LEMMA RereadsDeliver ==
  ASSUME DeliveryInv, NEW p \in Passes, PassRereads(p) PROVE DeliveryInv'
<1> DEFINE rows == [e \in pass[p].send |-> hook[e]]
           to == [pass[p] EXCEPT !.at = "applying", !.rows = rows]
<1>1. DeliveryTypes /\ PassTrue(p) /\ pass[p] \in PassRow /\ pass[p].send \subseteq Events
  BY PassFacts
<1>2. rows \in [pass[p].send -> HookRow] /\ rows \in RowsRead
  BY <1>1 DEF DeliveryTypes, RowsRead
<1>3. /\ UNCHANGED <<account, live, reading, hook, posted, received, doomed>>
      /\ pass[p].at = "sent" /\ pass' = [pass EXCEPT ![p] = to]
  BY <1>1 DEF PassRereads, DeliveryTypes, PassRow
<1>4. /\ to \in PassRow /\ to.at = "applying" /\ to.rows = rows
      /\ to.send = pass[p].send /\ to.ok = pass[p].ok
  <2> HIDE DEF rows
  <2> QED
    BY <1>1, <1>2 DEF PassRow
<1>5. DeliveryTypes' /\ pass'[p] = to /\ \A q \in Passes \ {p} : pass'[q] = pass[q]
  <2> HIDE DEF to
  <2> QED
    BY <1>1, <1>3, <1>4 DEF DeliveryTypes
<1> HIDE DEF to
<1>6. ASSUME NEW e \in Events PROVE Cardinality(Uncounted(e)') = Cardinality(Uncounted(e))
  BY <1>3, <1>4, <1>5, OnePassMoves, UncountedIsNat
<1>7. ASSUME NEW e \in pass[p].send
      PROVE  /\ RowTrue(e, pass[p].rows[e])'
             /\ pass'[p].rows[e].attempts + Cardinality(Uncounted(e)') <= posted'[e]
  <2>1. e \in Events /\ EventTrue(e) /\ hook[e].status # "NONE" /\ pass'[p].rows[e] = hook[e]
    BY <1>1, <1>4, <1>5, PassFacts DEF PassTrue
  <2>2. Cardinality(Uncounted(e)') = Cardinality(Uncounted(e))
    BY <1>6, <2>1
  <2> QED
    BY <1>3, <2>1, <2>2 DEF EventTrue, RowTrue
<1>8. PassTrue(p)'
  BY <1>1, <1>2, <1>3, <1>4, <1>5, <1>7 DEF PassTrue
<1>9. \A e \in Events : Cardinality(Uncounted(e)') <= Cardinality(Uncounted(e))
  BY <1>6, UncountedIsNat
<1> QED
  BY <1>3, <1>5, <1>8, <1>9, OnlyMemory

\* An outcome counts at most one more attempt; it is final only if the row was, the
\* endpoint answered, or the attempts are used up.
LEMMA OutcomeOfRow ==
  ASSUME NEW row \in HookRow, NEW ok \in BOOLEAN
  PROVE  /\ Outcome(row, ok) \in HookRow
         /\ Outcome(row, ok).attempts <= row.attempts + 1
         /\ Outcome(row, ok).status \in {row.status, "DELIVERED", "FAILED"}
         /\ Outcome(row, ok).status = "DELIVERED" => ok \/ row.status = "DELIVERED"
         /\ Outcome(row, ok).status = "FAILED" =>
              row.status = "FAILED" \/ Outcome(row, ok).attempts >= MaxAttempts
<1> DEFINE n == IF row.attempts <= MaxAttempts THEN row.attempts + 1 ELSE row.attempts
<1>1. n \in 0..MaxAttempts + 1 /\ n <= row.attempts + 1
  BY AttemptsAssumption DEF HookRow
<1>2. Outcome(row, ok) =
        [attempts |-> n,
         status |-> IF ok THEN "DELIVERED" ELSE IF n >= MaxAttempts THEN "FAILED" ELSE row.status]
  BY DEF Outcome
<1> HIDE DEF n
<1> QED
  BY <1>1, <1>2, HookRows DEF HookRow

LEMMA WritesDeliver ==
  ASSUME DeliveryInv, NEW p \in Passes, PassWrites(p) PROVE DeliveryInv'
<1>1. DeliveryTypes /\ PassTrue(p) /\ pass[p] \in PassRow /\ pass[p].send \subseteq Events
  BY PassFacts
<1>2. /\ UNCHANGED <<account, live, reading, posted, received, doomed>>
      /\ pass[p].at = "applying" /\ pass' = [pass EXCEPT ![p] = NoPass]
      /\ hook' = [e \in Events |-> IF e \in pass[p].send
                    THEN Outcome(pass[p].rows[e], e \in pass[p].ok) ELSE hook[e]]
  BY DEF PassWrites
<1>3. \A e \in pass[p].send : pass[p].rows[e] \in HookRow
  BY <1>1, <1>2 DEF PassTrue
<1>4. hook' \in [Events -> HookRow]
  <2>1. \A e \in Events : hook[e] \in HookRow
    BY <1>1 DEF DeliveryTypes
  <2>2. \A e \in pass[p].send : Outcome(pass[p].rows[e], e \in pass[p].ok) \in HookRow
    <3>1. \A e : (e \in pass[p].ok) \in BOOLEAN
      OBVIOUS
    <3> QED
      BY <1>3, <3>1, OutcomeOfRow, Zenon
  <2> QED
    BY <1>2, <2>1, <2>2
<1>5. DeliveryTypes' /\ pass'[p] = NoPass /\ \A q \in Passes \ {p} : pass'[q] = pass[q]
  BY <1>1, <1>2, <1>4, NoPassType DEF DeliveryTypes
<1>6. ASSUME NEW e \in Events PROVE EventPassed(e)
  <2>1. /\ EventTrue(e) /\ hook[e].attempts \in Nat /\ posted[e] \in Nat
        /\ Cardinality(Uncounted(e)) \in Nat
    BY PassFacts
  <2>2. Cardinality(Uncounted(e)') =
          Cardinality(Uncounted(e)) - (IF e \in pass[p].send THEN 1 ELSE 0)
    <3>1. pass'[p].at = "idle"
      BY <1>5 DEF NoPass
    <3> QED
      BY <1>2, <1>5, <2>1, <3>1, OnePassMoves
  <2>3. CASE e \notin pass[p].send
    BY <1>2, <2>1, <2>2, <2>3 DEF EventTrue, RowTrue, EventPassed
  <2>4. CASE e \in pass[p].send
    <3> DEFINE row == pass[p].rows[e]
               ok == e \in pass[p].ok
    <3>1. /\ row \in HookRow /\ RowTrue(e, row) /\ row.attempts + Cardinality(Uncounted(e)) <= posted[e]
          /\ hook[e].status # "NONE" /\ row.attempts \in Nat
          /\ ok => e \in received
      BY <1>1, <1>2, <1>3, <2>4, HookRows DEF PassTrue
    <3>2. hook'[e] = Outcome(row, ok) /\ ok \in BOOLEAN
      BY <1>2, <2>4
    <3>3. hook'[e].attempts \in Nat
      BY <1>4, HookRows
    <3> HIDE DEF row, ok
    <3>4. /\ hook'[e].attempts <= row.attempts + 1
          /\ hook'[e].status \in {row.status, "DELIVERED", "FAILED"}
          /\ hook'[e].status = "DELIVERED" => ok \/ row.status = "DELIVERED"
          /\ hook'[e].status = "FAILED" =>
               row.status = "FAILED" \/ hook'[e].attempts >= MaxAttempts
      BY <3>1, <3>2, OutcomeOfRow
    <3>5. hook'[e].attempts + Cardinality(Uncounted(e)') <= posted[e]
      BY <2>1, <2>2, <2>4, <3>1, <3>3, <3>4
    <3>6. Cardinality(Uncounted(e)') \in Nat
      BY <1>5, OnePassMoves, FS_CardinalityType
    <3>7. hook'[e].attempts >= MaxAttempts => posted[e] >= MaxAttempts
      BY <2>1, <3>3, <3>5, <3>6, AttemptsAssumption
    <3>8. hook'[e].status # "NONE" /\ RowTrue(e, hook[e])'
      BY <1>2, <3>1, <3>4, <3>7 DEF RowTrue
    <3> QED
      BY <1>2, <2>1, <2>2, <2>4, <3>1, <3>5, <3>8 DEF EventPassed
  <2> QED
    BY <2>3, <2>4
<1> QED
  BY <1>2, <1>5, <1>6, IdleIsTrue, OnePassStep

LEMMA DeliveryStepInv == DeliveryInv /\ [DeliveryNext]_hookVars => DeliveryInv'
<1> SUFFICES ASSUME DeliveryInv, [DeliveryNext]_hookVars PROVE DeliveryInv'
  OBVIOUS
<1>1. CASE UNCHANGED hookVars
  BY <1>1 DEF hookVars, DeliveryInv, DeliveryTypes, EventTrue, PassTrue, RowTrue, Uncounted
<1>2. ASSUME NEW p \in Passes, PassTurns(p) \/ PassCrashes(p) PROVE DeliveryInv'
  BY <1>2, ReadsDeliver, DropsDeliver, PostsDeliver, RereadsDeliver, WritesDeliver, CrashesDeliver
     DEF PassTurns
<1> QED
  BY <1>1, <1>2, AccountDelivers, RecordingDelivers DEF DeliveryNext, DeliveryStep

\* For any number of overlapping passes, workers that die, occurrences and endpoints:
\* a developer is told "delivered" only of what an endpoint answered, and "failed" only
\* after every attempt, a rejection, or the deletion of the endpoint, although
\* _apply_outcomes writes rows it read before.
THEOREM WebhookOutcomesAreTrue == DeliverySpec => []OutcomesAreTrue
<1>1. DeliveryInv => OutcomesAreTrue
  BY DEF DeliveryInv, EventTrue, RowTrue, OutcomesAreTrue
<1> QED
  BY <1>1, DeliveryInitInv, DeliveryStepInv, PTL DEF DeliverySpec
=============================================================================

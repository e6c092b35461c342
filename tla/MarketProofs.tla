----------------------------- MODULE MarketProofs -----------------------------
(***************************************************************************)
(* Clusters and alerts, for any listings, watchlists and number of jobs.   *)
(***************************************************************************)
EXTENDS Market, FiniteSetTheorems, TLAPS

-----------------------------------------------------------------------------
(***************************************************************************)
(* The clusters that can be made of the listings S are sets of them, and   *)
(* no two of them share a listing.                                         *)
(***************************************************************************)
LEMMA GroupsApart ==
  ASSUME NEW S, NEW price, NEW groups \in Groupings(S, price)
  PROVE  /\ groups \subseteq SUBSET S
         /\ \A g, h \in groups : g # h => g \cap h = {}
<1>1. PICK s \in ByPrice(S, price) :
        groups = LET first == Firsts(s, price)
                 IN  {g \in {{s[n] : n \in {k \in DOMAIN s : first[k] = i}} : i \in DOMAIN s} :
                        Shared(g)}
  BY DEF Groupings
<1>. DEFINE first == Firsts(s, price)
            Together(i) == {s[n] : n \in {k \in DOMAIN s : first[k] = i}}
<1>2. \A g \in groups : \E i \in DOMAIN s : g = Together(i)
  BY <1>1
<1>3. /\ DOMAIN s = 1 .. Cardinality(S)
      /\ \A n \in DOMAIN s : s[n] \in S
      /\ \A i, k \in DOMAIN s : i < k => s[i] # s[k]
  BY <1>1 DEF ByPrice
<1>4. \A i, k \in DOMAIN s : i # k => s[i] # s[k]
  <2>1. ASSUME NEW i \in 1 .. Cardinality(S), NEW k \in 1 .. Cardinality(S), i # k
        PROVE  i < k \/ k < i
    BY <2>1
  <2>. QED  BY <1>3, <2>1
<1>. HIDE DEF first
<1>5. ASSUME NEW i \in DOMAIN s, NEW k \in DOMAIN s, Together(i) \cap Together(k) # {}
      PROVE  Together(i) = Together(k)
  <2>1. PICK n \in DOMAIN s, m \in DOMAIN s : first[n] = i /\ first[m] = k /\ s[n] = s[m]
    BY <1>5
  <2>. QED  BY <1>4, <2>1
<1>6. \A i \in DOMAIN s : Together(i) \subseteq S
  BY <1>3
<1>. HIDE DEF Together
<1>. QED  BY <1>2, <1>5, <1>6

-----------------------------------------------------------------------------
(***************************************************************************)
(* Type correctness.                                                       *)
(***************************************************************************)
LEMMA VisibleListings ==
  ASSUME NEW j
  PROVE  Visible(j) \subseteq Listings
BY DEF Visible

LEMMA OutcomesApart ==
  ASSUME NEW j, NEW groups \in Outcomes(j)
  PROVE  /\ groups \subseteq ClusterRow
         /\ \A g, h \in groups : g # h => g \cap h = {}
<1>. DEFINE price == [l \in Listings |-> listing[l].price]
<1>1. groups \in Groupings(Visible(j), price)
  BY DEF Outcomes
<1>. HIDE DEF price
<1>. QED  BY <1>1, GroupsApart, VisibleListings DEF ClusterRow

LEMMA AppraisalType ==
  ASSUME MarketTypeOK, NEW S \in SUBSET Listings
  PROVE  Appraise(S) \in Appraisal
<1>1. Cardinality(S) \in 0 .. Cardinality(Listings)
  <2>1. IsFiniteSet(Listings)
    BY ClustersAssumption
  <2>. QED  BY <2>1, FS_Subset, FS_CardinalityType
<1>2. {<<l, listing[l].price>> : l \in S} \subseteq Listings \X Prices
  BY DEF MarketTypeOK, ListingRow
<1>. QED  BY <1>1, <1>2 DEF Appraise, Appraisal

\* The records of jobs in progress, and of new ones.
LEMMA JobRecords ==
  ASSUME MarketTypeOK, NEW j \in Jobs
  PROVE  job[j] # None => job[j] \in Job
BY DEF MarketTypeOK

LEMMA OneJobChanges ==
  ASSUME MarketTypeOK, NEW j \in Jobs, NEW new \in Job \cup {None},
         job' = [job EXCEPT ![j] = new]
  PROVE  /\ job' \in [Jobs -> Job \cup {None}]
         /\ job'[j] = new
         /\ \A k \in Jobs : k # j => job'[k] = job[k]
BY DEF MarketTypeOK

\* Before a job inserts it has the two DELETEs and the grouping to do.
Early == {"begun", "emptying", "deleting", "grouped"}

\* What a step makes of the record of j: it prepares the insertion, inserts, or
\* goes on with what it has inserted.
Prepares(j, new) ==
  /\ job[j].phase \in Early /\ new.phase \in Early
  /\ new.groups = job[j].groups
  /\ new.made = job[j].made \/ new.made \in Outcomes(j)

Inserts(j, new) ==
  /\ new.phase \notin Early
  /\ new.made = job[j].made /\ new.groups = job[j].made /\ new.deleted = job[j].deleted
  /\ \A k \in Others(j) : (UNION new.groups) \cap (UNION job[k].groups) = {}
  /\ (UNION new.groups) \cap (UNION (cluster \ new.deleted)) = {}

GoesOn(j, new) ==
  /\ job[j].phase \notin Early /\ new.phase \notin Early
  /\ new.made = job[j].made /\ new.groups = job[j].groups /\ new.deleted = job[j].deleted

Looks(j, new) ==
  /\ new.alerts = NewAlerts(j)
  /\ doubled' = doubled \cup UNION {NewAlerts(j) \cap job[k].alerts : k \in Others(j)}

JobProgress(j) ==
  Empty(j) \/ Delete(j) \/ Group(j) \/ Insert(j) \/ Value(j) \/ Save(j) \/ Alert(j)

\* What the steps of a job before its commit make of its record.
LEMMA Progress ==
  ASSUME MarketTypeOK, NEW j \in Jobs, JobProgress(j)
  PROVE  \E new \in Job :
           /\ j \in Running /\ job[j] \in Job
           /\ job' = [job EXCEPT ![j] = new]
           /\ UNCHANGED <<listing, cluster, valuation, alert, changes, failures>>
           /\ Prepares(j, new) \/ Inserts(j, new) \/ GoesOn(j, new)
           /\ (new.alerts = job[j].alerts /\ UNCHANGED doubled) \/ Looks(j, new)
<1>1. j \in Running /\ job[j] \in Job
  BY JobRecords DEF JobProgress, Empty, Delete, Group, Insert, Value, Save, Alert, Running
<1>2. cluster \subseteq ClusterRow /\ job[j].snapshot \subseteq ClusterRow
  BY <1>1 DEF MarketTypeOK, Job
<1>3. CASE Empty(j)
  <2>. DEFINE new == [job[j] EXCEPT !.phase = "emptying", !.snapshot = cluster]
  <2>1. new \in Job
    BY <1>1, <1>2, ZenonT(60) DEF Job
  <2>2. new.phase = "emptying" /\ new.groups = job[j].groups /\ new.made = job[j].made
        /\ new.alerts = job[j].alerts
    BY <1>1 DEF Job
  <2>3. /\ job' = [job EXCEPT ![j] = new] /\ job[j].phase = "begun"
        /\ UNCHANGED <<listing, cluster, valuation, alert, doubled, changes, failures>>
    BY <1>3 DEF Empty, Advance, derivedVars
  <2>. HIDE DEF new
  <2>4. Prepares(j, new)
    BY <2>2, <2>3 DEF Prepares, Early
  <2>. QED  BY <1>1, <2>1, <2>2, <2>3, <2>4
<1>4. CASE Delete(j)
  <2>. DEFINE new == [job[j] EXCEPT !.phase = "deleting", !.deleted = Deletes(j), !.snapshot = cluster]
  <2>1. new \in Job
    <3>1. Deletes(j) \subseteq ClusterRow
      BY <1>2 DEF Deletes
    <3>. QED  BY <1>1, <1>2, <3>1, ZenonT(60) DEF Job
  <2>2. new.phase = "deleting" /\ new.groups = job[j].groups /\ new.made = job[j].made
        /\ new.alerts = job[j].alerts
    BY <1>1 DEF Job
  <2>3. /\ job' = [job EXCEPT ![j] = new] /\ job[j].phase = "emptying"
        /\ UNCHANGED <<listing, cluster, valuation, alert, doubled, changes, failures>>
    BY <1>4 DEF Delete, Advance, derivedVars
  <2>. HIDE DEF new
  <2>4. Prepares(j, new)
    BY <2>2, <2>3 DEF Prepares, Early
  <2>. QED  BY <1>1, <2>1, <2>2, <2>3, <2>4
<1>5. CASE Group(j)
  <2>1. PICK made \in Outcomes(j) :
          Advance(j, [job[j] EXCEPT !.phase = "grouped", !.deleted = Deletes(j), !.made = made])
    BY <1>5 DEF Group
  <2>. DEFINE new == [job[j] EXCEPT !.phase = "grouped", !.deleted = Deletes(j), !.made = made]
  <2>2. new \in Job
    <3>1. made \subseteq ClusterRow /\ Deletes(j) \subseteq ClusterRow
      BY <1>2, <2>1, OutcomesApart DEF Deletes
    <3>. QED  BY <1>1, <3>1, ZenonT(60) DEF Job
  <2>3. new.phase = "grouped" /\ new.groups = job[j].groups /\ new.made = made
        /\ new.alerts = job[j].alerts
    BY <1>1 DEF Job
  <2>4. /\ job' = [job EXCEPT ![j] = new] /\ job[j].phase = "deleting"
        /\ UNCHANGED <<listing, cluster, valuation, alert, doubled, changes, failures>>
    BY <1>5, <2>1 DEF Group, Advance, derivedVars
  <2>. HIDE DEF new
  <2>5. Prepares(j, new)
    BY <2>1, <2>3, <2>4 DEF Prepares, Early
  <2>. QED  BY <1>1, <2>2, <2>3, <2>4, <2>5
<1>6. CASE Insert(j)
  <2>. DEFINE phase == IF job[j].kind = "rebuild" THEN "done" ELSE "inserted"
              new == [job[j] EXCEPT !.phase = phase, !.groups = job[j].made]
  <2>1. new \in Job
    <3>1. job[j].made \subseteq ClusterRow
      BY <1>1 DEF Job
    <3>2. phase \in {"inserted", "done"}
      OBVIOUS
    <3>. HIDE DEF phase
    <3>. QED  BY <1>1, <3>1, <3>2, ZenonT(60) DEF Job
  <2>2. /\ new.phase \in {"inserted", "done"} /\ new.groups = job[j].made /\ new.made = job[j].made
        /\ new.deleted = job[j].deleted /\ new.alerts = job[j].alerts
    BY <1>1 DEF Job
  <2>3. /\ job' = [job EXCEPT ![j] = new]
        /\ \A k \in Others(j) : (UNION job[j].made) \cap (UNION job[k].groups) = {}
        /\ (UNION job[j].made) \cap (UNION (cluster \ job[j].deleted)) = {}
        /\ UNCHANGED <<listing, cluster, valuation, alert, doubled, changes, failures>>
    BY <1>6 DEF Insert, Collides, Advance, derivedVars
  <2>. HIDE DEF new
  <2>4. Inserts(j, new)
    BY <2>2, <2>3, Zenon DEF Inserts, Early
  <2>. QED  BY <1>1, <2>1, <2>2, <2>3, <2>4
<1>7. CASE Value(j)
  <2>. DEFINE value == IF Visible(j) = {} THEN valuation ELSE Appraise(Visible(j))
              new == [job[j] EXCEPT !.phase = "appraised", !.found = valuation, !.value = value]
  <2>1. valuation \in Appraisal \cup {None} /\ value \in Appraisal \cup {None}
    BY AppraisalType, VisibleListings DEF MarketTypeOK
  <2>. HIDE DEF value
  <2>2. new \in Job
    BY <1>1, <2>1, ZenonT(60) DEF Job
  <2>3. /\ new.phase = "appraised" /\ new.groups = job[j].groups /\ new.made = job[j].made
        /\ new.deleted = job[j].deleted /\ new.alerts = job[j].alerts
    BY <1>1 DEF Job
  <2>4. /\ job' = [job EXCEPT ![j] = new] /\ job[j].phase = "inserted"
        /\ UNCHANGED <<listing, cluster, valuation, alert, doubled, changes, failures>>
    BY <1>7 DEF Value, Advance, derivedVars, value
  <2>. HIDE DEF new
  <2>5. GoesOn(j, new)
    BY <2>3, <2>4 DEF GoesOn, Early
  <2>. QED  BY <1>1, <2>2, <2>3, <2>4, <2>5
<1>8. CASE Save(j)
  <2>. DEFINE writes == job[j].value # job[j].found
              new == [job[j] EXCEPT !.phase = "saved", !.wrote = writes]
  <2>1. writes \in BOOLEAN
    OBVIOUS
  <2>2. new \in Job
    BY <1>1, <2>1, ZenonT(60) DEF Job
  <2>3. /\ new.phase = "saved" /\ new.groups = job[j].groups /\ new.made = job[j].made
        /\ new.deleted = job[j].deleted /\ new.alerts = job[j].alerts
    BY <1>1 DEF Job
  <2>4. /\ job' = [job EXCEPT ![j] = new] /\ job[j].phase = "appraised"
        /\ UNCHANGED <<listing, cluster, valuation, alert, doubled, changes, failures>>
    BY <1>8 DEF Save, Advance, derivedVars
  <2>. HIDE DEF new
  <2>5. GoesOn(j, new)
    BY <2>3, <2>4 DEF GoesOn, Early
  <2>. QED  BY <1>1, <2>2, <2>3, <2>4, <2>5
<1>9. CASE Alert(j)
  <2>. DEFINE new == [job[j] EXCEPT !.phase = "done", !.alerts = NewAlerts(j)]
  <2>1. NewAlerts(j) \subseteq Matches
    BY DEF NewAlerts
  <2>2. new \in Job
    BY <1>1, <2>1, ZenonT(60) DEF Job
  <2>3. /\ new.phase = "done" /\ new.groups = job[j].groups /\ new.made = job[j].made
        /\ new.deleted = job[j].deleted /\ new.alerts = NewAlerts(j)
    BY <1>1 DEF Job
  <2>4. /\ job' = [job EXCEPT ![j] = new] /\ job[j].phase = "saved"
        /\ doubled' = doubled \cup UNION {NewAlerts(j) \cap job[k].alerts : k \in Others(j)}
        /\ UNCHANGED <<listing, cluster, valuation, alert, changes, failures>>
    BY <1>9 DEF Alert, derivedVars
  <2>. HIDE DEF new
  <2>5. GoesOn(j, new) /\ Looks(j, new)
    BY <2>3, <2>4 DEF GoesOn, Looks, Early
  <2>. QED  BY <1>1, <2>2, <2>3, <2>4, <2>5
<1>. QED  BY <1>3, <1>4, <1>5, <1>6, <1>7, <1>8, <1>9 DEF JobProgress

\* The record of a job that begins.
LEMMA Begins ==
  ASSUME MarketTypeOK, NEW j \in Jobs, BeginMaintenance(j) \/ BeginRebuild(j)
  PROVE  \E new \in Job :
           /\ job[j] = None /\ job' = [job EXCEPT ![j] = new]
           /\ new.made = {} /\ new.groups = {} /\ new.alerts = {}
           /\ UNCHANGED <<listing, cluster, valuation, alert, doubled, failures>>
           /\ changes' \in 0 .. MaxChanges
<1>1. \A kind \in {"maintenance", "rebuild"}, phase \in {"begun", "emptying"},
         stale \in SUBSET Listings, snapshot \in SUBSET ClusterRow :
        LET new == NewJob(kind, phase, stale, snapshot)
        IN  /\ new \in Job
            /\ new.made = {} /\ new.groups = {} /\ new.alerts = {}
  BY DEF Job, NewJob
<1>2. CASE BeginMaintenance(j)
  <2>. DEFINE stale == {l \in Listings : listing[l].status = "active" /\ listing[l].old}
              new == NewJob("maintenance", "begun", stale, {})
  <2>1. /\ job[j] = None /\ job' = [job EXCEPT ![j] = new]
        /\ UNCHANGED <<listing, cluster, valuation, alert, doubled, changes, failures>>
    BY <1>2 DEF BeginMaintenance, Advance, derivedVars
  <2>2. new \in Job /\ new.made = {} /\ new.groups = {} /\ new.alerts = {}
    <3>1. stale \in SUBSET Listings /\ {} \in SUBSET ClusterRow
      OBVIOUS
    <3>. HIDE DEF stale
    <3>. QED  BY <1>1, <3>1
  <2>3. changes' \in 0 .. MaxChanges
    BY <2>1 DEF MarketTypeOK
  <2>. HIDE DEF new
  <2>. QED  BY <2>1, <2>2, <2>3
<1>3. CASE BeginRebuild(j)
  <2>. DEFINE new == NewJob("rebuild", "emptying", {}, cluster)
  <2>1. /\ job[j] = None /\ job' = [job EXCEPT ![j] = new]
        /\ UNCHANGED <<listing, cluster, valuation, alert, doubled, failures>>
    BY <1>3 DEF BeginRebuild, derivedVars
  <2>2. new \in Job /\ new.made = {} /\ new.groups = {} /\ new.alerts = {}
    BY <1>1 DEF MarketTypeOK
  <2>3. changes' \in 0 .. MaxChanges
    BY <1>3, MarketAssumption DEF MarketTypeOK, BeginRebuild, Change
  <2>. HIDE DEF new
  <2>. QED  BY <2>1, <2>2, <2>3
<1>. QED  BY <1>2, <1>3

LEMMA Ends ==
  ASSUME MarketTypeOK, NEW j \in Jobs, Conflict(j) \/ Fail(j)
  PROVE  /\ job' = [job EXCEPT ![j] = None]
         /\ UNCHANGED <<listing, cluster, valuation, alert, doubled, changes>>
         /\ failures' \in 0 .. MaxFailures
BY MarketAssumption DEF Conflict, Fail, Failure, RolledBack, MarketTypeOK, derivedVars

\* The record of another job after a commit: only what its DELETE is for changed.
SameBut(new, old) ==
  /\ new.phase = old.phase /\ new.made = old.made
  /\ new.deleted = old.deleted /\ new.groups = old.groups
  /\ new.alerts = old.alerts

LEMMA Commits ==
  ASSUME MarketTypeOK, NEW j \in Jobs, Commit(j)
  PROVE  /\ job[j] \in Job /\ job[j].phase = "done" /\ j \in Running
         /\ job' \in [Jobs -> Job \cup {None}]
         /\ \A k \in Jobs : job'[k] # None =>
              k # j /\ k \in Running /\ SameBut(job'[k], job[k])
         /\ cluster' = (cluster \ job[j].deleted) \cup job[j].groups
         /\ UNCHANGED doubled
<1>1. job[j] \in Job /\ job[j].phase = "done" /\ j \in Running
  BY JobRecords DEF Commit, Running
<1>2. ASSUME NEW k \in Running
      PROVE  LET new == [job[k] EXCEPT !.snapshot = @ \ job[j].deleted]
             IN  new \in Job /\ SameBut(new, job[k])
  <2>1. job[k] \in Job
    BY JobRecords DEF Running
  <2>2. job[k].snapshot \ job[j].deleted \subseteq ClusterRow
    BY <2>1 DEF Job
  <2>. QED  BY <2>1, <2>2, ZenonT(60) DEF Job, SameBut
<1>3. job' = [k \in Jobs |-> IF k = j \/ job[k] = None THEN None
                             ELSE [job[k] EXCEPT !.snapshot = @ \ job[j].deleted]]
  BY DEF Commit
<1>4. ASSUME NEW k \in Jobs
      PROVE  \/ job'[k] = None
             \/ /\ k # j /\ k \in Running
                /\ job'[k] = [job[k] EXCEPT !.snapshot = @ \ job[j].deleted]
  BY <1>3 DEF Running
<1>5. \A k \in Jobs : /\ job'[k] \in Job \cup {None}
                      /\ job'[k] # None => k # j /\ k \in Running /\ SameBut(job'[k], job[k])
  <2>. SUFFICES ASSUME NEW k \in Jobs, job'[k] # None
                PROVE  job'[k] \in Job /\ k # j /\ k \in Running /\ SameBut(job'[k], job[k])
    OBVIOUS
  <2>1. k # j /\ k \in Running
    BY <1>4
  <2>. DEFINE new == [job[k] EXCEPT !.snapshot = @ \ job[j].deleted]
  <2>2. job'[k] = new
    BY <1>4
  <2>3. new \in Job /\ SameBut(new, job[k])
    BY <1>2, <2>1
  <2>. HIDE DEF new
  <2>. QED  BY <2>1, <2>2, <2>3
<1>6. job' \in [Jobs -> Job \cup {None}]
  BY <1>3, <1>5
<1>. QED  BY <1>1, <1>5, <1>6 DEF Commit

LEMMA MarketTypeInit == Init => MarketTypeOK
<1>. SUFFICES ASSUME Init PROVE MarketTypeOK
  OBVIOUS
<1>1. listing \in [Listings -> ListingRow]
  BY MarketAssumption DEF Init, ListingRow, ListingStatus
<1>2. alert \in [Matches -> Nat] /\ job \in [Jobs -> Job \cup {None}]
  BY DEF Init
<1>3. /\ cluster \subseteq ClusterRow /\ valuation \in Appraisal \cup {None}
      /\ doubled \subseteq Matches
  BY DEF Init
<1>4. changes \in 0 .. MaxChanges /\ failures \in 0 .. MaxFailures
  BY MarketAssumption DEF Init
<1>. QED  BY <1>1, <1>2, <1>3, <1>4 DEF MarketTypeOK

LEMMA ObservationsType ==
  ASSUME MarketTypeOK, NEW l \in Listings,
         Unseen(l) \/ \E price \in Prices, status \in {"active", "sold"} : Observe(l, price, status)
  PROVE  /\ MarketTypeOK'
         /\ UNCHANGED <<cluster, alert, job, doubled>>
<1>1. changes' \in 0 .. MaxChanges
  BY MarketAssumption DEF MarketTypeOK, Unseen, Observe, Change
<1>2. /\ UNCHANGED <<cluster, valuation, alert, job, doubled, failures>>
  BY DEF Unseen, Observe, derivedVars
<1>3. listing' \in [Listings -> ListingRow]
  <2>1. CASE Unseen(l)
    <3>1. listing[l] \in ListingRow
      BY DEF MarketTypeOK
    <3>2. [listing[l] EXCEPT !.old = TRUE] \in ListingRow
      BY <3>1 DEF ListingRow
    <3>3. listing' = [listing EXCEPT ![l] = [listing[l] EXCEPT !.old = TRUE]]
      BY <2>1 DEF Unseen, MarketTypeOK
    <3>. QED  BY <3>2, <3>3 DEF MarketTypeOK
  <2>2. ASSUME NEW price \in Prices, NEW status \in {"active", "sold"}, Observe(l, price, status)
        PROVE  listing' \in [Listings -> ListingRow]
    <3>. DEFINE row == [price |-> price, status |-> status, old |-> FALSE]
    <3>1. row \in ListingRow
      BY DEF ListingRow, ListingStatus
    <3>2. listing' = [listing EXCEPT ![l] = row]
      BY <2>2 DEF Observe
    <3>. QED  BY <3>1, <3>2 DEF MarketTypeOK
  <2>. QED  BY <2>1, <2>2
<1>. QED  BY <1>1, <1>2, <1>3 DEF MarketTypeOK

LEMMA CommitType ==
  ASSUME MarketTypeOK, NEW j \in Jobs, Commit(j)
  PROVE  MarketTypeOK'
<1>1. job[j] \in Job /\ job' \in [Jobs -> Job \cup {None}]
  BY Commits
<1>2. listing' \in [Listings -> ListingRow]
  <2>1. \A l \in Listings : /\ listing[l] \in ListingRow
                            /\ [listing[l] EXCEPT !.status = "stale"] \in ListingRow
    BY DEF MarketTypeOK, ListingRow, ListingStatus
  <2>. QED  BY <2>1 DEF Commit
<1>3. valuation' \in Appraisal \cup {None}
  BY <1>1 DEF Commit, MarketTypeOK, Job
<1>4. alert' \in [Matches -> Nat]
  <2>1. \A x \in Matches : alert[x] \in Nat /\ alert[x] + 1 \in Nat
    BY DEF MarketTypeOK
  <2>2. alert' = [x \in Matches |-> IF x \in job[j].alerts THEN alert[x] + 1 ELSE alert[x]]
    BY DEF Commit
  <2>. QED  BY <2>1, <2>2
<1>5. cluster' \subseteq ClusterRow
  BY <1>1 DEF Commit, MarketTypeOK, Job, ClusterRow
<1>. QED  BY <1>1, <1>2, <1>3, <1>4, <1>5 DEF Commit, MarketTypeOK

LEMMA MarketTypeStep == MarketTypeOK /\ [Next]_vars => MarketTypeOK'
<1>. SUFFICES ASSUME MarketTypeOK, [Next]_vars PROVE MarketTypeOK'
  OBVIOUS
<1>1. CASE UNCHANGED vars
  BY <1>1 DEF vars, derivedVars, MarketTypeOK
<1>2. ASSUME NEW l \in Listings,
             Unseen(l) \/ \E price \in Prices, status \in {"active", "sold"} : Observe(l, price, status)
      PROVE  MarketTypeOK'
  BY <1>2, ObservationsType
<1>3. ASSUME NEW j \in Jobs, BeginMaintenance(j) \/ BeginRebuild(j)
      PROVE  MarketTypeOK'
  <2>1. PICK new \in Job :
          /\ job' = [job EXCEPT ![j] = new]
          /\ UNCHANGED <<listing, cluster, valuation, alert, doubled, failures>>
          /\ changes' \in 0 .. MaxChanges
    BY <1>3, Begins
  <2>2. job' \in [Jobs -> Job \cup {None}]
    BY <2>1, OneJobChanges
  <2>. QED  BY <2>1, <2>2 DEF MarketTypeOK
<1>4. ASSUME NEW j \in Jobs, JobProgress(j)
      PROVE  MarketTypeOK'
  <2>1. PICK new \in Job :
          /\ job' = [job EXCEPT ![j] = new]
          /\ UNCHANGED <<listing, cluster, valuation, alert, changes, failures>>
    BY <1>4, Progress
  <2>2. job' \in [Jobs -> Job \cup {None}]
    BY <2>1, OneJobChanges
  <2>3. doubled' \subseteq Matches
    <3>1. NewAlerts(j) \subseteq Matches
      BY DEF NewAlerts
    <3>2. \/ UNCHANGED doubled
          \/ doubled' = doubled \cup UNION {NewAlerts(j) \cap job[k].alerts : k \in Others(j)}
      BY <1>4, Progress DEF Looks
    <3>. QED  BY <3>1, <3>2 DEF MarketTypeOK
  <2>. QED  BY <2>1, <2>2, <2>3 DEF MarketTypeOK
<1>5. ASSUME NEW j \in Jobs, Commit(j)
      PROVE  MarketTypeOK'
  BY <1>5, CommitType
<1>6. ASSUME NEW j \in Jobs, Conflict(j) \/ Fail(j)
      PROVE  MarketTypeOK'
  <2>1. job' \in [Jobs -> Job \cup {None}]
    BY <1>6, Ends, OneJobChanges
  <2>. QED  BY <1>6, <2>1, Ends DEF MarketTypeOK
<1>. QED  BY <1>1, <1>2, <1>3, <1>4, <1>5, <1>6 DEF Next, JobStep, JobProgress

\* Every variable keeps its type, whatever jobs run at the same time.
THEOREM MarketTypeCorrect == Spec => []MarketTypeOK
BY MarketTypeInit, MarketTypeStep, PTL DEF Spec

-----------------------------------------------------------------------------
(***************************************************************************)
(* Alerts: a match that was not doubled has one row at most, and a job     *)
(* that is about to insert one is the only one to.                         *)
(***************************************************************************)
Apart(j, x) ==
  x \in job[j].alerts => /\ alert[x] = 0
                         /\ \A k \in Others(j) : x \notin job[k].alerts

AlertInv ==
  /\ MarketTypeOK
  /\ \A x \in Matches \ doubled : alert[x] < 2 /\ \A j \in Running : Apart(j, x)

LEMMA AlertInvInit == Init => AlertInv
<1>. SUFFICES ASSUME Init PROVE AlertInv
  OBVIOUS
<1>1. MarketTypeOK
  BY MarketTypeInit
<1>2. Running = {} /\ \A x \in Matches : alert[x] = 0
  BY DEF Init, Running
<1>. QED  BY <1>1, <1>2 DEF AlertInv

\* A job gets a record whose alerts are new, for matches no other job found.
LEMMA AlertsApart ==
  ASSUME AlertInv, MarketTypeOK', NEW j \in Jobs, NEW new \in Job \cup {None},
         job' = [job EXCEPT ![j] = new], UNCHANGED alert, doubled \subseteq doubled',
         new # None => \A x \in new.alerts \ doubled' :
                         \/ j \in Running /\ x \in job[j].alerts
                         \/ alert[x] = 0 /\ \A k \in Others(j) : x \notin job[k].alerts
  PROVE  AlertInv'
<1>1. job'[j] = new /\ \A k \in Jobs : k # j => job'[k] = job[k]
  BY OneJobChanges DEF AlertInv
<1>2. ASSUME NEW x \in Matches \ doubled'
      PROVE  /\ alert'[x] < 2
             /\ \A k \in Running' : Apart(k, x)'
  <2>1. alert[x] < 2 /\ \A k \in Running : Apart(k, x)
    BY <1>2 DEF AlertInv
  <2>2. new # None /\ x \in new.alerts =>
          alert[x] = 0 /\ \A k \in Others(j) : x \notin job[k].alerts
    BY <1>2, <2>1 DEF Apart
  <2>3. ASSUME NEW k \in Running', x \in job'[k].alerts
        PROVE  alert[x] = 0 /\ \A i \in Others(k)' : x \notin job'[i].alerts
    <3>1. CASE k = j
      <4>1. new # None /\ x \in new.alerts
        BY <1>1, <2>3, <3>1 DEF Running
      <4>. QED  BY <1>1, <2>2, <3>1, <4>1 DEF Others, Running
    <3>2. CASE k # j
      <4>1. k \in Running /\ job'[k] = job[k] /\ k \in Others(j)
        BY <1>1, <2>3, <3>2 DEF Running, Others
      <4>2. alert[x] = 0 /\ \A i \in Others(k) : x \notin job[i].alerts
        BY <2>1, <2>3, <4>1 DEF Apart
      <4>3. ~ (new # None /\ x \in new.alerts)
        BY <2>2, <2>3, <4>1
      <4>. QED  BY <1>1, <4>2, <4>3 DEF Others, Running
    <3>. QED  BY <3>1, <3>2
  <2>. QED  BY <2>1, <2>3 DEF Apart
<1>. QED  BY <1>2 DEF AlertInv

LEMMA AlertInvCommit ==
  ASSUME AlertInv, MarketTypeOK', NEW j \in Jobs, Commit(j)
  PROVE  AlertInv'
<1>1. /\ j \in Running /\ job[j] \in Job /\ UNCHANGED doubled
      /\ \A k \in Jobs : job'[k] # None =>
           k # j /\ k \in Running /\ job'[k].alerts = job[k].alerts
  BY Commits DEF AlertInv, SameBut
<1>2. alert' = [x \in Matches |-> IF x \in job[j].alerts THEN alert[x] + 1 ELSE alert[x]]
  BY DEF Commit
<1>3. ASSUME NEW x \in Matches \ doubled
      PROVE  /\ alert'[x] < 2
             /\ \A k \in Running' : Apart(k, x)'
  <2>1. alert[x] \in Nat /\ alert[x] < 2 /\ \A k \in Running : Apart(k, x)
    BY DEF AlertInv, MarketTypeOK
  <2>2. alert'[x] < 2
    BY <1>1, <1>2, <2>1 DEF Apart
  <2>3. ASSUME NEW k \in Running', x \in job'[k].alerts
        PROVE  alert'[x] = 0 /\ \A i \in Others(k)' : x \notin job'[i].alerts
    <3>1. k \in Running /\ k # j /\ x \in job[k].alerts
      BY <1>1, <2>3 DEF Running
    <3>2. alert[x] = 0 /\ \A i \in Others(k) : x \notin job[i].alerts
      BY <2>1, <3>1 DEF Apart
    <3>3. alert'[x] = 0
      BY <1>1, <1>2, <3>1, <3>2 DEF Others
    <3>. QED  BY <1>1, <3>2, <3>3 DEF Others, Running
  <2>. QED  BY <2>2, <2>3 DEF Apart
<1>. QED  BY <1>1, <1>3 DEF AlertInv

LEMMA AlertInvStep == AlertInv /\ [Next]_vars => AlertInv'
<1>. SUFFICES ASSUME AlertInv, [Next]_vars PROVE AlertInv'
  OBVIOUS
<1>1. MarketTypeOK /\ MarketTypeOK'
  BY MarketTypeStep DEF AlertInv
<1>2. ASSUME UNCHANGED <<alert, job, doubled>>
      PROVE  AlertInv'
  BY <1>1, <1>2 DEF AlertInv, Apart, Others, Running
<1>3. ASSUME UNCHANGED vars
      PROVE  AlertInv'
  BY <1>2, <1>3 DEF vars, derivedVars
<1>4. ASSUME NEW l \in Listings,
             Unseen(l) \/ \E price \in Prices, status \in {"active", "sold"} : Observe(l, price, status)
      PROVE  AlertInv'
  BY <1>1, <1>2, <1>4, ObservationsType
<1>5. ASSUME NEW j \in Jobs, BeginMaintenance(j) \/ BeginRebuild(j)
      PROVE  AlertInv'
  <2>1. PICK new \in Job :
          /\ job' = [job EXCEPT ![j] = new] /\ new.alerts = {}
          /\ UNCHANGED <<alert, doubled>>
    BY <1>1, <1>5, Begins
  <2>. QED  BY <1>1, <2>1, AlertsApart
<1>6. ASSUME NEW j \in Jobs, JobProgress(j)
      PROVE  AlertInv'
  <2>1. PICK new \in Job :
          /\ j \in Running /\ job' = [job EXCEPT ![j] = new] /\ UNCHANGED alert
          /\ (new.alerts = job[j].alerts /\ UNCHANGED doubled) \/ Looks(j, new)
    BY <1>1, <1>6, Progress
  <2>2. \A x \in new.alerts \ doubled' :
          \/ j \in Running /\ x \in job[j].alerts
          \/ alert[x] = 0 /\ \A k \in Others(j) : x \notin job[k].alerts
    BY <2>1 DEF NewAlerts, Looks
  <2>3. doubled \subseteq doubled'
    BY <2>1 DEF Looks
  <2>. QED  BY <1>1, <2>1, <2>2, <2>3, AlertsApart
<1>7. ASSUME NEW j \in Jobs, Commit(j)
      PROVE  AlertInv'
  BY <1>1, <1>7, AlertInvCommit
<1>8. ASSUME NEW j \in Jobs, Conflict(j) \/ Fail(j)
      PROVE  AlertInv'
  BY <1>1, <1>8, Ends, AlertsApart
<1>. QED  BY <1>3, <1>4, <1>5, <1>6, <1>7, <1>8 DEF Next, JobStep, JobProgress

\* A watchlist gets a second alert for a listing only where two jobs looked for
\* it before either was committed: never from jobs one after the other, however
\* many, nor from one that fails and is run again.
THEOREM OneAlertPerMatch == Spec => []AlertedOnce
<1>1. AlertInv => AlertedOnce
  BY DEF AlertInv, AlertedOnce, MarketTypeOK
<1>. QED  BY <1>1, AlertInvInit, AlertInvStep, PTL DEF Spec

-----------------------------------------------------------------------------
(***************************************************************************)
(* A listing is in one cluster at most.  The clusters a job made are apart *)
(* from each other; once inserted, and not committed, they are apart from  *)
(* those of the other jobs and from the committed ones it does not delete. *)
(***************************************************************************)
Disjoint(S, T) == \A g \in S, h \in T : g \cap h = {}
PairwiseDisjoint(S) == \A g, h \in S : g # h => g \cap h = {}

LEMMA UnionsApart ==
  ASSUME NEW S, NEW T, (UNION S) \cap (UNION T) = {}
  PROVE  Disjoint(S, T)
BY DEF Disjoint

OneCluster == PairwiseDisjoint(cluster)

\* A record alone: it inserts what it made, and nothing before.
Tidy(new) ==
  /\ PairwiseDisjoint(new.made)
  /\ new.groups = IF new.phase \in Early THEN {} ELSE new.made

Fresh(j) ==
  /\ Tidy(job[j])
  /\ Disjoint(job[j].groups, cluster \ job[j].deleted)
  /\ \A k \in Others(j) : Disjoint(job[j].groups, job[k].groups)

ClusterInv ==
  /\ MarketTypeOK
  /\ OneCluster
  /\ \A j \in Running : Fresh(j)

\* The new record of a job: its groups are the old ones, or what it inserts.
LEMMA FreshKept ==
  ASSUME ClusterInv, MarketTypeOK', NEW j \in Jobs, NEW new \in Job \cup {None},
         job' = [job EXCEPT ![j] = new], UNCHANGED cluster,
         new # None => /\ Tidy(new)
                       /\ Disjoint(new.groups, cluster \ new.deleted)
                       /\ \A k \in Others(j) : Disjoint(new.groups, job[k].groups)
  PROVE  ClusterInv'
<1>1. job'[j] = new /\ \A k \in Jobs : k # j => job'[k] = job[k]
  BY OneJobChanges DEF ClusterInv
<1>2. ASSUME NEW k \in Running'
      PROVE  Fresh(k)'
  <2>1. k \in Jobs /\ job'[k] # None
    BY DEF Running
  <2>2. CASE k = j
    <3>1. \A i \in Others(j)' : i \in Others(j) /\ job'[i] = job[i]
      BY <1>1 DEF Others, Running
    <3>2. Tidy(new) /\ Disjoint(new.groups, cluster \ new.deleted)
          /\ \A i \in Others(j) : Disjoint(new.groups, job[i].groups)
      BY <1>1, <2>1, <2>2
    <3>. QED  BY <1>1, <2>2, <3>1, <3>2 DEF Fresh
  <2>3. CASE k # j
    <3>1. k \in Running /\ job'[k] = job[k] /\ k \in Others(j)
      BY <1>1, <2>1, <2>3 DEF Running, Others
    <3>2. Fresh(k)
      BY <3>1 DEF ClusterInv
    <3>3. ASSUME NEW i \in Others(k)'
          PROVE  Disjoint(job[k].groups, job'[i].groups)
      <4>1. CASE i = j
        <5>1. Disjoint(new.groups, job[k].groups)
          BY <1>1, <3>1, <4>1 DEF Others, Running
        <5>. QED  BY <1>1, <4>1, <5>1 DEF Disjoint
      <4>2. CASE i # j
        <5>1. i \in Others(k) /\ job'[i] = job[i]
          BY <1>1, <3>1, <4>2 DEF Others, Running
        <5>. QED  BY <3>2, <5>1 DEF Fresh
      <4>. QED  BY <4>1, <4>2
    <3>. QED  BY <3>1, <3>2, <3>3 DEF Fresh
  <2>. QED  BY <2>2, <2>3
<1>. QED  BY <1>2 DEF ClusterInv, OneCluster

LEMMA ClusterInvCommit ==
  ASSUME ClusterInv, MarketTypeOK', NEW j \in Jobs, Commit(j)
  PROVE  ClusterInv'
<1>1. /\ j \in Running /\ Fresh(j) /\ PairwiseDisjoint(cluster) /\ job[j].phase = "done"
      /\ cluster' = (cluster \ job[j].deleted) \cup job[j].groups
      /\ \A k \in Jobs : job'[k] # None =>
           k # j /\ k \in Running /\ Fresh(k) /\ SameBut(job'[k], job[k])
  BY Commits DEF ClusterInv, OneCluster
<1>2. OneCluster'
  <2>1. PairwiseDisjoint(job[j].groups)
    BY <1>1 DEF Fresh, Tidy, Early
  <2>. QED  BY <1>1, <2>1 DEF OneCluster, Fresh, PairwiseDisjoint, Disjoint
<1>3. ASSUME NEW k \in Running'
      PROVE  Fresh(k)'
  <2>1. k # j /\ k \in Running /\ Fresh(k) /\ SameBut(job'[k], job[k])
    BY <1>1 DEF Running
  <2>2. \A i \in Others(k)' : i \in Others(k) /\ job'[i].groups = job[i].groups
    BY <1>1, <2>1 DEF Others, Running, SameBut
  <2>3. Disjoint(job[k].groups, cluster' \ job[k].deleted)
    <3>1. Disjoint(job[k].groups, job[j].groups)
      BY <1>1, <2>1 DEF Fresh, Others
    <3>. QED  BY <1>1, <2>1, <3>1 DEF Fresh, Disjoint
  <2>4. Tidy(job'[k])
    BY <2>1 DEF Fresh, Tidy, SameBut
  <2>5. /\ Disjoint(job'[k].groups, cluster' \ job'[k].deleted)
        /\ \A i \in Others(k)' : Disjoint(job'[k].groups, job'[i].groups)
    BY <2>1, <2>2, <2>3 DEF Fresh, SameBut
  <2>. QED  BY <2>4, <2>5 DEF Fresh
<1>. QED  BY <1>2, <1>3 DEF ClusterInv

LEMMA ClusterInvStep == ClusterInv /\ [Next]_vars => ClusterInv'
<1>. SUFFICES ASSUME ClusterInv, [Next]_vars PROVE ClusterInv'
  OBVIOUS
<1>1. MarketTypeOK /\ MarketTypeOK'
  BY MarketTypeStep DEF ClusterInv
<1>2. ASSUME UNCHANGED <<cluster, job>>
      PROVE  ClusterInv'
  BY <1>1, <1>2 DEF ClusterInv, OneCluster, Fresh, Others, Running
<1>3. ASSUME UNCHANGED vars
      PROVE  ClusterInv'
  BY <1>2, <1>3 DEF vars, derivedVars
<1>4. ASSUME NEW l \in Listings,
             Unseen(l) \/ \E price \in Prices, status \in {"active", "sold"} : Observe(l, price, status)
      PROVE  ClusterInv'
  BY <1>1, <1>2, <1>4, ObservationsType
<1>5. ASSUME NEW j \in Jobs, BeginMaintenance(j) \/ BeginRebuild(j)
      PROVE  ClusterInv'
  <2>1. PICK new \in Job :
          /\ job' = [job EXCEPT ![j] = new] /\ new.made = {} /\ new.groups = {}
          /\ UNCHANGED cluster
    BY <1>1, <1>5, Begins
  <2>2. Tidy(new) /\ \A S : Disjoint(new.groups, S)
    BY <2>1 DEF Tidy, PairwiseDisjoint, Disjoint
  <2>. QED  BY <1>1, <2>1, <2>2, FreshKept
<1>6. ASSUME NEW j \in Jobs, JobProgress(j)
      PROVE  ClusterInv'
  <2>1. PICK new \in Job :
          /\ j \in Running /\ job' = [job EXCEPT ![j] = new] /\ UNCHANGED cluster
          /\ Prepares(j, new) \/ Inserts(j, new) \/ GoesOn(j, new)
    BY <1>1, <1>6, Progress
  <2>2. Fresh(j)
    BY <2>1 DEF ClusterInv
  <2>3. /\ Tidy(new)
        /\ Disjoint(new.groups, cluster \ new.deleted)
        /\ \A k \in Others(j) : Disjoint(new.groups, job[k].groups)
    <3>1. CASE Prepares(j, new)
      <4>1. new.groups = {} /\ new.phase \in Early
        BY <2>2, <3>1 DEF Prepares, Fresh, Tidy
      <4>2. PairwiseDisjoint(new.made)
        <5>1. CASE new.made = job[j].made
          BY <2>2, <5>1 DEF Fresh, Tidy
        <5>2. CASE new.made \in Outcomes(j)
          BY <5>2, OutcomesApart DEF PairwiseDisjoint
        <5>. QED  BY <3>1, <5>1, <5>2 DEF Prepares
      <4>. QED  BY <4>1, <4>2 DEF Tidy, Disjoint
    <3>2. CASE Inserts(j, new)
      <4>1. Tidy(new)
        BY <2>2, <3>2 DEF Inserts, Fresh, Tidy
      <4>. QED  BY <3>2, <4>1, UnionsApart DEF Inserts
    <3>3. CASE GoesOn(j, new)
      BY <2>2, <3>3 DEF GoesOn, Fresh, Tidy
    <3>. QED  BY <2>1, <3>1, <3>2, <3>3
  <2>. QED  BY <1>1, <2>1, <2>3, FreshKept
<1>7. ASSUME NEW j \in Jobs, Commit(j)
      PROVE  ClusterInv'
  BY <1>1, <1>7, ClusterInvCommit
<1>8. ASSUME NEW j \in Jobs, Conflict(j) \/ Fail(j)
      PROVE  ClusterInv'
  BY <1>1, <1>8, Ends, FreshKept
<1>. QED  BY <1>3, <1>4, <1>5, <1>6, <1>7, <1>8 DEF Next, JobStep, JobProgress

\* However many jobs rebuild the clusters at once, and whichever of them commit:
\* no listing is in two of the clusters.
THEOREM ClustersPairwiseDisjoint == Spec => []OneCluster
<1>1. Init => ClusterInv
  BY MarketTypeInit DEF Init, ClusterInv, OneCluster, PairwiseDisjoint, Running
<1>2. ClusterInv => OneCluster
  BY DEF ClusterInv
<1>. QED  BY <1>1, <1>2, ClusterInvStep, PTL DEF Spec
=============================================================================

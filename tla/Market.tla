-------------------------------- MODULE Market --------------------------------
(***************************************************************************)
(* What is derived from the listings of the platform: the clusters of one  *)
(* phone offered by several sources, the valuation of the day and          *)
(* watchlist alerts (repository.py, services.py and tasks.py of platform). *)
(*                                                                         *)
(* The maintenance task derives them in one transaction; an operator can   *)
(* have the clusters alone rebuilt.  Such jobs may run at the same time,   *)
(* under READ COMMITTED: a statement sees what was committed before it     *)
(* began, and waits for rows another job has written.  Listings are those  *)
(* of one phone variant, used and public; Ingest has how batches commit    *)
(* them.                                                                   *)
(***************************************************************************)
EXTENDS Clusters

CONSTANTS
  Prices,     \* in HKD
  Collected,  \* the prices the listings were collected with before
  Watchlists, \* active watchlists
  Limit,      \* the most a watchlist asks for: filter_json["max_price"]
  Page,       \* min(limit, 100) in evaluate_alerts
  MinSample,  \* 3 in valuation
  Jobs,       \* clusters/rebuild requests and maintenance tasks in progress
  None,       \* no job, row or document
  MaxChanges, \* bound of the observations, of the listings not seen again and
              \* of the requests of operators
  MaxFailures \* bound of the jobs that fail by themselves

ASSUME MarketAssumption ==
  /\ Prices \subseteq Nat \ {0}
  /\ Collected \in [Listings -> Prices]
  /\ Limit \in [Watchlists -> Nat]
  /\ Page \in Nat \ {0} /\ MinSample \in Nat
  /\ MaxChanges \in Nat /\ MaxFailures \in Nat

VARIABLES
  listing,   \* rows of listings
  cluster,   \* rows of listing_clusters with their members, as sets of listings
  valuation, \* the row of valuations of today
  alert,     \* number of rows of alerts per watchlist and listing
  job,       \* jobs in progress: what they read, and wrote but did not commit
  doubled,   \* history: matches that two jobs had found at the same time
  changes, failures

derivedVars == <<cluster, valuation, alert>>
vars == <<listing, derivedVars, job, doubled, changes, failures>>

ListingStatus == {"active", "sold", "stale"}
ListingRow == [price: Prices, status: ListingStatus, old: BOOLEAN]
Appraisal == [count: 0 .. Cardinality(Listings), sample: SUBSET (Listings \X Prices)]
ClusterRow == SUBSET Listings
Matches == Watchlists \X Listings

\* A job: what it marked stale; the rows that the DELETE it executes saw and
\* that are still there, those it deleted, the clusters it made, and whether it
\* inserted them; for maintenance the valuation it found and the one it made,
\* whether it wrote it, and the alerts it inserted.
Job == [kind: {"maintenance", "rebuild"},
        phase: {"begun", "emptying", "deleting", "grouped", "inserted", "appraised", "saved", "done"},
        stale: SUBSET Listings, snapshot: SUBSET ClusterRow,
        deleted: SUBSET ClusterRow, made: SUBSET ClusterRow, groups: SUBSET ClusterRow,
        found: Appraisal \cup {None}, value: Appraisal \cup {None}, wrote: BOOLEAN,
        alerts: SUBSET Matches]

MarketTypeOK ==
  /\ listing \in [Listings -> ListingRow]
  /\ cluster \subseteq ClusterRow
  /\ valuation \in Appraisal \cup {None}
  /\ alert \in [Matches -> Nat]
  /\ job \in [Jobs -> Job \cup {None}]
  /\ doubled \subseteq Matches
  /\ changes \in 0 .. MaxChanges /\ failures \in 0 .. MaxFailures

\* Listings that were collected and indexed, before any job of today.
Init ==
  /\ listing = [l \in Listings |-> [price |-> Collected[l], status |-> "active", old |-> FALSE]]
  /\ cluster = {} /\ valuation = None /\ alert = [x \in Matches |-> 0]
  /\ job = [j \in Jobs |-> None]
  /\ doubled = {}
  /\ changes = 0 /\ failures = 0

Running == {j \in Jobs : job[j] # None}
Others(j) == Running \ {j}
Change == changes < MaxChanges /\ changes' = changes + 1
Failure == failures < MaxFailures /\ failures' = failures + 1

-----------------------------------------------------------------------------
\* A batch commits an observation of l, once no job holds the row.
Observe(l, price, status) ==
  /\ Change
  /\ \A j \in Running : l \notin job[j].stale
  /\ LET row == [price |-> price, status |-> status, old |-> FALSE]
     IN  row # listing[l] /\ listing' = [listing EXCEPT ![l] = row]
  /\ UNCHANGED <<derivedVars, job, doubled, failures>>

\* stale_hours pass in which l is not observed.
Unseen(l) ==
  /\ Change
  /\ listing[l].status = "active" /\ ~listing[l].old
  /\ listing' = [listing EXCEPT ![l].old = TRUE]
  /\ UNCHANGED <<derivedVars, job, doubled, failures>>

-----------------------------------------------------------------------------
\* The listings a job sees: those committed, with its own stale marks.
Visible(j) == {l \in Listings : listing[l].status = "active" /\ l \notin job[j].stale}

\* What a rebuild by j can make of the listings it sees.
Outcomes(j) == Groupings(Visible(j), [l \in Listings |-> listing[l].price])

\* The sample of a valuation; with too few the comparables are not kept.
Appraise(S) ==
  [count |-> Cardinality(S),
   sample |-> IF Cardinality(S) < MinSample THEN {} ELSE {<<l, listing[l].price>> : l \in S}]

\* The newest listings a watchlist asks for, as list_listings returns them.
Wanted(w, S) == {l \in S : listing[l].price <= Limit[w]}
FirstPage(w, S) == {l \in Wanted(w, S) : Cardinality({n \in Wanted(w, S) : n > l}) < Page}

-----------------------------------------------------------------------------
NewJob(kind, phase, stale, snapshot) ==
  [kind |-> kind, phase |-> phase, stale |-> stale, snapshot |-> snapshot,
   deleted |-> {}, made |-> {}, groups |-> {}, found |-> None, value |-> None,
   wrote |-> FALSE, alerts |-> {}]

Advance(j, new) ==
  /\ job' = [job EXCEPT ![j] = new]
  /\ UNCHANGED <<listing, derivedVars, doubled, changes, failures>>

\* mark_stale_listings, which waits for another job's marks.
BeginMaintenance(j) ==
  LET stale == {l \in Listings : listing[l].status = "active" /\ listing[l].old}
  IN  /\ job[j] = None
      /\ \A k \in Running : stale \cap job[k].stale = {}
      /\ Advance(j, NewJob("maintenance", "begun", stale, {}))

(***************************************************************************)
(* rebuild_clusters: DELETE the members, DELETE the clusters, SELECT the   *)
(* listings, group them, and insert.  A DELETE is for the rows that were   *)
(* committed when it began: it waits for a job that deleted some of them,  *)
(* and goes on without these when that job is committed; it does not see   *)
(* what was committed meanwhile.                                           *)
(***************************************************************************)
\* POST /internal/v1/clusters/rebuild: the first DELETE begins.
BeginRebuild(j) ==
  /\ job[j] = None
  /\ Change
  /\ job' = [job EXCEPT ![j] = NewJob("rebuild", "emptying", {}, cluster)]
  /\ UNCHANGED <<listing, derivedVars, doubled, failures>>

\* The first DELETE of the maintenance task begins.
Empty(j) ==
  /\ job[j] # None /\ job[j].phase = "begun"
  /\ Advance(j, [job[j] EXCEPT !.phase = "emptying", !.snapshot = cluster])

\* Mutants: clusters of listings that are all active are left, or the others.
DeletesActive(j) == {c \in job[j].snapshot : c \subseteq Visible(j)}
DeletesOutdated(j) == {c \in job[j].snapshot : ~ (c \subseteq Visible(j))}

Deletes(j) == job[j].snapshot
Waits(j) == \E k \in Others(j) : job[k].deleted \cap job[j].snapshot # {}

\* The members are deleted; the second DELETE begins, with what is there now.
Delete(j) ==
  /\ job[j] # None /\ job[j].phase = "emptying" /\ ~Waits(j)
  /\ Advance(j, [job[j] EXCEPT !.phase = "deleting", !.deleted = Deletes(j), !.snapshot = cluster])

\* The clusters are deleted, with members that were inserted since; read and group.
Group(j) ==
  /\ job[j] # None /\ job[j].phase = "deleting" /\ ~Waits(j)
  /\ \E made \in Outcomes(j) :
       Advance(j, [job[j] EXCEPT !.phase = "grouped", !.deleted = Deletes(j), !.made = made])

\* A listing is in one cluster at most: where another job's insertion is not
\* committed it waits, where it is the job fails.
Collides(j) == (UNION job[j].made) \cap (UNION (cluster \ job[j].deleted)) # {}

Insert(j) ==
  /\ job[j] # None /\ job[j].phase = "grouped"
  /\ \A k \in Others(j) : (UNION job[j].made) \cap (UNION job[k].groups) = {}
  /\ ~Collides(j)
  /\ Advance(j, [job[j] EXCEPT !.phase = IF job[j].kind = "rebuild" THEN "done" ELSE "inserted",
                               !.groups = job[j].made])

\* refresh_valuations: look for today's row, ...
Value(j) ==
  /\ job[j] # None /\ job[j].phase = "inserted"
  /\ Advance(j, [job[j] EXCEPT !.phase = "appraised", !.found = valuation,
                   !.value = IF Visible(j) = {} THEN valuation ELSE Appraise(Visible(j))])

\* ... insert or update it if it is another: wait for a job that wrote it, and
\* fail where it was inserted since.
Save(j) ==
  /\ job[j] # None /\ job[j].phase = "appraised"
  /\ LET writes == job[j].value # job[j].found
     IN  /\ writes => /\ \A k \in Others(j) : ~job[k].wrote
                      /\ job[j].found = None => valuation = None
         /\ Advance(j, [job[j] EXCEPT !.phase = "saved", !.wrote = writes])

\* Mutant: it does not look for the alerts there are.
NewAlertsAgain(j) == {x \in Matches : x[2] \in FirstPage(x[1], Visible(j))}

NewAlerts(j) == {x \in Matches : x[2] \in FirstPage(x[1], Visible(j)) /\ alert[x] = 0}

\* evaluate_alerts: the matches on the first page that no committed alert is for.
Alert(j) ==
  /\ job[j] # None /\ job[j].phase = "saved"
  /\ job' = [job EXCEPT ![j].phase = "done", ![j].alerts = NewAlerts(j)]
  /\ doubled' = doubled \cup UNION {NewAlerts(j) \cap job[k].alerts : k \in Others(j)}
  /\ UNCHANGED <<listing, derivedVars, changes, failures>>

\* The commit; jobs that wait for deleted rows find them gone.
Commit(j) ==
  /\ job[j] # None /\ job[j].phase = "done"
  /\ listing' = [l \in Listings |-> IF l \in job[j].stale THEN [listing[l] EXCEPT !.status = "stale"]
                                    ELSE listing[l]]
  /\ cluster' = (cluster \ job[j].deleted) \cup job[j].groups
  /\ valuation' = IF job[j].wrote THEN job[j].value ELSE valuation
  /\ alert' = [x \in Matches |-> IF x \in job[j].alerts THEN alert[x] + 1 ELSE alert[x]]
  /\ job' = [k \in Jobs |-> IF k = j \/ job[k] = None THEN None
                            ELSE [job[k] EXCEPT !.snapshot = @ \ job[j].deleted]]
  /\ UNCHANGED <<doubled, changes, failures>>

\* A job that can only fail: its clusters or its valuation exist already.
Conflicts(j) ==
  \/ job[j].phase = "grouped" /\ Collides(j)
  \/ /\ job[j].phase = "appraised"
     /\ job[j].found = None /\ valuation # None

RolledBack(j) ==
  /\ job' = [job EXCEPT ![j] = None]
  /\ UNCHANGED <<listing, derivedVars, doubled, changes>>

Conflict(j) ==
  /\ job[j] # None /\ Conflicts(j)
  /\ RolledBack(j) /\ UNCHANGED failures

Fail(j) ==
  /\ Failure
  /\ job[j] # None
  /\ RolledBack(j)

-----------------------------------------------------------------------------
JobStep(j) ==
  \/ Empty(j) \/ Delete(j) \/ Group(j) \/ Insert(j) \/ Value(j) \/ Save(j) \/ Alert(j)
  \/ Commit(j) \/ Conflict(j)

Next ==
  \/ \E l \in Listings :
       Unseen(l) \/ \E price \in Prices, status \in {"active", "sold"} : Observe(l, price, status)
  \/ \E j \in Jobs : BeginMaintenance(j) \/ BeginRebuild(j) \/ JobStep(j) \/ Fail(j)

\* Beat sends the maintenance task again and again, and workers go on with the
\* jobs, in whatever order.  Nobody has to rebuild clusters or to collect.
Fairness == WF_vars(\E j \in Jobs : JobStep(j) \/ BeginMaintenance(j))

Spec == Init /\ [][Next]_vars
FairSpec == Spec /\ Fairness

-----------------------------------------------------------------------------
\* Once the listings change no more (MaxChanges), the clusters become those of
\* the listings there are, and stay so: what rebuilds that overlap leave of each
\* other, or one that fails, a later one makes good.
Current == {l \in Listings : listing[l].status = "active"}
ClustersCatchUp == <>[](cluster \in Groupings(Current, [l \in Listings |-> listing[l].price]))

\* One watchlist gets one alert for one listing, unless two jobs looked for it
\* before either was committed.
AlertedOnce == \A x \in Matches : alert[x] > 1 => x \in doubled

\* A listing that stays on the first page of a watchlist's matches gets an
\* alert, whatever jobs fail for.
Asked(x) == x[2] \in FirstPage(x[1], {l \in Listings : listing[l].status = "active" /\ ~listing[l].old})
MatchesAlerted == \A x \in Matches : <>[]Asked(x) => <>(alert[x] > 0)
=============================================================================

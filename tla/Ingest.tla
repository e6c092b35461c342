-------------------------------- MODULE Ingest --------------------------------
(***************************************************************************)
(* How observations of marketplace listings enter the platform             *)
(* (platform/ingest.py, the writes of platform/repository.py) while the    *)
(* hourly maintenance task (platform/tasks.py) ages what is there.         *)
(*                                                                         *)
(* A batch is one transaction: record by record it stores a raw capture in *)
(* the object store, loads the listing without a lock, and flushes the     *)
(* changed columns and a snapshot.  A flush takes the row's lock until the *)
(* commit.  The maintenance task is one transaction too: it marks          *)
(* the stale listings first and commits only after it has deleted the      *)
(* expired captures from the object store, one at a time.                  *)
(*                                                                         *)
(* Two batches of one source may overlap: the broker delivers a task again *)
(* when its worker is lost or late, and operators can enqueue it.          *)
(***************************************************************************)
EXTENDS UnitOfWork, Naturals, FiniteSets

CONSTANTS
  Listings,    \* (source, id at the source)
  Workers,     \* collection workers that may ingest at one time
  StaleAfter,  \* settings.listing_stale_hours, in ticks
  Retention,   \* settings.raw_capture_retention_days, in ticks
  Horizon,     \* bound of the clock
  MaxBatches,  \* bound of the batches started
  MaxFailures  \* bound of the maintenance tasks that fail

ASSUME IngestAssumption ==
  /\ StaleAfter \in Nat \ {0}
  /\ Retention \in Nat
  /\ Horizon \in Nat \ {0}
  /\ MaxBatches \in Nat
  /\ MaxFailures \in Nat

VARIABLES
  now,        \* the clock
  listing,    \* rows of listings: status and last_seen_at
  snapshots,  \* rows of listing_snapshots, never changed or deleted
  captures,   \* rows of raw_captures
  objects,    \* the object store
  batch,      \* per worker: the transaction of ingest_records
  upkeep,     \* the transaction of maintenance_task
  started,    \* batches started so far
  failures,   \* maintenance tasks that failed so far
  raced       \* history: listings written over a change since they were loaded

vars == <<now, listing, snapshots, captures, objects, batch, upkeep, started, failures, raced>>

Time == 0 .. Horizon

\* What a collector can see of a listing (detect_listing_status).
Seen == {"active", "sold"}
ListingRow == [status: Seen \cup {"absent", "stale"}, seen: Time]
NoListing == [status |-> "absent", seen |-> 0]

\* A raw capture's key is made of the listing and the microsecond at which
\* its batch was observed, so two batches never share one.
Capture  == [listing: Listings, at: Time, batch: 1 .. MaxBatches]
Snapshot == [listing: Listings, at: Time, status: Seen]

\* A batch: its number, when it was observed, the records left, the records flushed
\* with the rows they wrote, and the record being upserted, with the row
\* that was loaded.
NoBatch == [id |-> 0, at |-> 0, left |-> {}, flushed |-> {}, current |-> {}]
NoUpkeep == [marked |-> {}, expired |-> {}, deleted |-> {}, open |-> FALSE]

Batch ==
  [id: 0 .. MaxBatches, at: Time, left: SUBSET Listings,
   flushed: SUBSET [listing: Listings, row: ListingRow, status: Seen],
   current: SUBSET [listing: Listings, loaded: ListingRow]]

TypeOK ==
  /\ now \in Time
  /\ listing \in [Listings -> ListingRow]
  /\ snapshots \subseteq Snapshot
  /\ captures \subseteq Capture
  /\ objects \subseteq Capture
  /\ batch \in [Workers -> Batch]
  /\ upkeep \in [marked: SUBSET Listings, expired: SUBSET Capture,
                 deleted: SUBSET Capture, open: BOOLEAN]
  /\ started \in 0 .. MaxBatches
  /\ failures \in 0 .. MaxFailures
  /\ raced \subseteq Listings

Init ==
  /\ now = 0
  /\ listing = [l \in Listings |-> NoListing]
  /\ snapshots = {}
  /\ captures = {}
  /\ objects = {}
  /\ batch = [w \in Workers |-> NoBatch]
  /\ upkeep = NoUpkeep
  /\ started = 0
  /\ failures = 0
  /\ raced = {}

Tick ==
  /\ now < Horizon
  /\ now' = now + 1
  /\ UNCHANGED <<listing, snapshots, captures, objects, batch, upkeep, started, failures, raced>>

-----------------------------------------------------------------------------
(***************************************************************************)
(* ingest_records and upsert_listing_observation.                          *)
(***************************************************************************)
Later(a, b) == IF a > b THEN a ELSE b

CaptureOf(w, l) == [listing |-> l, at |-> batch[w].at, batch |-> batch[w].id]

FlushedBy(w) == {f.listing : f \in batch[w].flushed}

Locked(l) == l \in upkeep.marked \/ \E w \in Workers : l \in FlushedBy(w)

StartBatch(w, records) ==
  /\ batch[w] = NoBatch
  /\ started < MaxBatches
  /\ started' = started + 1
  /\ batch' = [batch EXCEPT ![w].id = started', ![w].at = now, ![w].left = records]
  /\ UNCHANGED <<now, listing, snapshots, captures, objects, upkeep, failures, raced>>

\* The capture is stored before the row is loaded.
LoadListing(w, l) ==
  /\ batch[w].current = {}
  /\ l \in batch[w].left
  /\ objects' = objects \cup {CaptureOf(w, l)}
  /\ batch' = [batch EXCEPT ![w].left = @ \ {l},
                            ![w].current = {[listing |-> l, loaded |-> listing[l]]}]
  /\ UNCHANGED <<now, listing, snapshots, captures, upkeep, started, failures, raced>>

\* Mutant: takes the time of the observation for the latest.
UpsertedAsObserved(loaded, at, status) == [status |-> status, seen |-> at]

\* last_seen_at never goes back from the value loaded.
Upserted(loaded, at, status) ==
  [status |-> status, seen |-> Later(at, loaded.seen)]

\* A listing another batch inserted since the load violates the unique key:
\* then only Abort is possible.
FlushListing(w, status) ==
  \E c \in batch[w].current :
    /\ ~ Locked(c.listing)
    /\ c.loaded.status = "absent" => listing[c.listing].status = "absent"
    /\ batch' = [batch EXCEPT
         ![w].current = {},
         ![w].flushed = @ \cup
           {[listing |-> c.listing, status |-> status,
             row |-> Columns(listing[c.listing], c.loaded,
                             Upserted(c.loaded, batch[w].at, status))]}]
    /\ raced' = IF c.loaded # listing[c.listing] THEN raced \cup {c.listing} ELSE raced
    /\ UNCHANGED <<now, listing, snapshots, captures, objects, upkeep, started, failures>>

CommitBatch(w) ==
  /\ batch[w].flushed # {}
  /\ batch[w].left = {}
  /\ batch[w].current = {}
  /\ listing' = [l \in Listings |->
       IF l \in FlushedBy(w)
         THEN (CHOOSE f \in batch[w].flushed : f.listing = l).row
         ELSE listing[l]]
  /\ snapshots' = snapshots \cup
       {[listing |-> f.listing, at |-> batch[w].at, status |-> f.status] :
          f \in batch[w].flushed}
  /\ captures' = captures \cup {CaptureOf(w, l) : l \in FlushedBy(w)}
  /\ batch' = [batch EXCEPT ![w] = NoBatch]
  /\ UNCHANGED <<now, objects, upkeep, started, failures, raced>>

\* Any error, or the loss of the worker, rolls the batch back; the captures
\* it stored stay in the object store.
AbortBatch(w) ==
  /\ batch[w] # NoBatch
  /\ batch' = [batch EXCEPT ![w] = NoBatch]
  /\ UNCHANGED <<now, listing, snapshots, captures, objects, upkeep, started, failures, raced>>

-----------------------------------------------------------------------------
(***************************************************************************)
(* maintenance_task, without the clusters, valuations and alerts it        *)
(* rebuilds in the same transaction.                                       *)
(***************************************************************************)
Unseen(l) == listing[l].seen + StaleAfter < now

Expired(c) == c.at + Retention <= now

\* Mutant: a tick late.
LateListings ==
  {l \in Listings : listing[l].status = "active" /\ listing[l].seen + StaleAfter + 1 < now}

StaleListings == {l \in Listings : listing[l].status = "active" /\ Unseen(l)}

\* Mutants: every capture, and only those whose object is still there.
AllCaptures == captures

StoredExpiredCaptures == {c \in captures \cap objects : Expired(c)}

ExpiredCaptures == {c \in captures : Expired(c)}

\* mark_stale_listings: one UPDATE, which waits for the rows it is to
\* change when a batch has flushed them.
StartUpkeep ==
  /\ ~ upkeep.open
  /\ \A l \in StaleListings : ~ Locked(l)
  /\ upkeep' = [open |-> TRUE, marked |-> StaleListings, deleted |-> {},
                expired |-> ExpiredCaptures]
  /\ UNCHANGED <<now, listing, snapshots, captures, objects, batch, started, failures, raced>>

DeleteCapture(c) ==
  /\ objects' = objects \ {c}
  /\ upkeep' = [upkeep EXCEPT !.expired = @ \ {c}, !.deleted = @ \cup {c}]
  /\ UNCHANGED <<now, listing, snapshots, captures, batch, started, failures, raced>>

CommitUpkeep ==
  /\ upkeep.open
  /\ upkeep.expired = {}
  /\ listing' = [l \in Listings |->
       IF l \in upkeep.marked THEN [listing[l] EXCEPT !.status = "stale"]
                              ELSE listing[l]]
  /\ captures' = captures \ upkeep.deleted
  /\ upkeep' = NoUpkeep
  /\ UNCHANGED <<now, snapshots, objects, batch, started, failures, raced>>

\* object_store.delete or a later statement raises: the rows of captures
\* already deleted come back, and so does every stale listing.
AbortUpkeep ==
  /\ upkeep.open
  /\ failures < MaxFailures
  /\ failures' = failures + 1
  /\ upkeep' = NoUpkeep
  /\ UNCHANGED <<now, listing, snapshots, captures, objects, batch, started, raced>>

-----------------------------------------------------------------------------
BatchStep(w) ==
  \/ \E l \in Listings : LoadListing(w, l)
  \/ \E status \in Seen : FlushListing(w, status)
  \/ CommitBatch(w)
  \/ AbortBatch(w)

UpkeepStep ==
  \/ StartUpkeep
  \/ \E c \in upkeep.expired : DeleteCapture(c)
  \/ CommitUpkeep

Next ==
  \/ Tick
  \/ \E w \in Workers :
       \/ \E records \in (SUBSET Listings) \ {{}} : StartBatch(w, records)
       \/ BatchStep(w)
  \/ UpkeepStep
  \/ AbortUpkeep

Spec == Init /\ [][Next]_vars

\* A batch that has begun is committed or rolled back, and the maintenance
\* task, which Beat starts every hour, goes on when it may.
Fairness ==
  /\ \A w \in Workers : WF_vars(BatchStep(w))
  /\ WF_vars(UpkeepStep)

FairSpec == Spec /\ Fairness

-----------------------------------------------------------------------------
(***************************************************************************)
(* Properties.                                                             *)
(***************************************************************************)
TimesSeen(l) == {s.at : s \in {t \in snapshots : t.listing = l}}

\* Unless a batch wrote a listing over a change made since it loaded it, the
\* row agrees with its history: it exists when it has snapshots, it was last
\* seen at the latest of them, and it is stale only when that was too long
\* ago (upsert_listing_observation, mark_stale_listings).
RowMatchesHistory ==
  \A l \in Listings \ raced :
    /\ listing[l].status = "absent" <=> TimesSeen(l) = {}
    /\ TimesSeen(l) # {} =>
         /\ listing[l].seen \in TimesSeen(l)
         /\ \A t \in TimesSeen(l) : t <= listing[l].seen
    /\ listing[l].status = "stale" => Unseen(l)

\* A raw capture the database refers to is in the object store until it
\* expires, whatever becomes of the transactions that store and delete
\* captures (ingest_records, maintenance_task).
CapturesKept == \A c \in captures : Expired(c) \/ c \in objects

\* The captures of a batch lose their rows and their objects once they have
\* expired, even when a maintenance task failed between the two.
ExpiredIn(b) == \E c \in captures : c.batch = b /\ Expired(c)

CapturesExpire ==
  \A b \in 1 .. MaxBatches :
    ExpiredIn(b) ~> \A c \in captures \cup objects : c.batch # b

\* A listing nobody observed for too long does not stay on display.
UnseenAreMarked ==
  \A l \in Listings :
    (listing[l].status = "active" /\ Unseen(l))
      ~> ~ (listing[l].status = "active" /\ Unseen(l))
=============================================================================

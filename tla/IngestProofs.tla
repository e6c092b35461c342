----------------------------- MODULE IngestProofs -----------------------------
(***************************************************************************)
(* What Ingest keeps, for every set of listings and workers, any ages and  *)
(* any number of batches and failures, and what Search, which adds to      *)
(* Ingest a state it does not look at, keeps with any number of outages.   *)
(***************************************************************************)
EXTENDS Search, TLAPS

-----------------------------------------------------------------------------
(***************************************************************************)
(* Types.                                                                  *)
(***************************************************************************)
Flushed == [listing: Listings, row: ListingRow, status: Seen]
Loaded == [listing: Listings, loaded: ListingRow]

LEMMA LaterOf ==
  ASSUME NEW a \in Time, NEW b \in Time
  PROVE  /\ Later(a, b) \in Time
         /\ Later(a, b) = a \/ Later(a, b) = b
         /\ a <= Later(a, b) /\ b <= Later(a, b)
BY IngestAssumption DEF Later, Time

LEMMA UpsertedRow ==
  ASSUME NEW r \in ListingRow, NEW t \in Time, NEW s \in Seen
  PROVE  Upserted(r, t, s) \in ListingRow
BY LaterOf DEF ListingRow, Upserted

\* Writing the changed columns of one row over another gives a row; over
\* the row that was loaded, it gives the new row.
LEMMA ColumnsRow ==
  ASSUME NEW c \in ListingRow, NEW r \in ListingRow, NEW n \in ListingRow
  PROVE  /\ Columns(c, r, n) \in ListingRow
         /\ c = r => Columns(c, r, n) = n
<1>1. \A f \in {"status", "seen"} : Column(c[f], r[f], n[f]) \in {c[f], n[f]}
  BY DEF Column
<1>2. DOMAIN c = {"status", "seen"} /\ DOMAIN n = {"status", "seen"}
  BY DEF ListingRow
<1>. QED
  BY <1>1, <1>2 DEF Columns, Column, ListingRow

\* A transaction with work to do has a number, so its captures have one.
Numbered ==
  \A w \in Workers : batch[w].id = 0 =>
    batch[w].left = {} /\ batch[w].flushed = {} /\ batch[w].current = {}

TypeInv == TypeOK /\ Numbered

LEMMA CaptureType ==
  ASSUME TypeInv, NEW w \in Workers, NEW l \in Listings, batch[w].id # 0
  PROVE  CaptureOf(w, l) \in Capture
<1>1. batch[w].id \in 1 .. MaxBatches /\ batch[w].at \in Time
  BY IngestAssumption DEF TypeInv, TypeOK, Batch
<1>. QED
  BY <1>1 DEF CaptureOf, Capture

LEMMA FlushedListings ==
  ASSUME TypeOK, NEW w \in Workers
  PROVE  FlushedBy(w) \subseteq Listings
BY DEF TypeOK, Batch, FlushedBy

\* What a transaction becomes when another batch replaces it.
LEMMA BatchSet ==
  ASSUME TypeInv, NEW w \in Workers, NEW b \in Batch,
         batch' = [batch EXCEPT ![w] = b],
         b.id = 0 => b.left = {} /\ b.flushed = {} /\ b.current = {}
  PROVE  /\ batch' \in [Workers -> Batch]
         /\ batch'[w] = b
         /\ \A v \in Workers : v # w => batch'[v] = batch[v]
         /\ Numbered'
BY DEF TypeInv, TypeOK, Numbered

LEMMA NoBatchType ==
  /\ NoBatch \in Batch
  /\ NoBatch.left = {} /\ NoBatch.flushed = {} /\ NoBatch.current = {}
BY IngestAssumption DEF NoBatch, Batch, Time

LEMMA TypeInit == Init => TypeInv
BY IngestAssumption, NoBatchType
   DEF Init, TypeInv, TypeOK, Numbered, NoListing, NoUpkeep, ListingRow, Time

LEMMA TypeBatch ==
  ASSUME TypeInv, NEW w \in Workers,
         \/ \E records \in (SUBSET Listings) \ {{}} : StartBatch(w, records)
         \/ BatchStep(w)
  PROVE  TypeInv'
<1>0. batch[w] \in Batch
  BY DEF TypeInv, TypeOK
<1>1. ASSUME NEW records \in SUBSET Listings, StartBatch(w, records)
      PROVE  TypeInv'
  <2>. DEFINE b == [batch[w] EXCEPT !.id = started', !.at = now, !.left = records]
  <2>1. started' \in 1 .. MaxBatches
    <3>1. started \in 0 .. MaxBatches /\ started < MaxBatches /\ started' = started + 1
      BY <1>1 DEF StartBatch, TypeInv, TypeOK
    <3>. QED
      BY <3>1, IngestAssumption
  <2>2. b \in Batch /\ b.id # 0
    <3>1. PICK n \in 1 .. MaxBatches : n = started'
      BY <2>1
    <3>2. now \in Time
      BY DEF TypeInv, TypeOK
    <3>3. n \in 0 .. MaxBatches /\ n # 0
      BY IngestAssumption
    <3>4. b = [batch[w] EXCEPT !.id = n, !.at = now, !.left = records]
      BY <3>1
    <3>. QED
      BY <1>0, <3>2, <3>3, <3>4 DEF Batch
  <2>3. batch' = [batch EXCEPT ![w] = b]
    BY <1>1 DEF StartBatch
  <2>. HIDE DEF b
  <2>4. batch' \in [Workers -> Batch] /\ Numbered'
    BY <2>2, <2>3, BatchSet
  <2>. QED
    <3>1. started' \in 0 .. MaxBatches
      BY <2>1, IngestAssumption
    <3>. QED
      BY <1>1, <2>4, <3>1 DEF StartBatch, TypeInv, TypeOK
<1>2. ASSUME NEW l \in Listings, LoadListing(w, l)
      PROVE  TypeInv'
  <2>. DEFINE b == [batch[w] EXCEPT !.left = @ \ {l},
                                    !.current = {[listing |-> l, loaded |-> listing[l]]}]
  <2>1. batch[w].id # 0
    BY <1>2 DEF LoadListing, TypeInv, Numbered
  <2>2. [listing |-> l, loaded |-> listing[l]] \in Loaded
    BY DEF Loaded, TypeInv, TypeOK
  <2>3. b \in Batch /\ b.id # 0
    BY <1>0, <2>1, <2>2 DEF Batch, Loaded
  <2>4. batch' = [batch EXCEPT ![w] = b]
    BY <1>2 DEF LoadListing
  <2>. HIDE DEF b
  <2>5. batch' \in [Workers -> Batch] /\ Numbered'
    BY <2>3, <2>4, BatchSet
  <2>. QED
    BY <1>2, <2>1, <2>5, CaptureType DEF LoadListing, TypeInv, TypeOK
<1>3. ASSUME NEW status \in Seen, FlushListing(w, status)
      PROVE  TypeInv'
  <2>1. PICK c \in batch[w].current :
          /\ batch' = [batch EXCEPT
               ![w].current = {},
               ![w].flushed = @ \cup
                 {[listing |-> c.listing, status |-> status,
                   row |-> Columns(listing[c.listing], c.loaded,
                                   Upserted(c.loaded, batch[w].at, status))]}]
          /\ raced' = IF c.loaded # listing[c.listing] THEN raced \cup {c.listing} ELSE raced
    BY <1>3 DEF FlushListing
  <2>2. c \in Loaded
    BY <1>0 DEF Batch, Loaded
  <2>. DEFINE r == Columns(listing[c.listing], c.loaded, Upserted(c.loaded, batch[w].at, status))
              n == [listing |-> c.listing, status |-> status, row |-> r]
              b == [batch[w] EXCEPT !.current = {}, !.flushed = @ \cup {n}]
  <2>3. r \in ListingRow
    BY <1>0, <2>2, UpsertedRow, ColumnsRow DEF Batch, Loaded, TypeInv, TypeOK
  <2>4. batch' = [batch EXCEPT ![w] = b]
    BY <2>1
  <2>. HIDE DEF r
  <2>5. n \in Flushed
    BY <2>2, <2>3 DEF Flushed, Loaded
  <2>. HIDE DEF n
  <2>6. b \in Batch /\ b.id # 0
    BY <1>0, <2>5, <2>1 DEF Batch, Flushed, TypeInv, Numbered
  <2>. HIDE DEF b
  <2>7. batch' \in [Workers -> Batch] /\ Numbered'
    BY <2>4, <2>6, BatchSet
  <2>. QED
    BY <1>3, <2>1, <2>2, <2>7 DEF FlushListing, TypeInv, TypeOK, Loaded
<1>4. CASE CommitBatch(w)
  <2>1. batch' \in [Workers -> Batch] /\ Numbered'
    BY <1>4, NoBatchType, BatchSet DEF CommitBatch
  <2>2. batch[w].id # 0
    BY <1>4 DEF CommitBatch, TypeInv, Numbered
  <2>3. captures' \subseteq Capture
    BY <1>4, <2>2, CaptureType, FlushedListings DEF CommitBatch, TypeInv, TypeOK
  <2>4. snapshots' \subseteq Snapshot
    BY <1>0, <1>4 DEF CommitBatch, TypeInv, TypeOK, Batch, Snapshot
  <2>5. ASSUME NEW l \in FlushedBy(w)
        PROVE  (CHOOSE f \in batch[w].flushed : f.listing = l).row \in ListingRow
    BY <1>0 DEF FlushedBy, Batch
  <2>6. listing' \in [Listings -> ListingRow]
    BY <1>4, <2>5 DEF CommitBatch, TypeInv, TypeOK
  <2>. QED
    BY <1>4, <2>1, <2>3, <2>4, <2>6 DEF CommitBatch, TypeInv, TypeOK
<1>5. CASE AbortBatch(w)
  <2>1. batch' \in [Workers -> Batch] /\ Numbered'
    BY <1>5, NoBatchType, BatchSet DEF AbortBatch
  <2>. QED
    BY <1>5, <2>1 DEF AbortBatch, TypeInv, TypeOK
<1>. QED
  BY <1>1, <1>2, <1>3, <1>4, <1>5 DEF BatchStep

LEMMA TypeUpkeep ==
  ASSUME TypeInv, UpkeepStep \/ AbortUpkeep \/ Tick
  PROVE  TypeInv'
<1>1. CASE StartUpkeep
  BY <1>1 DEF StartUpkeep, StaleListings, ExpiredCaptures, TypeInv, TypeOK, Numbered
<1>2. ASSUME NEW c \in upkeep.expired, DeleteCapture(c)
      PROVE  TypeInv'
  BY <1>2 DEF DeleteCapture, TypeInv, TypeOK, Numbered
<1>3. CASE CommitUpkeep
  <2>1. ASSUME NEW l \in Listings
        PROVE  [listing[l] EXCEPT !.status = "stale"] \in ListingRow
    BY DEF TypeInv, TypeOK, ListingRow
  <2>. QED
    BY <1>3, <2>1 DEF CommitUpkeep, NoUpkeep, TypeInv, TypeOK, Numbered
<1>4. CASE AbortUpkeep
  BY <1>4, IngestAssumption DEF AbortUpkeep, NoUpkeep, TypeInv, TypeOK, Numbered
<1>5. CASE Tick
  BY <1>5, IngestAssumption DEF Tick, Time, TypeInv, TypeOK, Numbered
<1>. QED
  BY <1>1, <1>2, <1>3, <1>4, <1>5 DEF UpkeepStep

LEMMA TypeStep ==
  ASSUME TypeInv, [Next]_vars
  PROVE  TypeInv'
<1>1. CASE UNCHANGED vars
  BY <1>1 DEF vars, TypeInv, TypeOK, Numbered
<1>. QED
  BY <1>1, TypeBatch, TypeUpkeep DEF Next

LEMMA TypeAlways == Spec => []TypeInv
<1>. QED
  BY TypeInit, TypeStep, PTL DEF Spec

\* Every reachable state of the database, the object store and the
\* transactions is well typed.
THEOREM TypeCorrect == Spec => []TypeOK
<1>. QED
  BY TypeAlways, PTL DEF TypeInv

-----------------------------------------------------------------------------
(***************************************************************************)
(* Captures.  The object of a record being ingested is stored before any   *)
(* row refers to it, and the maintenance task only picks expired ones, so  *)
(* whichever transaction rolls back, no row outlives its object early.     *)
(***************************************************************************)
Ingesting(w) == FlushedBy(w) \cup {c.listing : c \in batch[w].current}

Kept(c) == Expired(c) \/ c \in objects

CapturesSafe ==
  /\ CapturesKept
  /\ \A w \in Workers : \A l \in Ingesting(w) : Kept(CaptureOf(w, l))
  /\ \A c \in upkeep.expired : Expired(c)

LEMMA StaysExpired ==
  ASSUME TypeInv, NEW c \in Capture, Expired(c), now' = now \/ Tick
  PROVE  Expired(c)'
<1>1. c.at \in Nat /\ now \in Nat /\ Retention \in Nat /\ (now' = now \/ now' = now + 1)
  BY IngestAssumption DEF Capture, Time, TypeInv, TypeOK, Tick
<1>. QED
  BY <1>1 DEF Expired

LEMMA IngestingCapture ==
  ASSUME TypeInv, NEW w \in Workers, NEW l \in Ingesting(w)
  PROVE  l \in Listings /\ CaptureOf(w, l) \in Capture
<1>1. batch[w] \in Batch
  BY DEF TypeInv, TypeOK
<1>2. l \in Listings
  BY <1>1 DEF Ingesting, FlushedBy, Batch
<1>3. batch[w].id # 0
  BY DEF Ingesting, FlushedBy, TypeInv, Numbered
<1>. QED
  BY <1>2, <1>3, CaptureType

\* A step that takes no unexpired object and adds neither rows nor records.
LEMMA CapturesQuiet ==
  ASSUME TypeInv, CapturesSafe,
         now' = now \/ Tick,
         \A c \in objects : c \in objects' \/ Expired(c),
         captures' \subseteq captures,
         upkeep'.expired \subseteq upkeep.expired \cup ExpiredCaptures,
         \A w \in Workers : Ingesting(w)' = {} \/
           (Ingesting(w)' \subseteq Ingesting(w) /\ \A l \in Listings : CaptureOf(w, l)' = CaptureOf(w, l))
  PROVE  CapturesSafe'
<1>1. ASSUME NEW c \in Capture, Kept(c)
      PROVE  Kept(c)'
  BY <1>1, StaysExpired DEF Kept
<1>2. CapturesKept'
  BY <1>1 DEF CapturesSafe, CapturesKept, Kept, TypeInv, TypeOK
<1>3. ASSUME NEW w \in Workers, NEW l \in Ingesting(w)'
      PROVE  Kept(CaptureOf(w, l))'
  <2>1. l \in Ingesting(w) /\ l \in Listings /\ CaptureOf(w, l)' = CaptureOf(w, l)
    BY <1>3, IngestingCapture
  <2>2. PICK c \in Capture : c = CaptureOf(w, l)
    BY <2>1, IngestingCapture
  <2>3. Kept(c)
    BY <2>1, <2>2 DEF CapturesSafe
  <2>4. Kept(c)'
    BY <1>1, <2>3
  <2>. QED
    BY <2>1, <2>2, <2>4 DEF Kept, Expired
<1>4. ASSUME NEW c \in upkeep'.expired
      PROVE  Expired(c)'
  <2>1. c \in Capture /\ Expired(c)
    BY DEF CapturesSafe, ExpiredCaptures, TypeInv, TypeOK
  <2>. QED
    BY <2>1, StaysExpired
<1>. QED
  BY <1>2, <1>3, <1>4 DEF CapturesSafe

LEMMA CapturesBatch ==
  ASSUME TypeInv, CapturesSafe, NEW w \in Workers,
         \/ \E records \in (SUBSET Listings) \ {{}} : StartBatch(w, records)
         \/ BatchStep(w)
  PROVE  CapturesSafe'
<1>0. batch \in [Workers -> Batch]
  BY DEF TypeInv, TypeOK
<1>1. ASSUME UNCHANGED <<now, objects, upkeep>>, captures' \subseteq captures,
             Ingesting(w)' = {} \/
               (Ingesting(w)' \subseteq Ingesting(w) /\ \A l \in Listings : CaptureOf(w, l)' = CaptureOf(w, l)),
             \A v \in Workers : v # w => batch'[v] = batch[v]
      PROVE  CapturesSafe'
  <2>1. ASSUME NEW v \in Workers, v # w
        PROVE  Ingesting(v)' = Ingesting(v) /\ \A l \in Listings : CaptureOf(v, l)' = CaptureOf(v, l)
    BY <1>1, <2>1 DEF Ingesting, FlushedBy, CaptureOf
  <2>. QED
    BY <1>1, <2>1, CapturesQuiet
<1>2. ASSUME NEW records \in SUBSET Listings, StartBatch(w, records)
      PROVE  CapturesSafe'
  <2>1. batch'[w].current = {} /\ batch'[w].flushed = {}
    <3>1. batch[w] \in Batch /\ batch[w] = NoBatch
      BY <1>0, <1>2 DEF StartBatch
    <3>2. batch'[w].current = batch[w].current /\ batch'[w].flushed = batch[w].flushed
      BY <1>0, <1>2, <3>1 DEF StartBatch, Batch
    <3>. QED
      BY <3>1, <3>2, NoBatchType
  <2>2. \A v \in Workers : v # w => batch'[v] = batch[v]
    BY <1>0, <1>2 DEF StartBatch
  <2>. QED
    BY <1>1, <1>2, <2>1, <2>2 DEF StartBatch, Ingesting, FlushedBy
<1>3. ASSUME NEW l \in Listings, LoadListing(w, l)
      PROVE  CapturesSafe'
  <2>1. /\ batch'[w].id = batch[w].id /\ batch'[w].at = batch[w].at
        /\ batch'[w].flushed = batch[w].flushed
        /\ batch'[w].current = {[listing |-> l, loaded |-> listing[l]]}
        /\ \A v \in Workers : v # w => batch'[v] = batch[v]
    BY <1>0, <1>3 DEF LoadListing, Batch
  <2>2. /\ objects' = objects \cup {CaptureOf(w, l)}
        /\ UNCHANGED <<now, captures, upkeep>>
    BY <1>3 DEF LoadListing
  <2>3. \A v \in Workers, k \in Listings : CaptureOf(v, k)' = CaptureOf(v, k)
    BY <2>1 DEF CaptureOf
  <2>4. ASSUME NEW v \in Workers, NEW k \in Ingesting(v)'
        PROVE  k \in Ingesting(v) \/ (v = w /\ k = l)
    <3>1. CASE v # w
      BY <2>1, <2>4, <3>1 DEF Ingesting, FlushedBy
    <3>2. CASE v = w
      <4>1. {c.listing : c \in batch'[w].current} = {l}
        BY <2>1
      <4>2. FlushedBy(w)' = FlushedBy(w)
        BY <2>1 DEF FlushedBy
      <4>. QED
        BY <2>4, <3>2, <4>1, <4>2 DEF Ingesting
    <3>. QED
      BY <3>1, <3>2
  <2>5. ASSUME NEW v \in Workers, NEW k \in Ingesting(v)'
        PROVE  Kept(CaptureOf(v, k))'
    <3>1. k \in Listings
      BY <2>4, IngestingCapture
    <3>2. Expired(CaptureOf(v, k)) \/ CaptureOf(v, k) \in objects'
      BY <2>2, <2>4, <2>5 DEF CapturesSafe, Kept
    <3>. QED
      BY <2>2, <2>3, <3>1, <3>2 DEF Kept, Expired
  <2>. QED
    BY <2>2, <2>5 DEF CapturesSafe, CapturesKept, Expired
<1>4. ASSUME NEW status \in Seen, FlushListing(w, status)
      PROVE  CapturesSafe'
  <2>0. PICK c \in batch[w].current : \E r :
          batch' = [batch EXCEPT ![w].current = {},
                      ![w].flushed = @ \cup {[listing |-> c.listing, status |-> status, row |-> r]}]
    BY <1>4 DEF FlushListing
  <2>1. PICK r :
          batch' = [batch EXCEPT ![w].current = {},
                      ![w].flushed = @ \cup {[listing |-> c.listing, status |-> status, row |-> r]}]
    BY <2>0
  <2>2. /\ batch'[w].id = batch[w].id /\ batch'[w].at = batch[w].at
        /\ batch'[w].flushed = batch[w].flushed \cup {[listing |-> c.listing, status |-> status, row |-> r]}
        /\ batch'[w].current = {}
        /\ \A v \in Workers : v # w => batch'[v] = batch[v]
    BY <1>0, <2>1 DEF Batch
  <2>3. Ingesting(w)' \subseteq Ingesting(w)
    BY <2>2 DEF Ingesting, FlushedBy
  <2>4. \A l \in Listings : CaptureOf(w, l)' = CaptureOf(w, l)
    BY <2>2 DEF CaptureOf
  <2>. QED
    BY <1>1, <1>4, <2>2, <2>3, <2>4 DEF FlushListing
<1>5. CASE AbortBatch(w)
  <2>1. batch'[w] = NoBatch /\ \A v \in Workers : v # w => batch'[v] = batch[v]
    BY <1>0, <1>5 DEF AbortBatch
  <2>. QED
    BY <1>1, <1>5, <2>1, NoBatchType DEF AbortBatch, Ingesting, FlushedBy
<1>6. CASE CommitBatch(w)
  <2>1. /\ batch'[w] = NoBatch
        /\ \A v \in Workers : v # w => batch'[v] = batch[v]
        /\ captures' = captures \cup {CaptureOf(w, l) : l \in FlushedBy(w)}
        /\ UNCHANGED <<now, objects, upkeep>>
    BY <1>0, <1>6 DEF CommitBatch
  <2>2. CapturesKept'
    BY <2>1 DEF CapturesSafe, CapturesKept, Kept, Ingesting, Expired
  <2>3. ASSUME NEW v \in Workers, NEW l \in Ingesting(v)'
        PROVE  Kept(CaptureOf(v, l))'
    <3>1. v # w
      BY <2>1, <2>3, NoBatchType DEF Ingesting, FlushedBy
    <3>. QED
      BY <2>1, <2>3, <3>1 DEF CapturesSafe, Kept, Ingesting, FlushedBy, CaptureOf, Expired
  <2>. QED
    BY <2>1, <2>2, <2>3 DEF CapturesSafe, Expired
<1>. QED
  BY <1>2, <1>3, <1>4, <1>5, <1>6 DEF BatchStep

LEMMA CapturesStep ==
  ASSUME TypeInv, CapturesSafe, [Next]_vars
  PROVE  CapturesSafe'
<1>1. ASSUME UNCHANGED batch
      PROVE  \A w \in Workers : /\ Ingesting(w)' = Ingesting(w)
                                /\ \A l \in Listings : CaptureOf(w, l)' = CaptureOf(w, l)
  BY <1>1 DEF Ingesting, FlushedBy, CaptureOf
<1>2. CASE Tick
  BY <1>1, <1>2, CapturesQuiet DEF Tick
<1>3. CASE StartUpkeep
  BY <1>1, <1>3, CapturesQuiet DEF StartUpkeep
<1>4. ASSUME NEW c \in upkeep.expired, DeleteCapture(c)
      PROVE  CapturesSafe'
  <2>1. objects' = objects \ {c} /\ Expired(c)
    BY <1>4 DEF DeleteCapture, CapturesSafe
  <2>2. upkeep'.expired \subseteq upkeep.expired
    BY <1>4 DEF DeleteCapture, TypeInv, TypeOK
  <2>. QED
    BY <1>1, <1>4, <2>1, <2>2, CapturesQuiet DEF DeleteCapture
<1>5. CASE CommitUpkeep \/ AbortUpkeep
  <2>1. upkeep'.expired = {}
    BY <1>5 DEF CommitUpkeep, AbortUpkeep, NoUpkeep
  <2>. QED
    BY <1>1, <1>5, <2>1, CapturesQuiet DEF CommitUpkeep, AbortUpkeep
<1>6. CASE UNCHANGED vars
  BY <1>1, <1>6, CapturesQuiet DEF vars
<1>. QED
  BY <1>2, <1>3, <1>4, <1>5, <1>6, CapturesBatch DEF Next, UpkeepStep

\* A raw capture the database refers to is in the object store until it
\* expires, whatever becomes of the transactions that store and delete
\* captures (ingest_records, maintenance_task).
THEOREM CapturesSurvive == Spec => []CapturesKept
<1>1. Init => CapturesSafe
  BY NoBatchType DEF Init, CapturesSafe, CapturesKept, Ingesting, FlushedBy, NoUpkeep
<1>2. CapturesSafe => CapturesKept
  BY DEF CapturesSafe
<1>. QED
  BY <1>1, <1>2, CapturesStep, TypeAlways, PTL DEF Spec

-----------------------------------------------------------------------------
(***************************************************************************)
(* Locks and rows.  A flushed row and a marked row are locked, so what a   *)
(* transaction is to commit is still right when it commits: the row it     *)
(* wrote follows the row in the database, unless that had changed between  *)
(* load and flush, and a listing marked stale is active and unseen.        *)
(***************************************************************************)
LocksHeld ==
  /\ \A w \in Workers : FlushedBy(w) \cap upkeep.marked = {}
  /\ \A v, w \in Workers : v # w => FlushedBy(v) \cap FlushedBy(w) = {}
  /\ \A w \in Workers : \A f, g \in batch[w].flushed : f.listing = g.listing => f = g

FlushFits(w, f) ==
  f.listing \in raced \/ f.row = Upserted(listing[f.listing], batch[w].at, f.status)

\* The history of one listing agrees with its row.
Matches(l) ==
  /\ listing[l].status = "absent" <=> TimesSeen(l) = {}
  /\ TimesSeen(l) # {} =>
       /\ listing[l].seen \in TimesSeen(l)
       /\ \A t \in TimesSeen(l) : t <= listing[l].seen
  /\ listing[l].status = "stale" => Unseen(l)
  /\ listing[l].status = "absent" => listing[l].seen = 0

RowsTracked ==
  /\ \A w \in Workers : \A f \in batch[w].flushed : FlushFits(w, f)
  /\ \A l \in upkeep.marked : listing[l].status = "active" /\ Unseen(l)
  /\ \A l \in Listings \ raced : Matches(l)

RowInv == LocksHeld /\ RowsTracked

\* What a step of one batch does to the transactions.
LEMMA FlushedAfter ==
  ASSUME TypeInv, NEW w \in Workers,
         \/ \E records \in (SUBSET Listings) \ {{}} : StartBatch(w, records)
         \/ \E l \in Listings : LoadListing(w, l)
         \/ CommitBatch(w) \/ AbortBatch(w)
  PROVE  /\ \A v \in Workers : v # w => batch'[v] = batch[v]
         /\ \/ batch'[w].flushed = {}
            \/ batch'[w].flushed = batch[w].flushed /\ batch'[w].at = batch[w].at
<1>0. batch \in [Workers -> Batch]
  BY DEF TypeInv, TypeOK
<1>1. ASSUME NEW records \in SUBSET Listings, StartBatch(w, records)
      PROVE  batch'[w].flushed = {} /\ \A v \in Workers : v # w => batch'[v] = batch[v]
  <2>1. batch[w] \in Batch /\ batch[w] = NoBatch
    BY <1>0, <1>1 DEF StartBatch
  <2>2. batch'[w].flushed = batch[w].flushed /\ \A v \in Workers : v # w => batch'[v] = batch[v]
    BY <1>0, <1>1, <2>1 DEF StartBatch, Batch
  <2>. QED
    BY <2>1, <2>2, NoBatchType
<1>2. ASSUME NEW l \in Listings, LoadListing(w, l)
      PROVE  /\ batch'[w].flushed = batch[w].flushed /\ batch'[w].at = batch[w].at
             /\ \A v \in Workers : v # w => batch'[v] = batch[v]
  BY <1>0, <1>2 DEF LoadListing, Batch
<1>3. CASE CommitBatch(w) \/ AbortBatch(w)
  <2>1. batch' = [batch EXCEPT ![w] = NoBatch]
    BY <1>3 DEF CommitBatch, AbortBatch
  <2>. QED
    BY <1>0, <2>1, NoBatchType
<1>. QED
  BY <1>1, <1>2, <1>3

\* What a flush does: it writes one row that nobody has locked.
LEMMA Flushing ==
  ASSUME TypeInv, NEW w \in Workers, NEW status \in Seen, FlushListing(w, status)
  PROVE  \E n \in Flushed :
           /\ ~ Locked(n.listing)
           /\ batch'[w].flushed = batch[w].flushed \cup {n}
           /\ batch'[w].at = batch[w].at
           /\ \A v \in Workers : v # w => batch'[v] = batch[v]
           /\ raced \subseteq raced'
           /\ n.listing \in raced' \/
                n.row = Upserted(listing[n.listing], batch[w].at, n.status)
<1>0. batch \in [Workers -> Batch] /\ listing \in [Listings -> ListingRow]
  BY DEF TypeInv, TypeOK
<1>1. PICK c \in batch[w].current :
        /\ ~ Locked(c.listing)
        /\ batch' = [batch EXCEPT
             ![w].current = {},
             ![w].flushed = @ \cup
               {[listing |-> c.listing, status |-> status,
                 row |-> Columns(listing[c.listing], c.loaded,
                                 Upserted(c.loaded, batch[w].at, status))]}]
        /\ raced' = IF c.loaded # listing[c.listing] THEN raced \cup {c.listing} ELSE raced
  BY DEF FlushListing
<1>2. c.listing \in Listings /\ c.loaded \in ListingRow /\ batch[w].at \in Time
  BY <1>0 DEF Batch
<1>. DEFINE u == Upserted(c.loaded, batch[w].at, status)
            r == Columns(listing[c.listing], c.loaded, u)
            n == [listing |-> c.listing, status |-> status, row |-> r]
<1>3. u \in ListingRow
  BY <1>2, UpsertedRow
<1>4. r \in ListingRow /\ (c.loaded = listing[c.listing] => r = u)
  <2>. HIDE DEF u
  <2>. QED
    BY <1>0, <1>2, <1>3, ColumnsRow
<1>5. /\ batch'[w].flushed = batch[w].flushed \cup {n}
      /\ batch'[w].at = batch[w].at
      /\ \A v \in Workers : v # w => batch'[v] = batch[v]
  <2>1. batch' = [batch EXCEPT ![w].current = {}, ![w].flushed = @ \cup {n}]
    BY <1>1
  <2>. HIDE DEF n
  <2>. QED
    BY <1>0, <2>1 DEF Batch
<1>6. n.listing = c.listing /\ n.status = status /\ n.row = r
  OBVIOUS
<1>7. n \in Flushed
  BY <1>2, <1>4 DEF Flushed
<1>8. c.listing \in raced' \/ r = Upserted(listing[c.listing], batch[w].at, status)
  BY <1>1, <1>4
<1>9. raced \subseteq raced'
  BY <1>1
<1>. HIDE DEF n, r, u
<1>. QED
  BY <1>1, <1>5, <1>6, <1>7, <1>8, <1>9

LEMMA LocksStep ==
  ASSUME TypeInv, LocksHeld, [Next]_vars
  PROVE  LocksHeld'
<1>1. ASSUME NEW w \in Workers, UNCHANGED upkeep,
             \A v \in Workers : v # w => batch'[v] = batch[v],
             batch'[w].flushed = {} \/ batch'[w].flushed = batch[w].flushed
      PROVE  LocksHeld'
  BY <1>1 DEF LocksHeld, FlushedBy
<1>2. ASSUME NEW w \in Workers,
             \/ \E records \in (SUBSET Listings) \ {{}} : StartBatch(w, records)
             \/ \E l \in Listings : LoadListing(w, l)
             \/ CommitBatch(w) \/ AbortBatch(w)
      PROVE  LocksHeld'
  <2>1. UNCHANGED upkeep
    BY <1>2 DEF StartBatch, LoadListing, CommitBatch, AbortBatch
  <2>. QED
    BY <1>1, <1>2, <2>1, FlushedAfter
<1>3. ASSUME NEW w \in Workers, NEW status \in Seen, FlushListing(w, status)
      PROVE  LocksHeld'
  <2>1. PICK n \in Flushed :
          /\ ~ Locked(n.listing)
          /\ batch'[w].flushed = batch[w].flushed \cup {n}
          /\ \A v \in Workers : v # w => batch'[v] = batch[v]
    BY <1>3, Flushing
  <2>2. UNCHANGED upkeep
    BY <1>3 DEF FlushListing
  <2>3. /\ FlushedBy(w)' = FlushedBy(w) \cup {n.listing}
        /\ \A v \in Workers : v # w => FlushedBy(v)' = FlushedBy(v)
    BY <2>1 DEF FlushedBy
  <2>4. n.listing \notin upkeep.marked /\ \A v \in Workers : n.listing \notin FlushedBy(v)
    BY <2>1 DEF Locked
  <2>5. ASSUME NEW v \in Workers, NEW f \in batch'[v].flushed, NEW g \in batch'[v].flushed,
               f.listing = g.listing
        PROVE  f = g
    <3>1. \A h \in batch[w].flushed : h.listing # n.listing
      BY <2>4 DEF FlushedBy
    <3>. QED
      BY <2>1, <2>5, <3>1 DEF LocksHeld
  <2>. QED
    BY <2>2, <2>3, <2>4, <2>5 DEF LocksHeld
<1>4. ASSUME UNCHANGED batch,
             \A l \in upkeep'.marked : l \in upkeep.marked \/ ~ Locked(l)
      PROVE  LocksHeld'
  BY <1>4 DEF LocksHeld, FlushedBy, Locked
<1>5. CASE StartUpkeep
  BY <1>4, <1>5 DEF StartUpkeep
<1>6. ASSUME NEW c \in upkeep.expired, DeleteCapture(c)
      PROVE  LocksHeld'
  BY <1>4, <1>6 DEF DeleteCapture, TypeInv, TypeOK
<1>7. CASE CommitUpkeep \/ AbortUpkeep
  BY <1>4, <1>7 DEF CommitUpkeep, AbortUpkeep, NoUpkeep
<1>8. CASE Tick \/ UNCHANGED vars
  BY <1>4, <1>8 DEF Tick, vars
<1>. QED
  BY <1>2, <1>3, <1>5, <1>6, <1>7, <1>8 DEF Next, BatchStep, UpkeepStep

LEMMA StaysUnseen ==
  ASSUME TypeInv, NEW l \in Listings, Unseen(l),
         listing'[l].seen = listing[l].seen, now' = now \/ Tick
  PROVE  Unseen(l)'
<1>1. listing[l].seen \in Nat /\ now \in Nat /\ StaleAfter \in Nat
  BY IngestAssumption DEF TypeInv, TypeOK, ListingRow, Time
<1>2. now' = now \/ now' = now + 1
  BY DEF Tick
<1>. QED
  BY <1>1, <1>2 DEF Unseen

LEMMA RowsQuiet ==
  ASSUME TypeInv, RowsTracked, UNCHANGED <<listing, snapshots>>,
         now' = now \/ Tick, raced \subseteq raced',
         \A w \in Workers : \/ batch'[w].flushed = {}
                            \/ batch'[w].flushed = batch[w].flushed /\ batch'[w].at = batch[w].at,
         \A l \in upkeep'.marked : l \in upkeep.marked \/ l \in StaleListings
  PROVE  RowsTracked'
<1>1. ASSUME NEW w \in Workers, NEW f \in batch'[w].flushed
      PROVE  FlushFits(w, f)'
  <2>1. batch'[w].at = batch[w].at /\ FlushFits(w, f)
    BY <1>1 DEF RowsTracked
  <2>. QED
    BY <2>1 DEF FlushFits, Upserted
<1>2. ASSUME NEW l \in upkeep'.marked
      PROVE  (listing[l].status = "active" /\ Unseen(l))'
  <2>1. l \in Listings /\ listing[l].status = "active" /\ Unseen(l)
    BY DEF RowsTracked, StaleListings, TypeInv, TypeOK
  <2>. QED
    BY <2>1, StaysUnseen
<1>3. ASSUME NEW l \in Listings \ raced'
      PROVE  Matches(l)'
  <2>1. Matches(l)
    BY DEF RowsTracked
  <2>2. Unseen(l) => Unseen(l)'
    BY StaysUnseen
  <2>. QED
    BY <2>1, <2>2 DEF Matches, TimesSeen
<1>. QED
  BY <1>1, <1>2, <1>3 DEF RowsTracked

LEMMA RowsFlush ==
  ASSUME TypeInv, RowsTracked, NEW w \in Workers, NEW status \in Seen, FlushListing(w, status)
  PROVE  RowsTracked'
<1>1. PICK n \in Flushed :
        /\ batch'[w].flushed = batch[w].flushed \cup {n}
        /\ batch'[w].at = batch[w].at
        /\ \A v \in Workers : v # w => batch'[v] = batch[v]
        /\ raced \subseteq raced'
        /\ n.listing \in raced' \/ n.row = Upserted(listing[n.listing], batch[w].at, n.status)
  BY Flushing
<1>2. UNCHANGED <<now, listing, snapshots, upkeep>>
  BY DEF FlushListing
<1>3. ASSUME NEW v \in Workers, NEW f \in batch'[v].flushed
      PROVE  FlushFits(v, f)'
  <2>1. batch'[v].at = batch[v].at
    BY <1>1
  <2>2. FlushFits(v, f) \/ (v = w /\ f = n)
    BY <1>1, <1>3 DEF RowsTracked
  <2>. QED
    BY <1>1, <1>2, <2>1, <2>2 DEF FlushFits, Upserted
<1>4. ASSUME NEW l \in Listings \ raced'
      PROVE  Matches(l)'
  BY <1>1, <1>2 DEF RowsTracked, Matches, TimesSeen, Unseen
<1>5. \A l \in upkeep'.marked : (listing[l].status = "active" /\ Unseen(l))'
  BY <1>2 DEF RowsTracked, Unseen
<1>. QED
  BY <1>3, <1>4, <1>5 DEF RowsTracked

LEMMA RowsCommit ==
  ASSUME TypeInv, RowInv, NEW w \in Workers, CommitBatch(w)
  PROVE  RowsTracked'
<1>0. /\ batch[w] \in Batch /\ batch[w].at \in Time /\ Time \subseteq Nat
      /\ listing \in [Listings -> ListingRow]
  BY IngestAssumption DEF TypeInv, TypeOK, Batch, Time
<1>. DEFINE at == batch[w].at
<1>1. /\ batch'[w].flushed = {}
      /\ \A v \in Workers : v # w => batch'[v] = batch[v]
      /\ UNCHANGED <<now, raced, upkeep>>
  <2>1. batch' = [batch EXCEPT ![w] = NoBatch]
    BY DEF CommitBatch
  <2>. QED
    BY <2>1, NoBatchType DEF CommitBatch, TypeInv, TypeOK
<1>2. ASSUME NEW l \in Listings, l \notin FlushedBy(w)
      PROVE  listing'[l] = listing[l] /\ TimesSeen(l)' = TimesSeen(l)
  <2>1. listing'[l] = listing[l]
    BY <1>2 DEF CommitBatch
  <2>2. {t \in snapshots' : t.listing = l} = {t \in snapshots : t.listing = l}
    BY <1>2 DEF CommitBatch, FlushedBy
  <2>. QED
    BY <2>1, <2>2 DEF TimesSeen
<1>3. ASSUME NEW f \in batch[w].flushed
      PROVE  /\ f.listing \in Listings /\ f.status \in Seen
             /\ listing'[f.listing] = f.row
             /\ TimesSeen(f.listing)' = TimesSeen(f.listing) \cup {at}
  <2>. DEFINE l == f.listing
  <2>1. l \in Listings /\ f.status \in Seen /\ l \in FlushedBy(w)
    BY <1>0 DEF Batch, FlushedBy
  <2>2. (CHOOSE g \in batch[w].flushed : g.listing = l) = f
    BY DEF RowInv, LocksHeld
  <2>3. listing'[l] = f.row
    BY <2>1, <2>2 DEF CommitBatch
  <2>. DEFINE new == {[listing |-> g.listing, at |-> at, status |-> g.status] : g \in batch[w].flushed}
  <2>4. snapshots' = snapshots \cup new
    BY DEF CommitBatch
  <2>5. \A t \in new : t.at = at
    OBVIOUS
  <2>6. [listing |-> l, at |-> at, status |-> f.status] \in new
    OBVIOUS
  <2>7. PICK s \in new : s.listing = l /\ s.at = at
    BY <2>6
  <2>. HIDE DEF new
  <2>8. TimesSeen(l)' = {s1.at : s1 \in {t \in snapshots \cup new : t.listing = l}}
    BY <2>4 DEF TimesSeen
  <2>9. TimesSeen(l)' \subseteq TimesSeen(l) \cup {at}
    BY <2>5, <2>8 DEF TimesSeen
  <2>10. TimesSeen(l) \cup {at} \subseteq TimesSeen(l)'
    BY <2>7, <2>8 DEF TimesSeen
  <2>. QED
    BY <2>1, <2>3, <2>9, <2>10
<1>4. ASSUME NEW v \in Workers, NEW f \in batch'[v].flushed
      PROVE  FlushFits(v, f)'
  <2>1. v # w /\ batch'[v] = batch[v] /\ f \in batch[v].flushed
    BY <1>1, <1>4
  <2>2. f.listing \in FlushedBy(v) /\ f.listing \in Listings
    BY <2>1, FlushedListings DEF FlushedBy, TypeInv
  <2>3. f.listing \notin FlushedBy(w)
    BY <2>1, <2>2 DEF RowInv, LocksHeld
  <2>4. FlushFits(v, f)
    BY <2>1 DEF RowInv, RowsTracked
  <2>. QED
    BY <1>1, <1>2, <2>1, <2>2, <2>3, <2>4 DEF FlushFits, Upserted
<1>5. ASSUME NEW l \in upkeep'.marked
      PROVE  (listing[l].status = "active" /\ Unseen(l))'
  <2>1. l \in upkeep.marked /\ l \in Listings /\ l \notin FlushedBy(w)
    BY <1>1 DEF RowInv, LocksHeld, TypeInv, TypeOK
  <2>. QED
    BY <1>1, <1>2, <2>1 DEF RowInv, RowsTracked, Unseen
<1>6. ASSUME NEW l \in Listings \ raced
      PROVE  Matches(l)'
  <2>0. Matches(l)
    BY DEF RowInv, RowsTracked
  <2>1. CASE l \notin FlushedBy(w)
    BY <1>1, <1>2, <2>0, <2>1 DEF Matches, Unseen
  <2>2. CASE l \in FlushedBy(w)
    <3>1. PICK f \in batch[w].flushed : f.listing = l
      BY <2>2 DEF FlushedBy
    <3>2. listing'[l] = Upserted(listing[l], at, f.status)
      BY <3>1, <1>3 DEF RowInv, RowsTracked, FlushFits
    <3>3. TimesSeen(l)' = TimesSeen(l) \cup {at} /\ f.status \in Seen
      BY <3>1, <1>3
    <3>4. listing'[l].status = f.status /\ listing'[l].seen = Later(at, listing[l].seen)
      BY <3>2 DEF Upserted
    <3>5. listing[l].seen \in Time
      BY <1>0 DEF ListingRow
    <3>6. f.status # "absent" /\ f.status # "stale"
      BY <3>3 DEF Seen
    <3>. DEFINE last == Later(at, listing[l].seen)
    <3>7. last \in Time /\ (last = at \/ last = listing[l].seen) /\ at <= last /\ listing[l].seen <= last
      BY <1>0, <3>5, LaterOf
    <3>. HIDE DEF last, at
    <3>8. CASE TimesSeen(l) = {}
      <4>1. listing[l].seen = 0
        BY <2>0, <3>8 DEF Matches
      <4>2. last = at
        <5>1. at \in Nat /\ last \in Nat
          BY <1>0, <3>7 DEF at
        <5>. QED
          BY <3>7, <4>1, <5>1
      <4>. QED
        BY <3>3, <3>4, <3>6, <3>7, <3>8, <4>2 DEF Matches, last, at
    <3>9. CASE TimesSeen(l) # {}
      <4>1. listing[l].seen \in TimesSeen(l) /\ \A t \in TimesSeen(l) : t <= listing[l].seen
        BY <2>0, <3>9 DEF Matches
      <4>2. TimesSeen(l) \subseteq Nat
        BY <1>0 DEF TimesSeen, TypeInv, TypeOK, Snapshot
      <4>3. last \in TimesSeen(l)'
        BY <3>3, <3>7, <4>1 DEF at
      <4>4. ASSUME NEW t \in TimesSeen(l)'
            PROVE  t <= last
        <5>1. CASE t = at
          BY <3>7, <5>1
        <5>2. CASE t \in TimesSeen(l)
          BY <1>0, <3>5, <3>7, <4>1, <4>2, <5>2
        <5>. QED
          BY <3>3, <4>4, <5>1, <5>2 DEF at
      <4>. QED
        BY <3>4, <3>6, <4>3, <4>4 DEF Matches, last, at
    <3>. QED
      BY <3>8, <3>9
  <2>. QED
    BY <2>1, <2>2
<1>. QED
  BY <1>1, <1>4, <1>5, <1>6 DEF RowsTracked

LEMMA RowsMarked ==
  ASSUME TypeInv, RowInv, CommitUpkeep
  PROVE  RowsTracked'
<1>1. /\ upkeep'.marked = {}
      /\ UNCHANGED <<now, snapshots, batch, raced>>
      /\ \A l \in Listings : listing'[l] =
           IF l \in upkeep.marked THEN [listing[l] EXCEPT !.status = "stale"] ELSE listing[l]
  BY DEF CommitUpkeep, NoUpkeep
<1>2. ASSUME NEW w \in Workers, NEW f \in batch'[w].flushed
      PROVE  FlushFits(w, f)'
  <2>1. f \in batch[w].flushed /\ FlushFits(w, f)
    BY <1>1, <1>2 DEF RowInv, RowsTracked
  <2>2. f.listing \in FlushedBy(w) /\ f.listing \in Listings
    BY <2>1, FlushedListings DEF FlushedBy, TypeInv
  <2>3. listing'[f.listing] = listing[f.listing]
    BY <1>1, <2>2 DEF RowInv, LocksHeld
  <2>. QED
    BY <1>1, <2>1, <2>3 DEF FlushFits, Upserted
<1>3. ASSUME NEW l \in Listings \ raced'
      PROVE  Matches(l)'
  <2>1. Matches(l) /\ TimesSeen(l)' = TimesSeen(l)
    BY <1>1 DEF RowInv, RowsTracked, TimesSeen
  <2>2. CASE l \notin upkeep.marked
    BY <1>1, <2>1, <2>2 DEF Matches, Unseen
  <2>3. CASE l \in upkeep.marked
    <3>1. listing[l].status = "active" /\ Unseen(l)
      BY <2>3 DEF RowInv, RowsTracked
    <3>2. listing'[l].status = "stale" /\ listing'[l].seen = listing[l].seen
      <4>1. listing[l] \in ListingRow /\ listing'[l] = [listing[l] EXCEPT !.status = "stale"]
        BY <1>1, <2>3 DEF TypeInv, TypeOK
      <4>. QED
        BY <4>1 DEF ListingRow
    <3>. QED
      BY <1>1, <2>1, <3>1, <3>2 DEF Matches, Unseen
  <2>. QED
    BY <2>2, <2>3
<1>. QED
  BY <1>1, <1>2, <1>3 DEF RowsTracked

LEMMA RowsStep ==
  ASSUME TypeInv, RowInv, [Next]_vars
  PROVE  RowInv'
<1>1. LocksHeld'
  BY LocksStep DEF RowInv
<1>2. ASSUME NEW w \in Workers,
             \/ \E records \in (SUBSET Listings) \ {{}} : StartBatch(w, records)
             \/ \E l \in Listings : LoadListing(w, l)
             \/ AbortBatch(w)
      PROVE  RowsTracked'
  <2>1. UNCHANGED <<now, listing, snapshots, upkeep, raced>>
    BY <1>2 DEF StartBatch, LoadListing, AbortBatch
  <2>2. \A v \in Workers : \/ batch'[v].flushed = {}
                           \/ batch'[v].flushed = batch[v].flushed /\ batch'[v].at = batch[v].at
    BY <1>2, FlushedAfter
  <2>. QED
    BY <2>1, <2>2, RowsQuiet DEF RowInv
<1>3. ASSUME UNCHANGED <<listing, snapshots, batch, raced>>, now' = now \/ Tick,
             \A l \in upkeep'.marked : l \in upkeep.marked \/ l \in StaleListings
      PROVE  RowsTracked'
  BY <1>3, RowsQuiet DEF RowInv
<1>4. ASSUME StartUpkeep
      PROVE  RowsTracked'
  BY <1>3, <1>4 DEF StartUpkeep
<1>5. ASSUME NEW c \in upkeep.expired, DeleteCapture(c)
      PROVE  RowsTracked'
  BY <1>3, <1>5 DEF DeleteCapture, TypeInv, TypeOK
<1>6. ASSUME AbortUpkeep
      PROVE  RowsTracked'
  BY <1>3, <1>6 DEF AbortUpkeep, NoUpkeep
<1>7. ASSUME Tick \/ UNCHANGED vars
      PROVE  RowsTracked'
  BY <1>3, <1>7 DEF Tick, vars
<1>8. RowsTracked'
  BY <1>2, <1>4, <1>5, <1>6, <1>7, RowsFlush, RowsCommit, RowsMarked
     DEF Next, BatchStep, UpkeepStep, RowInv
<1>. QED
  BY <1>1, <1>8 DEF RowInv

LEMMA RowsInit == Init => RowInv
<1>1. SUFFICES ASSUME Init
               PROVE  RowInv
  OBVIOUS
<1>2. \A w \in Workers : batch[w].flushed = {}
  BY <1>1, NoBatchType DEF Init
<1>3. upkeep.marked = {} /\ \A l \in Listings : TimesSeen(l) = {}
  BY <1>1 DEF Init, NoUpkeep, TimesSeen
<1>4. \A l \in Listings : listing[l].status = "absent" /\ listing[l].seen = 0
  BY <1>1 DEF Init, NoListing
<1>. QED
  BY <1>2, <1>3, <1>4 DEF RowInv, RowsTracked, LocksHeld, FlushedBy, Matches

\* Unless a batch wrote a listing over a change made since it loaded it, the
\* row agrees with its history: it exists when it has snapshots, it was last
\* seen at the latest of them, and it is stale only when that was too long
\* ago (upsert_listing_observation, mark_stale_listings).
THEOREM RowsMatch == Spec => []RowMatchesHistory
<1>1. Init => RowInv
  BY RowsInit
<1>2. RowInv => RowMatchesHistory
  BY DEF RowInv, RowsTracked, RowMatchesHistory, Matches
<1>. QED
  BY <1>1, <1>2, RowsStep, TypeAlways, PTL DEF Spec

-----------------------------------------------------------------------------
(***************************************************************************)
(* Every step is one of Ingest, or leaves its state alone.                 *)
(***************************************************************************)
LEMMA IngestsStep ==
  ASSUME [SearchNext]_<<vars, searchVars>>
  PROVE  [Next]_vars
<1>1. CASE IngestStep
  BY <1>1 DEF IngestStep, Next, BatchStep
<1>2. ASSUME NEW w \in Workers, CommitAndIndex(w)
      PROVE  Next
  BY <1>2 DEF CommitAndIndex, Next, BatchStep
<1>3. ASSUME NEW w \in Workers, IndexStep(w) \/ LoseDocument(w) \/ LoseWorker(w)
      PROVE  UNCHANGED vars
  BY <1>3 DEF IndexStep, ReadDocument, WriteDocument, LoseDocument, LoseWorker, vars
<1>4. CASE UNCHANGED <<vars, searchVars>>
  BY <1>4
<1>. QED
  BY <1>1, <1>2, <1>3, <1>4 DEF SearchNext

\* The indexing of what was ingested changes nothing about ingesting: the
\* transactions, rows and captures behave as without an index (ingest_records,
\* index_listing).
THEOREM SearchIngests == SearchSpec => Spec
<1>1. SearchInit => Init
  BY DEF SearchInit
<1>. QED
  BY <1>1, IngestsStep, PTL DEF SearchSpec, Spec

-----------------------------------------------------------------------------
(***************************************************************************)
(* Documents.  Maintenance is the only one who changes a row and no        *)
(* document, and all it does is to mark a listing stale.  So while nothing *)
(* was lost or overtaken, documents and rows agree but for that mark, and  *)
(* so do the documents that are on their way.                              *)
(***************************************************************************)
Agrees(l, status) == listing[l].status \in {status, "stale"}

Idle(l) == \A w \in Workers : ~ IsIndexing(w, l)

DocumentsAgree ==
  \A l \in Listings \ (raced \cup behind) :
    /\ \A w \in Workers : \A d \in indexing[w].left \cup indexing[w].sent :
         d.listing = l => Agrees(l, d.status)
    /\ Idle(l) => Agrees(l, document[l])

\* A worker has its batch or its documents.
OneAtATime == \A w \in Workers : batch[w] # NoBatch => indexing[w] = NoIndexing

\* It sends one document at a time.
OneIsSent == \A w \in Workers : \A d, e \in indexing[w].sent : d = e

AnyDocument == [listing: Listings, status: Status \cup {"absent"}]
IndexTypes ==
  /\ document \in [Listings -> Status \cup {"absent"}]
  /\ indexing \in [Workers -> [left: SUBSET AnyDocument, sent: SUBSET AnyDocument]]

SearchInv == IndexTypes /\ OneAtATime /\ OneIsSent /\ DocumentsAgree

LEMMA NothingToIndex ==
  /\ NoIndexing \in [left: SUBSET AnyDocument, sent: SUBSET AnyDocument]
  /\ NoIndexing.left = {} /\ NoIndexing.sent = {}
BY DEF NoIndexing

\* What of the rows changes when no document does.
LEMMA DocumentsQuiet ==
  ASSUME SearchInv, UNCHANGED searchVars, raced \subseteq raced',
         \A l \in Listings : listing'[l].status \in {listing[l].status, "stale"}
  PROVE  DocumentsAgree'
BY DEF SearchInv, DocumentsAgree, Agrees, Idle, IsIndexing, searchVars

LEMMA IngestKeepsDocuments ==
  ASSUME TypeInv, SearchInv, IngestStep
  PROVE  SearchInv'
<1>0. UNCHANGED searchVars /\ batch \in [Workers -> Batch] /\ listing \in [Listings -> ListingRow]
  BY DEF IngestStep, TypeInv, TypeOK
<1>1. IndexTypes'
  BY <1>0 DEF SearchInv, IndexTypes, searchVars
<1>2. ASSUME UNCHANGED <<listing, batch, raced>>
      PROVE  OneAtATime' /\ DocumentsAgree'
  BY <1>0, <1>2, DocumentsQuiet DEF SearchInv, OneAtATime, searchVars
<1>3. ASSUME Tick \/ StartUpkeep \/ AbortUpkeep \/ \E c \in upkeep.expired : DeleteCapture(c)
      PROVE  OneAtATime' /\ DocumentsAgree'
  BY <1>2, <1>3 DEF Tick, StartUpkeep, AbortUpkeep, DeleteCapture
<1>4. ASSUME CommitUpkeep
      PROVE  OneAtATime' /\ DocumentsAgree'
  <2>1. \A l \in Listings : listing'[l].status \in {listing[l].status, "stale"}
    BY <1>0, <1>4 DEF CommitUpkeep, ListingRow
  <2>. QED
    BY <1>0, <1>4, <2>1, DocumentsQuiet DEF CommitUpkeep, SearchInv, OneAtATime, searchVars
<1>5. ASSUME NEW w \in Workers, UNCHANGED listing, raced \subseteq raced',
             \A v \in Workers : v # w => batch'[v] = batch[v],
             batch[w] # NoBatch \/ batch'[w] = NoBatch \/ indexing[w] = NoIndexing
      PROVE  OneAtATime' /\ DocumentsAgree'
  <2>1. OneAtATime'
    BY <1>0, <1>5 DEF SearchInv, OneAtATime, searchVars
  <2>. QED
    BY <1>0, <1>5, <2>1, DocumentsQuiet
<1>6. ASSUME NEW w \in Workers, NEW records \in SUBSET Listings, StartBatch(w, records),
             indexing[w] = NoIndexing
      PROVE  OneAtATime' /\ DocumentsAgree'
  BY <1>0, <1>5, <1>6 DEF StartBatch
<1>7. ASSUME NEW w \in Workers, batch[w].left # {} \/ batch[w].current # {} \/ batch[w] # NoBatch
      PROVE  batch[w] # NoBatch
  BY <1>7, NoBatchType
<1>8. ASSUME NEW w \in Workers, NEW l \in Listings, LoadListing(w, l)
      PROVE  OneAtATime' /\ DocumentsAgree'
  BY <1>0, <1>5, <1>7, <1>8 DEF LoadListing
<1>9. ASSUME NEW w \in Workers, NEW status \in Seen, FlushListing(w, status)
      PROVE  OneAtATime' /\ DocumentsAgree'
  <2>1. raced \subseteq raced' /\ \A v \in Workers : v # w => batch'[v] = batch[v]
    BY <1>9, Flushing
  <2>2. UNCHANGED listing /\ batch[w].current # {}
    BY <1>9 DEF FlushListing
  <2>. QED
    BY <1>5, <1>7, <2>1, <2>2
<1>10. ASSUME NEW w \in Workers, AbortBatch(w)
       PROVE  OneAtATime' /\ DocumentsAgree'
  BY <1>0, <1>5, <1>10 DEF AbortBatch
<1>12. OneIsSent'
  BY <1>0 DEF SearchInv, OneIsSent, searchVars
<1>11. OneAtATime' /\ DocumentsAgree'
  BY <1>3, <1>4, <1>6, <1>8, <1>9, <1>10 DEF IngestStep, UpkeepStep
<1>. QED
  BY <1>1, <1>11, <1>12 DEF SearchInv

-----------------------------------------------------------------------------
\* What is committed of a listing is what is to be indexed of it.
LEMMA CommittedAsIndexed ==
  ASSUME TypeInv, RowInv, NEW w \in Workers, CommitBatch(w), NEW f \in batch[w].flushed,
         f.listing \notin raced
  PROVE  f.listing \in Listings /\ listing'[f.listing].status = f.status
<1>1. f.listing \in Listings /\ f.listing \in FlushedBy(w)
  BY DEF TypeInv, TypeOK, Batch, FlushedBy
<1>2. \A g \in batch[w].flushed : g.listing = f.listing => g = f
  BY DEF RowInv, LocksHeld
<1>3. (CHOOSE g \in batch[w].flushed : g.listing = f.listing) = f
  BY <1>2
<1>4. listing'[f.listing] = f.row
  BY <1>1, <1>3 DEF CommitBatch
<1>5. f.row = Upserted(listing[f.listing], batch[w].at, f.status)
  BY DEF RowInv, RowsTracked, FlushFits
<1>. QED
  BY <1>1, <1>4, <1>5 DEF Upserted

LEMMA CommitKeepsDocuments ==
  ASSUME TypeInv, RowInv, SearchInv, NEW w \in Workers, CommitAndIndex(w)
  PROVE  SearchInv'
<1>0. /\ CommitBatch(w) /\ UNCHANGED <<document, raced>>
      /\ batch \in [Workers -> Batch] /\ batch[w] # NoBatch /\ batch' = [batch EXCEPT ![w] = NoBatch]
      /\ indexing \in [Workers -> [left: SUBSET AnyDocument, sent: SUBSET AnyDocument]]
  BY NoBatchType DEF CommitAndIndex, CommitBatch, TypeInv, TypeOK, SearchInv, IndexTypes
<1>1. /\ \A v \in Workers : v # w => indexing'[v] = indexing[v]
      /\ indexing[w] = NoIndexing
      /\ indexing'[w].left = Indexed(w) /\ indexing'[w].sent = {}
  <2>1. indexing[w] = NoIndexing
    BY <1>0 DEF SearchInv, OneAtATime
  <2>2. indexing' = [indexing EXCEPT ![w].left = Indexed(w)]
    BY DEF CommitAndIndex
  <2>3. indexing'[w].left = Indexed(w) /\ indexing'[w].sent = indexing[w].sent
    BY <1>0, <2>2
  <2>4. \A v \in Workers : v # w => indexing'[v] = indexing[v]
    BY <1>0, <2>2
  <2>. QED
    BY <2>1, <2>3, <2>4, NothingToIndex
<1>2. IndexTypes'
  <2>1. Indexed(w) \subseteq AnyDocument
    BY <1>0 DEF Indexed, AnyDocument, Status, Batch
  <2>2. indexing' = [indexing EXCEPT ![w].left = Indexed(w)]
    BY DEF CommitAndIndex
  <2>3. indexing' \in [Workers -> [left: SUBSET AnyDocument, sent: SUBSET AnyDocument]]
    BY <1>0, <2>1, <2>2
  <2>. QED
    BY <1>0, <2>3 DEF SearchInv, IndexTypes
<1>3. OneAtATime'
  BY <1>0, <1>1 DEF SearchInv, OneAtATime
<1>4. DocumentsAgree'
  <2>1. SUFFICES ASSUME NEW l \in Listings, l \notin raced', l \notin behind'
                 PROVE  /\ \A v \in Workers : \A d \in indexing'[v].left \cup indexing'[v].sent :
                             d.listing = l => Agrees(l, d.status)'
                        /\ Idle(l)' => Agrees(l, document[l])'
    BY DEF DocumentsAgree
  <2>2. CASE l \in FlushedBy(w)
    <3>1. \A v \in Workers : ~ IsIndexing(v, l)
      BY <2>1, <2>2 DEF CommitAndIndex
    <3>2. PICK f \in batch[w].flushed : f.listing = l
      BY <2>2 DEF FlushedBy
    <3>3. [listing |-> f.listing, status |-> f.status] \in indexing'[w].left
      BY <1>1, <3>2 DEF Indexed
    <3>4. IsIndexing(w, l)'
      BY <3>2, <3>3 DEF IsIndexing
    <3>5. ASSUME NEW v \in Workers, NEW d \in indexing'[v].left \cup indexing'[v].sent, d.listing = l
          PROVE  Agrees(l, d.status)'
      <4>1. v = w /\ d \in Indexed(w)
        BY <1>1, <3>1, <3>5 DEF IsIndexing
      <4>2. PICK g \in batch[w].flushed : d = [listing |-> g.listing, status |-> g.status]
        BY <4>1 DEF Indexed
      <4>3. listing'[l].status = d.status
        BY <1>0, <2>1, <3>5, <4>2, CommittedAsIndexed
      <4>. QED
        BY <4>3 DEF Agrees
    <3>. QED
      BY <3>4, <3>5 DEF Idle
  <2>3. CASE l \notin FlushedBy(w)
    <3>1. listing'[l] = listing[l] /\ l \notin behind /\ l \notin raced
      BY <1>0, <2>1, <2>3 DEF CommitAndIndex, CommitBatch
    <3>2. \A d \in Indexed(w) : d.listing # l
      BY <2>3 DEF Indexed, FlushedBy
    <3>3. ASSUME NEW v \in Workers, NEW d \in indexing'[v].left \cup indexing'[v].sent, d.listing = l
          PROVE  d \in indexing[v].left \cup indexing[v].sent
      BY <1>1, <3>2, <3>3
    <3>4. Idle(l)' => Idle(l)
      BY <1>1, NothingToIndex DEF Idle, IsIndexing
    <3>. QED
      BY <1>0, <3>1, <3>3, <3>4 DEF SearchInv, DocumentsAgree, Agrees
  <2>. QED
    BY <2>2, <2>3
<1>5. OneIsSent'
  BY <1>0, <1>1 DEF SearchInv, OneIsSent
<1>. QED
  BY <1>2, <1>3, <1>4, <1>5 DEF SearchInv

-----------------------------------------------------------------------------
\* Worker w takes a document from those it has, sends another, and may write
\* one: who is not indexed by w alone keeps what is true of it.
LEMMA ReadKeepsDocuments ==
  ASSUME TypeInv, SearchInv, NEW w \in Workers, ReadDocument(w)
  PROVE  SearchInv'
<1>0. indexing \in [Workers -> [left: SUBSET AnyDocument, sent: SUBSET AnyDocument]]
  BY DEF SearchInv, IndexTypes
<1>1. PICK d \in indexing[w].left : \E s \in {d.status, listing[d.listing].status} :
        indexing' = [indexing EXCEPT ![w].left = @ \ {d}, ![w].sent = {[d EXCEPT !.status = s]}]
  BY DEF ReadDocument
<1>8. PICK status \in {d.status, listing[d.listing].status} :
        indexing' = [indexing EXCEPT ![w].left = @ \ {d}, ![w].sent = {[d EXCEPT !.status = status]}]
  BY <1>1
<1>. DEFINE e == [d EXCEPT !.status = status]
<1>2. d \in AnyDocument /\ e.listing = d.listing /\ e.status = status
      /\ UNCHANGED <<vars, document, behind>>
      /\ listing \in [Listings -> ListingRow]
  BY <1>0 DEF ReadDocument, AnyDocument, TypeInv, TypeOK
<1>3. /\ indexing'[w].left = indexing[w].left \ {d} /\ indexing'[w].sent = {e}
      /\ \A v \in Workers : v # w => indexing'[v] = indexing[v]
  BY <1>0, <1>8
<1>4. batch[w] = NoBatch
  BY <1>1, NothingToIndex DEF SearchInv, OneAtATime
<1>5. OneAtATime'
  BY <1>2, <1>3, <1>4 DEF SearchInv, OneAtATime, vars
<1>. HIDE DEF e
<1>6. DocumentsAgree'
  <2>1. SUFFICES ASSUME NEW l \in Listings, l \notin raced, l \notin behind
                 PROVE  /\ \A v \in Workers : \A x \in indexing'[v].left \cup indexing'[v].sent :
                             x.listing = l => Agrees(l, x.status)
                        /\ Idle(l)' => Agrees(l, document[l])
    BY <1>2 DEF DocumentsAgree, Agrees, vars
  <2>2. ASSUME NEW v \in Workers, NEW x \in indexing'[v].left \cup indexing'[v].sent, x.listing = l
        PROVE  Agrees(l, x.status)
    <3>1. CASE v = w /\ x = e
      <4>1. Agrees(l, d.status)
        BY <1>2, <2>1, <2>2, <3>1 DEF SearchInv, DocumentsAgree
      <4>. QED
        BY <1>2, <2>2, <3>1, <4>1 DEF Agrees
    <3>2. CASE x \in indexing[v].left \cup indexing[v].sent
      BY <2>1, <2>2, <3>2 DEF SearchInv, DocumentsAgree
    <3>. QED
      BY <1>3, <3>1, <3>2
  <2>3. Idle(l)' => Idle(l)
    <3>1. ASSUME NEW v \in Workers, IsIndexing(v, l)
          PROVE  IsIndexing(v, l)'
      <4>1. CASE v # w
        BY <1>3, <3>1, <4>1 DEF IsIndexing
      <4>2. CASE v = w
        <5>1. indexing[w].sent = {}
          BY DEF ReadDocument
        <5>2. PICK x \in indexing[w].left : x.listing = l
          BY <3>1, <4>2, <5>1 DEF IsIndexing
        <5>. QED
          BY <1>2, <1>3, <4>2, <5>2 DEF IsIndexing
      <4>. QED
        BY <4>1, <4>2
    <3>. QED
      BY <3>1 DEF Idle
  <2>. QED
    BY <2>1, <2>2, <2>3 DEF SearchInv, DocumentsAgree
<1>7. IndexTypes'
  <2>1. e \in AnyDocument
    <3>1. status \in Status \cup {"absent"}
      BY <1>2 DEF AnyDocument, Status, ListingRow
    <3>. QED
      BY <1>2, <3>1 DEF e, AnyDocument
  <2>2. indexing' = [indexing EXCEPT ![w].left = @ \ {d}, ![w].sent = {e}]
    BY <1>8 DEF e
  <2>. QED
    BY <1>0, <1>2, <2>1, <2>2 DEF SearchInv, IndexTypes
<1>9. OneIsSent'
  BY <1>3 DEF SearchInv, OneIsSent
<1>. QED
  BY <1>5, <1>6, <1>7, <1>9 DEF SearchInv

\* Worker w drops documents of listings: they are lost, or it has written one
\* that agrees with the row.
LEMMA DroppedKeepsDocuments ==
  ASSUME SearchInv, NEW w \in Workers, UNCHANGED vars, behind \subseteq behind',
         indexing' \in [Workers -> [left: SUBSET AnyDocument, sent: SUBSET AnyDocument]],
         document' \in [Listings -> Status \cup {"absent"}],
         \A v \in Workers : v # w => indexing'[v] = indexing[v],
         indexing'[w].left \subseteq indexing[w].left, indexing'[w].sent = {},
         indexing[w] # NoIndexing,
         \A l \in Listings \ (raced \cup behind') :
           \/ document'[l] = document[l] /\ (IsIndexing(w, l) => IsIndexing(w, l)')
           \/ Agrees(l, document'[l])
  PROVE  SearchInv'
<1>1. IndexTypes'
  BY DEF IndexTypes
<1>2. OneAtATime'
  BY DEF SearchInv, OneAtATime, vars
<1>3. OneIsSent'
  BY DEF SearchInv, OneIsSent
<1>4. ASSUME NEW l \in Listings, l \notin raced, l \notin behind'
      PROVE  /\ \A v \in Workers : \A d \in indexing'[v].left \cup indexing'[v].sent :
                  d.listing = l => Agrees(l, d.status)
             /\ Idle(l)' => Agrees(l, document'[l])
  <2>1. \A v \in Workers : \A d \in indexing'[v].left \cup indexing'[v].sent :
          d \in indexing[v].left \cup indexing[v].sent
    OBVIOUS
  <2>2. \A v \in Workers : v # w => (IsIndexing(v, l) => IsIndexing(v, l)')
    BY DEF IsIndexing
  <2>3. CASE document'[l] = document[l] /\ (IsIndexing(w, l) => IsIndexing(w, l)')
    BY <1>4, <2>1, <2>2, <2>3 DEF SearchInv, DocumentsAgree, Idle
  <2>4. CASE Agrees(l, document'[l])
    BY <1>4, <2>1, <2>4 DEF SearchInv, DocumentsAgree
  <2>. QED
    BY <1>4, <2>3, <2>4
<1>5. DocumentsAgree'
  BY <1>4 DEF DocumentsAgree, Agrees, vars
<1>. QED
  BY <1>1, <1>2, <1>3, <1>5 DEF SearchInv

LEMMA SentKeepsDocuments ==
  ASSUME SearchInv, NEW w \in Workers, WriteDocument(w) \/ LoseDocument(w)
  PROVE  SearchInv'
<1>0. /\ indexing \in [Workers -> [left: SUBSET AnyDocument, sent: SUBSET AnyDocument]]
      /\ document \in [Listings -> Status \cup {"absent"}]
  BY DEF SearchInv, IndexTypes
<1>1. PICK d \in indexing[w].sent :
        /\ indexing' = [indexing EXCEPT ![w].sent = {}] /\ UNCHANGED vars
        /\ \/ /\ document' = [document EXCEPT ![d.listing] = d.status]
              /\ behind' = behind
           \/ /\ document' \in {document, [document EXCEPT ![d.listing] = d.status]}
              /\ behind' = behind \cup {d.listing}
  BY DEF WriteDocument, LoseDocument
<1>2. d \in AnyDocument /\ d.listing \in Listings /\ d.status \in Status \cup {"absent"}
  BY <1>0, <1>1 DEF AnyDocument
<1>3. /\ \A v \in Workers : v # w => indexing'[v] = indexing[v]
      /\ indexing'[w].left = indexing[w].left /\ indexing'[w].sent = {}
      /\ indexing' \in [Workers -> [left: SUBSET AnyDocument, sent: SUBSET AnyDocument]]
  BY <1>0, <1>1
<1>4. document' \in [Listings -> Status \cup {"absent"}]
  BY <1>0, <1>1, <1>2
<1>5. indexing[w] # NoIndexing /\ behind \subseteq behind'
  BY <1>1, NothingToIndex
<1>6. ASSUME NEW l \in Listings, l \notin raced, l \notin behind'
      PROVE  \/ document'[l] = document[l] /\ (IsIndexing(w, l) => IsIndexing(w, l)')
             \/ Agrees(l, document'[l])
  <2>1. CASE l = d.listing
    <3>1. l \notin behind /\ document' = [document EXCEPT ![d.listing] = d.status]
      BY <1>1, <1>6, <2>1
    <3>2. Agrees(l, d.status)
      BY <1>1, <1>6, <2>1, <3>1 DEF SearchInv, DocumentsAgree
    <3>. QED
      BY <1>0, <1>2, <2>1, <3>1, <3>2
  <2>2. CASE l # d.listing
    <3>1. document'[l] = document[l]
      BY <1>0, <1>1, <2>2
    <3>2. \A e \in indexing[w].sent : e.listing # l
      BY <1>1, <2>2 DEF SearchInv, OneIsSent
    <3>. QED
      BY <1>3, <3>1, <3>2 DEF IsIndexing
  <2>. QED
    BY <2>1, <2>2
<1>. QED
  BY <1>1, <1>3, <1>4, <1>5, <1>6, DroppedKeepsDocuments

LEMMA LostWorkerKeepsDocuments ==
  ASSUME SearchInv, NEW w \in Workers, LoseWorker(w)
  PROVE  SearchInv'
<1>0. /\ indexing \in [Workers -> [left: SUBSET AnyDocument, sent: SUBSET AnyDocument]]
      /\ document \in [Listings -> Status \cup {"absent"}]
  BY DEF SearchInv, IndexTypes
<1>1. /\ indexing' = [indexing EXCEPT ![w] = NoIndexing] /\ indexing[w] # NoIndexing
      /\ UNCHANGED vars
      /\ behind' = behind \cup {l \in Listings : IsIndexing(w, l)}
      /\ document' \in {document}
           \cup {[document EXCEPT ![d.listing] = d.status] : d \in indexing[w].sent}
  BY DEF LoseWorker
<1>2. /\ indexing'[w] = NoIndexing /\ \A v \in Workers : v # w => indexing'[v] = indexing[v]
      /\ indexing' \in [Workers -> [left: SUBSET AnyDocument, sent: SUBSET AnyDocument]]
  BY <1>0, <1>1, NothingToIndex
<1>5. document' = document \/ \E d \in indexing[w].sent :
        document' = [document EXCEPT ![d.listing] = d.status]
  BY <1>1
<1>6. ASSUME NEW d \in indexing[w].sent
      PROVE  d.listing \in Listings /\ d.status \in Status \cup {"absent"}
             /\ IsIndexing(w, d.listing)
  BY <1>0, <1>6 DEF AnyDocument, IsIndexing
<1>7. document' \in [Listings -> Status \cup {"absent"}]
  BY <1>0, <1>5, <1>6
<1>3. ASSUME NEW l \in Listings, l \notin raced, l \notin behind'
      PROVE  document'[l] = document[l] /\ (IsIndexing(w, l) => IsIndexing(w, l)')
  <2>1. ~ IsIndexing(w, l)
    BY <1>1, <1>3
  <2>2. \A d \in indexing[w].sent : d.listing # l
    BY <2>1, <1>6
  <2>. QED
    BY <1>0, <1>5, <2>1, <2>2
<1>4. behind \subseteq behind' /\ indexing'[w].left = {} /\ indexing'[w].sent = {}
  BY <1>1, <1>2, NothingToIndex
<1>. QED
  BY <1>0, <1>1, <1>2, <1>3, <1>4, <1>7, DroppedKeepsDocuments

LEMMA SearchStep ==
  ASSUME TypeInv, RowInv, SearchInv, [SearchNext]_<<vars, searchVars>>
  PROVE  SearchInv'
<1>1. CASE UNCHANGED <<vars, searchVars>>
  <2>1. UNCHANGED <<listing, batch, raced>>
    BY <1>1 DEF vars
  <2>2. DocumentsAgree'
    BY <1>1, <2>1, DocumentsQuiet
  <2>. QED
    BY <1>1, <2>1, <2>2 DEF searchVars, SearchInv, IndexTypes, OneAtATime, OneIsSent
<1>. QED
  BY <1>1, IngestKeepsDocuments, CommitKeepsDocuments, ReadKeepsDocuments,
     SentKeepsDocuments, LostWorkerKeepsDocuments DEF SearchNext, IndexStep

\* The index hides nothing that is on offer: a search finds what the database
\* alone would, but for listings that are being indexed, whose document was
\* lost or overtaken by another worker's, or whose row two batches changed at
\* once (index_listing, search_ids, list_listings).
THEOREM SearchSafe == SearchSpec => []SearchFindsActive
<1>1. SearchInit => SearchInv
  <2>1. SUFFICES ASSUME SearchInit
                 PROVE  SearchInv
    OBVIOUS
  <2>2. IndexTypes
    BY <2>1, NothingToIndex DEF SearchInit, IndexTypes
  <2>3. OneAtATime /\ OneIsSent
    BY <2>1, NothingToIndex DEF SearchInit, OneAtATime, OneIsSent
  <2>4. \A l \in Listings : listing[l].status = "absent" /\ document[l] = "absent"
    BY <2>1 DEF SearchInit, Init, NoListing
  <2>5. \A w \in Workers : indexing[w].left \cup indexing[w].sent = {}
    BY <2>1, NothingToIndex DEF SearchInit
  <2>. QED
    BY <2>2, <2>3, <2>4, <2>5 DEF SearchInv, DocumentsAgree, Agrees
<1>2. TypeInv /\ SearchInv => SearchFindsActive
  <2>1. SUFFICES ASSUME TypeInv, SearchInv,
                        NEW l \in Rows("active") \ (raced \cup behind), Idle(l)
                 PROVE  l \in Search("active")
    BY DEF SearchFindsActive, Idle
  <2>2. l \in Listings /\ listing[l].status = "active"
    BY DEF Rows
  <2>3. document[l] = "active"
    BY <2>1, <2>2 DEF SearchInv, DocumentsAgree, Agrees
  <2>. QED
    BY <2>2, <2>3 DEF Search, SearchIds, Rows
<1>3. SearchInit => TypeInv /\ RowInv
  BY TypeInit, RowsInit DEF SearchInit
<1>4. TypeInv /\ RowInv /\ SearchInv /\ [SearchNext]_<<vars, searchVars>>
        => (TypeInv /\ RowInv /\ SearchInv)'
  BY IngestsStep, TypeStep, RowsStep, SearchStep
<1>. QED
  BY <1>1, <1>2, <1>3, <1>4, PTL DEF SearchSpec
=============================================================================

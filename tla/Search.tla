--------------------------------- MODULE Search --------------------------------
(***************************************************************************)
(* The OpenSearch projection of the listings (platform/search.py), which a *)
(* worker writes once its batch is committed (ingest_records), and the     *)
(* search of the API, which asks it for ids and the database for the rows  *)
(* (list_listings in api/routes.py and platform/repository.py).            *)
(*                                                                         *)
(* Of a document only the status of the listing matters here: like texts   *)
(* and prices it is written by the batches, and unlike them it is changed  *)
(* by the maintenance task, too, which leaves the documents as they are.   *)
(***************************************************************************)
EXTENDS Ingest

CONSTANT MaxOutages \* bound of the documents that are not written

ASSUME SearchAssumption == MaxOutages \in Nat

VARIABLES
  document, \* the documents of the index, by listing: their status, or "absent"
  indexing, \* per worker: the listings of its batch that are still to be
            \* indexed, and the document that is being sent
  outages,
  behind    \* history: listings whose documents since the last batch that
            \* indexed them alone were lost, or written by two workers at once

searchVars == <<document, indexing, outages, behind>>

Status == Seen \cup {"stale"}
Document == [listing: Listings, status: Status]
NoIndexing == [left |-> {}, sent |-> {}]

SearchTypeOK ==
  /\ document \in [Listings -> Status \cup {"absent"}]
  /\ indexing \in [Workers -> [left: SUBSET Document, sent: SUBSET Document]]
  /\ outages \in 0 .. MaxOutages
  /\ behind \subseteq Listings

SearchInit ==
  /\ Init
  /\ document = [l \in Listings |-> "absent"]
  /\ indexing = [w \in Workers |-> NoIndexing]
  /\ outages = 0 /\ behind = {}

Outage == outages < MaxOutages /\ outages' = outages + 1
IsIndexing(w, l) == \E d \in indexing[w].left \cup indexing[w].sent : d.listing = l

-----------------------------------------------------------------------------
\* Mutant: only listings that are new are indexed.
IndexedNew(w) ==
  {[listing |-> f.listing, status |-> f.status] :
     f \in {x \in batch[w].flushed : listing[x.listing].status = "absent"}}

\* indexed_ids, with the status the session has of each listing.
Indexed(w) == {[listing |-> f.listing, status |-> f.status] : f \in batch[w].flushed}

CommitAndIndex(w) ==
  /\ CommitBatch(w)
  /\ indexing' = [indexing EXCEPT ![w].left = Indexed(w)]
  /\ behind' = {l \in behind : l \notin FlushedBy(w)}
                 \cup {l \in FlushedBy(w) : \E v \in Workers : IsIndexing(v, l)}
  /\ UNCHANGED <<document, outages>>

\* index_listing selects the listing.  The session does not expire what it has
\* (expire_on_commit=False), but holds it weakly: the document is made of the
\* values the batch wrote or, once those are collected, of the row of now.
ReadDocument(w) ==
  /\ indexing[w].sent = {}
  /\ \E d \in indexing[w].left : \E status \in {d.status, listing[d.listing].status} :
       indexing' = [indexing EXCEPT ![w].left = @ \ {d},
                                    ![w].sent = {[d EXCEPT !.status = status]}]
  /\ UNCHANGED <<vars, document, outages, behind>>

\* client.index, which replaces the document of the listing.  Searches see it
\* at the next refresh of the index, which is taken for a part of the write.
WriteDocument(w) ==
  \E d \in indexing[w].sent :
    /\ document' = [document EXCEPT ![d.listing] = d.status]
    /\ indexing' = [indexing EXCEPT ![w].sent = {}]
    /\ UNCHANGED <<vars, outages, behind>>

\* OpenSearch cannot be reached, or does not answer in time: a warning, and on
\* to the next listing.
LoseDocument(w) ==
  \E d \in indexing[w].sent :
    /\ Outage
    /\ document' \in {document, [document EXCEPT ![d.listing] = d.status]}
    /\ behind' = behind \cup {d.listing}
    /\ indexing' = [indexing EXCEPT ![w].sent = {}]
    /\ UNCHANGED vars

\* The worker is lost, and with it what it was to index, but for a document
\* that was on its way.
LoseWorker(w) ==
  /\ Outage
  /\ indexing[w] # NoIndexing
  /\ behind' = behind \cup {l \in Listings : IsIndexing(w, l)}
  /\ indexing' = [indexing EXCEPT ![w] = NoIndexing]
  /\ document' \in {document}
       \cup {[document EXCEPT ![d.listing] = d.status] : d \in indexing[w].sent}
  /\ UNCHANGED vars

IndexStep(w) == ReadDocument(w) \/ WriteDocument(w)

-----------------------------------------------------------------------------
\* A worker indexes its batch before it takes the next.
IngestStep ==
  /\ \/ Tick
     \/ \E w \in Workers :
          \/ /\ indexing[w] = NoIndexing
             /\ \E records \in (SUBSET Listings) \ {{}} : StartBatch(w, records)
          \/ \E l \in Listings : LoadListing(w, l)
          \/ \E status \in Seen : FlushListing(w, status)
          \/ AbortBatch(w)
     \/ UpkeepStep
     \/ AbortUpkeep
  /\ UNCHANGED searchVars

SearchNext ==
  \/ IngestStep
  \/ \E w \in Workers : CommitAndIndex(w) \/ IndexStep(w) \/ LoseDocument(w) \/ LoseWorker(w)

SearchSpec == SearchInit /\ [][SearchNext]_<<vars, searchVars>>

\* A worker goes on with its documents: requests to OpenSearch time out.
FairSearchSpec ==
  /\ SearchSpec
  /\ Fairness
  /\ \A w \in Workers : WF_<<vars, searchVars>>(IndexStep(w))

-----------------------------------------------------------------------------
\* search_ids: those whose documents have the status that is asked for.
SearchIds(status) == {l \in Listings : document[l] = status}

\* list_listings of the API for a text: of those, the rows that have it.
\* Without an index, or without an answer from it, all rows that have it.
Rows(status) == {l \in Listings : listing[l].status = status}
Search(status) == Rows(status) \cap SearchIds(status)

\* The index hides nothing that is on offer: a search finds what the database
\* alone would, but for listings that are being indexed, whose document was
\* lost or overtaken by another worker's, or whose row two batches changed at
\* once.  This holds although maintenance marks rows and no document
\* (index_listing, mark_stale_listings).
SearchFindsActive ==
  \A l \in Rows("active") \ (raced \cup behind) :
    l \in Search("active") \/ \E w \in Workers : IsIndexing(w, l)
=============================================================================

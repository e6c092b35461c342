# Verification of the Hong Kong iPhone market platform

TLA+ modules that model the parts of this repository where order matters, the
TLC runs that check them on small instances, and theorems about them that
TLAPS checks for every value of the constants. File and line references are to
`src/`.

* Check a module: `tlc -workers 2 -config CheckoutLedger.cfg MCCheckout`
* Check the proofs: `tlapm CheckoutProofs.tla`

## 1. The system

| Component | State it keeps | Operations |
|---|---|---|
| **Checkout** `platform/payments.py` | orders, payment intents, refunds, PSP events | place, cancel, pay, webhook, fulfil, confirm, refund, restock |
| **Ledger** `payments.py`, `models.py` | journals and entries, settlements | payment, settlement and refund journals, each posted once |
| **Identity** `platform/identity.py`, `api/auth.py` | users, roles, sessions, cached OIDC keys | register, log in, log out, authenticate, bootstrap |
| **Catalogue** `platform/commerce.py`, `api/routes.py` | merchants, inventory items, seller listings | apply, approve, create, list at once, publish |
| **Ingest** `platform/ingest.py`, `repository.py` | listings, snapshots, raw captures, objects | ingest a batch |
| **Search index** `platform/search.py` | documents in OpenSearch | index a batch, search |
| **Maintenance** `platform/tasks.py` | the rows of ingest, clusters, valuations, alerts | mark stale, expire captures, rebuild, value, alert |
| **Collection task** `platform/tasks.py`, `celery_app.py` | messages, browser slots in Redis, source runs, dead letters | deliver, take a slot, collect, retry, acknowledge |
| **Collectors** `collectors/base.py`, `collection.py` | results of a source's variants | ask for a variant, give up, normalize, store |
| **Valuation and alerts** `platform/services.py`, `ai/*` | valuations, watchlists, alerts | estimate, rank, evaluate |
| **Legacy pipeline** `collection.py`, `db.py`, `browser.py`, `status.py` | SQLite runs, source runs, listings, rates, the browser profile | collect, recover, log in, show, appraise |
| HTTP API, web front end, dashboard, reports, CLIs | none of their own | translate and render |

How they interact: the API calls checkout and catalogue operations, each in one
database transaction; the PSP (Stripe, or a mock in development) is called from
inside such a transaction and answers once more, later, with webhooks. Celery
Beat sends one collection task per source every day and a maintenance task
every hour; collection tasks compete for browser slots, ingest what they saw in
one transaction, index it after the commit, and record the run in others.
Ingest and maintenance meet in the rows of `listings` and `raw_captures`,
catalogue and checkout in those of `seller_listings` and `inventory_items`. The
legacy pipeline is a program of its own, which shares the collectors and the
arithmetic of the estimates.

What makes it hard:

* *Webhooks* arrive twice, late, out of order, and for things the platform
  rolled back. Handlers read orders without a lock and decide on what they read.
* *Refunds* span two systems: the PSP can refund what the platform forgot.
* *Reservations* live in three rows (order, listing, item) that handlers must
  move together.
* *Requests* flush their session row, and a publication its listing and item,
  over whatever was committed since they were read. Merchants have no unique
  owner, and are as old as their insertion, which may become visible late. API
  processes seed the same database when they start together.
* *Transactions* of ingest and maintenance interleave, and neither the object
  store nor the search index takes part in them.
* *Jobs* that delete and rebuild the same clusters and look for the same alerts
  run at the same time; what a DELETE removes depends on when it begins.
* *Tasks* are delivered again, slots expire under their holder, workers die.
* *Collections* of the command line end at any point, and the next one declares
  those failed that may still be running. What is shown and appraised is read in
  several steps beside them.
* *Estimates* are integer boundaries over samples with outliers.

What makes each part correct; where the code lets an interleaving break it, the
property names exactly the rows it happened to (a history variable), and holds of
all others:

* Checkout: money is captured, settled and reversed at most once, only what the
  PSP really took or gave back, and every capture and every refund the platform
  knows ends up in the books, but for a refund that fails after it succeeded; a
  phone is reserved exactly while one order holds it, unless a handler wrote over
  an order, or a publication over a reservation.
* Identity and catalogue: a logged-out session stays so, retired keys expire,
  whoever serves has an administrator; a seller keeps their merchant, unless an
  earlier one becomes visible later; what is offered can be ordered, unless it was
  published over a change.
* Ingest, search and maintenance: a listing agrees with its snapshots, unless a
  batch wrote over a change; a capture lives exactly until it expires; what nobody
  sees any more is marked; a search finds what is on offer, but for documents that
  are on their way, lost or overtaken; the clusters become those of the listings
  there are; a match gets one alert, unless two jobs looked for it together.
* Collection: no task is lost other than by a dead letter that cannot be written,
  each ends, browsers stay within the slots and the keys that broke; a site that
  refuses is left alone.
* Legacy: what the file calls running is; a finished run says what its sources
  say; a collection that is run again replaces what is shown; what is offered is
  never older than the estimate it is judged by.
* Estimates: three comparables always make one, and a high priority means what
  it says.

## 2. Modules

| Module | What it is |
|---|---|
| `OrderRows` | the columns of order, refund and settlement rows that decide anything, and what each handler does to them, as pure operators |
| `Checkout` | the marketplace with serialized handlers, the PSP and its events |
| `Escrow` | the abstract promise about an order's money: capture, then settle or reverse |
| `UnitOfWork` | what a SQLAlchemy session flushes: the columns that changed since they were loaded |
| `CheckoutRC` | `Checkout` under READ COMMITTED: handlers that read without a lock run in two steps |
| `Accounts` | users, sessions, credentials, merchants and API processes, with requests that overlap |
| `Catalogue` | `Accounts` with items and seller listings, and what orders do to them |
| `Ingest` | batches of observations and the maintenance task as interleaved transactions, with the object store and a clock |
| `Search` | `Ingest` with the OpenSearch projection that workers write after the commit |
| `Clusters` | the groups of listings a rebuild can form, as an operator |
| `Market` | clusters, the valuation of the day and alerts, derived by jobs that overlap |
| `CollectionTask` | the Celery task, browser slots, retries, dead letters, source runs |
| `Pricing` | percentiles, outlier removal, confidence, scores, as operators |
| `Appraisal` | one source's collections over its variants, and `Pricing` of what they stored |
| `Legacy` | the command line's collections into SQLite |
| `Opportunities` | `Legacy` with an estimate that reads it on two connections |
| `MC*` | the instances TLC checks |
| `CheckoutProofs` | theorems about `Checkout` |
| `CheckoutRCProofs` | theorems about `CheckoutRC`, built on those about `Checkout` |
| `IngestProofs`, `TaskProofs`, `CatalogueProofs` | theorems about `Ingest` with `Search`, `CollectionTask`, and `Accounts` with `Catalogue` |
| `MarketProofs`, `LegacyProofs`, `AppraisalProofs` | theorems about `Market`, `Legacy` with `Opportunities`, and `Appraisal` with `Pricing` |

`CheckoutRC` extends `Checkout`: handlers that lock their rows are the same
actions in both, the others are split into a read and a commit built from the
same row operators. `CheckoutRC`, `Ingest` and `Accounts` share `UnitOfWork`.
`Catalogue` extends `Accounts`, `Search` extends `Ingest`, `Opportunities` extends
`Legacy`, `Market` uses `Clusters`, `Appraisal` uses `Pricing`: each is checked with
the module it is built on.

### Checkout

State: `order`, `intent`, `refund`, `settlement`, `listing`, `stock`,
`merchant` are the rows; `captured`, `settled`, `reversed` the journals (a
journal is posted once by its unique reference, so a set of orders or of
refunds is enough); `restocked` the `inventory_restocked` events; `processed`
the stored PSP event ids. `charge`, `pspRefund` and `sent` are the PSP.
`republished` is a history variable.

Actions: `PlaceOrder`, `Cancel`, `CreateIntent`, `Fulfil`, `ConfirmReceipt`,
`RequestRefundSucceeded/Unsettled/Lost` (one per way the PSP can answer),
`Restock`, `Publish`, `SetMerchantStatus`, `MockCheckout`, one action per kind
of event in `process_webhook`, and `BuyerPays`, `AttemptFails`,
`PspRefundSucceeds`, `PspRefundFails` for the PSP.

Abstractions:

* A handler that raises rolls its transaction back: the action is not enabled.
  This includes webhooks whose order or refund cannot be found; the PSP sends
  them again.
* An order id stands for a buyer and an Idempotency-Key and fixes the item, so
  a repeated request finds the order that exists and does nothing.
* Merchant statuses other than `active` differ in nothing the handlers read.
* A refund event without a known reference is applied to *the last* refund row
  of the order; the model takes any of its rows, which includes the last.
* `Subscribed` is the set of event types the endpoint receives. "intent_failed"
  stands for every type whose name contains "failed" or "expired".
* The mock provider answers synchronously and sends no events. A lost answer of
  `create_intent` changes nothing, as the PSP key is the order's.
* Amounts: an order has a total that is zero or not; every journal of an order
  moves all of it. Commission and rounding are planned (Money).

### CheckoutRC

`cancel_order` and `process_webhook` select without `FOR UPDATE` (payments.py:504
and 600), as does `publish_seller_listing` (commerce.py:332), and go on with what
they read. `work[s]` holds what a session read;
`...Commit` writes the columns that changed (`Columns`) over what is there by
then, as the session does. `cancel_order` does lock the listing and the item
later, but the session keeps the attributes it loaded first. A publication locks
nothing: `PublishCommit` can write "active" and "available" over a reservation that
was made since `PublishBegin` read the rows, as well as over one it read
(`republished`). Unique keys and lock waits make the rest of the handlers single
steps (`LockedStep`). `Abort` is any rollback.
PostgreSQL 16 is what `docker-compose.yml` runs; SQLite, the development default,
ignores `FOR UPDATE` and serializes writers.

### Accounts and Catalogue

A request is one transaction. It authenticates by its session row, its platform
key or its ID token, and goes on with what it read. Where the rest of it only
inserts under unique keys, or writes what nobody reads in between, the whole
request is one action (`Register`, `CreateUser`, `CreateItem`, ...). Where it
decides on what it read it is two or three: `Begin...` reads, `InsertMerchant`
flushes, `Finish...` commits, and `Abort` is any rollback. A merchant is inserted
with the `created_at` of its flush (`BeginCreate`, `InsertMerchant`) and becomes
visible at the commit (`FinishCreate`, `FinishApply`), so an older one can appear
after a younger one, and is then the one that counts (`Oldest`). `Flushed` writes the
session row at the commit, column by column: `last_seen_at`, which every request
writes and nothing reads, is left out.

`Reserve` and `Release` are what `Checkout` does to the listing and the item of
an order; both take the locks first. A publication (`BeginPublish`,
`FinishPublish`) takes none. `disturbed` and `raced` are history variables: they
name the items published over a change, and the users of whom a merchant became
visible while one that was inserted before it was not (`Overtakes`). Neither is prevented by the code,
and the properties except exactly these.

Texts and prices of items, and their editing, are left out. `users.status` is
written by nothing in the code, and by operators in the model.

### Ingest and Search

A batch loads a listing, flushes it (from then on its row is locked), and
commits all; the capture is in the object store before the row is loaded.
Maintenance marks the stale rows, deletes the objects of expired captures one
by one, and commits. Either can be rolled back at any point. The clock ticks
between any two steps. The limit of 1000 captures per run is left out; the
clusters, valuations and alerts of the same transaction are `Market`'s, and
their failure is `AbortUpkeep`. A row that was loaded before another batch or
maintenance changed it is flushed over the change: such listings are `raced`,
and `RowMatchesHistory` excepts them (a listing that was just seen may stay
stale that way).

In `Search`, `CommitBatch` also leaves the worker with the documents to write.
`WriteDocument` replaces a document with what the worker read last; another
worker's may be newer. A document that cannot be written is dropped with a
warning (`LoseDocument`), as are those of a worker that dies. Maintenance writes
no documents, so a search by text for *stale* listings finds none through the
index; one for active listings asks the database for the rows, and is right.
The index is taken to be there before the first batch.

### Market

`job[j]` is a maintenance task or an operator's rebuild in progress, with what
it read and what it wrote but did not commit. A statement sees what is committed
when it begins. `rebuild_clusters` is four steps. `Empty` (or `BeginRebuild`) begins
the DELETE of the members, for the clusters there are by then (`snapshot`). It
waits where another job has deleted some of these, and goes on without them when
that job commits, blind to what that job inserted; `Delete` is its end and the
beginning of the second DELETE, which sees that, and takes the members along by
`ON DELETE CASCADE`. `Group` is its end, the SELECT and the grouping, and `Insert`
the insertion, which waits for and fails on a listing that is in a cluster already
(`Collides`). So of two jobs that overlap one may replace the other's clusters,
fail, or leave both sets side by side. `Value` and `Save` are the read and the
write of the valuation, `Alert` the look for alerts there are; two jobs that look
before either commits both insert (`doubled`). The listings
are those of one variant: clusters, valuations and watchlists never mix two.

### CollectionTask

`worker[w]` is the attempt in progress with its phase; `slot` the Redis keys,
whose value is the holder's token ("orphan": a holder that is over). `Probe`
goes through the slots one by one, `ReadSlot` and `DeleteSlot` are the two
steps of the release. `run` is the row of `source_runs` of the attempt, `ghosts`
the tasks with such a row left "running". What goes wrong is bounded by
`MaxFaults` (lost workers, second deliveries, databases and brokers that cannot
be reached) and `MaxBreaches` (keys that expire under their holder, falls back
to the process lock). Equal copies of a message are one message.

### Appraisal and Pricing

`Ask` is one variant's page with its outcome, `Skip` a variant after the source
was given up, `Store` the normalization and the rows of the whole collection.
The pages a variant can show are a constant, down to cards of another variant,
new phones, and phones without a price. `Pricing` computes exactly: quarters of
the currency for percentiles, sixteenths for the deviation. The Python code
computes with floats, on the platform (`services.py`) as in `ai/`; results that
differ in the last digit are outside the model.

### Legacy and Opportunities

`proc[p]` is a collection in progress in one process. Every commit is one
action: `Start` (recovery and the new run), `StartSource`, `Collect` or
`SourceFails`, `RecordUnstarted` with `OpenFails` or `Break`, `Finish`. A process may end
between any two (`End`). `Shown` is the one statement of `listing_rows` that says
which run's listings are shown for a source.

`find_opportunities` opens the file twice. `Estimate` is its first connection
(`estimate_valuation`), which keeps the date and the comparables in `estimate`;
`Candidates` is what the second one finds, evaluated in every later state, so that
any collection may commit in between. Prices and the removal of outliers are
`Pricing`'s.

## 3. Runs

| Run | Question | Instance |
|---|---|---|
| `checkout_ledger` | does the ledger agree with the PSP, implement `Escrow`, and are captures and refunds resolved in the end? | one order, two refunds, both providers, five event kinds |
| `checkout_stock` | is a phone reserved exactly while one order holds it? | two orders for one item, a refund each, the four other event kinds, merchants suspended |
| `checkout_rc` | does the money survive interleaved handlers? | one order, one refund, two sessions |
| `checkout_rc_stock` | does the inventory? | two orders for one item, which is also published, one refund, events of success only, two sessions |
| `ingest` | do listings, captures, snapshots and documents agree while batches and maintenance overlap? | one listing, two workers, two batches, clock to 2, one failed maintenance, one document or worker lost |
| `collection_task` | is no task lost, do browsers stay within the slots, does everything end? | two tasks, two workers, one slot, one retry, one fault and one breach |
| `catalogue` | do overlapping requests keep sessions, merchants and offers right, and starting processes the administrator? | two users, a session, two merchants, two requests, two API processes, two keys, one item, three operations |
| `market` | what do overlapping jobs leave, and is every match alerted? | two listings of two sources at two prices, two jobs, a watchlist with a page of one, two changes, one failure |
| `legacy` | what do overlapping and interrupted collections leave in the file, and what is shown and offered of it? | the scheduled task and a terminal, two sources, two dates, two runs, two faults |
| `appraisal` | is a site left alone that refuses, and do samples become estimates as documented? | four variants, two collections, other samples of none, one or six comparables at five prices |

Two further runs are expected to be violated; each shows a disagreement between
the code and what `README.md` of the repository says:

| Run | What it shows |
|---|---|
| `checkout_double_sale` | publishing a listing whose item is reserved makes the item available: two orders hold one phone (README.md:449) |
| `checkout_payment_status` | a failure event after the success marks a captured payment as failed (README.md:450) |

**Bounds.** No handler touches two items or two orders, other than through the
item they share, so one item with two orders shows every conflict over stock,
and one order every conflict over its money; two refunds are what it takes to
reverse twice. A lost update takes two sessions, a doubled alert or clusters of two
jobs side by side two jobs, a second merchant two requests. A capture's two
ends, and a document with two writers, need one listing: batches lock rows in
the order of their records, and the theorems cover any number. One slot, two
workers and one retry make slots contended and retries run out; one breach is
enough for two browsers, one fault for a redelivery or an orphaned key.
`Horizon = 2` with `StaleAfter = 1` and `Retention = 1` lets a listing become
stale and a capture expire after both were written at 0. In `Market` the listings change
no more after `MaxChanges`, which is when the clusters catch up; a page of one makes the newest listing hide the other, and 100 and 104 are further apart
than the 3 % of a cluster. In `Legacy` the second run is the one that recovers
the first; two faults end both, or one and a browser. In `Appraisal` four
variants are two failures, an answer and what follows, and samples reach 36
comparables, beyond each threshold of `Confidence` (5, 8, 20) and of the
liquidity table (30). In `Catalogue` the three operations (`MaxWork`) are logins,
edits and requests of two steps: two requests that overlap, and a login or an
edit that they need or race with. Creating the item and its listing, which happens
once, does not count.

**Deadlock** is checked where the system never stops. It may stop in the
`CheckoutRC` instances (an item that never passes inspection is never
published), in `CollectionTask` (every task has ended), and in `Catalogue`,
`Market`, `Legacy` and `Appraisal` when their bounds are used up.

**Fairness.** `Checkout`: weak fairness of every webhook (Stripe repeats an
event for days until it is accepted) and of the PSP settling a pending refund.
No buyer, seller or operator is assumed to do anything. `Ingest`: a batch that
has begun commits or rolls back, and the maintenance task, started every hour,
goes on; at most `MaxFailures` of them fail. `Search` adds that a worker goes on
with its documents (requests to OpenSearch time out after 10 s). `Market`: Beat
sends the maintenance task every hour and workers go on with jobs; not that any
particular job is the one to go on. `CollectionTask`: workers take messages and go on
with attempts, whose waits all have timeouts (`browser.py:52`), and orphaned
keys expire (`ex=7200`).

**What the runs say of the code**, besides that the properties hold:

* A refund that fails after it succeeded leaves its reversal posted, and the
  next refund reverses the same money again. `OverdrawnOnlyByFailure` says this is
  the only way.
* Of two sessions that write one order, the second can undo the first's status,
  and a publication that was read before an order puts its item on sale again;
  `UndisturbedExclusive` speaks of items without either.
* A refund whose answer was lost stays unknown: the money is back with the buyer and
  not reversed here. What the ledger does say is still true.
* A merchant that an operator creates for a seller, or an application of theirs,
  replaces the one they have been using if it was inserted before that one and
  committed after it; `SellerKeepsMerchant` excepts these users (`raced`).
* Two jobs that rebuild the clusters can leave both of their results side by side,
  never with a listing in two (`ClustersPairwiseDisjoint`); a later rebuild makes it
  good (`ClustersCatchUp`).
* The dashboard reads the listings of a day, the day's newest run and its source
  results by separate statements (dashboard.py:71, 112, 113): the states it shows
  may be of a later run than the listings beside them. No property speaks of the two
  together; `LatestSnapshotShown` is about the listings, which are one statement.
* A listing that is seen while maintenance marks it can stay stale
  (`RowMatchesHistory` excepts it), and a document that could not be written hides
  its listing from searches by text until its next batch; `README.md:18` promises
  the database only where OpenSearch cannot be reached by the *search*.
* When a source is named twice on the command line, the run keeps one adapter and
  one result for the name but counts it twice (`collection.py:248`): a row can
  stay running, or the run end with a status its rows do not have. The properties
  except such `Repeated` runs.
* Three rounds of outlier removal can take more than half of a sample, but
  never leave fewer than four of eight. A listing that was removed as an outlier
  can still be an opportunity of high priority.

## 4. Proofs

The theorems hold for every value of the constants. They assume no more than
the named assumptions on the constants in the modules themselves: their types,
that a database holds finitely many things (listings, items of a site, workers
at a time), and that the value which stands for "no row" is not a row.

**Checkout**, for any sets of items, orders, refunds and merchants and any totals:

* `TypeCorrect`: the type invariant.
* `PspTruthful`: the PSP's events are true. An event that says a charge
  succeeded was sent for a captured charge, one that says a refund succeeded
  for a refund that was made. It is the strengthening that makes the others
  inductive: the platform learns of the PSP only through its answers and events.
* `CaptureSafe` (`CaptureBacked`): with `PspTruth`, a state past payment has its
  journal, and a journal its charge.
* Steps are then classified (`StepKinds`): a step either leaves refunds,
  settlements and journals of an order alone, books a payment, confirms receipt, or
  finalizes a refund. `SettlementSafe`, `RefundSafe` and `LedgerIsEscrow` (the
  refinement of `Escrow`) each need one case per kind only.
* `RefundsOnPaidOrders`: refund rows exist only for orders past payment. Hence
  a refund event never moves an unpaid or cancelled order, which
  `OrdersMoveForward` (`OnlyRefundFailureRegresses`) and `ReservationSafe`
  (`ReservationExclusive`) rest on. The latter is inductive together with the
  count of holders: at most one order of an item holds it.
* `OverdrawSafe` (`OverdrawnOnlyByFailure`): without a failure event an order is
  reversed once (`ReversedOnce`), so no account goes below zero.

**CheckoutRC**, for any number of sessions besides. A step of a handler that locks
is a step of `Checkout`, so the lemmas above apply; what is proved anew are the
commits of handlers whose rows may be stale:

* `RCTypeCorrect`: types, with `Found`: the order a cancellation read was waiting
  for its payment, and a refund row that was found is still there.
* `RCCaptureSafe`, `RCSettlementSafe`, `RCRefundSafe`, `RCLedgerIsEscrow`: commits
  are classified (`CommitKinds`) into those that leave refunds and settlements
  alone (`QuietStep`) and those that book a reversal (`ReversalStep`), perhaps the
  second one of the order. The ledger keeps all it promises.
* `RCReservationSafe` (`UndisturbedExclusive`): of an order no lost update touched,
  a refund row still means that it is past its payment (`UndisturbedPaid`), and a
  cancellation that read it also read that its item was reserved (`SawReserved`). A
  publication that wrote over no reservation leaves what is reserved reserved
  (`PublishWrites`).

**Ingest**, for any listings and workers, any ages, clock and number of batches:

* `TypeCorrect` (of `Ingest`), with `Numbered`: records in progress belong
  to a numbered batch.
* `CapturesSurvive` (`CapturesKept`): the invariant also speaks of the records
  being ingested, whose objects are stored before any row refers to them, and of
  the captures maintenance has picked, which have expired.
* `RowsMatch` (`RowMatchesHistory`): `LocksHeld` says that no two transactions
  have the same row flushed or marked. Hence the row does not change between a
  flush and its commit, and what was right at the flush (`FlushFits`: the new
  row follows the row in the database) is right at the commit.

**CollectionTask**, for any number of tasks, workers, slots, retries and faults:

* `TasksKept` (`NothingForgotten`): an acknowledged attempt was settled before,
  and its retry may by then be anywhere; so the invariant (`Carried`) does
  without the attempts that only wait to be acknowledged.
* `DeadLettersEarned` (`DeadAfterAllRetries`): a message with retry number *r*
  exists only once its task failed at every number below *r*.
* `RunsEnded` (`RunsEnd`): before anything breaks, a run is "running" only in the
  phases that end it.
* `BrowsersLimited` (`BrowsersBounded`): attempts inside the slot either hold
  its key or are *keyless*. Holders are as many as slots at most; the keyless
  are never more than breaches, since a release that deletes the key of
  another attempt ends one keyless attempt and makes one.

**Search**, for any listings, workers, batches and outages:

* `SearchIngests`: every step of `Search` is a step of `Ingest` or leaves it
  alone, so what is proved of `Ingest` holds with the index.
* `SearchSafe` (`SearchFindsActive`): a document that is being written has the
  status of a batch or of the row, and the row of a listing no batch is flushing
  agrees with the last commit; maintenance only takes rows out of the offer.

**Accounts and Catalogue**, for any users, tokens, merchants, requests, API
processes, keys and items:

* `CatalogueTyped`: types, and that rows refer to rows (`Linked`).
* `RevocationHolds` (`RevokedForGood`): a flush changes `revoked` only from false
  to true (`FlushedRow`).
* `AdminThere` (`AdminInPlace`): roles are only added, rows only inserted.
* `KeysExpire` (`RetiredKeysExpire`): the cache ends within `KeyTtl` of now, and of
  the retirement of every key in it (`KeyInv`).
* `OffersSafe` (`OffersSellable`): listing and item change together, and a
  publication in progress is of an item that was for sale.
* `MerchantKept` (`SellerKeepsMerchant`): the row a request has inserted is free, its
  own, and as old as no other (`StampNew`); for a user who never raced, one that is
  still to become visible was inserted after all that are (`MerchantInv`), so that
  it is younger when it does (`ShownRow`, `OldestKept`).

**Market**, for any listings, jobs, watchlists and prices:

* `MarketTypeCorrect`: types. `GroupsApart` is about the operator `Groupings`: the
  groups of one rebuild have no listing in common.
* `ClustersPairwiseDisjoint`: whichever jobs overlap and commit, whatever their two
  DELETEs saw, a listing is in one cluster at most. What a job is to insert is
  disjoint in itself (`Tidy`), and what it has inserted is apart from what other jobs
  have and from the clusters it did not delete (`Fresh`, `ClusterInv`).
* `OneAlertPerMatch` (`AlertedOnce`): a job about to insert an alert is the only
  one to, unless two looked before either committed (`AlertInv`).

**Legacy**, for any processes, sources, items, collections and faults:

* `LegacyTypeCorrect` and `OneRowPerSource`, from `BaseInv`: no two processes have
  the same run, and what a process remembers of its run is in the file. Steps are
  then classified (`StepKinds`): a process goes on with its run (`Works`), begins
  one, finishes it, or is gone.
* `RunningRowsAreLive` (`RunningIsLive`): only the newest run can be running
  (`OnlyNewestRuns`), and a running row has a process at it (`SourcesRun`); of the
  steps that close rows only recovery touches those of others.
* `StatusIsWhatRowsSay` (`CompletedHonestly`): the status of a run is computed from
  the process's memory, not from the rows. `HonestInv` relates the two place by
  place of the key list (`Reported`), and says that a run which was finished is never
  written again.
* `LatestRunShown` (`LatestSnapshotShown`): runs whose rows are out of order were in
  progress together (`Overtakes`), and so is any older run still in progress
  (`BeganAlongside`).
* `OffersAreCurrent` (`OpportunityIsCurrent`): the rows of a source by their places in
  the table of source runs and the listings by theirs are in one order (`ListingInv`),
  since only who has the browser writes listings, and writes the row of the source
  before. So of an item what is shown is its last row of the day (`ShownIsNewest`);
  and as listings are only added (`ListingsStay`), none the estimate took is newer.

**Appraisal and Pricing**, for any variants, pages, prices and samples:

* `AppraisalTypeCorrect`: types; a collector that goes on has one failure to count
  at most (`TypedInv`).
* `SiteLeftAlone` (`Polite`): the collector's two variables say what can be read off
  its results: `terminal` whether one of them ends the collection, `failures`
  whether the site was out of reach and has not answered since (`PoliteInv`).
* `ThreeMakeAnEstimate` (`ValuedFromThree`): what holds of the samples is proved of
  the operators, for any sample. A count is a sum in any order (`CountRemove`,
  `CountUnion`), the k-th smallest measure exists and grows with k (`KthIs`,
  `KthOrdered`), quartiles lie between two of them and are in order
  (`QuartilesOrdered`), and half of a sample is never further from the median than
  the median deviation (`MedianHalves`, `HalfIsNearBy`): a round of `Filtered` keeps
  that half, and three rounds keep enough (`KeptKeeps`). This takes that the
  threshold for the removal of outliers is about twice that of an estimate
  (`2 * MinSample <= MinFiltered + 1`; the code has 3 and 8).
* `HighPriorityMeansIt` (`HighIsAThirdOff`): weights are at most one, so 60 points
  take a discount of a third (`Weights`, `HighScores`).

Induction over numbers and over finite sets is by least counterexamples
(`LeastOf`, `FiniteInduction`), as the library's induction theorems take
operators, which the provers cannot instantiate.

Only model-checked: liveness (`CaptureBooked`, `RefundResolves`,
`CapturesExpire`, `UnseenAreMarked`, `TasksEnd`, `SlotsFreed`, `ClustersCatchUp`,
`MatchesAlerted`),
which is out of the prover's reach. Every other property of a passing
run is a theorem. The type invariants are not listed in the runs of `Market`,
`Legacy` and `Appraisal`, since the properties there refer to rows in a way that
fails on an ill-typed state; they are proved.

## 5. Not modelled

* Amounts, commission and rounding; audit and order events; the wire format of
  the PSP adapters.
* Editing of texts and prices in the catalogue; feedback, which is averages over
  notes.
* Parsing of titles, prices and pages: a model would repeat the regular
  expressions. Its outcomes are inputs of `Appraisal` and `Legacy`.
* The import of old runs, which replays them through the operations of ingest.
* Reports, dashboards, the web front end and command lines, which render or
  wire up what the modules have. `Shown` in `Legacy` is the query where it matters
  which rows are rendered.
* An index that is enabled when there are listings already.
* The load options of some locking queries (`joinedload` with `with_for_update`,
  payments.py:542) put outer joins under `FOR UPDATE`; whether PostgreSQL accepts
  them is outside the model, which takes the locks as asked for.

## 6. What could follow

1. More about the operators of `Pricing`: how far one more comparable can move
   an estimate.
2. Amounts: commission with half-up rounding, net and totals, against reference
   definitions.
3. `CollectionTask` composed with `Ingest`: a run's status against what its batch
   committed.

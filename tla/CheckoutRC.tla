------------------------------ MODULE CheckoutRC ------------------------------
(***************************************************************************)
(* Checkout under READ COMMITTED, PostgreSQL's default: the handlers that  *)
(* read rows without a lock run in two steps, with the others in between.  *)
(*                                                                         *)
(* A handler that selects its rows FOR UPDATE before it reads them decides *)
(* on committed values and keeps every other writer of these rows out      *)
(* until it commits: it stays one step, the action of Checkout.  This      *)
(* includes place_order: it looks for the Idempotency-Key without a lock,  *)
(* but the key is unique, and the second order with it is rolled back.     *)
(*                                                                         *)
(* cancel_order, publish_seller_listing and process_webhook read first.    *)
(* cancel_order does lock the listing and the item, but only after it      *)
(* loaded both: the session keeps the attributes it has loaded when a row  *)
(* is selected again, and flushes what it changed of them (UnitOfWork).    *)
(* publish_seller_listing locks nothing at all.                            *)
(***************************************************************************)
EXTENDS Checkout, UnitOfWork

CONSTANTS
  Sessions,   \* database sessions that serve such a handler at one time
  NoWork      \* the value of a session that serves none

Work ==
  [task: {"cancel"}, order: Orders,
   read: [row: OrderRow, intent: IntentStatus,
          listing: ListingStatus, stock: StockStatus]]
  \cup
  [task: {"publish"}, item: Items,
   read: [listing: ListingStatus, stock: StockStatus]]
  \cup
  [task: {"webhook"}, event: Event,
   read: [row: OrderRow, intent: IntentStatus], refund: RefundRow]

ASSUME NoWorkAssumption == NoWork \notin Work

VARIABLES
  work,       \* per session: the handler in progress with the rows it read
  conflicted  \* history: orders written by a handler whose read was stale

rcVars == <<vars, work, conflicted>>

RCTypeOK ==
  /\ TypeOK
  /\ work \in [Sessions -> Work \cup {NoWork}]
  /\ conflicted \subseteq Orders

WriteOrder(o, old, new) ==
  /\ order' = [order EXCEPT ![o] = Columns(@, old, new)]
  /\ conflicted' = IF old # order[o] /\ old # new THEN conflicted \cup {o} ELSE conflicted

-----------------------------------------------------------------------------
RCInit ==
  /\ Init
  /\ work = [s \in Sessions |-> NoWork]
  /\ conflicted = {}

Start(s, handler) ==
  /\ work[s] = NoWork
  /\ work' = [work EXCEPT ![s] = handler]
  /\ UNCHANGED <<vars, conflicted>>

Finish(s) == work' = [work EXCEPT ![s] = NoWork]

\* The handler raises, the connection breaks, a unique key is violated or
\* PostgreSQL ends a deadlock: the transaction is rolled back.
Abort(s) ==
  /\ work[s] # NoWork
  /\ Finish(s)
  /\ UNCHANGED <<vars, conflicted>>

(***************************************************************************)
(* cancel_order.                                                           *)
(***************************************************************************)
CancelBegin(s, o) ==
  /\ MayCancel(order[o])
  /\ Start(s, [task |-> "cancel", order |-> o,
               read |-> [row |-> order[o], intent |-> intent[o],
                         listing |-> listing[ItemOf[o]], stock |-> stock[ItemOf[o]]]])

\* Mutant: leaves the listing reserved.
CancelCommitKeepsListing(s) ==
  /\ work[s] # NoWork
  /\ work[s].task = "cancel"
  /\ LET o == work[s].order
         i == ItemOf[o]
         read == work[s].read
     IN
     /\ stock' = [stock EXCEPT ![i] =
                    IF read.stock = "reserved" THEN "available" ELSE @]
     /\ WriteOrder(o, read.row, Cancelled(read.row))
     /\ intent' = [intent EXCEPT ![o] =
                     IF read.intent \in {"none", "cancelled"} THEN @ ELSE "cancelled"]
  /\ Finish(s)
  /\ UNCHANGED <<provider, merchant, listing, restocked, refund, settlement,
                 ledgerVars, processed, pspVars, republished>>

CancelCommit(s) ==
  /\ work[s] # NoWork
  /\ work[s].task = "cancel"
  /\ LET o == work[s].order
         i == ItemOf[o]
         read == work[s].read
     IN
     /\ listing' = [listing EXCEPT ![i] =
                      IF read.listing = "reserved" THEN "active" ELSE @]
     /\ stock' = [stock EXCEPT ![i] =
                    IF read.stock = "reserved" THEN "available" ELSE @]
     /\ WriteOrder(o, read.row, Cancelled(read.row))
     /\ intent' = [intent EXCEPT ![o] =
                     IF read.intent \in {"none", "cancelled"} THEN @ ELSE "cancelled"]
  /\ Finish(s)
  /\ UNCHANGED <<provider, merchant, restocked, refund, settlement,
                 ledgerVars, processed, pspVars, republished>>

(***************************************************************************)
(* publish_seller_listing: the first publication, and any later one, also  *)
(* of an item that is reserved.  Checkout keeps in republished the items   *)
(* whose reservation a publication took off; here this also happens to a   *)
(* reservation made after the listing was read.                            *)
(***************************************************************************)
PublishBegin(s, i) ==
  /\ MayPublish(i)
  /\ Start(s, [task |-> "publish", item |-> i,
               read |-> [listing |-> listing[i], stock |-> stock[i]]])

PublishCommit(s) ==
  /\ work[s] # NoWork
  /\ work[s].task = "publish"
  /\ LET i == work[s].item
         read == work[s].read
     IN
     /\ listing' = [listing EXCEPT ![i] = Column(@, read.listing, "active")]
     /\ stock' = [stock EXCEPT ![i] =
                    IF read.stock = "reserved" THEN "available" ELSE @]
     /\ republished' =
          IF \/ listing[i] = "reserved" /\ listing'[i] = "active"
             \/ stock[i] = "reserved" /\ stock'[i] = "available"
            THEN republished \cup {i} ELSE republished
  /\ Finish(s)
  /\ UNCHANGED <<provider, merchant, order, restocked, intent, refund,
                 settlement, ledgerVars, processed, pspVars, conflicted>>

(***************************************************************************)
(* process_webhook: the event, the order, the payment intent and the       *)
(* refund with the event's reference are read, then the event is inserted  *)
(* under its unique id and applied.                                        *)
(***************************************************************************)
Subject(e) == IF e \in OrderEvent THEN e.order ELSE OrderOf[e.refund]

WebhookBegin(s, e) ==
  /\ Fresh(e)
  /\ Start(s, [task |-> "webhook", event |-> e,
               read |-> [row |-> order[Subject(e)], intent |-> intent[Subject(e)]],
               refund |-> IF e \in RefundEvent THEN refund[e.refund] ELSE NoRefundRow])

\* The transaction of an event; the second insert of one event id fails.
Applies(s, e) ==
  /\ work[s] # NoWork
  /\ work[s].task = "webhook"
  /\ e = work[s].event
  /\ Fresh(e)
  /\ Finish(s)
  /\ processed' = processed \cup {e}

SuccessCommit(s, e) ==
  LET o == e.order
      read == work[s].read
  IN
  /\ Applies(s, e)
  /\ e.kind \in SuccessKind
  /\ read.intent # "none"
  /\ WriteOrder(o, read.row, PaymentSucceeded(read.row))
  /\ IF AlreadyPaid(read.row)
       THEN UNCHANGED <<intent, captured>>
       ELSE /\ intent' = [intent EXCEPT ![o] = Column(@, read.intent, "succeeded")]
            /\ captured' = CaptureJournal(o)
  /\ UNCHANGED <<provider, catalogVars, restocked, refund, settlement,
                 settled, reversed, pspVars>>

FailureCommit(s, e) ==
  LET o == e.order
      read == work[s].read
  IN
  /\ Applies(s, e)
  /\ e.kind = "intent_failed"
  /\ WriteOrder(o, read.row, PaymentFailed(read.row))
  /\ intent' = [intent EXCEPT ![o] =
                  IF read.intent = "none" THEN @ ELSE Column(@, read.intent, "failed")]
  /\ UNCHANGED <<provider, catalogVars, restocked, refund, settlement,
                 ledgerVars, pspVars>>

\* The refund row with the event's reference as it was read, else any row
\* of the order, loaded now.
Rows(s, e) ==
  IF work[s].refund.status # "absent"
    THEN {[id |-> e.refund, row |-> work[s].refund]}
    ELSE {[id |-> r, row |-> refund[r]] : r \in RowsOf(OrderOf[e.refund])}

WriteRefund(target, status) ==
  refund' = [refund EXCEPT ![target.id] =
               Columns(@, target.row, [target.row EXCEPT !.status = status])]

\* _finalize_refund loads the settlement only now.
RefundSucceededCommit(s, e) ==
  LET o == OrderOf[e.refund]
      read == work[s].read
  IN
  /\ Applies(s, e)
  /\ e.kind = "refund_succeeded"
  /\ \E target \in Rows(s, e) :
       /\ WriteRefund(target, "succeeded")
       /\ WriteOrder(o, read.row, Refunded(read.row))
       /\ IF AlreadyRefunded(read.row)
            THEN UNCHANGED <<settlement, reversed>>
            ELSE /\ settlement' = [settlement EXCEPT ![o] =
                                     IF @ = "pending" THEN "cancelled" ELSE @]
                 /\ reversed' = ReversalJournal(o, target.id)
  /\ UNCHANGED <<provider, catalogVars, restocked, intent, captured, settled,
                 pspVars>>

RefundFailedCommit(s, e) ==
  LET read == work[s].read IN
  /\ Applies(s, e)
  /\ e.kind \in FailureKind
  /\ \E target \in Rows(s, e) :
       /\ WriteRefund(target, "failed")
       /\ WriteOrder(OrderOf[e.refund], read.row,
                     RefundReverted(read.row, target.row.prev))
  /\ UNCHANGED <<provider, catalogVars, restocked, intent, settlement,
                 ledgerVars, pspVars>>

RefundCreatedCommit(s, e) ==
  /\ Applies(s, e)
  /\ e.kind = "refund_created"
  /\ \E target \in Rows(s, e) : WriteRefund(target, "processing")
  /\ UNCHANGED <<provider, catalogVars, order, restocked, intent, settlement,
                 ledgerVars, pspVars, conflicted>>

WebhookCommit(s, e) ==
  IF e \in OrderEvent
    THEN SuccessCommit(s, e) \/ FailureCommit(s, e)
    ELSE \/ RefundSucceededCommit(s, e)
         \/ RefundFailedCommit(s, e)
         \/ RefundCreatedCommit(s, e)

-----------------------------------------------------------------------------
\* The handlers that lock the rows they decide on before they read them.
LockedStep ==
  \/ \E o \in Orders :
       \/ PlaceOrder(o)
       \/ CreateIntent(o)
       \/ MockCheckout(o)
       \/ \E t \in FulfillmentTarget : Fulfil(o, t)
       \/ ConfirmReceipt(o)
       \/ Restock(o)
  \/ \E r \in Refunds : RefundStep(r)

SessionStep(s) ==
  \/ \E o \in Orders : CancelBegin(s, o)
  \/ \E i \in Items : PublishBegin(s, i)
  \/ \E e \in sent : WebhookBegin(s, e) \/ WebhookCommit(s, e)
  \/ CancelCommit(s)
  \/ PublishCommit(s)
  \/ Abort(s)

RCNext ==
  \/ \E s \in Sessions : SessionStep(s)
  \/ (LockedStep \/ PspStep) /\ UNCHANGED <<work, conflicted>>

RCSpec == RCInit /\ [][RCNext]_rcVars

-----------------------------------------------------------------------------
(***************************************************************************)
(* Properties.                                                             *)
(***************************************************************************)
Disturbed(i) == i \in republished \/ \E o \in conflicted : ItemOf[o] = i

\* Two things can harm the inventory, however requests interleave: a
\* handler writes an order that changed since it read it, or a publication
\* writes over a reservation, one it read or one made since. Where neither
\* happened an item is reserved exactly while one order holds it, never
\* two, and the listing and the item agree (place_order's locks, the
\* columns cancel_order and publish_seller_listing flush).
UndisturbedExclusive ==
  \A i \in Items : ~ Disturbed(i) =>
    /\ listing[i] = "reserved" <=> stock[i] = "reserved"
    /\ listing[i] = "reserved" <=> \E o \in Orders : ItemOf[o] = i /\ Holds(o)
    /\ \A o, q \in Orders :
         ItemOf[o] = i /\ ItemOf[q] = i /\ Holds(o) /\ Holds(q) => o = q
=============================================================================

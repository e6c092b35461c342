------------------------------- MODULE Checkout -------------------------------
(***************************************************************************)
(* Orders, inventory reservation, payments, refunds, settlements and the   *)
(* ledger of platform/payments.py and platform/commerce.py, with the       *)
(* payment service provider (PSP) they talk to.                            *)
(*                                                                         *)
(* Every handler is one database transaction: get_session commits after it *)
(* and rolls everything back when it raises, so a handler that raises      *)
(* OrderError is an action that is not enabled.  Here transactions are     *)
(* atomic; CheckoutRC interleaves their statements.                        *)
(*                                                                         *)
(* The PSP is external.  It captures a charge when the buyer pays, settles *)
(* refunds, and notifies the platform by events that carry distinct ids:   *)
(* several kinds announce one fact, and every event may be delivered       *)
(* late, in any order, and again after it was processed.                   *)
(***************************************************************************)
EXTENDS OrderRows, Integers, FiniteSets

CONSTANTS
  Orders,     \* order ids; one per (buyer, Idempotency-Key)
  Items,      \* inventory items, each with its one listing
  Refunds,    \* refund ids: one per attempt, shared by the row and the PSP
  Merchants,
  MerchantStatus, \* MERCHANT_STATUSES, or the part of it a run explores
  Subscribed, \* the event kinds the webhook endpoint is subscribed to
  ItemOf,     \* the item an order is for
  OrderOf,    \* the order a refund is for
  SellerOf,   \* the merchant of an item
  Total       \* an item's price in cents: total_hkd of its orders

ASSUME CheckoutAssumption ==
  /\ ItemOf \in [Orders -> Items]
  /\ OrderOf \in [Refunds -> Orders]
  /\ SellerOf \in [Items -> Merchants]
  /\ Total \in [Items -> Nat]
  /\ "active" \in MerchantStatus

VARIABLES
  provider,   \* settings.payment_provider of the deployment
  merchant,   \* Merchant.status: only "active" may trade
  listing,    \* SellerListing.status
  stock,      \* InventoryItem.status
  order,      \* the order rows
  restocked,  \* orders with an OrderEvent "return_received_restocked"
  intent,     \* PaymentIntent.status
  refund,     \* the refund rows
  settlement, \* MerchantSettlement.status
  captured,   \* orders with a journal "payment:<order>"
  settled,    \* orders with a journal "settlement:<order>"
  reversed,   \* journal "refund:<refund>": which funds it debits
  processed,  \* PaymentEvent rows: the ids of the events applied
  charge,     \* PSP: the checkout session of an order
  pspRefund,  \* PSP: its refunds
  sent,       \* PSP: the events it has emitted
  republished \* history: items put on sale again while reserved

catalogVars == <<merchant, listing, stock, republished>>
ledgerVars  == <<captured, settled, reversed>>
pspVars     == <<charge, pspRefund, sent>>
vars == <<provider, merchant, listing, stock, order, restocked, intent, refund,
          settlement, captured, settled, reversed, processed, charge,
          pspRefund, sent, republished>>

-----------------------------------------------------------------------------
(***************************************************************************)
(* Events.  The handler looks at the type and the status of an event: a    *)
(* type that starts with "refund" goes to the refund branch, any other one *)
(* is a payment event.  So charge.refunded, whose charge still has status  *)
(* "succeeded", is read as a successful payment.                           *)
(***************************************************************************)
SuccessKind == {"session_completed", "intent_succeeded", "charge_refunded"}
OrderKind   == SuccessKind \cup {"intent_failed"}
FailureKind == {"refund_failed", "refund_updated_failed"}
RefundKind  == FailureKind \cup {"refund_created", "refund_succeeded"}

OrderEvent  == [kind: OrderKind, order: Orders]
RefundEvent == [kind: RefundKind, refund: Refunds]
Event == OrderEvent \cup RefundEvent

OrderNews(o, kinds)  == [kind: kinds \cap Subscribed, order: {o}]
RefundNews(r, kinds) == [kind: kinds \cap Subscribed, refund: {r}]

\* State of a refund at the PSP: "returned" succeeded first and failed later.
PspRefundStatus == {"none", "pending", "succeeded", "failed", "returned"}

TotalOf(o) == Total[ItemOf[o]]
RefundsOf(o) == {r \in Refunds : OrderOf[r] = o}
RowsOf(o) == {r \in RefundsOf(o) : refund[r].status # "absent"}

TypeOK ==
  /\ provider \in {"mock", "stripe"}
  /\ merchant \in [Merchants -> MerchantStatus]
  /\ listing \in [Items -> ListingStatus]
  /\ stock \in [Items -> StockStatus]
  /\ order \in [Orders -> OrderRow]
  /\ restocked \in SUBSET Orders
  /\ intent \in [Orders -> IntentStatus]
  /\ refund \in [Refunds -> RefundRow]
  /\ settlement \in [Orders -> SettlementStatus]
  /\ captured \in SUBSET Orders
  /\ settled \in SUBSET Orders
  /\ reversed \in [Refunds -> {"none", "held", "payable"}]
  /\ processed \in SUBSET sent
  /\ charge \in [Orders -> {"none", "open", "captured"}]
  /\ pspRefund \in [Refunds -> PspRefundStatus]
  /\ sent \in SUBSET Event
  /\ republished \in SUBSET Items

\* Every item has a draft listing; the item has passed inspection or not.
Init ==
  /\ provider \in {"mock", "stripe"}
  /\ merchant = [m \in Merchants |-> "active"]
  /\ listing = [i \in Items |-> "draft"]
  /\ stock \in [Items -> {"intake", "available"}]
  /\ order = [o \in Orders |-> NoOrderRow]
  /\ restocked = {}
  /\ intent = [o \in Orders |-> "none"]
  /\ refund = [r \in Refunds |-> NoRefundRow]
  /\ settlement = [o \in Orders |-> "none"]
  /\ captured = {}
  /\ settled = {}
  /\ reversed = [r \in Refunds |-> "none"]
  /\ processed = {}
  /\ charge = [o \in Orders |-> "none"]
  /\ pspRefund = [r \in Refunds |-> "none"]
  /\ sent = {}
  /\ republished = {}

-----------------------------------------------------------------------------
(***************************************************************************)
(* Merchants, listings and reservations.                                   *)
(***************************************************************************)

\* update_merchant_status: any status to any; only "active" may trade.
SetMerchantStatus(m, status) ==
  /\ merchant' = [merchant EXCEPT ![m] = status]
  /\ UNCHANGED <<provider, listing, stock, order, restocked, intent, refund,
                 settlement, ledgerVars, processed, pspVars, republished>>

\* publish_seller_listing accepts an item that is reserved and frees it.
MayPublish(i) ==
  /\ merchant[SellerOf[i]] = "active"
  /\ stock[i] \in {"available", "reserved"}

Publish(i) ==
  /\ MayPublish(i)
  /\ listing' = [listing EXCEPT ![i] = "active"]
  /\ stock' = [stock EXCEPT ![i] = "available"]
  /\ republished' =
       IF stock[i] = "reserved" THEN republished \cup {i} ELSE republished
  /\ UNCHANGED <<provider, merchant, order, restocked, intent, refund,
                 settlement, ledgerVars, processed, pspVars>>

\* place_order, for a (buyer, key) that has no order yet; a repeated key
\* returns the order it made and changes nothing.
MayPlace(i) ==
  /\ listing[i] = "active"
  /\ merchant[SellerOf[i]] = "active"
  /\ stock[i] = "available"

PlaceOrder(o) ==
  LET i == ItemOf[o] IN
  /\ order[o].status = "absent"
  /\ MayPlace(i)
  /\ order' = [order EXCEPT ![o] = NewOrder]
  /\ stock' = [stock EXCEPT ![i] = "reserved"]
  /\ listing' = [listing EXCEPT ![i] = "reserved"]
  /\ UNCHANGED <<provider, merchant, restocked, intent, refund, settlement,
                 ledgerVars, processed, pspVars, republished>>

\* _release_order_reservation: each row goes back only if it is reserved.
ReleasedListing(i) == IF listing[i] = "reserved" THEN "active" ELSE listing[i]
ReleasedStock(i) == IF stock[i] = "reserved" THEN "available" ELSE stock[i]

Cancel(o) ==
  LET i == ItemOf[o] IN
  /\ MayCancel(order[o])
  /\ listing' = [listing EXCEPT ![i] = ReleasedListing(i)]
  /\ stock' = [stock EXCEPT ![i] = ReleasedStock(i)]
  /\ order' = [order EXCEPT ![o] = Cancelled(@)]
  /\ intent' = [intent EXCEPT ![o] = IF @ = "none" THEN @ ELSE "cancelled"]
  /\ UNCHANGED <<provider, merchant, restocked, refund, settlement,
                 ledgerVars, processed, pspVars, republished>>

-----------------------------------------------------------------------------
(***************************************************************************)
(* Payment.                                                                *)
(***************************************************************************)

\* create_payment_intent, for an order that has none: the PSP opens a
\* checkout session (Stripe refuses an amount of zero).
CreateIntent(o) ==
  /\ intent[o] = "none"
  /\ MayCreateIntent(order[o])
  /\ provider = "stripe" => TotalOf(o) > 0
  /\ intent' = [intent EXCEPT ![o] = "open"]
  /\ charge' = [charge EXCEPT ![o] = "open"]
  /\ UNCHANGED <<provider, catalogVars, order, restocked, refund, settlement,
                 ledgerVars, processed, pspRefund, sent>>

\* _ensure_payment_journal writes nothing for an amount of zero, and
\* nothing when the journal "payment:<order>" exists.
CaptureJournal(o) == IF TotalOf(o) > 0 THEN captured \cup {o} ELSE captured

\* Mutant: refuses a payment for an order that was cancelled meanwhile.
BookPaymentUnlessCancelled(o) ==
  /\ intent[o] # "none"
  /\ order[o].status # "cancelled"
  /\ order' = [order EXCEPT ![o] = PaymentSucceeded(@)]
  /\ IF AlreadyPaid(order[o])
       THEN UNCHANGED <<intent, captured>>
       ELSE /\ intent' = [intent EXCEPT ![o] = "succeeded"]
            /\ captured' = CaptureJournal(o)

\* The successful branch of _apply_webhook_event; it needs an intent.
BookPayment(o) ==
  /\ intent[o] # "none"
  /\ order' = [order EXCEPT ![o] = PaymentSucceeded(@)]
  /\ IF AlreadyPaid(order[o])
       THEN UNCHANGED <<intent, captured>>
       ELSE /\ intent' = [intent EXCEPT ![o] = "succeeded"]
            /\ captured' = CaptureJournal(o)

\* process_webhook: an event already processed is answered without effect.
Fresh(e) == e \in sent /\ e \notin processed

PaymentSucceededEvent(e) ==
  /\ Fresh(e)
  /\ e.kind \in SuccessKind
  /\ BookPayment(e.order)
  /\ processed' = processed \cup {e}
  /\ UNCHANGED <<provider, catalogVars, restocked, refund, settlement,
                 settled, reversed, pspVars>>

PaymentFailedEvent(e) ==
  /\ Fresh(e)
  /\ e.kind = "intent_failed"
  /\ intent' = [intent EXCEPT ![e.order] = "failed"]
  /\ order' = [order EXCEPT ![e.order] = PaymentFailed(@)]
  /\ processed' = processed \cup {e}
  /\ UNCHANGED <<provider, catalogVars, restocked, refund, settlement,
                 ledgerVars, pspVars>>

\* complete_mock_payment: the mock checkout page. It applies its event
\* again on every visit, whether or not the event row says "processed".
MockCheckout(o) ==
  /\ provider = "mock"
  /\ BookPayment(o)
  /\ charge' = [charge EXCEPT ![o] = "captured"]
  /\ UNCHANGED <<provider, catalogVars, restocked, refund, settlement,
                 settled, reversed, processed, pspRefund, sent>>

-----------------------------------------------------------------------------
(***************************************************************************)
(* Fulfilment and settlement.                                              *)
(***************************************************************************)

\* fulfill_order and fulfill_merchant_order.
Fulfil(o, target) ==
  /\ MayFulfil(order[o], target)
  /\ order' = [order EXCEPT ![o] = Fulfilled(@, target)]
  /\ UNCHANGED <<provider, catalogVars, restocked, intent, refund, settlement,
                 ledgerVars, processed, pspVars>>

\* confirm_receipt creates the settlement and its journal once.
ConfirmReceipt(o) ==
  /\ MayConfirm(order[o])
  /\ order' = [order EXCEPT ![o] = Completed(@)]
  /\ IF settlement[o] = "none"
       THEN /\ settlement' = [settlement EXCEPT ![o] = "pending"]
            /\ settled' = settled \cup {o}
       ELSE UNCHANGED <<settlement, settled>>
  /\ UNCHANGED <<provider, catalogVars, restocked, intent, refund, captured,
                 reversed, processed, pspVars>>

-----------------------------------------------------------------------------
(***************************************************************************)
(* Refunds.                                                                *)
(***************************************************************************)

\* Mutant: debits buyer_funds_held also after the settlement.
ReversalJournalHeld(o, r) ==
  IF reversed[r] # "none" THEN reversed ELSE [reversed EXCEPT ![r] = "held"]

\* _ensure_refund_journal, keyed "refund:<refund>": buyer_funds_held is
\* debited, or payable and commission once the order has a settlement.
ReversalJournal(o, r) ==
  IF reversed[r] # "none" THEN reversed
  ELSE [reversed EXCEPT ![r] =
          IF settlement[o] = "none" THEN "held" ELSE "payable"]

\* Mutant: leaves the settlement pending.
FinalizeRefundKeepingPayout(o, r, prev) ==
  /\ refund' = [refund EXCEPT ![r] = [status |-> "succeeded", prev |-> prev]]
  /\ order' = [order EXCEPT ![o] = Refunded(@)]
  /\ UNCHANGED settlement
  /\ reversed' = IF AlreadyRefunded(order[o]) THEN reversed ELSE ReversalJournal(o, r)

\* _finalize_refund, on refund r whose row saved the order status prev.
FinalizeRefund(o, r, prev) ==
  /\ refund' = [refund EXCEPT ![r] = [status |-> "succeeded", prev |-> prev]]
  /\ order' = [order EXCEPT ![o] = Refunded(@)]
  /\ IF AlreadyRefunded(order[o])
       THEN UNCHANGED <<settlement, reversed>>
       ELSE /\ settlement' = [settlement EXCEPT ![o] =
                                IF @ = "pending" THEN "cancelled" ELSE @]
            /\ reversed' = ReversalJournal(o, r)

\* The PSP refunds a captured charge once: a second refund of the full
\* amount is refused unless the first one failed.
PspAccepts(r) ==
  /\ charge[OrderOf[r]] = "captured"
  /\ pspRefund[r] = "none"
  /\ \A q \in RefundsOf(OrderOf[r]) :
       pspRefund[q] \in {"none", "failed", "returned"}

MayStartRefund(r) ==
  /\ refund[r].status = "absent"
  /\ MayRequestRefund(order[OrderOf[r]], intent[OrderOf[r]])
  /\ PspAccepts(r)

Announce(news) == sent' = IF provider = "stripe" THEN sent \cup news ELSE sent

SettledNews(r) ==
  RefundNews(r, {"refund_succeeded"})
    \cup OrderNews(OrderOf[r], {"charge_refunded"})

\* request_refund when the PSP answers "succeeded" (the mock always does).
RequestRefundSucceeded(r) ==
  LET o == OrderOf[r] IN
  /\ MayStartRefund(r)
  /\ FinalizeRefund(o, r, order[o].status)
  /\ pspRefund' = [pspRefund EXCEPT ![r] = "succeeded"]
  /\ Announce(SettledNews(r))
  /\ UNCHANGED <<provider, catalogVars, restocked, intent, captured, settled,
                 processed, charge>>

\* request_refund when the PSP has not returned the money: it answers
\* "pending", or it refuses with status "failed". The order waits in
\* refund_pending either way, for an event to move it on.
RequestRefundUnsettled(r, answer) ==
  LET o == OrderOf[r] IN
  /\ provider = "stripe"
  /\ MayStartRefund(r)
  /\ refund' = [refund EXCEPT ![r] =
                  [status |-> IF answer = "failed" THEN "failed" ELSE "processing",
                   prev |-> order[o].status]]
  /\ order' = [order EXCEPT ![o] = RefundPending(@)]
  /\ pspRefund' = [pspRefund EXCEPT ![r] = answer]
  /\ Announce(RefundNews(r, IF answer = "failed" THEN FailureKind
                            ELSE {"refund_created"}))
  /\ UNCHANGED <<provider, catalogVars, restocked, intent, settlement,
                 ledgerVars, processed, charge>>

\* request_refund when the answer of the PSP is lost: PaymentProviderError
\* rolls the transaction back, and the refund stays at the PSP alone. A
\* retry makes a new row, hence a new idempotency key for the PSP.
RequestRefundLost(r) ==
  /\ provider = "stripe"
  /\ MayStartRefund(r)
  /\ pspRefund' = [pspRefund EXCEPT ![r] = "pending"]
  /\ Announce(RefundNews(r, {"refund_created"}))
  /\ UNCHANGED <<provider, catalogVars, order, restocked, intent, refund,
                 settlement, ledgerVars, processed, charge>>

\* The row a refund event is applied to: the one with its reference, else
\* order.refunds[-1], the last of a collection loaded in no given order.
Target(r) ==
  IF refund[r].status # "absent" THEN {r} ELSE RowsOf(OrderOf[r])

RefundSucceededEvent(e) ==
  /\ Fresh(e)
  /\ e.kind = "refund_succeeded"
  /\ \E r \in Target(e.refund) :
       FinalizeRefund(OrderOf[e.refund], r, refund[r].prev)
  /\ processed' = processed \cup {e}
  /\ UNCHANGED <<provider, catalogVars, restocked, intent, captured, settled,
                 pspVars>>

\* The order goes back to the saved status, whatever its status is now.
RefundFailedEvent(e) ==
  LET o == OrderOf[e.refund] IN
  /\ Fresh(e)
  /\ e.kind \in FailureKind
  /\ \E r \in Target(e.refund) :
       /\ refund' = [refund EXCEPT ![r].status = "failed"]
       /\ order' = [order EXCEPT ![o] = RefundReverted(@, refund[r].prev)]
  /\ processed' = processed \cup {e}
  /\ UNCHANGED <<provider, catalogVars, restocked, intent, settlement,
                 ledgerVars, pspVars>>

\* A status that is neither a success nor a failure is "processing".
RefundCreatedEvent(e) ==
  /\ Fresh(e)
  /\ e.kind = "refund_created"
  /\ \E r \in Target(e.refund) :
       refund' = [refund EXCEPT ![r].status = "processing"]
  /\ processed' = processed \cup {e}
  /\ UNCHANGED <<provider, catalogVars, order, restocked, intent, settlement,
                 ledgerVars, pspVars>>

\* Mutant: forgets that the order was restocked before.
MayRestockAgain(o) ==
  /\ MayRestock(order[o])
  /\ listing[ItemOf[o]] = "reserved"
  /\ stock[ItemOf[o]] = "reserved"

\* restock_refunded_order: once per order, and only a reserved item.
MayRestockNow(o) ==
  /\ MayRestock(order[o])
  /\ o \notin restocked
  /\ listing[ItemOf[o]] = "reserved"
  /\ stock[ItemOf[o]] = "reserved"

Restock(o) ==
  /\ MayRestockNow(o)
  /\ listing' = [listing EXCEPT ![ItemOf[o]] = "active"]
  /\ stock' = [stock EXCEPT ![ItemOf[o]] = "available"]
  /\ restocked' = restocked \cup {o}
  /\ UNCHANGED <<provider, merchant, order, intent, refund, settlement,
                 ledgerVars, processed, pspVars, republished>>

-----------------------------------------------------------------------------
(***************************************************************************)
(* The PSP.                                                                *)
(***************************************************************************)
platformVars == <<provider, merchant, listing, stock, order, restocked, intent,
                  refund, settlement, captured, settled, reversed, processed,
                  republished>>

\* A session can be paid once the buyer has its link, and stays payable
\* after the order was cancelled: the platform never closes it.
BuyerPays(o) ==
  /\ provider = "stripe"
  /\ charge[o] = "open"
  /\ charge' = [charge EXCEPT ![o] = "captured"]
  /\ Announce(OrderNews(o, {"session_completed", "intent_succeeded"}))
  /\ UNCHANGED <<platformVars, pspRefund>>

AttemptFails(o) ==
  /\ provider = "stripe"
  /\ charge[o] = "open"
  /\ Announce(OrderNews(o, {"intent_failed"}))
  /\ UNCHANGED <<platformVars, charge, pspRefund>>

PspRefundSucceeds(r) ==
  /\ pspRefund[r] = "pending"
  /\ pspRefund' = [pspRefund EXCEPT ![r] = "succeeded"]
  /\ Announce(SettledNews(r))
  /\ UNCHANGED <<platformVars, charge>>

\* A bank may return the money of a refund that succeeded before.
PspRefundFails(r) ==
  /\ provider = "stripe"
  /\ pspRefund[r] \in {"pending", "succeeded"}
  /\ pspRefund' = [pspRefund EXCEPT ![r] =
                     IF @ = "pending" THEN "failed" ELSE "returned"]
  /\ Announce(RefundNews(r, FailureKind))
  /\ UNCHANGED <<platformVars, charge>>

-----------------------------------------------------------------------------
\* payment_webhook: the event and what it changes are one transaction.
Webhook(e) ==
  IF e \in OrderEvent
    THEN PaymentSucceededEvent(e) \/ PaymentFailedEvent(e)
    ELSE RefundSucceededEvent(e) \/ RefundFailedEvent(e) \/ RefundCreatedEvent(e)

PspStep ==
  \/ \E o \in Orders : BuyerPays(o) \/ AttemptFails(o)
  \/ \E r \in Refunds : PspRefundSucceeds(r) \/ PspRefundFails(r)

CatalogStep ==
  \/ \E m \in Merchants, s \in MerchantStatus : SetMerchantStatus(m, s)
  \/ \E i \in Items : Publish(i)

\* The routes of an order, those of buyers and operators: each is one
\* transaction, which get_session commits when the route returns.
OrderStep(o) ==
  \/ PlaceOrder(o)
  \/ Cancel(o)
  \/ CreateIntent(o)
  \/ MockCheckout(o)
  \/ \E t \in FulfillmentTarget : Fulfil(o, t)
  \/ ConfirmReceipt(o)
  \/ Restock(o)

\* The routes that request a refund: it is committed with what the PSP
\* answered, or rolled back when the PSP could not be asked.
RefundStep(r) ==
  \/ RequestRefundSucceeded(r)
  \/ \E answer \in {"pending", "failed"} : RequestRefundUnsettled(r, answer)
  \/ RequestRefundLost(r)

Next ==
  \/ CatalogStep
  \/ \E o \in Orders : OrderStep(o)
  \/ \E r \in Refunds : RefundStep(r)
  \/ \E e \in sent : Webhook(e)
  \/ PspStep

Spec == Init /\ [][Next]_vars

\* Events are delivered until they are processed (Stripe retries them for
\* days), and a refund does not stay pending at the PSP for ever.
Fairness ==
  /\ \A e \in Event : WF_vars(Webhook(e))
  /\ \A r \in Refunds : WF_vars(PspRefundSucceeds(r) \/ PspRefundFails(r))

FairSpec == Spec /\ Fairness

-----------------------------------------------------------------------------
(***************************************************************************)
(* Properties.                                                             *)
(***************************************************************************)
Live(o) ==
  order[o].status \in {"pending_payment", "paid", "processing", "shipped",
                       "completed", "refund_pending"}

\* An order holds its item from place_order until it is cancelled, or until
\* the refunded item came back.
Holds(o) == (Live(o) \/ order[o].status = "refunded") /\ o \notin restocked

\* Unless an operator published an item that was reserved, an item is
\* reserved exactly while one order holds it, never two, and the listing
\* and the item agree (place_order, _release_order_reservation,
\* restock_refunded_order).
ReservationExclusive ==
  \A i \in Items :
    /\ listing[i] = "reserved" <=> stock[i] = "reserved"
    /\ i \notin republished =>
         /\ listing[i] = "reserved" <=> \E o \in Orders : ItemOf[o] = i /\ Holds(o)
         /\ \A o, q \in Orders :
              ItemOf[o] = i /\ ItemOf[q] = i /\ Holds(o) /\ Holds(q) => o = q

\* Money is booked exactly when the PSP has it: no order passes
\* pending_payment, no refund row and no settlement exists, without the
\* capture journal, and that journal is never posted without a captured
\* charge (_apply_webhook_event, fulfill_order, request_refund).
NeedsCapture(o) ==
  \/ order[o].status \notin {"absent", "pending_payment", "cancelled"}
  \/ order[o].pay \in {"paid", "refunded"}
  \/ intent[o] = "succeeded"
  \/ RowsOf(o) # {}
  \/ settlement[o] # "none"

CaptureBacked ==
  \A o \in Orders :
    /\ NeedsCapture(o) /\ TotalOf(o) > 0 => o \in captured
    /\ o \in captured => charge[o] = "captured"

\* A refunded order has its reversal in the ledger, and the ledger reverses
\* money only after the PSP returned money of the same order, even when a
\* refund event was applied to another refund row (_finalize_refund).
RefundBacked ==
  \A o \in Orders :
    /\ order[o].status = "refunded" \/ order[o].pay = "refunded" =>
         \E r \in RefundsOf(o) : reversed[r] # "none"
    /\ (\E r \in RefundsOf(o) : reversed[r] # "none") =>
         \E r \in RefundsOf(o) : pspRefund[r] \in {"succeeded", "returned"}

\* A merchant is not paid out for an order that was refunded: its
\* settlement exists with its journal, is pending only while the order is
\* not refunded, and is cancelled once its funds were reversed.
SettlementConsistent ==
  \A o \in Orders :
    /\ settlement[o] # "none" <=> o \in settled
    /\ order[o].status = "refunded" => settlement[o] # "pending"
    /\ (\E r \in RefundsOf(o) : reversed[r] = "payable") =>
         settlement[o] = "cancelled"

\* Journals of order o that credit less those that debit each account, as a
\* multiple of the order's total.
Reversals(o, funds) == Cardinality({r \in RefundsOf(o) : reversed[r] = funds})
HeldFunds(o) ==
  (IF o \in captured THEN 1 ELSE 0) - (IF o \in settled THEN 1 ELSE 0)
    - Reversals(o, "held")
MerchantFunds(o) == (IF o \in settled THEN 1 ELSE 0) - Reversals(o, "payable")

Overdrawn(o) == TotalOf(o) > 0 /\ (HeldFunds(o) < 0 \/ MerchantFunds(o) < 0)

FailureSeen(o) ==
  \E e \in processed : e.kind \in FailureKind /\ OrderOf[e.refund] = o

\* Only a refund failure event can overdraw an account: without one, the
\* journals of an order never debit buyer_funds_held or the merchant's
\* account by more than they credited.
OverdrawnOnlyByFailure == \A o \in Orders : Overdrawn(o) => FailureSeen(o)

\* The transitions of an order that are not the undoing of a refund.
Forward ==
  {<<"absent", "pending_payment">>, <<"pending_payment", "paid">>,
   <<"pending_payment", "cancelled">>, <<"paid", "processing">>,
   <<"paid", "shipped">>, <<"processing", "shipped">>,
   <<"shipped", "completed">>}
    \cup Refundable \X {"refund_pending", "refunded"}
    \cup {<<"refund_pending", "refunded">>}

\* An order only moves forward through its states, except that a refund
\* failure event takes it back to a status it had (fulfill_order,
\* confirm_receipt, request_refund, _apply_webhook_event).
Regresses(o) ==
  /\ order'[o].status # order[o].status
  /\ <<order[o].status, order'[o].status>> \notin Forward

OnlyRefundFailureRegresses ==
  [][\A o \in Orders : Regresses(o) =>
       \E e \in processed' \ processed :
         /\ e.kind \in FailureKind
         /\ OrderOf[e.refund] = o
         /\ order'[o].status \in Refundable]_vars

\* The ledger of the platform implements the abstract one.
Books == INSTANCE Escrow WITH Funded <- {o \in Orders : TotalOf(o) > 0}
ImplementsEscrow == Books!EscrowSpec

\* Money the PSP captured is eventually in the ledger, also when the order
\* was cancelled meanwhile or the events arrive in another order.
CaptureBooked ==
  \A o \in Orders :
    (charge[o] = "captured" /\ TotalOf(o) > 0) ~> (o \in captured)

\* An order does not stay in refund_pending: the outcome of the refund
\* reaches it.
RefundResolves ==
  \A o \in Orders :
    (order[o].status = "refund_pending") ~> (order[o].status # "refund_pending")

\* README.md:449: the inventory is protected against double sales.
NoDoubleSale ==
  \A o, q \in Orders :
    o # q /\ ItemOf[o] = ItemOf[q] => ~ (Live(o) /\ Live(q))

\* README.md:450: the payment status and the ledger entries agree.
PaymentStatusMatchesLedger ==
  \A o \in Orders :
    (o \in captured /\ \A r \in RefundsOf(o) : reversed[r] = "none")
      => order[o].pay = "paid"
=============================================================================

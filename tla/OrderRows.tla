------------------------------ MODULE OrderRows ------------------------------
(***************************************************************************)
(* The rows the order service keeps (platform/models.py) and what each     *)
(* handler of platform/payments.py does to the order row it has loaded.    *)
(*                                                                         *)
(* The operators are pure: a guard reads a row, an effect returns the row  *)
(* the handler would write.  Checkout runs every handler as one atomic     *)
(* transaction; CheckoutRC splits them into the statements PostgreSQL      *)
(* interleaves.  Both use the operators of this module.                    *)
(***************************************************************************)

\* ORDER_STATUSES, and "absent" for a row that does not exist yet.
OrderStatus ==
  {"absent", "pending_payment", "paid", "processing", "shipped",
   "completed", "cancelled", "refund_pending", "refunded"}

PaymentStatus ==
  {"absent", "pending", "paid", "failed", "cancelled", "refunded"}

FulfillmentStatus == {"unfulfilled", "processing", "shipped"}

\* FULFILLMENT_STATUSES: the targets a merchant or an operator may ask for.
FulfillmentTarget == {"processing", "shipped"}

\* REFUNDABLE_STATUSES: also every value Refund.previous_order_status takes.
Refundable == {"paid", "processing", "shipped", "completed"}

\* The status columns of one row of the table orders.
OrderRow ==
  [status: OrderStatus, pay: PaymentStatus, fulfil: FulfillmentStatus]

\* PaymentIntent.status: "open" is what the provider returns for a session
\* nobody paid yet ("requires_payment" or "open"), "failed" every status a
\* failure event carries, "succeeded" the values request_refund accepts.
IntentStatus == {"none", "open", "succeeded", "failed", "cancelled"}

\* A row of the table refunds: its normalised status, and the order status
\* saved in metadata_json.previous_order_status.
RefundStatus == {"absent", "processing", "succeeded", "failed"}
RefundRow == [status: RefundStatus, prev: Refundable]

SettlementStatus == {"none", "pending", "cancelled"}

\* SellerListing.status and InventoryItem.status, the values reached once a
\* listing exists.  No code path ever writes "sold".
ListingStatus == {"draft", "active", "reserved"}
StockStatus   == {"intake", "available", "reserved"}

NoOrderRow == [status |-> "absent", pay |-> "absent", fulfil |-> "unfulfilled"]
NoRefundRow == [status |-> "absent", prev |-> "paid"]

-----------------------------------------------------------------------------
(***************************************************************************)
(* place_order, cancel_order, create_payment_intent.                       *)
(***************************************************************************)
NewOrder ==
  [status |-> "pending_payment", pay |-> "pending", fulfil |-> "unfulfilled"]

MayCancel(row) == row.status = "pending_payment"

Cancelled(row) == [row EXCEPT !.status = "cancelled", !.pay = "cancelled"]

MayCreateIntent(row) ==
  row.status = "pending_payment" /\ row.pay = "pending"

(***************************************************************************)
(* The payment branches of _apply_webhook_event.  A success that finds the *)
(* order already "paid" changes nothing; any other one marks it paid, and  *)
(* moves the order on only from "pending_payment".  A failure marks the    *)
(* payment failed whatever it was before.                                  *)
(***************************************************************************)
AlreadyPaid(row) == row.pay = "paid"

\* Mutant: moves the order to "paid" from any status.
PaymentSucceededAnywhere(row) ==
  IF AlreadyPaid(row) THEN row
  ELSE [row EXCEPT !.pay = "paid", !.status = "paid"]

PaymentSucceeded(row) ==
  IF AlreadyPaid(row) THEN row
  ELSE [row EXCEPT !.pay = "paid",
                   !.status = IF @ = "pending_payment" THEN "paid" ELSE @]

PaymentFailed(row) == [row EXCEPT !.pay = "failed"]

(***************************************************************************)
(* fulfill_order / fulfill_merchant_order and confirm_receipt.             *)
(***************************************************************************)
\* Mutant: refuses only orders that are over, so an unpaid order ships.
MayFulfilUnpaid(row, target) ==
  row.status \in {"pending_payment", "paid", "processing"}

MayFulfil(row, target) ==
  row.status \in (IF target = "shipped" THEN {"paid", "processing"} ELSE {"paid"})

Fulfilled(row, target) == [row EXCEPT !.status = target, !.fulfil = target]

MayConfirm(row) == row.status = "shipped"

Completed(row) == [row EXCEPT !.status = "completed"]

(***************************************************************************)
(* request_refund, _finalize_refund and the refund branches of             *)
(* _apply_webhook_event.                                                   *)
(***************************************************************************)
MayRequestRefund(row, intentStatus) ==
  row.status \in Refundable /\ intentStatus = "succeeded"

\* Mutant: calls the order refunded as soon as the PSP took the request.
RefundPendingEarly(row) ==
  [row EXCEPT !.status = "refunded", !.pay = "refunded"]

RefundPending(row) == [row EXCEPT !.status = "refund_pending"]

AlreadyRefunded(row) == row.status = "refunded"

Refunded(row) ==
  IF AlreadyRefunded(row) THEN row
  ELSE [row EXCEPT !.status = "refunded", !.pay = "refunded"]

\* Mutant: leaves the order in refund_pending when its refund failed.
RefundNotReverted(row, prev) == row

RefundReverted(row, prev) == [row EXCEPT !.status = prev]

MayRestock(row) == row.status = "refunded"
=============================================================================

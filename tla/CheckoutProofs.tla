---------------------------- MODULE CheckoutProofs ----------------------------
(***************************************************************************)
(* Proofs about Checkout, for every set of orders, items and refunds: its  *)
(* ledger agrees with the PSP and with the orders, and implements Escrow;  *)
(* which statuses an order goes through, which order holds an item, and    *)
(* when an account of the ledger can be overdrawn.                         *)
(***************************************************************************)
EXTENDS Checkout, FiniteSetTheorems, TLAPS

-----------------------------------------------------------------------------
(***************************************************************************)
(* Lemmas about the operators of OrderRows and the events.                 *)
(***************************************************************************)

\* Every effect of a handler on an order row is an order row.
LEMMA RowType ==
  ASSUME NEW row \in OrderRow
  PROVE  /\ NewOrder \in OrderRow
         /\ NoOrderRow \in OrderRow
         /\ Cancelled(row) \in OrderRow
         /\ PaymentSucceeded(row) \in OrderRow
         /\ PaymentFailed(row) \in OrderRow
         /\ \A t \in FulfillmentTarget : Fulfilled(row, t) \in OrderRow
         /\ Completed(row) \in OrderRow
         /\ RefundPending(row) \in OrderRow
         /\ Refunded(row) \in OrderRow
         /\ \A p \in Refundable : RefundReverted(row, p) \in OrderRow
BY ZenonT(60) DEF OrderRow, OrderStatus, PaymentStatus, FulfillmentStatus, NewOrder,
       NoOrderRow, Cancelled, PaymentSucceeded, AlreadyPaid, PaymentFailed,
       FulfillmentTarget, Fulfilled, Completed, RefundPending, Refunded,
       AlreadyRefunded, Refundable, RefundReverted

\* What a handler does to the status of an order, and nothing else.
LEMMA RowStatus ==
  ASSUME NEW row \in OrderRow
  PROVE  /\ NewOrder.status = "pending_payment"
         /\ Cancelled(row).status = "cancelled"
         /\ PaymentSucceeded(row).status =
              IF row.pay # "paid" /\ row.status = "pending_payment"
                THEN "paid" ELSE row.status
         /\ PaymentFailed(row).status = row.status
         /\ \A t : Fulfilled(row, t).status = t
         /\ Completed(row).status = "completed"
         /\ RefundPending(row).status = "refund_pending"
         /\ Refunded(row).status = "refunded"
         /\ \A p : RefundReverted(row, p).status = p
BY DEF OrderRow, NewOrder, Cancelled, PaymentSucceeded, AlreadyPaid,
       PaymentFailed, Fulfilled, Completed, RefundPending, Refunded,
       AlreadyRefunded, RefundReverted

\* What a handler does to the payment status of an order.
LEMMA RowPay ==
  ASSUME NEW row \in OrderRow
  PROVE  /\ NewOrder.pay = "pending"
         /\ Cancelled(row).pay = "cancelled"
         /\ PaymentSucceeded(row).pay = "paid"
         /\ PaymentFailed(row).pay = "failed"
         /\ \A t : Fulfilled(row, t).pay = row.pay
         /\ Completed(row).pay = row.pay
         /\ RefundPending(row).pay = row.pay
         /\ Refunded(row).pay =
              IF row.status = "refunded" THEN row.pay ELSE "refunded"
         /\ \A p : RefundReverted(row, p).pay = row.pay
BY DEF OrderRow, NewOrder, Cancelled, PaymentSucceeded, AlreadyPaid,
       PaymentFailed, Fulfilled, Completed, RefundPending, Refunded,
       AlreadyRefunded, RefundReverted

\* The PSP only emits well-formed events.
LEMMA NewsType ==
  /\ \A o \in Orders : \A k \in SUBSET OrderKind : OrderNews(o, k) \subseteq Event
  /\ \A r \in Refunds : \A k \in SUBSET RefundKind : RefundNews(r, k) \subseteq Event
BY DEF OrderNews, RefundNews, Event, OrderEvent, RefundEvent

\* The kind of an event tells whether it is about an order or a refund.
LEMMA EventKinds ==
  ASSUME NEW e \in Event
  PROVE  /\ e.kind \in OrderKind => e \in OrderEvent /\ e.order \in Orders
         /\ e.kind \in RefundKind => e \in RefundEvent /\ e.refund \in Refunds
         /\ e \in OrderEvent => e.kind \in OrderKind
         /\ e \in RefundEvent => e.kind \in RefundKind
BY DEF Event, OrderEvent, RefundEvent, OrderKind, RefundKind, SuccessKind,
       FailureKind

-----------------------------------------------------------------------------
(***************************************************************************)
(* Type correctness.                                                       *)
(***************************************************************************)
LEMMA InitType == Init => TypeOK
BY CheckoutAssumption
   DEF Init, TypeOK, OrderRow, OrderStatus, PaymentStatus, FulfillmentStatus,
       NoOrderRow, ListingStatus, StockStatus, IntentStatus, RefundRow,
       RefundStatus, NoRefundRow, Refundable, SettlementStatus,
       PspRefundStatus

\* FinalizeRefund, as the two refund actions use it, keeps the types.
LEMMA FinalizeType ==
  ASSUME TypeOK, NEW o \in Orders, NEW r \in Refunds, NEW prev \in Refundable,
         FinalizeRefund(o, r, prev)
  PROVE  /\ order' \in [Orders -> OrderRow]
         /\ refund' \in [Refunds -> RefundRow]
         /\ settlement' \in [Orders -> SettlementStatus]
         /\ reversed' \in [Refunds -> {"none", "held", "payable"}]
<1>1. order[o] \in OrderRow
  BY DEF TypeOK
<1>2. order' \in [Orders -> OrderRow]
  BY <1>1, RowType DEF TypeOK, FinalizeRefund
<1>3. refund' \in [Refunds -> RefundRow]
  BY DEF TypeOK, FinalizeRefund, RefundRow, RefundStatus
<1>4. settlement' \in [Orders -> SettlementStatus]
  BY DEF TypeOK, FinalizeRefund, SettlementStatus
<1>5. reversed' \in [Refunds -> {"none", "held", "payable"}]
  BY DEF TypeOK, FinalizeRefund, ReversalJournal
<1>. QED  BY <1>2, <1>3, <1>4, <1>5

\* BookPayment, likewise.
LEMMA BookType ==
  ASSUME TypeOK, NEW o \in Orders, BookPayment(o)
  PROVE  /\ order' \in [Orders -> OrderRow]
         /\ intent' \in [Orders -> IntentStatus]
         /\ captured' \in SUBSET Orders
<1>1. order[o] \in OrderRow
  BY DEF TypeOK
<1>. QED
  BY <1>1, RowType DEF TypeOK, BookPayment, IntentStatus, CaptureJournal

\* What the PSP announces are events.
LEMMA AnnounceType ==
  ASSUME TypeOK, NEW news \in SUBSET Event, Announce(news)
  PROVE  sent \subseteq sent' /\ sent' \in SUBSET Event
BY DEF TypeOK, Announce

LEMMA SettledNewsType ==
  ASSUME NEW r \in Refunds
  PROVE  SettledNews(r) \in SUBSET Event
<1>1. OrderOf[r] \in Orders
  BY CheckoutAssumption
<1>. QED
  BY <1>1, NewsType DEF SettledNews, OrderKind, SuccessKind, RefundKind

\* The rows a refund event may be applied to belong to the event's order.
LEMMA TargetRow ==
  ASSUME TypeOK, NEW p \in Refunds, NEW r \in Target(p)
  PROVE  /\ r \in Refunds
         /\ OrderOf[r] = OrderOf[p]
         /\ refund[r].status # "absent"
         /\ refund[r].prev \in Refundable
         /\ RowsOf(OrderOf[p]) # {}
BY CheckoutAssumption DEF TypeOK, Target, RowsOf, RefundsOf, RefundRow

LEMMA TypeCatalog ==
  ASSUME TypeOK, CatalogStep
  PROVE  TypeOK'
<1>1. ASSUME NEW m \in Merchants, NEW s \in MerchantStatus,
             SetMerchantStatus(m, s)
      PROVE  TypeOK'
  BY <1>1 DEF TypeOK, SetMerchantStatus, ledgerVars, pspVars
<1>2. ASSUME NEW i \in Items, Publish(i)
      PROVE  TypeOK'
  BY <1>2 DEF TypeOK, Publish, ledgerVars, pspVars, ListingStatus, StockStatus
<1>. QED  BY <1>1, <1>2 DEF CatalogStep

LEMMA TypeOrder ==
  ASSUME TypeOK, NEW o \in Orders, OrderStep(o)
  PROVE  TypeOK'
<1>. DEFINE i == ItemOf[o]
<1>1. order[o] \in OrderRow /\ i \in Items
  BY CheckoutAssumption DEF TypeOK
<1>. HIDE DEF i
<1>2. CASE PlaceOrder(o)
  BY <1>1, <1>2, RowType DEF TypeOK, PlaceOrder, ledgerVars, pspVars, i,
     ListingStatus, StockStatus
<1>3. CASE Cancel(o)
  BY <1>1, <1>3, RowType DEF TypeOK, Cancel, ledgerVars, pspVars, i,
     ListingStatus, StockStatus, ReleasedListing, ReleasedStock, IntentStatus
<1>4. CASE CreateIntent(o)
  BY <1>4 DEF TypeOK, CreateIntent, ledgerVars, catalogVars, IntentStatus
<1>5. CASE MockCheckout(o)
  BY <1>5, BookType DEF TypeOK, MockCheckout, catalogVars
<1>6. ASSUME NEW t \in FulfillmentTarget, Fulfil(o, t)
      PROVE  TypeOK'
  BY <1>1, <1>6, RowType DEF TypeOK, Fulfil, ledgerVars, catalogVars, pspVars
<1>7. CASE ConfirmReceipt(o)
  BY <1>1, <1>7, RowType DEF TypeOK, ConfirmReceipt, catalogVars, pspVars,
     SettlementStatus
<1>8. CASE Restock(o)
  BY <1>1, <1>8 DEF TypeOK, Restock, ledgerVars, pspVars, i, ListingStatus,
     StockStatus
<1>. QED  BY <1>2, <1>3, <1>4, <1>5, <1>6, <1>7, <1>8 DEF OrderStep

LEMMA TypeRefund ==
  ASSUME TypeOK, NEW r \in Refunds, RefundStep(r)
  PROVE  TypeOK'
<1>. DEFINE o == OrderOf[r]
<1>1. o \in Orders /\ order[o] \in OrderRow
  BY CheckoutAssumption DEF TypeOK
<1>2. MayStartRefund(r) => order[o].status \in Refundable
  BY DEF MayStartRefund, MayRequestRefund
<1>3. RefundNews(r, {"refund_created"}) \in SUBSET Event
  BY NewsType DEF RefundKind
<1>. HIDE DEF o
<1>4. CASE RequestRefundSucceeded(r)
  <2>1. FinalizeRefund(o, r, order[o].status) /\ MayStartRefund(r)
    BY <1>4 DEF RequestRefundSucceeded, o
  <2>2. sent \subseteq sent' /\ sent' \in SUBSET Event
    BY <1>4, SettledNewsType, AnnounceType DEF RequestRefundSucceeded
  <2>. QED
    BY <1>1, <1>2, <1>4, <2>1, <2>2, FinalizeType
       DEF RequestRefundSucceeded, TypeOK, catalogVars, PspRefundStatus
<1>5. ASSUME NEW answer \in {"pending", "failed"},
             RequestRefundUnsettled(r, answer)
      PROVE  TypeOK'
  <2>1. RefundNews(r, IF answer = "failed" THEN FailureKind
                      ELSE {"refund_created"}) \in SUBSET Event
    BY NewsType DEF RefundKind
  <2>2. sent \subseteq sent' /\ sent' \in SUBSET Event
    BY <1>5, <2>1, AnnounceType DEF RequestRefundUnsettled
  <2>. QED
    BY <1>1, <1>2, <1>5, <2>2, RowType
       DEF RequestRefundUnsettled, TypeOK, catalogVars, ledgerVars, o,
           PspRefundStatus, RefundRow, RefundStatus
<1>6. CASE RequestRefundLost(r)
  <2>1. sent \subseteq sent' /\ sent' \in SUBSET Event
    BY <1>3, <1>6, AnnounceType DEF RequestRefundLost
  <2>. QED
    BY <1>6, <2>1
       DEF RequestRefundLost, TypeOK, catalogVars, ledgerVars, PspRefundStatus
<1>. QED  BY <1>4, <1>5, <1>6 DEF RefundStep

LEMMA TypeWebhook ==
  ASSUME TypeOK, NEW e \in sent, Webhook(e)
  PROVE  TypeOK'
<1>1. e \in Event /\ processed \cup {e} \in SUBSET sent
  BY DEF TypeOK
<1>2. CASE PaymentSucceededEvent(e)
  <2>1. e.order \in Orders
    BY <1>1, <1>2, EventKinds DEF PaymentSucceededEvent, OrderKind
  <2>. QED
    BY <1>1, <1>2, <2>1, BookType
       DEF PaymentSucceededEvent, TypeOK, catalogVars, pspVars
<1>3. CASE PaymentFailedEvent(e)
  <2>1. e.order \in Orders /\ order[e.order] \in OrderRow
    BY <1>1, <1>3, EventKinds DEF PaymentFailedEvent, OrderKind, TypeOK
  <2>. QED
    BY <1>1, <1>3, <2>1, RowType
       DEF PaymentFailedEvent, TypeOK, catalogVars, ledgerVars, pspVars,
           IntentStatus
<1>4. CASE RefundSucceededEvent(e)
  <2>1. e.refund \in Refunds /\ OrderOf[e.refund] \in Orders
    BY <1>1, <1>4, EventKinds, CheckoutAssumption
       DEF RefundSucceededEvent, RefundKind
  <2>2. PICK r \in Target(e.refund) :
          FinalizeRefund(OrderOf[e.refund], r, refund[r].prev)
    BY <1>4 DEF RefundSucceededEvent
  <2>3. r \in Refunds /\ refund[r].prev \in Refundable
    BY <2>1, TargetRow
  <2>. QED
    BY <1>1, <1>4, <2>1, <2>2, <2>3, FinalizeType
       DEF RefundSucceededEvent, TypeOK, catalogVars, pspVars
<1>5. CASE RefundFailedEvent(e)
  <2>1. e.refund \in Refunds /\ OrderOf[e.refund] \in Orders
    BY <1>1, <1>5, EventKinds, CheckoutAssumption
       DEF RefundFailedEvent, RefundKind
  <2>2. PICK r \in Target(e.refund) :
          /\ refund' = [refund EXCEPT ![r].status = "failed"]
          /\ order' = [order EXCEPT ![OrderOf[e.refund]] =
                         RefundReverted(@, refund[r].prev)]
    BY <1>5 DEF RefundFailedEvent
  <2>3. r \in Refunds /\ refund[r].prev \in Refundable
    BY <2>1, TargetRow
  <2>4. order' \in [Orders -> OrderRow]
    BY <2>1, <2>2, <2>3, RowType DEF TypeOK
  <2>5. refund' \in [Refunds -> RefundRow]
    BY <2>2, <2>3 DEF TypeOK, RefundRow, RefundStatus
  <2>. QED
    BY <1>1, <1>5, <2>4, <2>5
       DEF RefundFailedEvent, TypeOK, catalogVars, ledgerVars, pspVars
<1>6. CASE RefundCreatedEvent(e)
  <2>1. e.refund \in Refunds
    BY <1>1, <1>6, EventKinds DEF RefundCreatedEvent, RefundKind
  <2>2. PICK r \in Target(e.refund) :
          refund' = [refund EXCEPT ![r].status = "processing"]
    BY <1>6 DEF RefundCreatedEvent
  <2>3. r \in Refunds
    BY <2>1, TargetRow
  <2>4. refund' \in [Refunds -> RefundRow]
    BY <2>2, <2>3 DEF TypeOK, RefundRow, RefundStatus
  <2>. QED
    BY <1>1, <1>6, <2>4
       DEF RefundCreatedEvent, TypeOK, catalogVars, ledgerVars, pspVars
<1>. QED  BY <1>2, <1>3, <1>4, <1>5, <1>6 DEF Webhook

LEMMA TypePsp ==
  ASSUME TypeOK, PspStep
  PROVE  TypeOK'
<1>1. ASSUME NEW o \in Orders, BuyerPays(o)
      PROVE  TypeOK'
  <2>1. OrderNews(o, {"session_completed", "intent_succeeded"}) \in SUBSET Event
    BY NewsType DEF OrderKind, SuccessKind
  <2>2. sent \subseteq sent' /\ sent' \in SUBSET Event
    BY <1>1, <2>1, AnnounceType DEF BuyerPays
  <2>. QED  BY <1>1, <2>2 DEF BuyerPays, TypeOK, platformVars
<1>2. ASSUME NEW o \in Orders, AttemptFails(o)
      PROVE  TypeOK'
  <2>1. OrderNews(o, {"intent_failed"}) \in SUBSET Event
    BY NewsType DEF OrderKind
  <2>2. sent \subseteq sent' /\ sent' \in SUBSET Event
    BY <1>2, <2>1, AnnounceType DEF AttemptFails
  <2>. QED  BY <1>2, <2>2 DEF AttemptFails, TypeOK, platformVars
<1>3. ASSUME NEW r \in Refunds, PspRefundSucceeds(r)
      PROVE  TypeOK'
  <2>1. sent \subseteq sent' /\ sent' \in SUBSET Event
    BY <1>3, SettledNewsType, AnnounceType DEF PspRefundSucceeds
  <2>. QED
    BY <1>3, <2>1 DEF PspRefundSucceeds, TypeOK, platformVars, PspRefundStatus
<1>4. ASSUME NEW r \in Refunds, PspRefundFails(r)
      PROVE  TypeOK'
  <2>1. RefundNews(r, FailureKind) \in SUBSET Event
    BY NewsType DEF RefundKind
  <2>2. sent \subseteq sent' /\ sent' \in SUBSET Event
    BY <1>4, <2>1, AnnounceType DEF PspRefundFails
  <2>. QED
    BY <1>4, <2>2 DEF PspRefundFails, TypeOK, platformVars, PspRefundStatus
<1>. QED  BY <1>1, <1>2, <1>3, <1>4 DEF PspStep

LEMMA TypeStep ==
  ASSUME TypeOK, [Next]_vars
  PROVE  TypeOK'
<1>1. CASE Next
  BY <1>1, TypeCatalog, TypeOrder, TypeRefund, TypeWebhook, TypePsp DEF Next
<1>2. CASE UNCHANGED vars
  BY <1>2 DEF vars, TypeOK
<1>. QED  BY <1>1, <1>2

\* Every state of the checkout is well typed (the rows, the ledger, the PSP
\* and its events), and only events that were sent are processed.
THEOREM TypeCorrect == Spec => []TypeOK
BY InitType, TypeStep, PTL DEF Spec

-----------------------------------------------------------------------------
(***************************************************************************)
(* What the events and the refunds of the PSP say of its charges.  The     *)
(* safety invariants are not inductive without it: a handler learns of the *)
(* money only through an event.                                            *)
(***************************************************************************)
PspTruth ==
  /\ \A o \in Orders : charge[o] # "none" => intent[o] # "none"
  /\ \A r \in Refunds : pspRefund[r] # "none" => charge[OrderOf[r]] = "captured"
  /\ \A e \in sent : e.kind \in SuccessKind => charge[e.order] = "captured"
  /\ \A e \in sent : e.kind = "refund_succeeded" =>
       pspRefund[e.refund] \in {"succeeded", "returned"}

\* What an announcement about an order or a refund contains.
LEMMA NewsContent ==
  /\ \A o, k : \A e \in OrderNews(o, k) : e.kind \in k /\ e.order = o
  /\ \A r, k : \A e \in RefundNews(r, k) : e.kind \in k /\ e.refund = r
BY DEF OrderNews, RefundNews

LEMMA PspTruthInit == Init => PspTruth
BY DEF Init, PspTruth

\* PspTruth is kept by a step that announces nothing, takes back no charge
\* and no refund, and drops no intent.
LEMMA PspTruthQuiet ==
  ASSUME TypeOK, PspTruth, UNCHANGED pspVars,
         \A o \in Orders : intent[o] # "none" => intent'[o] # "none"
  PROVE  PspTruth'
BY CheckoutAssumption DEF TypeOK, PspTruth, pspVars

LEMMA PspTruthOrder ==
  ASSUME TypeOK, PspTruth, NEW o \in Orders, OrderStep(o)
  PROVE  PspTruth'
<1>1. CASE PlaceOrder(o)
  BY <1>1, PspTruthQuiet DEF PlaceOrder
<1>2. CASE Cancel(o)
  BY <1>2, PspTruthQuiet DEF Cancel, TypeOK
<1>3. CASE CreateIntent(o)
  <2>1. intent[o] = "none" /\ charge[o] = "none"
    BY <1>3 DEF CreateIntent, PspTruth
  <2>. QED
    BY <1>3, <2>1, CheckoutAssumption, EventKinds
       DEF CreateIntent, PspTruth, TypeOK, OrderKind
<1>4. CASE MockCheckout(o)
  BY <1>4, CheckoutAssumption, EventKinds
     DEF MockCheckout, BookPayment, PspTruth, TypeOK, OrderKind
<1>5. ASSUME NEW t \in FulfillmentTarget, Fulfil(o, t)
      PROVE  PspTruth'
  BY <1>5, PspTruthQuiet DEF Fulfil
<1>6. CASE ConfirmReceipt(o)
  BY <1>6, PspTruthQuiet DEF ConfirmReceipt
<1>7. CASE Restock(o)
  BY <1>7, PspTruthQuiet DEF Restock
<1>. QED  BY <1>1, <1>2, <1>3, <1>4, <1>5, <1>6, <1>7 DEF OrderStep

LEMMA PspTruthRefund ==
  ASSUME TypeOK, PspTruth, NEW r \in Refunds, RefundStep(r)
  PROVE  PspTruth'
<1>. DEFINE o == OrderOf[r]
<1>1. o \in Orders
  BY CheckoutAssumption
<1>2. MayStartRefund(r) => charge[o] = "captured" /\ pspRefund[r] = "none"
  BY DEF MayStartRefund, PspAccepts
<1>. HIDE DEF o
<1>3. CASE RequestRefundSucceeded(r)
  <2>1. \A e \in SettledNews(r) :
          \/ e.kind = "refund_succeeded" /\ e.refund = r
          \/ e.kind = "charge_refunded" /\ e.order = o
    BY <1>1, NewsContent DEF SettledNews, o
  <2>2. \A e \in sent' : e \in sent \/ e \in SettledNews(r)
    BY <1>3 DEF RequestRefundSucceeded, Announce
  <2>3. /\ pspRefund' = [pspRefund EXCEPT ![r] = "succeeded"]
        /\ charge' = charge /\ intent' = intent /\ MayStartRefund(r)
    BY <1>3 DEF RequestRefundSucceeded
  <2>. QED
    BY <1>1, <1>2, <2>1, <2>2, <2>3, CheckoutAssumption, EventKinds
       DEF PspTruth, TypeOK, o, SuccessKind, RefundKind
<1>4. ASSUME NEW answer \in {"pending", "failed"},
             RequestRefundUnsettled(r, answer) \/ RequestRefundLost(r)
      PROVE  PspTruth'
  <2>1. \A e \in sent' :
          e \in sent \/ (e.kind \in RefundKind \ {"refund_succeeded"} /\ e.refund = r)
    BY <1>4, NewsContent
       DEF RequestRefundUnsettled, RequestRefundLost, Announce, RefundKind,
           FailureKind
  <2>2. /\ \E s \in {"pending", "failed"} : pspRefund' = [pspRefund EXCEPT ![r] = s]
        /\ charge' = charge /\ intent' = intent /\ MayStartRefund(r)
    BY <1>4 DEF RequestRefundUnsettled, RequestRefundLost
  <2>. QED
    BY <1>1, <1>2, <2>1, <2>2, CheckoutAssumption, EventKinds
       DEF PspTruth, TypeOK, o, SuccessKind, RefundKind, FailureKind
<1>. QED  BY <1>3, <1>4 DEF RefundStep

LEMMA PspTruthWebhook ==
  ASSUME TypeOK, PspTruth, NEW e \in sent, Webhook(e)
  PROVE  PspTruth'
<1>1. UNCHANGED pspVars
  BY DEF Webhook, PaymentSucceededEvent, PaymentFailedEvent,
         RefundSucceededEvent, RefundFailedEvent, RefundCreatedEvent
<1>2. \A o \in Orders : intent[o] # "none" => intent'[o] # "none"
  BY DEF Webhook, PaymentSucceededEvent, PaymentFailedEvent, BookPayment,
         RefundSucceededEvent, RefundFailedEvent, RefundCreatedEvent, TypeOK
<1>. QED  BY <1>1, <1>2, PspTruthQuiet

LEMMA PspTruthPsp ==
  ASSUME TypeOK, PspTruth, PspStep
  PROVE  PspTruth'
<1>1. ASSUME NEW o \in Orders, BuyerPays(o)
      PROVE  PspTruth'
  <2>1. \A e \in sent' : e \in sent \/ (e.kind \in OrderKind /\ e.order = o)
    BY <1>1, NewsContent DEF BuyerPays, Announce, OrderKind, SuccessKind
  <2>2. UNCHANGED <<intent, pspRefund>>
    BY <1>1 DEF BuyerPays, platformVars
  <2>. QED
    BY <1>1, <2>1, <2>2, CheckoutAssumption, EventKinds
       DEF BuyerPays, PspTruth, TypeOK, OrderKind, SuccessKind
<1>2. ASSUME NEW o \in Orders, AttemptFails(o)
      PROVE  PspTruth'
  <2>1. \A e \in sent' : e \in sent \/ e.kind = "intent_failed"
    BY <1>2, NewsContent DEF AttemptFails, Announce
  <2>2. UNCHANGED <<intent, charge, pspRefund>>
    BY <1>2 DEF AttemptFails, platformVars
  <2>. QED
    BY <2>1, <2>2, CheckoutAssumption DEF PspTruth, SuccessKind
<1>3. ASSUME NEW r \in Refunds, PspRefundSucceeds(r)
      PROVE  PspTruth'
  <2>1. \A e \in sent' :
          \/ e \in sent
          \/ e.kind = "refund_succeeded" /\ e.refund = r
          \/ e.kind = "charge_refunded" /\ e.order = OrderOf[r]
    BY <1>3, NewsContent, CheckoutAssumption
       DEF PspRefundSucceeds, Announce, SettledNews
  <2>2. UNCHANGED <<intent, charge>>
    BY <1>3 DEF PspRefundSucceeds, platformVars
  <2>. QED
    BY <1>3, <2>1, <2>2, CheckoutAssumption, EventKinds
       DEF PspRefundSucceeds, PspTruth, TypeOK, SuccessKind, RefundKind
<1>4. ASSUME NEW r \in Refunds, PspRefundFails(r)
      PROVE  PspTruth'
  <2>1. \A e \in sent' : e \in sent \/ e.kind \in FailureKind
    BY <1>4, NewsContent DEF PspRefundFails, Announce
  <2>2. UNCHANGED <<intent, charge>>
    BY <1>4 DEF PspRefundFails, platformVars
  <2>. QED
    BY <1>4, <2>1, <2>2, CheckoutAssumption, EventKinds
       DEF PspRefundFails, PspTruth, TypeOK, SuccessKind, FailureKind,
           RefundKind
<1>. QED  BY <1>1, <1>2, <1>3, <1>4 DEF PspStep

LEMMA PspTruthStep ==
  ASSUME TypeOK, PspTruth, [Next]_vars
  PROVE  PspTruth'
<1>1. CASE CatalogStep
  BY <1>1, PspTruthQuiet DEF CatalogStep, SetMerchantStatus, Publish
<1>2. CASE UNCHANGED vars
  BY <1>2, PspTruthQuiet DEF vars, pspVars
<1>. QED
  BY <1>1, <1>2, PspTruthOrder, PspTruthRefund, PspTruthWebhook, PspTruthPsp
  DEF Next

\* The PSP never announces a payment it did not capture, or a refund it did
\* not make.
THEOREM PspTruthful == Spec => []PspTruth
BY PspTruthInit, PspTruthStep, TypeCorrect, PTL DEF Spec

-----------------------------------------------------------------------------
(***************************************************************************)
(* Captured money: CaptureBacked.                                          *)
(***************************************************************************)
LEMMA CaptureInit == Init => CaptureBacked
BY CheckoutAssumption
   DEF Init, CaptureBacked, NeedsCapture, NoOrderRow, NoRefundRow, RowsOf,
       RefundsOf

\* A refund row changes only on the order it belongs to.
LEMMA RowsAfter ==
  ASSUME TypeOK, NEW r \in Refunds, NEW row,
         refund' = [refund EXCEPT ![r] = row]
  PROVE  \A o \in Orders : OrderOf[r] # o => (RowsOf(o) # {})' = (RowsOf(o) # {})
BY DEF TypeOK, RowsOf, RefundsOf

\* Booking a payment of a captured charge.
LEMMA CaptureBook ==
  ASSUME TypeOK, CaptureBacked, NEW o \in Orders, BookPayment(o),
         charge'[o] = "captured",
         \A q \in Orders : charge[q] = "captured" => charge'[q] = "captured",
         UNCHANGED <<refund, settlement>>
  PROVE  CaptureBacked'
<1>1. order[o] \in OrderRow
  BY DEF TypeOK
<1>. QED
  BY <1>1, RowStatus, RowPay
     DEF TypeOK, CaptureBacked, NeedsCapture, BookPayment, CaptureJournal,
         AlreadyPaid, RowsOf, RefundsOf, TotalOf, PaymentSucceeded

\* A step that concerns one order, which already needs its capture, keeps
\* CaptureBacked.
LEMMA CaptureCovered ==
  ASSUME TypeOK, CaptureBacked, NEW o \in Orders, NeedsCapture(o),
         \A q \in Orders : q # o => NeedsCapture(q)' = NeedsCapture(q),
         UNCHANGED <<captured, charge>>
  PROVE  CaptureBacked'
BY DEF CaptureBacked, TotalOf

LEMMA CaptureOrder ==
  ASSUME TypeOK, PspTruth, CaptureBacked, NEW o \in Orders, OrderStep(o)
  PROVE  CaptureBacked'
<1>1. order[o] \in OrderRow
  BY DEF TypeOK
<1>2. CASE PlaceOrder(o)
  BY <1>1, <1>2, RowStatus, RowPay
     DEF PlaceOrder, TypeOK, CaptureBacked, NeedsCapture, ledgerVars, pspVars,
         RowsOf, RefundsOf, TotalOf
<1>3. CASE Cancel(o)
  BY <1>1, <1>3, RowStatus, RowPay
     DEF Cancel, TypeOK, CaptureBacked, NeedsCapture, ledgerVars, pspVars,
         RowsOf, RefundsOf, TotalOf
<1>4. CASE CreateIntent(o)
  BY <1>4 DEF CreateIntent, TypeOK, PspTruth, CaptureBacked, NeedsCapture,
              ledgerVars, RowsOf, RefundsOf, TotalOf
<1>5. CASE MockCheckout(o)
  BY <1>5, CaptureBook DEF MockCheckout, TypeOK
<1>6. ASSUME NEW t \in FulfillmentTarget, Fulfil(o, t)
      PROVE  CaptureBacked'
  <2>1. NeedsCapture(o)
    BY <1>6 DEF Fulfil, MayFulfil, NeedsCapture
  <2>2. \A q \in Orders : q # o => NeedsCapture(q)' = NeedsCapture(q)
    BY <1>6 DEF Fulfil, TypeOK, NeedsCapture, RowsOf, RefundsOf
  <2>. QED
    BY <1>6, <2>1, <2>2, CaptureCovered DEF Fulfil, ledgerVars, pspVars
<1>7. CASE ConfirmReceipt(o)
  BY <1>1, <1>7, RowStatus, RowPay
     DEF ConfirmReceipt, MayConfirm, TypeOK, CaptureBacked, NeedsCapture,
         pspVars, RowsOf, RefundsOf, TotalOf
<1>8. CASE Restock(o)
  BY <1>8 DEF Restock, TypeOK, CaptureBacked, NeedsCapture, ledgerVars,
              pspVars, RowsOf, RefundsOf, TotalOf
<1>. QED  BY <1>2, <1>3, <1>4, <1>5, <1>6, <1>7, <1>8 DEF OrderStep

LEMMA CaptureFinalize ==
  ASSUME TypeOK, CaptureBacked, NEW r \in Refunds, NEW prev,
         NeedsCapture(OrderOf[r]), FinalizeRefund(OrderOf[r], r, prev),
         UNCHANGED <<captured, charge, intent>>
  PROVE  CaptureBacked'
<1>. DEFINE o == OrderOf[r]
<1>1. o \in Orders
  BY CheckoutAssumption
<1>2. \A q \in Orders : q # o => (RowsOf(q) # {})' = (RowsOf(q) # {})
  BY RowsAfter DEF FinalizeRefund
<1>3. \A q \in Orders : q # o => NeedsCapture(q)' = NeedsCapture(q)
  BY <1>1, <1>2 DEF NeedsCapture, FinalizeRefund, TypeOK
<1>. QED  BY <1>1, <1>3, CaptureCovered

LEMMA CaptureRefund ==
  ASSUME TypeOK, CaptureBacked, NEW r \in Refunds, RefundStep(r)
  PROVE  CaptureBacked'
<1>. DEFINE o == OrderOf[r]
<1>1. o \in Orders /\ order[o] \in OrderRow
  BY CheckoutAssumption DEF TypeOK
<1>2. NeedsCapture(o)
  BY DEF RefundStep, RequestRefundSucceeded, RequestRefundUnsettled,
         RequestRefundLost, MayStartRefund, MayRequestRefund, Refundable,
         NeedsCapture
<1>3. CASE RequestRefundSucceeded(r)
  BY <1>2, <1>3, CaptureFinalize DEF RequestRefundSucceeded
<1>4. ASSUME NEW answer \in {"pending", "failed"},
             RequestRefundUnsettled(r, answer)
      PROVE  CaptureBacked'
  <2>1. \A q \in Orders : q # o => (RowsOf(q) # {})' = (RowsOf(q) # {})
    BY <1>4, RowsAfter DEF RequestRefundUnsettled
  <2>2. \A q \in Orders : q # o => NeedsCapture(q)' = NeedsCapture(q)
    BY <1>1, <1>4, <2>1 DEF NeedsCapture, RequestRefundUnsettled, TypeOK
  <2>. QED
    BY <1>1, <1>2, <1>4, <2>2, CaptureCovered
       DEF RequestRefundUnsettled, ledgerVars
<1>5. CASE RequestRefundLost(r)
  BY <1>5 DEF RequestRefundLost, CaptureBacked, NeedsCapture, ledgerVars,
              RowsOf, RefundsOf, TotalOf
<1>. QED  BY <1>3, <1>4, <1>5 DEF RefundStep

LEMMA CaptureWebhook ==
  ASSUME TypeOK, PspTruth, CaptureBacked, NEW e \in sent, Webhook(e)
  PROVE  CaptureBacked'
<1>1. e \in Event
  BY DEF TypeOK
<1>2. CASE PaymentSucceededEvent(e)
  <2>1. e.order \in Orders /\ charge[e.order] = "captured"
    BY <1>1, <1>2, EventKinds DEF PaymentSucceededEvent, OrderKind, PspTruth
  <2>. QED
    BY <1>2, <2>1, CaptureBook DEF PaymentSucceededEvent, pspVars
<1>3. CASE PaymentFailedEvent(e)
  <2>1. e.order \in Orders /\ order[e.order] \in OrderRow
    BY <1>1, <1>3, EventKinds DEF PaymentFailedEvent, OrderKind, TypeOK
  <2>. QED
    BY <1>3, <2>1, RowStatus, RowPay
       DEF PaymentFailedEvent, TypeOK, CaptureBacked, NeedsCapture,
           ledgerVars, pspVars, RowsOf, RefundsOf, TotalOf
<1>4. ASSUME e.kind \in RefundKind
      PROVE  /\ e.refund \in Refunds /\ OrderOf[e.refund] \in Orders
             /\ \A r \in Target(e.refund) :
                  /\ r \in Refunds
                  /\ OrderOf[r] = OrderOf[e.refund]
                  /\ NeedsCapture(OrderOf[r])
  BY <1>1, <1>4, EventKinds, TargetRow, CheckoutAssumption DEF NeedsCapture
<1>5. CASE RefundSucceededEvent(e)
  <2>1. PICK r \in Target(e.refund) :
          FinalizeRefund(OrderOf[e.refund], r, refund[r].prev)
    BY <1>5 DEF RefundSucceededEvent
  <2>2. r \in Refunds /\ OrderOf[r] = OrderOf[e.refund] /\ NeedsCapture(OrderOf[r])
    BY <1>4, <1>5 DEF RefundSucceededEvent, RefundKind
  <2>. QED
    BY <1>5, <2>1, <2>2, CaptureFinalize DEF RefundSucceededEvent, pspVars
<1>6. CASE RefundFailedEvent(e) \/ RefundCreatedEvent(e)
  <2>1. PICK r \in Target(e.refund) :
          /\ \E row : refund' = [refund EXCEPT ![r] = row]
          /\ \A q \in Orders : q # OrderOf[e.refund] => order'[q] = order[q]
    BY <1>6 DEF RefundFailedEvent, RefundCreatedEvent, TypeOK
  <2>2. r \in Refunds /\ OrderOf[r] = OrderOf[e.refund] /\ NeedsCapture(OrderOf[r])
    BY <1>4, <1>6 DEF RefundFailedEvent, RefundCreatedEvent, RefundKind
  <2>3. UNCHANGED <<intent, settlement, captured, charge>>
    BY <1>6 DEF RefundFailedEvent, RefundCreatedEvent, ledgerVars, pspVars
  <2>4. \A q \in Orders : q # OrderOf[r] => NeedsCapture(q)' = NeedsCapture(q)
    BY <2>1, <2>2, <2>3, RowsAfter DEF NeedsCapture
  <2>. QED
    BY <2>2, <2>3, <2>4, CaptureCovered, CheckoutAssumption
<1>. QED  BY <1>2, <1>3, <1>5, <1>6 DEF Webhook

LEMMA CapturePsp ==
  ASSUME TypeOK, CaptureBacked, PspStep
  PROVE  CaptureBacked'
<1>1. UNCHANGED platformVars
  BY DEF PspStep, BuyerPays, AttemptFails, PspRefundSucceeds, PspRefundFails
<1>2. \A o \in Orders : charge[o] = "captured" => charge'[o] = "captured"
  BY DEF PspStep, BuyerPays, AttemptFails, PspRefundSucceeds, PspRefundFails,
         TypeOK
<1>. QED
  BY <1>1, <1>2 DEF platformVars, CaptureBacked, NeedsCapture, RowsOf,
                    RefundsOf, TotalOf

LEMMA CaptureStep ==
  ASSUME TypeOK, PspTruth, CaptureBacked, [Next]_vars
  PROVE  CaptureBacked'
<1>1. CASE CatalogStep \/ UNCHANGED vars
  <2>1. UNCHANGED <<order, intent, refund, settlement, captured, charge>>
    BY <1>1 DEF CatalogStep, SetMerchantStatus, Publish, ledgerVars, pspVars, vars
  <2>. QED
    BY <2>1 DEF CaptureBacked, NeedsCapture, RowsOf, RefundsOf, TotalOf
<1>. QED
  BY <1>1, CaptureOrder, CaptureRefund, CaptureWebhook, CapturePsp DEF Next

\* Money is booked exactly when the PSP has it: the capture journal exists
\* before an order is paid, shipped, settled or refunded, and never without
\* a captured charge.
THEOREM CaptureSafe == Spec => []CaptureBacked
BY CaptureInit, CaptureStep, TypeCorrect, PspTruthful, PTL DEF Spec

-----------------------------------------------------------------------------
(***************************************************************************)
(* Refunds and settlements.  Few steps move the ledger: the others are     *)
(* summed up once, by what they leave alone.                               *)
(***************************************************************************)

\* A step that settles nothing, reverses nothing, makes no order refunded
\* and captures the money of at most one order.
QuietStep ==
  /\ UNCHANGED <<settlement, settled, reversed>>
  /\ \/ UNCHANGED captured
     \/ \E o \in Orders : TotalOf(o) > 0 /\ captured' = captured \cup {o}
  /\ \A o \in Orders :
       /\ order'[o].status = "refunded" => order[o].status = "refunded"
       /\ order'[o].pay = "refunded" => order[o].pay = "refunded"
  /\ \A r \in Refunds :
       pspRefund[r] \in {"succeeded", "returned"} =>
         pspRefund'[r] \in {"succeeded", "returned"}

\* The steps that finalise a refund, and confirm_receipt.
FinalizeStep(r) ==
  /\ \E prev : FinalizeRefund(OrderOf[r], r, prev)
  /\ UNCHANGED settled
  /\ \E q \in RefundsOf(OrderOf[r]) : pspRefund'[q] \in {"succeeded", "returned"}
  /\ \A q \in Refunds :
       pspRefund[q] \in {"succeeded", "returned"} => pspRefund'[q] = pspRefund[q]
  /\ UNCHANGED captured
  /\ NeedsCapture(OrderOf[r])

LEMMA BookQuiet ==
  ASSUME TypeOK, NEW o \in Orders, BookPayment(o),
         UNCHANGED <<settlement, settled, reversed, pspRefund>>
  PROVE  QuietStep
<1>1. order[o] \in OrderRow
  BY DEF TypeOK
<1>2. captured' = captured \/ (TotalOf(o) > 0 /\ captured' = captured \cup {o})
  BY DEF BookPayment, CaptureJournal
<1>3. /\ order'[o].status = "refunded" => order[o].status = "refunded"
      /\ order'[o].pay # "refunded"
  BY <1>1, RowStatus, RowPay DEF BookPayment, TypeOK
<1>. QED
  BY <1>2, <1>3 DEF BookPayment, QuietStep, TypeOK

LEMMA OrderStepKinds ==
  ASSUME TypeOK, NEW o \in Orders, OrderStep(o)
  PROVE  QuietStep \/ ConfirmReceipt(o)
<1>1. order[o] \in OrderRow
  BY DEF TypeOK
<1>2. CASE PlaceOrder(o)
  BY <1>1, <1>2, RowStatus, RowPay
     DEF PlaceOrder, QuietStep, TypeOK, ledgerVars, pspVars
<1>3. CASE Cancel(o)
  BY <1>1, <1>3, RowStatus, RowPay
     DEF Cancel, QuietStep, TypeOK, ledgerVars, pspVars
<1>4. CASE CreateIntent(o)
  BY <1>4 DEF CreateIntent, QuietStep, ledgerVars
<1>5. CASE MockCheckout(o)
  BY <1>5, BookQuiet DEF MockCheckout
<1>6. ASSUME NEW t \in FulfillmentTarget, Fulfil(o, t)
      PROVE  QuietStep
  <2>1. order'[o].status # "refunded" /\ order'[o].pay = order[o].pay
    BY <1>1, <1>6, RowStatus, RowPay DEF Fulfil, FulfillmentTarget, TypeOK
  <2>. QED
    BY <1>6, <2>1 DEF Fulfil, QuietStep, TypeOK, ledgerVars, pspVars
<1>7. CASE Restock(o)
  BY <1>7 DEF Restock, QuietStep, ledgerVars, pspVars
<1>. QED  BY <1>2, <1>3, <1>4, <1>5, <1>6, <1>7 DEF OrderStep

LEMMA RefundStepKinds ==
  ASSUME TypeOK, NEW r \in Refunds, RefundStep(r)
  PROVE  QuietStep \/ FinalizeStep(r)
<1>1. OrderOf[r] \in Orders /\ order[OrderOf[r]] \in OrderRow
  BY CheckoutAssumption DEF TypeOK
<1>2. MayStartRefund(r) => NeedsCapture(OrderOf[r]) /\ pspRefund[r] = "none"
  BY DEF MayStartRefund, MayRequestRefund, PspAccepts, NeedsCapture, Refundable
<1>3. CASE RequestRefundSucceeded(r)
  BY <1>2, <1>3
     DEF RequestRefundSucceeded, FinalizeStep, TypeOK, RefundsOf
<1>4. ASSUME NEW answer \in {"pending", "failed"},
             RequestRefundUnsettled(r, answer)
      PROVE  QuietStep
  BY <1>1, <1>2, <1>4, RowStatus, RowPay
     DEF RequestRefundUnsettled, QuietStep, TypeOK, ledgerVars
<1>5. CASE RequestRefundLost(r)
  BY <1>2, <1>5 DEF RequestRefundLost, QuietStep, TypeOK, ledgerVars
<1>. QED  BY <1>3, <1>4, <1>5 DEF RefundStep

LEMMA WebhookKinds ==
  ASSUME TypeOK, PspTruth, NEW e \in sent, Webhook(e)
  PROVE  QuietStep \/ \E r \in Refunds : FinalizeStep(r)
<1>1. e \in Event
  BY DEF TypeOK
<1>2. CASE PaymentSucceededEvent(e) \/ PaymentFailedEvent(e)
  <2>1. e.order \in Orders /\ order[e.order] \in OrderRow
    BY <1>1, <1>2, EventKinds
       DEF PaymentSucceededEvent, PaymentFailedEvent, OrderKind, TypeOK
  <2>2. CASE PaymentSucceededEvent(e)
    BY <2>1, <2>2, BookQuiet DEF PaymentSucceededEvent, pspVars
  <2>3. CASE PaymentFailedEvent(e)
    BY <2>1, <2>3, RowStatus, RowPay
       DEF PaymentFailedEvent, QuietStep, TypeOK, ledgerVars, pspVars
  <2>. QED  BY <1>2, <2>2, <2>3
<1>3. ASSUME e.kind \in RefundKind
      PROVE  /\ e.refund \in Refunds /\ OrderOf[e.refund] \in Orders
             /\ \A r \in Target(e.refund) :
                  /\ r \in Refunds
                  /\ OrderOf[r] = OrderOf[e.refund]
                  /\ refund[r].prev \in Refundable
                  /\ NeedsCapture(OrderOf[r])
  BY <1>1, <1>3, EventKinds, TargetRow, CheckoutAssumption DEF NeedsCapture
<1>4. CASE RefundSucceededEvent(e)
  <2>1. PICK r \in Target(e.refund) :
          FinalizeRefund(OrderOf[e.refund], r, refund[r].prev)
    BY <1>4 DEF RefundSucceededEvent
  <2>2. e.kind = "refund_succeeded"
    BY <1>4 DEF RefundSucceededEvent
  <2>3. /\ r \in Refunds /\ OrderOf[r] = OrderOf[e.refund]
        /\ NeedsCapture(OrderOf[r]) /\ e.refund \in Refunds
    BY <1>3, <2>2 DEF RefundKind
  <2>4. e.refund \in RefundsOf(OrderOf[r])
    BY <2>3 DEF RefundsOf
  <2>5. UNCHANGED <<pspRefund, captured, settled>>
    BY <1>4 DEF RefundSucceededEvent, pspVars
  <2>6. pspRefund[e.refund] \in {"succeeded", "returned"}
    BY <2>2 DEF PspTruth
  <2>7. FinalizeStep(r)
    BY <2>1, <2>3, <2>4, <2>5, <2>6 DEF FinalizeStep
  <2>. QED  BY <2>3, <2>7
<1>5. CASE RefundFailedEvent(e)
  <2>1. PICK r \in Target(e.refund) :
          order' = [order EXCEPT ![OrderOf[e.refund]] =
                      RefundReverted(@, refund[r].prev)]
    BY <1>5 DEF RefundFailedEvent
  <2>2. /\ OrderOf[e.refund] \in Orders
        /\ order[OrderOf[e.refund]] \in OrderRow
        /\ refund[r].prev \in Refundable
    BY <1>3, <1>5 DEF RefundFailedEvent, RefundKind, TypeOK
  <2>3. /\ order'[OrderOf[e.refund]].status # "refunded"
        /\ order'[OrderOf[e.refund]].pay = order[OrderOf[e.refund]].pay
    BY <2>1, <2>2, RowStatus, RowPay DEF Refundable, TypeOK
  <2>. QED
    BY <1>5, <2>1, <2>3
       DEF RefundFailedEvent, QuietStep, TypeOK, ledgerVars, pspVars
<1>6. CASE RefundCreatedEvent(e)
  BY <1>6 DEF RefundCreatedEvent, QuietStep, ledgerVars, pspVars
<1>. QED  BY <1>2, <1>4, <1>5, <1>6 DEF Webhook

\* Every step is one of three kinds as far as refunds and settlements go.
LEMMA StepKinds ==
  ASSUME TypeOK, PspTruth, [Next]_vars
  PROVE  \/ QuietStep
         \/ \E o \in Orders : ConfirmReceipt(o)
         \/ \E r \in Refunds : FinalizeStep(r)
<1>1. CASE CatalogStep \/ UNCHANGED vars
  BY <1>1 DEF CatalogStep, SetMerchantStatus, Publish, QuietStep, ledgerVars,
              pspVars, vars
<1>2. CASE PspStep
  BY <1>2 DEF PspStep, BuyerPays, AttemptFails, PspRefundSucceeds,
              PspRefundFails, platformVars, QuietStep, TypeOK
<1>. QED
  BY <1>1, <1>2, OrderStepKinds, RefundStepKinds, WebhookKinds DEF Next

LEMMA SettlementStep ==
  ASSUME TypeOK, PspTruth, SettlementConsistent, [Next]_vars
  PROVE  SettlementConsistent'
<1>1. CASE QuietStep
  BY <1>1 DEF QuietStep, SettlementConsistent, RefundsOf
<1>2. ASSUME NEW o \in Orders, ConfirmReceipt(o)
      PROVE  SettlementConsistent'
  <2>1. order[o] \in OrderRow
    BY DEF TypeOK
  <2>2. \A q \in Orders : order'[q].status = "refunded" => order[q].status = "refunded" /\ q # o
    BY <1>2, <2>1, RowStatus DEF ConfirmReceipt, TypeOK
  <2>. QED
    BY <1>2, <2>2 DEF ConfirmReceipt, SettlementConsistent, RefundsOf, TypeOK
<1>3. ASSUME NEW r \in Refunds, FinalizeStep(r)
      PROVE  SettlementConsistent'
  <2>. DEFINE o == OrderOf[r]
  <2>1. o \in Orders /\ order[o] \in OrderRow
    BY CheckoutAssumption DEF TypeOK
  <2>2. PICK prev : FinalizeRefund(o, r, prev)
    BY <1>3 DEF FinalizeStep
  <2>3. settled' = settled
    BY <1>3 DEF FinalizeStep
  <2>4. \A q \in Orders : q # o => /\ settlement'[q] = settlement[q]
                                   /\ order'[q] = order[q]
                                   /\ \A p \in RefundsOf(q) : reversed'[p] = reversed[p]
    BY <2>1, <2>2 DEF FinalizeRefund, ReversalJournal, RefundsOf, TypeOK
  <2>5. settlement'[o] # "none" <=> settlement[o] # "none"
    BY <2>1, <2>2 DEF FinalizeRefund, TypeOK
  <2>6. settlement'[o] # "pending"
    BY <2>1, <2>2 DEF FinalizeRefund, AlreadyRefunded, SettlementConsistent, TypeOK
  <2>7. ASSUME NEW p \in RefundsOf(o), reversed'[p] = "payable"
        PROVE  settlement'[o] = "cancelled"
    <3>1. reversed[p] = "payable" \/ settlement[o] # "none"
      BY <2>1, <2>2, <2>7 DEF FinalizeRefund, ReversalJournal, TypeOK, RefundsOf
    <3>2. settlement[o] # "none"
      BY <2>1, <2>7, <3>1 DEF SettlementConsistent
    <3>3. settlement'[o] \in {"pending", "cancelled"}
      BY <2>1, <2>2, <3>2 DEF FinalizeRefund, TypeOK, SettlementStatus
    <3>. QED  BY <2>6, <3>3
  <2>. HIDE DEF o
  <2>. QED
    BY <2>1, <2>3, <2>4, <2>5, <2>6, <2>7 DEF SettlementConsistent, RefundsOf
<1>. QED  BY <1>1, <1>2, <1>3, StepKinds

\* A merchant is never paid out for an order that was refunded.
THEOREM SettlementSafe == Spec => []SettlementConsistent
<1>1. Init => SettlementConsistent
  BY CheckoutAssumption
     DEF Init, SettlementConsistent, NoOrderRow, RefundsOf
<1>. QED  BY <1>1, SettlementStep, TypeCorrect, PspTruthful, PTL DEF Spec

LEMMA RefundBackedStep ==
  ASSUME TypeOK, PspTruth, RefundBacked, [Next]_vars
  PROVE  RefundBacked'
<1>1. CASE QuietStep
  BY <1>1 DEF QuietStep, RefundBacked, RefundsOf
<1>2. ASSUME NEW o \in Orders, ConfirmReceipt(o)
      PROVE  RefundBacked'
  <2>1. order[o] \in OrderRow
    BY DEF TypeOK
  <2>2. \A q \in Orders :
          order'[q].status = "refunded" \/ order'[q].pay = "refunded" =>
            order[q].status = "refunded" \/ order[q].pay = "refunded"
    BY <1>2, <2>1, RowStatus, RowPay DEF ConfirmReceipt, TypeOK
  <2>. QED
    BY <1>2, <2>2 DEF ConfirmReceipt, RefundBacked, RefundsOf, pspVars
<1>3. ASSUME NEW r \in Refunds, FinalizeStep(r)
      PROVE  RefundBacked'
  <2>. DEFINE o == OrderOf[r]
  <2>1. o \in Orders /\ order[o] \in OrderRow /\ r \in RefundsOf(o)
    BY CheckoutAssumption DEF TypeOK, RefundsOf
  <2>2. PICK prev : FinalizeRefund(o, r, prev)
    BY <1>3 DEF FinalizeStep
  <2>3. \E q \in RefundsOf(o) : pspRefund'[q] \in {"succeeded", "returned"}
    BY <1>3 DEF FinalizeStep
  <2>4. \A q \in Refunds : pspRefund[q] \in {"succeeded", "returned"} =>
                             pspRefund'[q] = pspRefund[q]
    BY <1>3 DEF FinalizeStep
  <2>5. \A q \in Refunds : reversed[q] # "none" => reversed'[q] # "none"
    BY <2>2 DEF FinalizeRefund, ReversalJournal, TypeOK
  <2>6. \E q \in RefundsOf(o) : reversed'[q] # "none"
    BY <2>1, <2>2, <2>5
       DEF FinalizeRefund, ReversalJournal, AlreadyRefunded, RefundBacked,
           RefundsOf, TypeOK
  <2>7. \A q \in Orders : q # o =>
          /\ order'[q] = order[q]
          /\ \A p \in RefundsOf(q) : reversed'[p] = reversed[p]
    BY <2>1, <2>2 DEF FinalizeRefund, ReversalJournal, RefundsOf, TypeOK
  <2>. HIDE DEF o
  <2>. QED
    BY <2>1, <2>3, <2>4, <2>6, <2>7 DEF RefundBacked, RefundsOf
<1>. QED  BY <1>1, <1>2, <1>3, StepKinds

\* A refunded order has its reversal in the ledger, and money is reversed
\* only after the PSP returned money of that order.
THEOREM RefundSafe == Spec => []RefundBacked
<1>1. Init => RefundBacked
  BY CheckoutAssumption DEF Init, RefundBacked, NoOrderRow, RefundsOf
<1>. QED  BY <1>1, RefundBackedStep, TypeCorrect, PspTruthful, PTL DEF Spec

-----------------------------------------------------------------------------
(***************************************************************************)
(* The ledger implements Escrow.                                           *)
(***************************************************************************)
LEMMA EscrowStart == Init => Books!EscrowInit
BY DEF Init, Books!EscrowInit

LEMMA EscrowStep ==
  ASSUME TypeOK, PspTruth, CaptureBacked, SettlementConsistent, [Next]_vars
  PROVE  [Books!EscrowNext]_<<captured, settled, reversed>>
<1>1. \A o \in Orders : NeedsCapture(o) => Books!Covered(o)
  BY DEF CaptureBacked, Books!Covered
<1>2. CASE QuietStep
  BY <1>2 DEF QuietStep, Books!EscrowNext, Books!Capture
<1>3. ASSUME NEW o \in Orders, ConfirmReceipt(o)
      PROVE  [Books!EscrowNext]_<<captured, settled, reversed>>
  <2>1. NeedsCapture(o)
    BY <1>3 DEF ConfirmReceipt, MayConfirm, NeedsCapture
  <2>2. o \in settled <=> settlement[o] # "none"
    BY DEF SettlementConsistent
  <2>. QED
    BY <1>1, <1>3, <2>1, <2>2
       DEF ConfirmReceipt, Books!EscrowNext, Books!Settle
<1>4. ASSUME NEW r \in Refunds, FinalizeStep(r)
      PROVE  [Books!EscrowNext]_<<captured, settled, reversed>>
  <2>1. OrderOf[r] \in Orders
    BY CheckoutAssumption
  <2>2. OrderOf[r] \in settled <=> settlement[OrderOf[r]] # "none"
    BY <2>1 DEF SettlementConsistent
  <2>3. UNCHANGED <<captured, settled>> /\ Books!Covered(OrderOf[r])
    BY <1>1, <1>4, <2>1 DEF FinalizeStep
  <2>4. \/ reversed' = reversed
        \/ /\ reversed[r] = "none"
           /\ reversed' = [reversed EXCEPT ![r] =
                IF settlement[OrderOf[r]] = "none" THEN "held" ELSE "payable"]
    BY <1>4 DEF FinalizeStep, FinalizeRefund, ReversalJournal
  <2>. QED
    BY <2>1, <2>2, <2>3, <2>4 DEF Books!EscrowNext, Books!Reverse
<1>. QED  BY <1>2, <1>3, <1>4, StepKinds

\* The journals the platform posts are those of an escrow: each order's
\* money is captured once, settled once and reversed from where it is, and
\* nothing posted is ever taken back.
THEOREM LedgerIsEscrow == Spec => ImplementsEscrow
<1>. QED
  BY EscrowStart, EscrowStep, TypeCorrect, PspTruthful, CaptureSafe,
     SettlementSafe, PTL
  DEF Spec, ImplementsEscrow, Books!EscrowSpec

-----------------------------------------------------------------------------
(***************************************************************************)
(* An order with a refund row, or one that was restocked, has been paid    *)
(* and stays past that point: it is in Refundable or in the refund states. *)
(* A refund event that reaches any row of an order therefore never moves   *)
(* an order that is absent, unpaid or cancelled.                           *)
(***************************************************************************)
PastPayment == Refundable \cup {"refund_pending", "refunded"}

RefundedOrdersPaid ==
  \A o \in Orders :
    RowsOf(o) # {} \/ o \in restocked => order[o].status \in PastPayment

\* What one step does to the status of every order: nothing, a forward
\* move, or the undoing of a failed refund.
Undone(o) ==
  \E e \in processed' \ processed :
    /\ e.kind \in FailureKind
    /\ OrderOf[e.refund] = o
    /\ order'[o].status \in Refundable

\* The forward moves by which an order neither takes nor gives up its item.
Inner ==
  Forward \ {<<"absent", "pending_payment">>, <<"pending_payment", "cancelled">>}

InnerStep ==
  \A o \in Orders :
    \/ order'[o].status = order[o].status
    \/ <<order[o].status, order'[o].status>> \in Inner
    \/ Undone(o) /\ order[o].status \in PastPayment

StatusStep ==
  \A o \in Orders :
    \/ order'[o].status = order[o].status
    \/ <<order[o].status, order'[o].status>> \in Forward
    \/ Undone(o) /\ order[o].status \in PastPayment

\* The moves of the handlers are forward moves.
LEMMA ForwardMoves ==
  /\ <<"pending_payment", "paid">> \in Inner
  /\ <<"shipped", "completed">> \in Inner
  /\ \A s \in Refundable : /\ <<s, "refund_pending">> \in Inner
                           /\ <<s, "refunded">> \in Inner
  /\ <<"refund_pending", "refunded">> \in Inner
BY DEF Inner, Forward, Refundable

LEMMA FulfilMoves ==
  ASSUME NEW row \in OrderRow, NEW t \in FulfillmentTarget, MayFulfil(row, t)
  PROVE  <<row.status, t>> \in Inner \/ row.status = t
<1>1. CASE t = "shipped"
  BY <1>1 DEF MayFulfil, Inner, Forward
<1>2. CASE t = "processing"
  BY <1>2 DEF MayFulfil, Inner, Forward
<1>. QED  BY <1>1, <1>2 DEF FulfillmentTarget

\* A step that changes the row of at most one order, to a status given by a
\* forward move.
LEMMA OneOrderForward ==
  ASSUME TypeOK, NEW o \in Orders, NEW row, order' = [order EXCEPT ![o] = row],
         row.status = order[o].status \/ <<order[o].status, row.status>> \in Inner
  PROVE  InnerStep
BY DEF TypeOK, InnerStep

LEMMA StatusBook ==
  ASSUME TypeOK, NEW o \in Orders, BookPayment(o)
  PROVE  InnerStep
<1>1. order[o] \in OrderRow
  BY DEF TypeOK
<1>. DEFINE row == PaymentSucceeded(order[o])
<1>2. order' = [order EXCEPT ![o] = row]
  BY DEF BookPayment
<1>3. row.status = order[o].status \/ <<order[o].status, row.status>> \in Inner
  BY <1>1, RowStatus, ForwardMoves
<1>. HIDE DEF row
<1>. QED  BY <1>2, <1>3, OneOrderForward

LEMMA StatusOrder ==
  ASSUME TypeOK, NEW o \in Orders,
         \/ CreateIntent(o) \/ MockCheckout(o) \/ ConfirmReceipt(o) \/ Restock(o)
         \/ \E t \in FulfillmentTarget : Fulfil(o, t)
  PROVE  InnerStep
<1>1. order[o] \in OrderRow
  BY DEF TypeOK
<1>4. CASE MockCheckout(o)
  BY <1>4, StatusBook DEF MockCheckout
<1>5. ASSUME NEW t \in FulfillmentTarget, Fulfil(o, t)
      PROVE  InnerStep
  <2>. DEFINE row == Fulfilled(order[o], t)
  <2>1. order' = [order EXCEPT ![o] = row] /\ MayFulfil(order[o], t)
    BY <1>5 DEF Fulfil
  <2>2. row.status = t
    BY <1>1, RowStatus
  <2>3. row.status = order[o].status \/ <<order[o].status, row.status>> \in Inner
    BY <1>1, <2>1, <2>2, FulfilMoves
  <2>. HIDE DEF row
  <2>. QED  BY <2>1, <2>3, OneOrderForward
<1>6. CASE ConfirmReceipt(o)
  BY <1>1, <1>6, RowStatus, ForwardMoves, OneOrderForward
     DEF ConfirmReceipt, MayConfirm
<1>7. CASE CreateIntent(o) \/ Restock(o)
  BY <1>7 DEF CreateIntent, Restock, InnerStep
<1>. QED  BY <1>4, <1>5, <1>6, <1>7

\* Finalising a refund of an order past its payment is a forward move.
LEMMA StatusFinalize ==
  ASSUME TypeOK, NEW o \in Orders, NEW r, NEW prev, FinalizeRefund(o, r, prev),
         order[o].status \in PastPayment
  PROVE  InnerStep
<1>1. order[o] \in OrderRow
  BY DEF TypeOK
<1>. DEFINE row == Refunded(order[o])
<1>2. order' = [order EXCEPT ![o] = row]
  BY DEF FinalizeRefund
<1>3. row.status = order[o].status \/ <<order[o].status, row.status>> \in Inner
  BY <1>1, RowStatus, ForwardMoves DEF PastPayment
<1>. HIDE DEF row
<1>. QED  BY <1>2, <1>3, OneOrderForward

LEMMA StatusRefund ==
  ASSUME TypeOK, NEW r \in Refunds, RefundStep(r)
  PROVE  InnerStep
<1>1. OrderOf[r] \in Orders /\ order[OrderOf[r]] \in OrderRow
  BY CheckoutAssumption DEF TypeOK
<1>2. MayStartRefund(r) => order[OrderOf[r]].status \in Refundable
  BY DEF MayStartRefund, MayRequestRefund
<1>3. CASE RequestRefundSucceeded(r)
  BY <1>1, <1>2, <1>3, StatusFinalize DEF RequestRefundSucceeded, PastPayment
<1>4. ASSUME NEW answer \in {"pending", "failed"},
             RequestRefundUnsettled(r, answer)
      PROVE  InnerStep
  BY <1>1, <1>2, <1>4, RowStatus, ForwardMoves, OneOrderForward
     DEF RequestRefundUnsettled
<1>5. CASE RequestRefundLost(r)
  BY <1>5 DEF RequestRefundLost, InnerStep
<1>. QED  BY <1>3, <1>4, <1>5 DEF RefundStep

LEMMA StatusWebhook ==
  ASSUME TypeOK, RefundedOrdersPaid, NEW e \in sent, Webhook(e)
  PROVE  InnerStep
<1>1. e \in Event
  BY DEF TypeOK
<1>2. CASE PaymentSucceededEvent(e) \/ PaymentFailedEvent(e)
  <2>1. e.order \in Orders /\ order[e.order] \in OrderRow
    BY <1>1, <1>2, EventKinds
       DEF PaymentSucceededEvent, PaymentFailedEvent, OrderKind, TypeOK
  <2>2. CASE PaymentSucceededEvent(e)
    BY <2>1, <2>2, StatusBook DEF PaymentSucceededEvent
  <2>3. CASE PaymentFailedEvent(e)
    BY <2>1, <2>3, RowStatus, OneOrderForward DEF PaymentFailedEvent
  <2>. QED  BY <1>2, <2>2, <2>3
<1>3. ASSUME e.kind \in RefundKind
      PROVE  /\ e.refund \in Refunds /\ OrderOf[e.refund] \in Orders
             /\ order[OrderOf[e.refund]] \in OrderRow
             /\ \A r \in Target(e.refund) :
                  /\ r \in Refunds
                  /\ refund[r].prev \in Refundable
                  /\ order[OrderOf[e.refund]].status \in PastPayment
  <2>1. e.refund \in Refunds /\ OrderOf[e.refund] \in Orders
    BY <1>1, <1>3, EventKinds, CheckoutAssumption
  <2>. QED
    BY <2>1, TargetRow DEF RefundedOrdersPaid, TypeOK
<1>4. CASE RefundSucceededEvent(e)
  <2>1. PICK r \in Target(e.refund) :
          FinalizeRefund(OrderOf[e.refund], r, refund[r].prev)
    BY <1>4 DEF RefundSucceededEvent
  <2>2. OrderOf[e.refund] \in Orders /\ order[OrderOf[e.refund]].status \in PastPayment
    BY <1>3, <1>4, <2>1 DEF RefundSucceededEvent, RefundKind
  <2>. QED  BY <2>1, <2>2, StatusFinalize
<1>5. CASE RefundFailedEvent(e)
  <2>. DEFINE o == OrderOf[e.refund]
  <2>1. PICK r \in Target(e.refund) :
          order' = [order EXCEPT ![o] = RefundReverted(@, refund[r].prev)]
    BY <1>5 DEF RefundFailedEvent
  <2>2. /\ o \in Orders /\ order[o] \in OrderRow
        /\ refund[r].prev \in Refundable
        /\ order[o].status \in PastPayment
    BY <1>3, <1>5, <2>1 DEF RefundFailedEvent, RefundKind
  <2>3. order'[o].status \in Refundable
    BY <2>1, <2>2, RowStatus DEF TypeOK
  <2>4. e \in processed' \ processed /\ e.kind \in FailureKind
    BY <1>5 DEF RefundFailedEvent, Fresh
  <2>5. Undone(o)
    BY <2>3, <2>4 DEF Undone
  <2>6. \A q \in Orders : q # o => order'[q] = order[q]
    BY <2>1 DEF TypeOK
  <2>. QED  BY <2>2, <2>5, <2>6 DEF InnerStep
<1>6. CASE RefundCreatedEvent(e)
  BY <1>6 DEF RefundCreatedEvent, InnerStep
<1>. QED  BY <1>2, <1>4, <1>5, <1>6 DEF Webhook

\* Every step moves each order forward, or undoes a failed refund.
LEMMA InnerMoves ==
  ASSUME TypeOK, RefundedOrdersPaid, [Next]_vars
  PROVE  InnerStep \/ \E o \in Orders : PlaceOrder(o) \/ Cancel(o)
<1>1. CASE CatalogStep \/ PspStep \/ UNCHANGED vars
  BY <1>1 DEF CatalogStep, SetMerchantStatus, Publish, PspStep, BuyerPays,
              AttemptFails, PspRefundSucceeds, PspRefundFails, platformVars,
              vars, InnerStep
<1>. QED
  BY <1>1, StatusOrder, StatusRefund, StatusWebhook DEF Next, OrderStep

LEMMA StatusMoves ==
  ASSUME TypeOK, RefundedOrdersPaid, [Next]_vars
  PROVE  StatusStep
<1>1. CASE InnerStep
  BY <1>1 DEF InnerStep, StatusStep, Inner
<1>2. ASSUME NEW o \in Orders, PlaceOrder(o)
      PROVE  StatusStep
  BY <1>2 DEF PlaceOrder, NewOrder, StatusStep, Forward, TypeOK
<1>3. ASSUME NEW o \in Orders, Cancel(o)
      PROVE  StatusStep
  <2>1. order[o] \in OrderRow
    BY DEF TypeOK
  <2>. QED
    BY <1>3, <2>1, RowStatus DEF Cancel, MayCancel, StatusStep, Forward, TypeOK
<1>. QED  BY <1>1, <1>2, <1>3, InnerMoves

\* An order past its payment stays there.
LEMMA StaysPastPayment ==
  ASSUME StatusStep, NEW o \in Orders, order[o].status \in PastPayment
  PROVE  order'[o].status \in PastPayment
BY DEF StatusStep, Undone, Forward, PastPayment, Refundable

\* Where a refund row comes from, and a restocked order.
LEMMA NewRows ==
  ASSUME TypeOK, [Next]_vars, NEW o \in Orders
  PROVE  /\ (RowsOf(o) # {})' => RowsOf(o) # {} \/ order[o].status \in PastPayment
         /\ o \in restocked' => o \in restocked \/ order[o].status \in PastPayment
<1>1. CASE CatalogStep \/ PspStep \/ UNCHANGED vars
  BY <1>1 DEF CatalogStep, SetMerchantStatus, Publish, PspStep, BuyerPays,
              AttemptFails, PspRefundSucceeds, PspRefundFails, platformVars,
              vars, RowsOf, RefundsOf
<1>2. ASSUME NEW q \in Orders, OrderStep(q)
      PROVE  /\ UNCHANGED refund
             /\ o \in restocked' => o \in restocked \/ order[o].status = "refunded"
  BY <1>2 DEF OrderStep, PlaceOrder, Cancel, CreateIntent, MockCheckout,
              Fulfil, ConfirmReceipt, Restock, MayRestockNow, MayRestock
<1>3. ASSUME NEW r \in Refunds, RefundStep(r)
      PROVE  /\ UNCHANGED restocked
             /\ order[OrderOf[r]].status \in Refundable
             /\ \A p \in Refunds : p # r => refund'[p] = refund[p]
  BY <1>3 DEF RefundStep, RequestRefundSucceeded, RequestRefundUnsettled,
              RequestRefundLost, MayStartRefund, MayRequestRefund,
              FinalizeRefund, TypeOK
<1>4. ASSUME NEW e \in sent, Webhook(e)
      PROVE  /\ UNCHANGED restocked
             /\ \A p \in Refunds :
                  refund'[p] = refund[p] \/ RowsOf(OrderOf[p]) # {}
  <2>1. e \in Event
    BY DEF TypeOK
  <2>2. CASE PaymentSucceededEvent(e) \/ PaymentFailedEvent(e)
    BY <2>2 DEF PaymentSucceededEvent, PaymentFailedEvent
  <2>3. CASE RefundSucceededEvent(e) \/ RefundFailedEvent(e) \/ RefundCreatedEvent(e)
    <3>1. e.refund \in Refunds
      BY <2>1, <2>3, EventKinds
         DEF RefundSucceededEvent, RefundFailedEvent, RefundCreatedEvent,
             RefundKind
    <3>2. PICK r \in Target(e.refund) :
            \A p \in Refunds : p # r => refund'[p] = refund[p]
      BY <2>3 DEF RefundSucceededEvent, RefundFailedEvent, RefundCreatedEvent,
                  FinalizeRefund, TypeOK
    <3>3. RowsOf(OrderOf[r]) # {}
      BY <3>1, <3>2, TargetRow
    <3>4. UNCHANGED restocked
      BY <2>3 DEF RefundSucceededEvent, RefundFailedEvent, RefundCreatedEvent
    <3>. QED  BY <3>2, <3>3, <3>4
  <2>. QED  BY <1>4, <2>2, <2>3 DEF Webhook
<1>5. CASE \E q \in Orders : OrderStep(q)
  BY <1>2, <1>5 DEF RowsOf, RefundsOf, PastPayment
<1>6. CASE \E r \in Refunds : RefundStep(r)
  BY <1>3, <1>6 DEF RowsOf, RefundsOf, PastPayment
<1>7. CASE \E e \in sent : Webhook(e)
  BY <1>4, <1>7 DEF RowsOf, RefundsOf
<1>. QED  BY <1>1, <1>5, <1>6, <1>7 DEF Next

\* Refund rows exist only for orders that were paid.
THEOREM RefundsOnPaidOrders == Spec => []RefundedOrdersPaid
<1>1. Init => RefundedOrdersPaid
  BY DEF Init, RefundedOrdersPaid, RowsOf, RefundsOf, NoRefundRow
<1>2. ASSUME TypeOK, RefundedOrdersPaid, [Next]_vars
      PROVE  RefundedOrdersPaid'
  <2>1. StatusStep
    BY <1>2, StatusMoves
  <2>2. ASSUME NEW o \in Orders, (RowsOf(o) # {})' \/ o \in restocked'
        PROVE  order'[o].status \in PastPayment
    <3>1. order[o].status \in PastPayment
      BY <1>2, <2>2, NewRows DEF RefundedOrdersPaid
    <3>. QED  BY <2>1, <3>1, StaysPastPayment
  <2>. QED  BY <2>2 DEF RefundedOrdersPaid
<1>. QED  BY <1>1, <1>2, TypeCorrect, PTL DEF Spec

\* An order only moves forward, unless a refund failure event undoes its
\* refund.
THEOREM OrdersMoveForward == Spec => OnlyRefundFailureRegresses
<1>1. StatusStep => \A o \in Orders : Regresses(o) =>
        \E e \in processed' \ processed :
          /\ e.kind \in FailureKind
          /\ OrderOf[e.refund] = o
          /\ order'[o].status \in Refundable
  BY DEF StatusStep, Regresses, Undone
<1>2. ASSUME TypeOK, RefundedOrdersPaid, [Next]_vars
      PROVE  [\A o \in Orders : Regresses(o) =>
                \E e \in processed' \ processed :
                  /\ e.kind \in FailureKind
                  /\ OrderOf[e.refund] = o
                  /\ order'[o].status \in Refundable]_vars
  BY <1>1, <1>2, StatusMoves
<1>. QED
  BY <1>2, TypeCorrect, RefundsOnPaidOrders, PTL
  DEF Spec, OnlyRefundFailureRegresses

-----------------------------------------------------------------------------
(***************************************************************************)
(* Reservations: ReservationExclusive.                                     *)
(***************************************************************************)
LEMMA HoldsWhen ==
  ASSUME TypeOK, NEW o \in Orders
  PROVE  Holds(o) <=> order[o].status \notin {"absent", "cancelled"} /\ o \notin restocked
BY DEF TypeOK, Holds, Live, OrderRow, OrderStatus

\* A step that moves no item and no order into or out of its reservation.
LEMMA ReservationInner ==
  ASSUME TypeOK, TypeOK', ReservationExclusive, InnerStep,
         UNCHANGED <<listing, stock, republished, restocked>>
  PROVE  ReservationExclusive'
<1>1. ASSUME NEW o \in Orders
      PROVE  Holds(o)' <=> Holds(o)
  <2>1. Holds(o) <=> order[o].status \notin {"absent", "cancelled"} /\ o \notin restocked
    BY HoldsWhen
  <2>2. Holds(o)' <=> order'[o].status \notin {"absent", "cancelled"} /\ o \notin restocked'
    BY DEF TypeOK, Holds, Live, OrderRow, OrderStatus
  <2>3. order[o].status \notin {"absent", "cancelled"}
          <=> order'[o].status \notin {"absent", "cancelled"}
    BY DEF InnerStep, Inner, Forward, Undone, PastPayment, Refundable
  <2>. QED  BY <2>1, <2>2, <2>3
<1>. QED  BY <1>1 DEF ReservationExclusive

\* A step that changes the holding of at most order o, and of item ItemOf[o]
\* the reservation.
LEMMA ReservationOfOne ==
  ASSUME TypeOK, TypeOK', ReservationExclusive, NEW o \in Orders,
         UNCHANGED republished,
         \A i \in Items : i # ItemOf[o] => listing'[i] = listing[i] /\ stock'[i] = stock[i],
         \A q \in Orders : q # o => Holds(q)' = Holds(q),
         listing'[ItemOf[o]] = "reserved" <=> stock'[ItemOf[o]] = "reserved",
         ItemOf[o] \notin republished =>
           /\ listing'[ItemOf[o]] = "reserved" <=> Holds(o)'
           /\ \A q \in Orders : q # o /\ ItemOf[q] = ItemOf[o] => ~ Holds(q)
  PROVE  ReservationExclusive'
<1>1. ASSUME NEW i \in Items, i = ItemOf[o]
      PROVE  /\ listing'[i] = "reserved" <=> stock'[i] = "reserved"
             /\ i \notin republished' =>
                  /\ listing'[i] = "reserved" <=> \E p \in Orders : ItemOf[p] = i /\ Holds(p)'
                  /\ \A p, q \in Orders :
                       ItemOf[p] = i /\ ItemOf[q] = i /\ Holds(p)' /\ Holds(q)' => p = q
  BY <1>1
<1>2. ASSUME NEW i \in Items, i # ItemOf[o]
      PROVE  /\ listing'[i] = "reserved" <=> stock'[i] = "reserved"
             /\ i \notin republished' =>
                  /\ listing'[i] = "reserved" <=> \E p \in Orders : ItemOf[p] = i /\ Holds(p)'
                  /\ \A p, q \in Orders :
                       ItemOf[p] = i /\ ItemOf[q] = i /\ Holds(p)' /\ Holds(q)' => p = q
  BY <1>2 DEF ReservationExclusive
<1>. QED  BY <1>1, <1>2 DEF ReservationExclusive

\* Before an order takes a free item nobody holds it; while an order holds
\* its item nobody else does.
LEMMA Holders ==
  ASSUME ReservationExclusive, NEW o \in Orders, ItemOf[o] \notin republished,
         stock[ItemOf[o]] # "reserved" \/ Holds(o)
  PROVE  \A q \in Orders : q # o /\ ItemOf[q] = ItemOf[o] => ~ Holds(q)
BY CheckoutAssumption DEF ReservationExclusive

LEMMA ReservationMoves ==
  ASSUME TypeOK, TypeOK', RefundedOrdersPaid, ReservationExclusive,
         NEW o \in Orders, PlaceOrder(o) \/ Cancel(o) \/ Restock(o)
  PROVE  ReservationExclusive'
<1>. DEFINE i == ItemOf[o]
<1>1. i \in Items /\ order[o] \in OrderRow
  BY CheckoutAssumption DEF TypeOK
<1>2. ASSUME NEW q \in Orders, q # o
      PROVE  Holds(q)' = Holds(q)
  BY <1>2 DEF PlaceOrder, Cancel, Restock, TypeOK, Holds, Live
<1>3. UNCHANGED republished
  BY DEF PlaceOrder, Cancel, Restock
<1>4. Holds(o) <=> order[o].status \notin {"absent", "cancelled"} /\ o \notin restocked
  BY HoldsWhen
<1>5. Holds(o)' <=> order'[o].status \notin {"absent", "cancelled"} /\ o \notin restocked'
  BY DEF TypeOK, Holds, Live, OrderRow, OrderStatus
<1>6. o \in restocked => order[o].status \in PastPayment
  BY DEF RefundedOrdersPaid
<1>7. listing[i] = "reserved" <=> stock[i] = "reserved"
  BY <1>1 DEF ReservationExclusive
<1>8. CASE PlaceOrder(o)
  <2>1. order[o].status = "absent" /\ stock[i] # "reserved"
    BY <1>8 DEF PlaceOrder, MayPlace
  <2>2. Holds(o)'
    <3>1. order'[o] = NewOrder /\ restocked' = restocked
      BY <1>8 DEF PlaceOrder, TypeOK
    <3>2. o \notin restocked
      BY <1>6, <2>1 DEF PastPayment, Refundable
    <3>. QED  BY <1>5, <3>1, <3>2 DEF NewOrder
  <2>3. /\ listing' = [listing EXCEPT ![i] = "reserved"]
        /\ stock' = [stock EXCEPT ![i] = "reserved"]
    BY <1>8 DEF PlaceOrder
  <2>4. i \notin republished => \A q \in Orders : q # o /\ ItemOf[q] = i => ~ Holds(q)
    BY <2>1, Holders
  <2>. QED
    BY <1>1, <1>2, <1>3, <2>2, <2>3, <2>4, ReservationOfOne DEF TypeOK
<1>9. CASE Cancel(o)
  <2>1. order[o].status = "pending_payment"
    BY <1>9 DEF Cancel, MayCancel
  <2>2. Holds(o) /\ ~ Holds(o)'
    BY <1>1, <1>4, <1>5, <1>6, <1>9, <2>1, RowStatus
       DEF Cancel, TypeOK, PastPayment, Refundable
  <2>3. /\ listing' = [listing EXCEPT ![i] = ReleasedListing(i)]
        /\ stock' = [stock EXCEPT ![i] = ReleasedStock(i)]
    BY <1>9 DEF Cancel
  <2>4. listing'[i] # "reserved" /\ stock'[i] # "reserved"
    BY <1>1, <2>3 DEF TypeOK, ReleasedListing, ReleasedStock
  <2>5. i \notin republished => \A q \in Orders : q # o /\ ItemOf[q] = i => ~ Holds(q)
    BY <2>2, Holders
  <2>. QED
    BY <1>1, <1>2, <1>3, <2>2, <2>3, <2>4, <2>5, ReservationOfOne DEF TypeOK
<1>10. CASE Restock(o)
  <2>1. order[o].status = "refunded" /\ o \notin restocked
    BY <1>10 DEF Restock, MayRestockNow, MayRestock
  <2>2. Holds(o) /\ ~ Holds(o)'
    BY <1>4, <1>5, <1>10, <2>1 DEF Restock
  <2>3. /\ listing' = [listing EXCEPT ![i] = "active"]
        /\ stock' = [stock EXCEPT ![i] = "available"]
    BY <1>10 DEF Restock
  <2>4. i \notin republished => \A q \in Orders : q # o /\ ItemOf[q] = i => ~ Holds(q)
    BY <2>2, Holders
  <2>. QED
    BY <1>1, <1>2, <1>3, <2>2, <2>3, <2>4, ReservationOfOne DEF TypeOK
<1>. QED  BY <1>8, <1>9, <1>10

LEMMA ReservationPublish ==
  ASSUME TypeOK, ReservationExclusive, NEW j \in Items, Publish(j)
  PROVE  ReservationExclusive'
<1>1. \A o \in Orders : Holds(o)' = Holds(o)
  BY DEF Publish, Holds, Live
<1>2. /\ listing' = [listing EXCEPT ![j] = "active"]
      /\ stock' = [stock EXCEPT ![j] = "available"]
      /\ stock[j] = "reserved" => j \in republished'
      /\ \A i \in Items : i \notin republished' => i \notin republished
  BY DEF Publish
<1>. QED  BY <1>1, <1>2 DEF ReservationExclusive, TypeOK

\* Unless an operator published an item while it was reserved, an item is
\* reserved exactly while one order holds it, and never by two.
THEOREM ReservationSafe == Spec => []ReservationExclusive
<1>1. Init => ReservationExclusive
  <2>1. ASSUME Init
        PROVE  /\ \A o \in Orders : ~ Holds(o)
               /\ \A i \in Items : listing[i] # "reserved" /\ stock[i] # "reserved"
    BY <2>1 DEF Init, Holds, Live, NoOrderRow
  <2>. QED  BY <2>1 DEF ReservationExclusive
<1>2. ASSUME TypeOK, TypeOK', RefundedOrdersPaid, ReservationExclusive,
             [Next]_vars
      PROVE  ReservationExclusive'
  <2>1. ASSUME NEW j \in Items, Publish(j)
        PROVE  ReservationExclusive'
    BY <1>2, <2>1, ReservationPublish
  <2>2. ASSUME NEW o \in Orders, PlaceOrder(o) \/ Cancel(o) \/ Restock(o)
        PROVE  ReservationExclusive'
    BY <1>2, <2>2, ReservationMoves
  <2>3. \/ \E j \in Items : Publish(j)
        \/ \E o \in Orders : PlaceOrder(o) \/ Cancel(o) \/ Restock(o)
        \/ UNCHANGED <<listing, stock, republished, restocked>>
    <3>1. CASE CatalogStep \/ PspStep \/ UNCHANGED vars
      BY <3>1 DEF CatalogStep, SetMerchantStatus, PspStep, BuyerPays,
                  AttemptFails, PspRefundSucceeds, PspRefundFails,
                  platformVars, vars
    <3>2. ASSUME NEW o \in Orders, OrderStep(o)
          PROVE  \/ PlaceOrder(o) \/ Cancel(o) \/ Restock(o)
                 \/ UNCHANGED <<listing, stock, republished, restocked>>
      BY <3>2 DEF OrderStep, CreateIntent, MockCheckout, Fulfil,
                  ConfirmReceipt, catalogVars
    <3>3. ASSUME NEW r \in Refunds, RefundStep(r)
          PROVE  UNCHANGED <<listing, stock, republished, restocked>>
      BY <3>3 DEF RefundStep, RequestRefundSucceeded, RequestRefundUnsettled,
                  RequestRefundLost, catalogVars
    <3>4. ASSUME NEW e \in sent, Webhook(e)
          PROVE  UNCHANGED <<listing, stock, republished, restocked>>
      BY <3>4 DEF Webhook, PaymentSucceededEvent, PaymentFailedEvent,
                  RefundSucceededEvent, RefundFailedEvent, RefundCreatedEvent,
                  catalogVars
    <3>. QED  BY <1>2, <3>1, <3>2, <3>3, <3>4 DEF Next
  <2>4. CASE UNCHANGED <<listing, stock, republished, restocked>>
    <3>1. InnerStep \/ \E o \in Orders : PlaceOrder(o) \/ Cancel(o)
      BY <1>2, InnerMoves
    <3>. QED  BY <1>2, <2>2, <2>4, <3>1, ReservationInner
  <2>. QED  BY <2>1, <2>2, <2>3, <2>4
<1>. QED
  BY <1>1, <1>2, TypeCorrect, RefundsOnPaidOrders, PTL DEF Spec
-----------------------------------------------------------------------------
(***************************************************************************)
(* No account of the ledger is overdrawn unless a refund failure event was *)
(* processed.  The accounts are counted, so the argument needs that an     *)
(* order without such an event is reversed at most once, and that its      *)
(* reversal debits the account the money is in.                            *)
(***************************************************************************)
\* Without a refund failure an order is reversed at most once, it stays
\* refunded from then on, and so it is not settled after a reversal of its
\* held funds.
ReversedOnce ==
  \A o \in Orders : ~ FailureSeen(o) =>
    \A r \in RefundsOf(o) : reversed[r] # "none" =>
      /\ order[o].status = "refunded"
      /\ reversed[r] = "held" => settlement[o] = "none"
      /\ \A q \in RefundsOf(o) : reversed[q] # "none" => q = r

LEMMA FailureStays ==
  ASSUME [Next]_vars, NEW o \in Orders, FailureSeen(o)
  PROVE  FailureSeen(o)'
<1>1. processed \subseteq processed'
  BY DEF Next, CatalogStep, SetMerchantStatus, Publish, OrderStep, PlaceOrder,
         Cancel, CreateIntent, MockCheckout, Fulfil, ConfirmReceipt, Restock,
         RefundStep, RequestRefundSucceeded, RequestRefundUnsettled,
         RequestRefundLost, Webhook, PaymentSucceededEvent,
         PaymentFailedEvent, RefundSucceededEvent, RefundFailedEvent,
         RefundCreatedEvent, PspStep, BuyerPays, AttemptFails,
         PspRefundSucceeds, PspRefundFails, platformVars, vars
<1>. QED  BY <1>1 DEF FailureSeen

\* A refunded order stays refunded unless a failure undoes its refund.
LEMMA RefundedStays ==
  ASSUME StatusStep, NEW o \in Orders, order[o].status = "refunded",
         ~ FailureSeen(o)'
  PROVE  order'[o].status = "refunded"
<1>1. ~ Undone(o)
  BY DEF Undone, FailureSeen
<1>2. \A s : <<"refunded", s>> \notin Forward
  BY DEF Forward, Refundable
<1>. QED  BY <1>1, <1>2 DEF StatusStep

LEMMA ReversedOnceStep ==
  ASSUME TypeOK, PspTruth, RefundedOrdersPaid, SettlementConsistent,
         ReversedOnce, [Next]_vars
  PROVE  ReversedOnce'
<1>1. StatusStep
  BY StatusMoves
<1>2. SUFFICES ASSUME NEW o \in Orders, ~ FailureSeen(o)',
                      NEW r \in RefundsOf(o), reversed'[r] # "none"
               PROVE  /\ order'[o].status = "refunded"
                      /\ reversed'[r] = "held" => settlement'[o] = "none"
                      /\ \A q \in RefundsOf(o) : reversed'[q] # "none" => q = r
  BY DEF ReversedOnce, RefundsOf
<1>3. ~ FailureSeen(o)
  BY <1>2, FailureStays
<1>4. reversed[r] # "none" => order'[o].status = "refunded"
  BY <1>1, <1>2, <1>3, RefundedStays DEF ReversedOnce
<1>5. CASE QuietStep
  BY <1>2, <1>3, <1>4, <1>5 DEF QuietStep, ReversedOnce
<1>6. ASSUME NEW p \in Orders, ConfirmReceipt(p)
      PROVE  /\ order'[o].status = "refunded"
             /\ reversed'[r] = "held" => settlement'[o] = "none"
             /\ \A q \in RefundsOf(o) : reversed'[q] # "none" => q = r
  <2>1. reversed' = reversed
    BY <1>6 DEF ConfirmReceipt
  <2>2. order[o].status = "refunded"
    BY <1>2, <1>3, <2>1 DEF ReversedOnce
  <2>3. o # p
    BY <1>6, <2>2 DEF ConfirmReceipt, MayConfirm
  <2>4. settlement'[o] = settlement[o]
    BY <1>6, <2>3 DEF ConfirmReceipt, TypeOK
  <2>. QED
    BY <1>2, <1>3, <1>4, <2>1, <2>4 DEF ReversedOnce
<1>7. ASSUME NEW p \in Refunds, FinalizeStep(p)
      PROVE  /\ order'[o].status = "refunded"
             /\ reversed'[r] = "held" => settlement'[o] = "none"
             /\ \A q \in RefundsOf(o) : reversed'[q] # "none" => q = r
  <2>. DEFINE k == OrderOf[p]
  <2>1. k \in Orders /\ order[k] \in OrderRow
    BY CheckoutAssumption DEF TypeOK
  <2>2. PICK prev : FinalizeRefund(k, p, prev)
    BY <1>7 DEF FinalizeStep
  <2>3. CASE k # o \/ order[k].status = "refunded"
    <3>1. /\ settlement'[o] = settlement[o]
          /\ \A q \in RefundsOf(o) : reversed'[q] = reversed[q]
      BY <2>1, <2>2, <2>3
         DEF FinalizeRefund, ReversalJournal, AlreadyRefunded, RefundsOf, TypeOK
    <3>. QED
      BY <1>2, <1>3, <1>4, <3>1 DEF ReversedOnce
  <2>4. CASE k = o /\ order[k].status # "refunded"
    <3>1. \A q \in RefundsOf(o) : reversed[q] = "none"
      BY <1>3, <2>4 DEF ReversedOnce
    <3>2. /\ settlement' = [settlement EXCEPT ![o] =
                              IF @ = "pending" THEN "cancelled" ELSE @]
          /\ reversed' = ReversalJournal(o, p)
          /\ order' = [order EXCEPT ![o] = Refunded(@)]
      BY <2>2, <2>4 DEF FinalizeRefund, AlreadyRefunded
    <3>3. p \in RefundsOf(o)
      BY <2>4 DEF RefundsOf
    <3>4. reversed' = [reversed EXCEPT ![p] =
                         IF settlement[o] = "none" THEN "held" ELSE "payable"]
      BY <3>1, <3>2, <3>3 DEF ReversalJournal
    <3>5. \A q \in RefundsOf(o) : reversed'[q] # "none" => q = p
      BY <3>1, <3>4 DEF TypeOK, RefundsOf
    <3>6. r = p
      BY <1>2, <3>5
    <3>7. reversed'[p] = "held" => settlement'[o] = "none"
      BY <3>2, <3>4 DEF TypeOK
    <3>8. order'[o].status = "refunded"
      BY <2>1, <2>4, <3>2, RowStatus DEF TypeOK
    <3>. QED  BY <3>5, <3>6, <3>7, <3>8
  <2>. QED  BY <2>3, <2>4
<1>. QED  BY <1>5, <1>6, <1>7, StepKinds

\* The number of reversals of an order is the number of elements of a set
\* with at most one.
LEMMA CountReversals ==
  ASSUME NEW o, NEW f
  PROVE  /\ (\A r \in RefundsOf(o) : reversed[r] # f) => Reversals(o, f) = 0
         /\ \A r \in RefundsOf(o) :
              /\ reversed[r] = f
              /\ \A q \in RefundsOf(o) : reversed[q] = f => q = r
              => Reversals(o, f) = 1
<1>. DEFINE S == {r \in RefundsOf(o) : reversed[r] = f}
<1>1. ASSUME \A r \in RefundsOf(o) : reversed[r] # f
      PROVE  Reversals(o, f) = 0
  <2>1. S = {}
    BY <1>1
  <2>. QED  BY <2>1, FS_EmptySet DEF Reversals
<1>2. ASSUME NEW r \in RefundsOf(o), reversed[r] = f,
             \A q \in RefundsOf(o) : reversed[q] = f => q = r
      PROVE  Reversals(o, f) = 1
  <2>1. S = {r}
    BY <1>2
  <2>. QED  BY <2>1, FS_Singleton DEF Reversals
<1>. QED  BY <1>1, <1>2

LEMMA NotOverdrawn ==
  ASSUME TypeOK, CaptureBacked, SettlementConsistent, ReversedOnce
  PROVE  OverdrawnOnlyByFailure
<1>1. SUFFICES ASSUME NEW o \in Orders, TotalOf(o) > 0, ~ FailureSeen(o)
               PROVE  ~ (HeldFunds(o) < 0) /\ ~ (MerchantFunds(o) < 0)
  BY DEF OverdrawnOnlyByFailure, Overdrawn
<1>2. o \in settled <=> settlement[o] # "none"
  BY DEF SettlementConsistent
<1>3. NeedsCapture(o) => o \in captured
  BY <1>1 DEF CaptureBacked
<1>4. o \in settled => o \in captured
  BY <1>2, <1>3 DEF NeedsCapture
<1>5. CASE \A r \in RefundsOf(o) : reversed[r] = "none"
  <2>1. Reversals(o, "held") = 0 /\ Reversals(o, "payable") = 0
    BY <1>5, CountReversals
  <2>. QED  BY <1>4, <2>1 DEF HeldFunds, MerchantFunds
<1>6. ASSUME NEW r \in RefundsOf(o), reversed[r] # "none"
      PROVE  ~ (HeldFunds(o) < 0) /\ ~ (MerchantFunds(o) < 0)
  <2>1. /\ order[o].status = "refunded"
        /\ reversed[r] = "held" => settlement[o] = "none"
        /\ \A q \in RefundsOf(o) : reversed[q] # "none" => q = r
    BY <1>1, <1>6 DEF ReversedOnce
  <2>2. o \in captured
    BY <1>3, <2>1 DEF NeedsCapture
  <2>3. CASE reversed[r] = "held"
    <3>1. Reversals(o, "held") = 1 /\ Reversals(o, "payable") = 0
      BY <2>1, <2>3, CountReversals
    <3>. QED
      BY <1>2, <2>1, <2>2, <2>3, <3>1 DEF HeldFunds, MerchantFunds
  <2>4. CASE reversed[r] = "payable"
    <3>1. Reversals(o, "held") = 0 /\ Reversals(o, "payable") = 1
      BY <2>1, <2>4, CountReversals
    <3>2. o \in settled
      BY <1>2, <2>4 DEF SettlementConsistent
    <3>. QED  BY <2>2, <3>1, <3>2 DEF HeldFunds, MerchantFunds
  <2>. QED  BY <1>6, <2>3, <2>4 DEF TypeOK, RefundsOf
<1>. QED  BY <1>5, <1>6

\* Without a refund failure event, no journal of an order debits
\* buyer_funds_held or the merchant's account by more than was credited.
THEOREM OverdrawSafe == Spec => []OverdrawnOnlyByFailure
<1>1. Init => ReversedOnce
  BY DEF Init, ReversedOnce, RefundsOf
<1>2. Spec => []ReversedOnce
  BY <1>1, ReversedOnceStep, TypeCorrect, PspTruthful, RefundsOnPaidOrders,
     SettlementSafe, PTL DEF Spec
<1>. QED
  BY <1>2, NotOverdrawn, TypeCorrect, CaptureSafe, SettlementSafe, PTL
=============================================================================

--------------------------- MODULE CheckoutRCProofs ---------------------------
(***************************************************************************)
(* Checkout under READ COMMITTED: the ledger is right, and no item is sold *)
(* twice but by a lost update or a publication that overwrote its          *)
(* reservation, for every number of sessions, orders, items and refunds.   *)
(*                                                                         *)
(* The steps of the handlers that lock are steps of Checkout, for which    *)
(* CheckoutProofs shows what they preserve.                                *)
(* What is new are the commits of handlers whose rows may be stale.        *)
(***************************************************************************)
EXTENDS CheckoutRC, CheckoutProofs

-----------------------------------------------------------------------------
(***************************************************************************)
(* What a session flushes.                                                 *)
(***************************************************************************)

\* An order row is flushed column by column: the row stays a row, a handler
\* that changed nothing writes nothing, and one whose row was not stale
\* writes what it meant to.
LEMMA FlushedRow ==
  ASSUME NEW now \in OrderRow, NEW old \in OrderRow, NEW new \in OrderRow
  PROVE  /\ Columns(now, old, new) \in OrderRow
         /\ Columns(now, old, new).status = Column(now.status, old.status, new.status)
         /\ Columns(now, old, new).pay = Column(now.pay, old.pay, new.pay)
         /\ old = new => Columns(now, old, new) = now
         /\ now = old => Columns(now, old, new) = new
<1>1. DOMAIN now = {"status", "pay", "fulfil"}
  BY DEF OrderRow
<1>. DEFINE row == Columns(now, old, new)
<1>2. row = [c \in {"status", "pay", "fulfil"} |-> Column(now[c], old[c], new[c])]
  BY <1>1 DEF Columns
<1>3. /\ row.status = Column(now.status, old.status, new.status)
      /\ row.pay = Column(now.pay, old.pay, new.pay)
      /\ row.fulfil = Column(now.fulfil, old.fulfil, new.fulfil)
  BY <1>2
<1>4. row = [status |-> row.status, pay |-> row.pay, fulfil |-> row.fulfil]
  BY <1>2
<1>5. row \in OrderRow
  BY <1>3, <1>4 DEF OrderRow, Column
<1>6. ASSUME old = new
      PROVE  row = now
  BY <1>1, <1>2, <1>6 DEF OrderRow, Column
<1>7. ASSUME now = old
      PROVE  row = new
  BY <1>1, <1>2, <1>7 DEF OrderRow, Column
<1>. QED  BY <1>3, <1>5, <1>6, <1>7

\* A refund row, likewise: its status becomes the new one or stays.
LEMMA FlushedRefund ==
  ASSUME NEW now \in RefundRow, NEW old \in RefundRow, NEW status \in RefundStatus
  PROVE  /\ Columns(now, old, [old EXCEPT !.status = status]) \in RefundRow
         /\ Columns(now, old, [old EXCEPT !.status = status]).status \in {now.status, status}
<1>. DEFINE new == [old EXCEPT !.status = status]
            row == Columns(now, old, new)
<1>1. DOMAIN now = {"status", "prev"} /\ new.prev = old.prev /\ new.status = status
  BY DEF RefundRow
<1>2. row = [c \in {"status", "prev"} |-> Column(now[c], old[c], new[c])]
  BY <1>1 DEF Columns
<1>3. /\ row.status = Column(now.status, old.status, new.status)
      /\ row.prev = Column(now.prev, old.prev, new.prev)
  BY <1>2
<1>4. row = [status |-> row.status, prev |-> row.prev]
  BY <1>2
<1>. QED
  BY <1>1, <1>3, <1>4 DEF RefundRow, Column

\* The order row after a handler has written it.
LEMMA WrittenOrder ==
  ASSUME TypeOK, NEW o \in Orders, NEW old \in OrderRow, NEW new \in OrderRow,
         WriteOrder(o, old, new)
  PROVE  /\ order' \in [Orders -> OrderRow]
         /\ order'[o] = Columns(order[o], old, new)
         /\ order'[o].status = Column(order[o].status, old.status, new.status)
         /\ order'[o].pay = Column(order[o].pay, old.pay, new.pay)
         /\ \A q \in Orders : q # o => order'[q] = order[q]
         /\ conflicted \subseteq conflicted' /\ conflicted' \subseteq conflicted \cup {o}
         /\ o \notin conflicted' => order'[o] = order[o] \/ (order[o] = old /\ order'[o] = new)
<1>1. order[o] \in OrderRow /\ order \in [Orders -> OrderRow]
  BY DEF TypeOK
<1>. DEFINE row == Columns(order[o], old, new)
<1>2. /\ order' = [order EXCEPT ![o] = row]
      /\ conflicted \subseteq conflicted' /\ conflicted' \subseteq conflicted \cup {o}
      /\ o \notin conflicted' => old = order[o] \/ old = new
  BY DEF WriteOrder
<1>3. /\ row \in OrderRow
      /\ row.status = Column(order[o].status, old.status, new.status)
      /\ row.pay = Column(order[o].pay, old.pay, new.pay)
      /\ old = new => row = order[o]
      /\ order[o] = old => row = new
  BY <1>1, FlushedRow
<1>4. row = Columns(order[o], old, new)
  OBVIOUS
<1>. HIDE DEF row
<1>5. /\ order' \in [Orders -> OrderRow] /\ order'[o] = row
      /\ \A q \in Orders : q # o => order'[q] = order[q]
  BY <1>1, <1>2, <1>3
<1>. QED  BY <1>2, <1>3, <1>4, <1>5

-----------------------------------------------------------------------------
(***************************************************************************)
(* What a handler has read, and what stays true of it.                     *)
(***************************************************************************)

\* The order a cancellation read was waiting for its payment, and a refund
\* row that was found does not disappear.
Found ==
  \A s \in Sessions : work[s] # NoWork =>
    /\ work[s].task = "cancel" => work[s].read.row.status = "pending_payment"
    /\ work[s].task = "webhook" /\ work[s].refund.status # "absent" =>
         /\ work[s].event \in RefundEvent
         /\ refund[work[s].event.refund].status # "absent"

LEMMA WorkParts ==
  ASSUME RCTypeOK, NEW s \in Sessions, work[s] # NoWork
  PROVE  /\ work[s].task # "publish" =>
              work[s].read.row \in OrderRow /\ work[s].read.intent \in IntentStatus
         /\ work[s].task = "publish" =>
              /\ work[s].item \in Items
              /\ work[s].read.listing \in ListingStatus
              /\ work[s].read.stock \in StockStatus
         /\ work[s].task = "cancel" =>
              /\ work[s].order \in Orders
              /\ work[s].read.listing \in ListingStatus
              /\ work[s].read.stock \in StockStatus
         /\ work[s].task = "webhook" =>
              work[s].event \in Event /\ work[s].refund \in RefundRow
<1>. DEFINE Cancellation ==
              [task: {"cancel"}, order: Orders,
               read: [row: OrderRow, intent: IntentStatus,
                      listing: ListingStatus, stock: StockStatus]]
            Publication ==
              [task: {"publish"}, item: Items,
               read: [listing: ListingStatus, stock: StockStatus]]
            Delivery ==
              [task: {"webhook"}, event: Event,
               read: [row: OrderRow, intent: IntentStatus], refund: RefundRow]
<1>1. work[s] \in Cancellation \cup Publication \cup Delivery
  BY DEF RCTypeOK, Work
<1>2. CASE work[s] \in Cancellation
  BY <1>2
<1>3. CASE work[s] \in Delivery
  BY <1>3
<1>4. CASE work[s] \in Publication
  BY <1>4
<1>. QED  BY <1>1, <1>2, <1>3, <1>4

\* The refund rows an event may be applied to exist now, and belong to the
\* order of the event.
LEMMA ReadRows ==
  ASSUME RCTypeOK, Found, NEW s \in Sessions, NEW e \in RefundEvent, Applies(s, e),
         NEW target \in Rows(s, e)
  PROVE  /\ target.id \in RefundsOf(OrderOf[e.refund]) /\ target.row \in RefundRow
         /\ refund[target.id].status # "absent"
         /\ OrderOf[e.refund] \in Orders /\ NeedsCapture(OrderOf[e.refund])
<1>1. e.refund \in Refunds /\ OrderOf[e.refund] \in Orders
  BY CheckoutAssumption DEF RefundEvent
<1>2. work[s] # NoWork /\ work[s].task = "webhook" /\ work[s].event = e
  BY DEF Applies
<1>3. work[s].refund \in RefundRow /\ \A r \in Refunds : refund[r] \in RefundRow
  BY <1>2, WorkParts DEF RCTypeOK, TypeOK
<1>4. CASE work[s].refund.status # "absent"
  <2>1. target.id = e.refund /\ target.row = work[s].refund
    BY <1>4 DEF Rows
  <2>. QED
    BY <1>1, <1>2, <1>3, <1>4, <2>1 DEF Found, RefundsOf, RowsOf, NeedsCapture
<1>5. CASE work[s].refund.status = "absent"
  <2>1. PICK r \in RowsOf(OrderOf[e.refund]) : target = [id |-> r, row |-> refund[r]]
    BY <1>5 DEF Rows
  <2>. QED
    BY <1>1, <1>3, <2>1 DEF RefundsOf, RowsOf, NeedsCapture
<1>. QED  BY <1>4, <1>5

\* The refund rows after an event has been applied to one of them.
LEMMA WrittenRefund ==
  ASSUME RCTypeOK, Found, NEW s \in Sessions, NEW e \in RefundEvent, Applies(s, e),
         NEW target \in Rows(s, e), NEW status \in RefundStatus \ {"absent"},
         WriteRefund(target, status)
  PROVE  /\ refund' \in [Refunds -> RefundRow]
         /\ refund'[target.id].status # "absent"
         /\ \A r \in Refunds : r # target.id => refund'[r] = refund[r]
<1>1. /\ target.id \in Refunds /\ target.row \in RefundRow
      /\ refund[target.id].status # "absent"
  BY ReadRows DEF RefundsOf
<1>2. refund[target.id] \in RefundRow /\ refund \in [Refunds -> RefundRow]
  BY <1>1 DEF RCTypeOK, TypeOK
<1>. DEFINE row == Columns(refund[target.id], target.row, [target.row EXCEPT !.status = status])
<1>3. row \in RefundRow /\ row.status # "absent"
  BY <1>1, <1>2, FlushedRefund
<1>4. refund' = [refund EXCEPT ![target.id] = row]
  BY DEF WriteRefund
<1>. HIDE DEF row
<1>. QED  BY <1>1, <1>2, <1>3, <1>4
-----------------------------------------------------------------------------
(***************************************************************************)
(* Type correctness.                                                       *)
(***************************************************************************)
LEMMA LockedIsStep == LockedStep \/ PspStep => Next
BY DEF LockedStep, Next, OrderStep

LEMMA StepParts ==
  ASSUME RCNext
  PROVE  \/ /\ [Next]_vars /\ UNCHANGED conflicted
            /\ \/ (LockedStep \/ PspStep) /\ UNCHANGED work
               \/ /\ UNCHANGED vars
                  /\ \E s \in Sessions :
                       \/ \E o \in Orders : CancelBegin(s, o)
                       \/ \E i \in Items : PublishBegin(s, i)
                       \/ \E e \in sent : WebhookBegin(s, e)
                       \/ Abort(s)
         \/ \E s \in Sessions : CancelCommit(s) \/ PublishCommit(s)
         \/ \E s \in Sessions, e \in sent : WebhookCommit(s, e)
<1>1. CASE (LockedStep \/ PspStep) /\ UNCHANGED <<work, conflicted>>
  BY <1>1, LockedIsStep
<1>2. ASSUME NEW s \in Sessions, SessionStep(s)
      PROVE  \/ /\ UNCHANGED <<vars, conflicted>>
                /\ \/ \E o \in Orders : CancelBegin(s, o)
                   \/ \E i \in Items : PublishBegin(s, i)
                   \/ \E e \in sent : WebhookBegin(s, e)
                   \/ Abort(s)
             \/ CancelCommit(s) \/ PublishCommit(s)
             \/ \E e \in sent : WebhookCommit(s, e)
  BY <1>2 DEF SessionStep, CancelBegin, PublishBegin, WebhookBegin, Abort, Start
<1>. QED  BY <1>1, <1>2 DEF RCNext

LEMMA CancelTyped ==
  ASSUME RCTypeOK, NEW s \in Sessions, CancelCommit(s)
  PROVE  TypeOK' /\ conflicted' \subseteq Orders
<1>. DEFINE o == work[s].order
            old == work[s].read.row
<1>1. /\ o \in Orders /\ old \in OrderRow /\ Cancelled(old) \in OrderRow
      /\ TypeOK /\ conflicted \subseteq Orders
  BY WorkParts, RowType DEF CancelCommit, RCTypeOK
<1>2. WriteOrder(o, old, Cancelled(old))
  BY DEF CancelCommit
<1>. HIDE DEF o, old
<1>3. order' \in [Orders -> OrderRow] /\ conflicted' \subseteq Orders
  BY <1>1, <1>2, WrittenOrder
<1>4. listing' \in [Items -> ListingStatus] /\ stock' \in [Items -> StockStatus]
  BY <1>1 DEF CancelCommit, TypeOK, ListingStatus, StockStatus
<1>5. intent' \in [Orders -> IntentStatus]
  BY <1>1 DEF CancelCommit, TypeOK, IntentStatus
<1>. QED
  BY <1>1, <1>3, <1>4, <1>5 DEF CancelCommit, TypeOK, ledgerVars, pspVars

\* A publication writes the catalogue and nothing else.
LEMMA PublishWrites ==
  ASSUME RCTypeOK, NEW s \in Sessions, PublishCommit(s)
  PROVE  \E i \in Items :
           /\ UNCHANGED <<provider, merchant, order, restocked, intent, refund, settlement,
                          ledgerVars, processed, pspVars, conflicted>>
           /\ \A j \in Items : j # i => listing'[j] = listing[j] /\ stock'[j] = stock[j]
           /\ listing'[i] \in {listing[i], "active"} /\ listing' \in [Items -> ListingStatus]
           /\ stock'[i] \in {stock[i], "available"} /\ stock' \in [Items -> StockStatus]
           /\ republished \subseteq republished' /\ republished' \subseteq Items
           /\ i \notin republished' =>
                /\ listing[i] = "reserved" => listing'[i] = "reserved"
                /\ stock[i] = "reserved" => stock'[i] = "reserved"
<1>1. PICK i \in Items : i = work[s].item
  BY WorkParts DEF PublishCommit
<1>2. /\ listing \in [Items -> ListingStatus] /\ stock \in [Items -> StockStatus]
      /\ republished \subseteq Items
  BY DEF RCTypeOK, TypeOK
<1>3. /\ listing' = [listing EXCEPT ![i] = Column(@, work[s].read.listing, "active")]
      /\ stock' = [stock EXCEPT ![i] =
                     IF work[s].read.stock = "reserved" THEN "available" ELSE @]
      /\ republished' =
           IF \/ listing[i] = "reserved" /\ listing'[i] = "active"
              \/ stock[i] = "reserved" /\ stock'[i] = "available"
             THEN republished \cup {i} ELSE republished
  BY <1>1 DEF PublishCommit
<1>4. /\ listing'[i] \in {listing[i], "active"} /\ listing' \in [Items -> ListingStatus]
      /\ stock'[i] \in {stock[i], "available"} /\ stock' \in [Items -> StockStatus]
      /\ \A j \in Items : j # i => listing'[j] = listing[j] /\ stock'[j] = stock[j]
  BY <1>2, <1>3 DEF Column, ListingStatus, StockStatus
<1>5. i \notin republished' =>
        /\ listing[i] = "reserved" => listing'[i] = "reserved"
        /\ stock[i] = "reserved" => stock'[i] = "reserved"
  BY <1>3, <1>4
<1>6. republished \subseteq republished' /\ republished' \subseteq Items
  BY <1>2, <1>3
<1>. QED  BY <1>4, <1>5, <1>6 DEF PublishCommit

LEMMA PublishTyped ==
  ASSUME RCTypeOK, NEW s \in Sessions, PublishCommit(s)
  PROVE  TypeOK' /\ conflicted' \subseteq Orders
<1>1. /\ UNCHANGED <<provider, merchant, order, restocked, intent, refund, settlement,
                     ledgerVars, processed, pspVars, conflicted>>
      /\ listing' \in [Items -> ListingStatus] /\ stock' \in [Items -> StockStatus]
      /\ republished' \subseteq Items
  BY PublishWrites
<1>. QED  BY <1>1 DEF RCTypeOK, TypeOK, ledgerVars, pspVars

LEMMA PaymentTyped ==
  ASSUME RCTypeOK, NEW s \in Sessions, NEW e \in sent,
         SuccessCommit(s, e) \/ FailureCommit(s, e)
  PROVE  TypeOK' /\ conflicted' \subseteq Orders
<1>. DEFINE o == e.order
            old == work[s].read.row
<1>1. /\ TypeOK /\ conflicted \subseteq Orders /\ e \in Event
      /\ processed' = processed \cup {e}
  BY DEF RCTypeOK, TypeOK, SuccessCommit, FailureCommit, Applies
<1>2. /\ o \in Orders /\ old \in OrderRow
      /\ PaymentSucceeded(old) \in OrderRow /\ PaymentFailed(old) \in OrderRow
  BY <1>1, WorkParts, RowType, EventKinds
     DEF SuccessCommit, FailureCommit, Applies, OrderKind
<1>3. \/ WriteOrder(o, old, PaymentSucceeded(old))
      \/ WriteOrder(o, old, PaymentFailed(old))
  BY DEF SuccessCommit, FailureCommit
<1>. HIDE DEF o, old
<1>4. order' \in [Orders -> OrderRow] /\ conflicted' \subseteq Orders
  BY <1>1, <1>2, <1>3, WrittenOrder
<1>5. intent' \in [Orders -> IntentStatus] /\ captured' \in SUBSET Orders
  BY <1>1, <1>2 DEF SuccessCommit, FailureCommit, TypeOK, IntentStatus, Column,
                    CaptureJournal, ledgerVars, o
<1>. QED
  BY <1>1, <1>4, <1>5
     DEF SuccessCommit, FailureCommit, TypeOK, catalogVars, ledgerVars, pspVars

LEMMA RefundTyped ==
  ASSUME RCTypeOK, Found, NEW s \in Sessions, NEW e \in sent,
         \/ RefundSucceededCommit(s, e) \/ RefundFailedCommit(s, e)
         \/ RefundCreatedCommit(s, e)
  PROVE  TypeOK' /\ conflicted' \subseteq Orders
<1>. DEFINE o == OrderOf[e.refund]
            old == work[s].read.row
<1>1. /\ TypeOK /\ conflicted \subseteq Orders /\ e \in Event
      /\ processed' = processed \cup {e} /\ Applies(s, e)
  BY DEF RCTypeOK, TypeOK, RefundSucceededCommit, RefundFailedCommit,
         RefundCreatedCommit, Applies
<1>2. e \in RefundEvent /\ o \in Orders /\ old \in OrderRow
  BY <1>1, WorkParts, EventKinds, CheckoutAssumption
     DEF RefundSucceededCommit, RefundFailedCommit, RefundCreatedCommit,
         Applies, RefundKind
<1>3. PICK target \in Rows(s, e), status \in RefundStatus \ {"absent"} :
        WriteRefund(target, status)
        /\ \/ UNCHANGED <<order, conflicted, settlement, reversed>>
           \/ /\ UNCHANGED <<settlement, reversed>>
              /\ WriteOrder(o, old, RefundReverted(old, target.row.prev))
           \/ /\ WriteOrder(o, old, Refunded(old))
              /\ \/ UNCHANGED <<settlement, reversed>>
                 \/ /\ settlement' = [settlement EXCEPT ![o] =
                                        IF @ = "pending" THEN "cancelled" ELSE @]
                    /\ reversed' = ReversalJournal(o, target.id)
  BY DEF RefundSucceededCommit, RefundFailedCommit, RefundCreatedCommit,
         RefundStatus, ledgerVars
<1>4. target.id \in Refunds /\ target.row.prev \in Refundable
  BY <1>1, <1>2, ReadRows DEF RefundsOf, RefundRow
<1>5. Refunded(old) \in OrderRow /\ RefundReverted(old, target.row.prev) \in OrderRow
  BY <1>2, <1>4, RowType
<1>6. refund' \in [Refunds -> RefundRow]
  BY <1>1, <1>2, <1>3, WrittenRefund
<1>. HIDE DEF o, old
<1>7. order' \in [Orders -> OrderRow] /\ conflicted' \subseteq Orders
  <2>1. CASE UNCHANGED <<order, conflicted>>
    BY <1>1, <2>1 DEF TypeOK
  <2>2. CASE WriteOrder(o, old, Refunded(old))
    BY <1>1, <1>2, <1>5, <2>2, WrittenOrder
  <2>3. CASE WriteOrder(o, old, RefundReverted(old, target.row.prev))
    BY <1>1, <1>2, <1>5, <2>3, WrittenOrder
  <2>. QED  BY <1>3, <2>1, <2>2, <2>3
<1>8. /\ settlement' \in [Orders -> SettlementStatus]
      /\ reversed' \in [Refunds -> {"none", "held", "payable"}]
  BY <1>1, <1>2, <1>3, <1>4 DEF TypeOK, SettlementStatus, ReversalJournal
<1>. QED
  BY <1>1, <1>6, <1>7, <1>8
     DEF RefundSucceededCommit, RefundFailedCommit, RefundCreatedCommit, TypeOK,
         catalogVars, ledgerVars, pspVars

\* What a session has read when it begins, and a session that is done.
LEMMA WorkStep ==
  ASSUME RCTypeOK, [RCNext]_rcVars
  PROVE  /\ work' \in [Sessions -> Work \cup {NoWork}]
         /\ \A s \in Sessions : work'[s] # NoWork =>
              \/ work'[s] = work[s]
              \/ \E o \in Orders : CancelBegin(s, o)
              \/ \E i \in Items : PublishBegin(s, i)
              \/ \E e \in sent : WebhookBegin(s, e)
<1>1. TypeOK /\ work \in [Sessions -> Work \cup {NoWork}]
  BY DEF RCTypeOK
<1>2. ASSUME NEW s \in Sessions, Finish(s)
      PROVE  /\ work' \in [Sessions -> Work \cup {NoWork}]
             /\ \A t \in Sessions : work'[t] = NoWork \/ work'[t] = work[t]
  BY <1>1, <1>2 DEF Finish
<1>3. ASSUME NEW s \in Sessions, NEW o \in Orders, CancelBegin(s, o)
      PROVE  /\ work' \in [Sessions -> Work \cup {NoWork}]
             /\ \A t \in Sessions : t = s \/ work'[t] = work[t]
  <2>. DEFINE w == [task |-> "cancel", order |-> o,
                    read |-> [row |-> order[o], intent |-> intent[o],
                              listing |-> listing[ItemOf[o]], stock |-> stock[ItemOf[o]]]]
  <2>1. w \in Work
    BY <1>1, CheckoutAssumption DEF TypeOK, Work
  <2>2. work' = [work EXCEPT ![s] = w]
    BY <1>3 DEF CancelBegin, Start
  <2>. HIDE DEF w
  <2>. QED  BY <1>1, <2>1, <2>2
<1>4. ASSUME NEW s \in Sessions, NEW e \in sent, WebhookBegin(s, e)
      PROVE  /\ work' \in [Sessions -> Work \cup {NoWork}]
             /\ \A t \in Sessions : t = s \/ work'[t] = work[t]
  <2>. DEFINE found == IF e \in RefundEvent THEN refund[e.refund] ELSE NoRefundRow
              w == [task |-> "webhook", event |-> e,
                    read |-> [row |-> order[Subject(e)], intent |-> intent[Subject(e)]],
                    refund |-> found]
  <2>1. e \in Event /\ Subject(e) \in Orders
    BY <1>1, EventKinds, CheckoutAssumption DEF TypeOK, Subject, Event, OrderEvent, RefundEvent
  <2>2. found \in RefundRow
    BY <1>1, CheckoutAssumption
       DEF TypeOK, RefundEvent, NoRefundRow, RefundRow, RefundStatus, Refundable
  <2>3. w \in Work
    BY <1>1, <2>1, <2>2 DEF TypeOK, Work
  <2>4. work' = [work EXCEPT ![s] = w]
    BY <1>4 DEF WebhookBegin, Start
  <2>. HIDE DEF w
  <2>. QED  BY <1>1, <2>3, <2>4
<1>5. CASE UNCHANGED work
  BY <1>1, <1>5
<1>8. ASSUME NEW s \in Sessions, NEW i \in Items, PublishBegin(s, i)
      PROVE  /\ work' \in [Sessions -> Work \cup {NoWork}]
             /\ \A t \in Sessions : t = s \/ work'[t] = work[t]
  <2>. DEFINE w == [task |-> "publish", item |-> i,
                    read |-> [listing |-> listing[i], stock |-> stock[i]]]
  <2>1. w \in Work
    BY <1>1 DEF TypeOK, Work
  <2>2. work' = [work EXCEPT ![s] = w]
    BY <1>8 DEF PublishBegin, Start
  <2>. HIDE DEF w
  <2>. QED  BY <1>1, <2>1, <2>2
<1>6. \A s \in Sessions : \A e \in sent : WebhookCommit(s, e) => Finish(s)
  BY DEF WebhookCommit, SuccessCommit, FailureCommit, RefundSucceededCommit,
         RefundFailedCommit, RefundCreatedCommit, Applies
<1>7. \A s \in Sessions : CancelCommit(s) \/ PublishCommit(s) \/ Abort(s) => Finish(s)
  BY DEF CancelCommit, PublishCommit, Abort
<1>. QED
  BY <1>2, <1>3, <1>4, <1>5, <1>6, <1>7, <1>8 DEF RCNext, SessionStep, rcVars

LEMMA RCTypeStep ==
  ASSUME RCTypeOK, Found, [RCNext]_rcVars
  PROVE  RCTypeOK'
<1>1. work' \in [Sessions -> Work \cup {NoWork}]
  BY WorkStep
<1>2. TypeOK' /\ conflicted' \subseteq Orders
  <2>1. CASE [Next]_vars /\ UNCHANGED conflicted
    BY <2>1, TypeStep DEF RCTypeOK
  <2>2. ASSUME NEW s \in Sessions, NEW e \in sent, WebhookCommit(s, e)
        PROVE  TypeOK' /\ conflicted' \subseteq Orders
    BY <2>2, PaymentTyped, RefundTyped DEF WebhookCommit
  <2>3. CASE UNCHANGED rcVars
    BY <2>1, <2>3 DEF rcVars
  <2>. QED
    BY <2>1, <2>2, <2>3, CancelTyped, PublishTyped, StepParts
<1>. QED  BY <1>1, <1>2 DEF RCTypeOK

\* Once a refund row exists it never disappears.
LEMMA RefundsStay ==
  ASSUME RCTypeOK, Found, [RCNext]_rcVars, NEW r \in Refunds,
         refund[r].status # "absent"
  PROVE  refund'[r].status # "absent"
<1>1. CASE UNCHANGED refund
  BY <1>1
<1>2. ASSUME NEW p \in Refunds, RefundStep(p)
      PROVE  refund'[r] = refund[r]
  BY <1>2 DEF RefundStep, RequestRefundSucceeded, RequestRefundUnsettled, RequestRefundLost,
              MayStartRefund, FinalizeRefund, RCTypeOK, TypeOK
<1>3. ASSUME LockedStep \/ PspStep
      PROVE  refund'[r].status # "absent"
  <2>1. UNCHANGED refund \/ \E p \in Refunds : RefundStep(p)
    BY <1>3 DEF LockedStep, PlaceOrder, CreateIntent, MockCheckout, Fulfil,
                ConfirmReceipt, Restock, PspStep, BuyerPays, AttemptFails,
                PspRefundSucceeds, PspRefundFails, platformVars
  <2>. QED  BY <1>1, <1>2, <2>1
<1>4. ASSUME NEW s \in Sessions, NEW e \in sent, WebhookCommit(s, e)
      PROVE  refund'[r].status # "absent"
  <2>1. CASE SuccessCommit(s, e) \/ FailureCommit(s, e)
    BY <1>1, <2>1 DEF SuccessCommit, FailureCommit
  <2>2. CASE ~ (SuccessCommit(s, e) \/ FailureCommit(s, e))
    <3>1. /\ e \in RefundEvent /\ Applies(s, e)
          /\ \E target \in Rows(s, e), status \in RefundStatus \ {"absent"} :
               WriteRefund(target, status)
      BY <1>4, <2>2, EventKinds
         DEF WebhookCommit, RefundSucceededCommit, RefundFailedCommit, RefundCreatedCommit,
             RefundStatus, RCTypeOK, TypeOK, Event
    <3>. QED  BY <3>1, WrittenRefund
  <2>. QED  BY <2>1, <2>2
<1>5. ASSUME NEW s \in Sessions, CancelCommit(s) \/ PublishCommit(s)
      PROVE  UNCHANGED refund
  BY <1>5 DEF CancelCommit, PublishCommit
<1>. QED
  BY <1>1, <1>3, <1>4, <1>5, StepParts DEF rcVars, vars

LEMMA FoundStep ==
  ASSUME RCTypeOK, Found, [RCNext]_rcVars
  PROVE  Found'
<1>1. SUFFICES ASSUME NEW s \in Sessions, work'[s] # NoWork
               PROVE  /\ work'[s].task = "cancel" => work'[s].read.row.status = "pending_payment"
                      /\ work'[s].task = "webhook" /\ work'[s].refund.status # "absent" =>
                           /\ work'[s].event \in RefundEvent
                           /\ refund'[work'[s].event.refund].status # "absent"
  BY DEF Found
<1>2. CASE work'[s] = work[s]
  <2>1. ASSUME work[s].task = "webhook", work[s].refund.status # "absent"
        PROVE  /\ work[s].event \in RefundEvent
               /\ refund'[work[s].event.refund].status # "absent"
    <3>1. work[s].event \in RefundEvent /\ refund[work[s].event.refund].status # "absent"
      BY <1>1, <1>2, <2>1 DEF Found
    <3>. QED  BY <3>1, RefundsStay DEF RefundEvent
  <2>. QED  BY <1>1, <1>2, <2>1 DEF Found
<1>3. ASSUME NEW o \in Orders, CancelBegin(s, o)
      PROVE  work'[s].task = "cancel" /\ work'[s].read.row.status = "pending_payment"
  BY <1>3 DEF CancelBegin, Start, MayCancel, RCTypeOK
<1>5. ASSUME NEW i \in Items, PublishBegin(s, i)
      PROVE  work'[s].task = "publish"
  BY <1>5 DEF PublishBegin, Start, RCTypeOK
<1>4. ASSUME NEW e \in sent, WebhookBegin(s, e)
      PROVE  /\ work'[s].task = "webhook"
             /\ work'[s].refund.status # "absent" =>
                  /\ work'[s].event \in RefundEvent
                  /\ refund'[work'[s].event.refund].status # "absent"
  <2>1. /\ work'[s].task = "webhook" /\ work'[s].event = e
        /\ work'[s].refund = IF e \in RefundEvent THEN refund[e.refund] ELSE NoRefundRow
        /\ refund' = refund
    BY <1>4 DEF WebhookBegin, Start, RCTypeOK, vars
  <2>. QED  BY <2>1 DEF NoRefundRow
<1>. QED  BY <1>1, <1>2, <1>3, <1>4, <1>5, WorkStep

\* Every state is well typed also under READ COMMITTED: whatever rows the
\* sessions read and whatever they flush over rows that changed.
THEOREM RCTypeCorrect == RCSpec => [](RCTypeOK /\ Found)
<1>1. RCInit => RCTypeOK /\ Found
  BY InitType DEF RCInit, RCTypeOK, Found
<1>. QED  BY <1>1, RCTypeStep, FoundStep, PTL DEF RCSpec

-----------------------------------------------------------------------------
(***************************************************************************)
(* The ledger.  A commit that finalises a refund may find the order        *)
(* refunded already by another handler, and then books a second reversal;  *)
(* every other commit is quiet as far as refunds and settlements go.       *)
(***************************************************************************)
ReversalStep(r) ==
  LET o == OrderOf[r] IN
  /\ settlement' = [settlement EXCEPT ![o] = IF @ = "pending" THEN "cancelled" ELSE @]
  /\ reversed' = ReversalJournal(o, r)
  /\ \A q \in Orders : q # o => order'[q] = order[q]
  /\ UNCHANGED <<captured, settled, pspRefund>>
  /\ \E q \in RefundsOf(o) : pspRefund[q] \in {"succeeded", "returned"}
  /\ NeedsCapture(o)

\* Publishing is quiet for the ledger.
LEMMA PublishQuiet ==
  ASSUME RCTypeOK, NEW s \in Sessions, PublishCommit(s)
  PROVE  /\ QuietStep
         /\ PspTruth => PspTruth'
         /\ CaptureBacked => CaptureBacked'
<1>1. UNCHANGED <<order, intent, refund, settlement, ledgerVars, pspVars>>
  BY PublishWrites
<1>2. PspTruth => PspTruth'
  BY <1>1, PspTruthQuiet DEF RCTypeOK
<1>3. CaptureBacked => CaptureBacked'
  BY <1>1 DEF CaptureBacked, NeedsCapture, RowsOf, RefundsOf, TotalOf, ledgerVars, pspVars
<1>4. QuietStep
  BY <1>1 DEF QuietStep, ledgerVars, pspVars
<1>. QED  BY <1>2, <1>3, <1>4

LEMMA CommitsPspTruth ==
  ASSUME RCTypeOK, PspTruth, NEW s \in Sessions,
         CancelCommit(s) \/ \E e \in sent : WebhookCommit(s, e)
  PROVE  PspTruth'
<1>1. TypeOK
  BY DEF RCTypeOK
<1>2. CASE CancelCommit(s)
  <2>1. UNCHANGED pspVars /\ \A o \in Orders : intent[o] # "none" => intent'[o] # "none"
    BY <1>1, <1>2 DEF CancelCommit, TypeOK
  <2>. QED  BY <1>1, <2>1, PspTruthQuiet
<1>3. ASSUME NEW e \in sent, WebhookCommit(s, e)
      PROVE  PspTruth'
  <2>1. UNCHANGED pspVars /\ \A o \in Orders : intent[o] # "none" => intent'[o] # "none"
    <3>1. CASE SuccessCommit(s, e)
      BY <1>1, <3>1 DEF SuccessCommit, Column, TypeOK
    <3>2. CASE FailureCommit(s, e)
      BY <1>1, <3>2 DEF FailureCommit, Column, TypeOK
    <3>3. CASE \/ RefundSucceededCommit(s, e) \/ RefundFailedCommit(s, e)
               \/ RefundCreatedCommit(s, e)
      BY <3>3 DEF RefundSucceededCommit, RefundFailedCommit, RefundCreatedCommit
    <3>. QED  BY <1>3, <3>1, <3>2, <3>3 DEF WebhookCommit
  <2>. QED  BY <1>1, <2>1, PspTruthQuiet
<1>. QED  BY <1>2, <1>3

\* A commit that writes one order keeps CaptureBacked when it does not make
\* that order need a capture it lacks.
LEMMA CaptureWritten ==
  ASSUME TypeOK, CaptureBacked, NEW o \in Orders,
         \A q \in Orders : q # o => NeedsCapture(q)' = NeedsCapture(q),
         NeedsCapture(o)' => NeedsCapture(o), UNCHANGED <<captured, charge>>
  PROVE  CaptureBacked'
BY DEF CaptureBacked, TotalOf

LEMMA CommitsCapture ==
  ASSUME RCTypeOK, Found, PspTruth, CaptureBacked, NEW s \in Sessions,
         CancelCommit(s) \/ \E e \in sent : WebhookCommit(s, e)
  PROVE  CaptureBacked'
<1>. DEFINE old == work[s].read.row
<1>1. TypeOK /\ sent \subseteq Event
  BY DEF RCTypeOK, TypeOK
<1>2. CASE CancelCommit(s)
  <2>0. PICK o \in Orders : o = work[s].order
    BY <1>2, WorkParts DEF CancelCommit
  <2>1. /\ old \in OrderRow /\ Cancelled(old) \in OrderRow
        /\ old.status = "pending_payment"
    BY <1>2, WorkParts, RowType DEF CancelCommit, Found
  <2>2. WriteOrder(o, old, Cancelled(old)) /\ UNCHANGED <<refund, settlement, captured, charge>>
    BY <1>2, <2>0 DEF CancelCommit, ledgerVars, pspVars
  <2>3. Cancelled(old).status = "cancelled" /\ Cancelled(old).pay = "cancelled"
    BY <2>1, RowStatus, RowPay
  <2>4. \A q \in Orders : intent'[q] = intent[q] \/ (q = o /\ intent'[q] = "cancelled")
    BY <1>1, <1>2, <2>0 DEF CancelCommit, TypeOK
  <2>. HIDE DEF old
  <2>5. /\ order'[o].status = "cancelled"
        /\ order'[o].pay \in {"cancelled", order[o].pay}
        /\ \A q \in Orders : q # o => order'[q] = order[q]
    BY <1>1, <2>1, <2>2, <2>3, WrittenOrder DEF Column
  <2>6. \A q \in Orders : q # o => NeedsCapture(q)' = NeedsCapture(q)
    BY <2>2, <2>4, <2>5 DEF NeedsCapture, RowsOf, RefundsOf
  <2>7. NeedsCapture(o)' => NeedsCapture(o)
    BY <2>1, <2>2, <2>4, <2>5 DEF NeedsCapture, RowsOf, RefundsOf
  <2>. QED  BY <1>1, <2>1, <2>2, <2>6, <2>7, CaptureWritten
<1>3. ASSUME NEW e \in sent, SuccessCommit(s, e)
      PROVE  CaptureBacked'
  <2>. DEFINE o == e.order
  <2>1. /\ o \in Orders /\ charge[o] = "captured"
        /\ old \in OrderRow /\ PaymentSucceeded(old) \in OrderRow
    BY <1>1, <1>3, WorkParts, RowType, EventKinds
       DEF SuccessCommit, Applies, OrderKind, PspTruth
  <2>2. WriteOrder(o, old, PaymentSucceeded(old)) /\ UNCHANGED <<refund, settlement, charge>>
    BY <1>3 DEF SuccessCommit, pspVars
  <2>3. /\ AlreadyPaid(old) => UNCHANGED <<intent, captured>>
        /\ ~ AlreadyPaid(old) => captured' = CaptureJournal(o)
        /\ \A q \in Orders : q # o => intent'[q] = intent[q]
    BY <1>1, <1>3, <2>1 DEF SuccessCommit, TypeOK
  <2>4. AlreadyPaid(old) => PaymentSucceeded(old) = old
    BY DEF PaymentSucceeded
  <2>. HIDE DEF o, old
  <2>5. \A q \in Orders : q # o => order'[q] = order[q]
    BY <1>1, <2>1, <2>2, WrittenOrder
  <2>6. AlreadyPaid(old) => order'[o] = order[o]
    BY <1>1, <2>1, <2>2, <2>4, WrittenOrder, FlushedRow DEF TypeOK
  <2>. QED
    BY <1>1, <2>1, <2>2, <2>3, <2>5, <2>6
       DEF CaptureBacked, NeedsCapture, RowsOf, RefundsOf, TotalOf, CaptureJournal
<1>4. ASSUME NEW e \in sent, FailureCommit(s, e)
      PROVE  CaptureBacked'
  <2>. DEFINE o == e.order
  <2>1. /\ o \in Orders /\ old \in OrderRow /\ PaymentFailed(old) \in OrderRow
        /\ PaymentFailed(old).status = old.status /\ PaymentFailed(old).pay = "failed"
    BY <1>1, <1>4, WorkParts, RowType, RowStatus, RowPay, EventKinds
       DEF FailureCommit, Applies, OrderKind
  <2>2. /\ WriteOrder(o, old, PaymentFailed(old))
        /\ UNCHANGED <<refund, settlement, captured, charge>>
    BY <1>4 DEF FailureCommit, ledgerVars, pspVars
  <2>3. \A q \in Orders : intent'[q] = intent[q] \/ (q = o /\ intent'[q] = "failed")
    BY <1>1, <1>4, <2>1 DEF FailureCommit, TypeOK, Column
  <2>. HIDE DEF o, old
  <2>4. /\ order'[o].status = order[o].status
        /\ order'[o].pay \in {"failed", order[o].pay}
        /\ \A q \in Orders : q # o => order'[q] = order[q]
    BY <1>1, <2>1, <2>2, WrittenOrder DEF Column
  <2>5. \A q \in Orders : q # o => NeedsCapture(q)' = NeedsCapture(q)
    BY <2>2, <2>3, <2>4 DEF NeedsCapture, RowsOf, RefundsOf
  <2>6. NeedsCapture(o)' => NeedsCapture(o)
    BY <2>1, <2>2, <2>3, <2>4 DEF NeedsCapture, RowsOf, RefundsOf
  <2>. QED  BY <1>1, <2>1, <2>2, <2>5, <2>6, CaptureWritten
<1>5. ASSUME NEW e \in sent,
             \/ RefundSucceededCommit(s, e) \/ RefundFailedCommit(s, e)
             \/ RefundCreatedCommit(s, e)
      PROVE  CaptureBacked'
  <2>. DEFINE o == OrderOf[e.refund]
  <2>1. Applies(s, e) /\ e \in RefundEvent
    BY <1>1, <1>5, EventKinds
       DEF RefundSucceededCommit, RefundFailedCommit, RefundCreatedCommit, RefundKind
  <2>2. PICK target \in Rows(s, e), status \in RefundStatus \ {"absent"} :
          WriteRefund(target, status)
    BY <1>5 DEF RefundSucceededCommit, RefundFailedCommit, RefundCreatedCommit, RefundStatus
  <2>3. target.id \in RefundsOf(o) /\ o \in Orders /\ NeedsCapture(o)
    BY <2>1, ReadRows
  <2>4. \A r \in Refunds : r # target.id => refund'[r] = refund[r]
    BY <2>1, <2>2, WrittenRefund
  <2>5. \A q \in Orders : q # o => (RowsOf(q) # {})' = (RowsOf(q) # {})
    BY <2>3, <2>4 DEF RowsOf, RefundsOf
  <2>6. \A q \in Orders : q # o => order'[q] = order[q] /\ settlement'[q] = settlement[q]
    BY <1>1, <1>5
       DEF RefundSucceededCommit, RefundFailedCommit, RefundCreatedCommit, WriteOrder, TypeOK
  <2>7. UNCHANGED <<intent, captured, charge>>
    BY <1>5 DEF RefundSucceededCommit, RefundFailedCommit, RefundCreatedCommit,
                ledgerVars, pspVars
  <2>8. \A q \in Orders : q # o => NeedsCapture(q)' = NeedsCapture(q)
    BY <2>5, <2>6, <2>7 DEF NeedsCapture
  <2>. QED  BY <1>1, <2>3, <2>7, <2>8, CaptureCovered
<1>. QED  BY <1>2, <1>3, <1>4, <1>5 DEF WebhookCommit

\* Also when handlers act on rows that changed meanwhile, money is booked
\* exactly when the PSP has it.
THEOREM RCCaptureSafe == RCSpec => [](PspTruth /\ CaptureBacked)
<1>1. RCInit => PspTruth /\ CaptureBacked
  BY PspTruthInit, CaptureInit DEF RCInit
<1>2. ASSUME RCTypeOK, Found, PspTruth, CaptureBacked, [RCNext]_rcVars
      PROVE  PspTruth' /\ CaptureBacked'
  <2>1. CASE [Next]_vars
    BY <1>2, <2>1, PspTruthStep, CaptureStep DEF RCTypeOK
  <2>2. UNCHANGED rcVars => [Next]_vars
    BY DEF rcVars
  <2>. QED
    BY <1>2, <2>1, <2>2, StepParts, CommitsPspTruth, CommitsCapture, PublishQuiet
<1>. QED  BY <1>1, <1>2, RCTypeCorrect, PTL DEF RCSpec

LEMMA CommitKinds ==
  ASSUME RCTypeOK, Found, PspTruth, NEW s \in Sessions,
         CancelCommit(s) \/ \E e \in sent : WebhookCommit(s, e)
  PROVE  QuietStep \/ \E r \in Refunds : ReversalStep(r)
<1>. DEFINE old == work[s].read.row
<1>1. TypeOK /\ sent \subseteq Event
  BY DEF RCTypeOK, TypeOK
<1>2. CASE CancelCommit(s)
  <2>. DEFINE o == work[s].order
  <2>1. /\ o \in Orders /\ old \in OrderRow /\ Cancelled(old) \in OrderRow
        /\ Cancelled(old).status = "cancelled" /\ Cancelled(old).pay = "cancelled"
    BY <1>2, WorkParts, RowType, RowStatus, RowPay DEF CancelCommit
  <2>2. /\ WriteOrder(o, old, Cancelled(old))
        /\ UNCHANGED <<settlement, settled, reversed, captured, pspRefund>>
    BY <1>2 DEF CancelCommit, ledgerVars, pspVars
  <2>. HIDE DEF o, old
  <2>3. /\ order'[o].status \in {"cancelled", order[o].status}
        /\ order'[o].pay \in {"cancelled", order[o].pay}
        /\ \A q \in Orders : q # o => order'[q] = order[q]
    BY <1>1, <2>1, <2>2, WrittenOrder DEF Column
  <2>. QED  BY <2>2, <2>3 DEF QuietStep
<1>3. ASSUME NEW e \in sent, SuccessCommit(s, e)
      PROVE  QuietStep
  <2>. DEFINE o == e.order
  <2>1. /\ o \in Orders /\ old \in OrderRow /\ PaymentSucceeded(old) \in OrderRow
    BY <1>1, <1>3, WorkParts, RowType, EventKinds DEF SuccessCommit, Applies, OrderKind
  <2>2. /\ WriteOrder(o, old, PaymentSucceeded(old))
        /\ UNCHANGED <<settlement, settled, reversed, pspRefund>>
        /\ captured' = captured \/ captured' = CaptureJournal(o)
    BY <1>3 DEF SuccessCommit, pspVars
  <2>3. /\ PaymentSucceeded(old).status \in {old.status, "paid"}
        /\ PaymentSucceeded(old).pay = "paid"
    BY <2>1 DEF PaymentSucceeded, AlreadyPaid, OrderRow
  <2>. HIDE DEF o, old
  <2>4. /\ order'[o].status \in {"paid", order[o].status}
        /\ order'[o].pay \in {"paid", order[o].pay}
        /\ \A q \in Orders : q # o => order'[q] = order[q]
    BY <1>1, <2>1, <2>2, <2>3, WrittenOrder DEF Column
  <2>. QED  BY <2>1, <2>2, <2>4 DEF QuietStep, CaptureJournal
<1>4. ASSUME NEW e \in sent, FailureCommit(s, e)
      PROVE  QuietStep
  <2>. DEFINE o == e.order
  <2>1. /\ o \in Orders /\ old \in OrderRow /\ PaymentFailed(old) \in OrderRow
        /\ PaymentFailed(old).status = old.status /\ PaymentFailed(old).pay = "failed"
    BY <1>1, <1>4, WorkParts, RowType, RowStatus, RowPay, EventKinds
       DEF FailureCommit, Applies, OrderKind
  <2>2. /\ WriteOrder(o, old, PaymentFailed(old))
        /\ UNCHANGED <<settlement, settled, reversed, captured, pspRefund>>
    BY <1>4 DEF FailureCommit, ledgerVars, pspVars
  <2>. HIDE DEF o, old
  <2>3. /\ order'[o].status = order[o].status
        /\ order'[o].pay \in {"failed", order[o].pay}
        /\ \A q \in Orders : q # o => order'[q] = order[q]
    BY <1>1, <2>1, <2>2, WrittenOrder DEF Column
  <2>. QED  BY <2>2, <2>3 DEF QuietStep
<1>5. ASSUME NEW e \in sent, RefundFailedCommit(s, e)
      PROVE  QuietStep
  <2>. DEFINE o == OrderOf[e.refund]
  <2>1. Applies(s, e) /\ e \in RefundEvent /\ o \in Orders
    BY <1>1, <1>5, EventKinds, CheckoutAssumption DEF RefundFailedCommit, RefundKind
  <2>2. PICK target \in Rows(s, e) : WriteOrder(o, old, RefundReverted(old, target.row.prev))
    BY <1>5 DEF RefundFailedCommit
  <2>3. target.row.prev \in Refundable
    BY <2>1, ReadRows DEF RefundRow
  <2>4. old \in OrderRow
    BY <2>1, WorkParts DEF Applies
  <2>. HIDE DEF o, old
  <2>5. /\ RefundReverted(old, target.row.prev) \in OrderRow
        /\ RefundReverted(old, target.row.prev).status = target.row.prev
        /\ RefundReverted(old, target.row.prev).pay = old.pay
    BY <2>3, <2>4 DEF RefundReverted, OrderRow, Refundable, OrderStatus
  <2>6. UNCHANGED <<settlement, settled, reversed, captured, pspRefund>>
    BY <1>5 DEF RefundFailedCommit, ledgerVars, pspVars
  <2>7. /\ order'[o].status \in {target.row.prev, order[o].status}
        /\ order'[o].pay = order[o].pay
        /\ \A q \in Orders : q # o => order'[q] = order[q]
    BY <1>1, <2>1, <2>2, <2>4, <2>5, WrittenOrder DEF Column
  <2>. QED  BY <2>3, <2>6, <2>7 DEF QuietStep, Refundable
<1>6. ASSUME NEW e \in sent, RefundCreatedCommit(s, e)
      PROVE  QuietStep
  BY <1>6 DEF RefundCreatedCommit, QuietStep, ledgerVars, pspVars
<1>7. ASSUME NEW e \in sent, RefundSucceededCommit(s, e)
      PROVE  QuietStep \/ \E r \in Refunds : ReversalStep(r)
  <2>. DEFINE o == OrderOf[e.refund]
  <2>1. /\ Applies(s, e) /\ e \in RefundEvent /\ o \in Orders /\ e.refund \in RefundsOf(o)
        /\ pspRefund[e.refund] \in {"succeeded", "returned"}
    BY <1>1, <1>7, EventKinds, CheckoutAssumption
       DEF RefundSucceededCommit, RefundKind, PspTruth, RefundsOf
  <2>2. old \in OrderRow /\ Refunded(old) \in OrderRow
    BY <2>1, WorkParts, RowType DEF Applies
  <2>3. PICK target \in Rows(s, e) :
          /\ WriteOrder(o, old, Refunded(old))
          /\ IF AlreadyRefunded(old)
               THEN UNCHANGED <<settlement, reversed>>
               ELSE /\ settlement' = [settlement EXCEPT ![o] =
                                        IF @ = "pending" THEN "cancelled" ELSE @]
                    /\ reversed' = ReversalJournal(o, target.id)
    BY <1>7 DEF RefundSucceededCommit
  <2>4. target.id \in Refunds /\ OrderOf[target.id] = o /\ NeedsCapture(o)
    BY <2>1, ReadRows DEF RefundsOf
  <2>5. UNCHANGED <<captured, settled, pspRefund>>
    BY <1>7 DEF RefundSucceededCommit, pspVars
  <2>6. AlreadyRefunded(old) => Refunded(old) = old
    BY DEF Refunded
  <2>. HIDE DEF o, old
  <2>7. /\ \A q \in Orders : q # o => order'[q] = order[q]
        /\ AlreadyRefunded(old) => order'[o] = order[o]
    BY <1>1, <2>1, <2>2, <2>3, <2>6, WrittenOrder, FlushedRow DEF TypeOK
  <2>8. CASE AlreadyRefunded(old)
    BY <2>1, <2>3, <2>5, <2>7, <2>8 DEF QuietStep
  <2>9. CASE ~ AlreadyRefunded(old)
    BY <2>1, <2>3, <2>4, <2>5, <2>7, <2>9 DEF ReversalStep
  <2>. QED  BY <2>8, <2>9
<1>. QED  BY <1>2, <1>3, <1>4, <1>5, <1>6, <1>7 DEF WebhookCommit

\* Every step is a step of Checkout, quiet, or books a reversal.
LEMMA RCStepKinds ==
  ASSUME RCTypeOK, Found, PspTruth, [RCNext]_rcVars
  PROVE  [Next]_vars \/ QuietStep \/ \E r \in Refunds : ReversalStep(r)
<1>1. UNCHANGED rcVars => [Next]_vars
  BY DEF rcVars
<1>. QED  BY <1>1, StepParts, CommitKinds, PublishQuiet

LEMMA ReversalSettles ==
  ASSUME TypeOK, SettlementConsistent, NEW r \in Refunds, ReversalStep(r)
  PROVE  SettlementConsistent'
<1>. DEFINE o == OrderOf[r]
<1>1. /\ o \in Orders /\ settled' = settled
      /\ settlement' = [settlement EXCEPT ![o] = IF @ = "pending" THEN "cancelled" ELSE @]
      /\ reversed' = ReversalJournal(o, r)
      /\ \A q \in Orders : q # o => order'[q] = order[q]
  BY CheckoutAssumption DEF ReversalStep
<1>2. /\ settlement'[o] # "none" <=> settlement[o] # "none"
      /\ settlement'[o] # "pending"
      /\ \A q \in Orders : q # o => settlement'[q] = settlement[q]
  BY <1>1 DEF TypeOK
<1>3. \A q \in Orders : q # o => \A p \in RefundsOf(q) : reversed'[p] = reversed[p]
  BY <1>1 DEF ReversalJournal, RefundsOf, TypeOK
<1>4. ASSUME NEW p \in RefundsOf(o), reversed'[p] = "payable"
      PROVE  settlement'[o] = "cancelled"
  <2>1. settlement[o] # "none"
    BY <1>1, <1>4 DEF ReversalJournal, RefundsOf, TypeOK, SettlementConsistent
  <2>. QED  BY <1>1, <1>2, <2>1 DEF TypeOK, SettlementStatus
<1>. HIDE DEF o
<1>. QED
  BY <1>1, <1>2, <1>3, <1>4 DEF SettlementConsistent, RefundsOf

\* Nor is a merchant paid out for a refunded order when the handlers of the
\* refund and of the receipt interleave.
THEOREM RCSettlementSafe == RCSpec => []SettlementConsistent
<1>1. RCInit => SettlementConsistent
  BY CheckoutAssumption DEF RCInit, Init, SettlementConsistent, NoOrderRow, RefundsOf
<1>2. ASSUME RCTypeOK, Found, PspTruth, SettlementConsistent, [RCNext]_rcVars
      PROVE  SettlementConsistent'
  <2>1. CASE QuietStep
    BY <1>2, <2>1 DEF QuietStep, SettlementConsistent, RefundsOf
  <2>. QED
    BY <1>2, <2>1, RCStepKinds, SettlementStep, ReversalSettles DEF RCTypeOK
<1>. QED  BY <1>1, <1>2, RCTypeCorrect, RCCaptureSafe, PTL DEF RCSpec

LEMMA ReversalBacked ==
  ASSUME TypeOK, RefundBacked, NEW r \in Refunds, ReversalStep(r)
  PROVE  RefundBacked'
<1>. DEFINE o == OrderOf[r]
<1>1. /\ o \in Orders /\ r \in RefundsOf(o) /\ pspRefund' = pspRefund
      /\ reversed' = ReversalJournal(o, r)
      /\ \A q \in Orders : q # o => order'[q] = order[q]
      /\ \E q \in RefundsOf(o) : pspRefund[q] \in {"succeeded", "returned"}
  BY CheckoutAssumption DEF ReversalStep, RefundsOf
<1>2. reversed'[r] # "none"
  BY <1>1 DEF ReversalJournal, TypeOK
<1>3. \A q \in Orders : q # o => \A p \in RefundsOf(q) : reversed'[p] = reversed[p]
  BY <1>1 DEF ReversalJournal, RefundsOf, TypeOK
<1>. HIDE DEF o
<1>. QED  BY <1>1, <1>2, <1>3 DEF RefundBacked, RefundsOf

\* A refunded order has its reversal, and money is reversed only after the
\* PSP returned it, however stale the order was that a refund event found.
THEOREM RCRefundSafe == RCSpec => []RefundBacked
<1>1. RCInit => RefundBacked
  BY CheckoutAssumption DEF RCInit, Init, RefundBacked, NoOrderRow, RefundsOf
<1>2. ASSUME RCTypeOK, Found, PspTruth, RefundBacked, [RCNext]_rcVars
      PROVE  RefundBacked'
  <2>1. CASE QuietStep
    BY <1>2, <2>1 DEF QuietStep, RefundBacked, RefundsOf
  <2>. QED
    BY <1>2, <2>1, RCStepKinds, RefundBackedStep, ReversalBacked DEF RCTypeOK
<1>. QED  BY <1>1, <1>2, RCTypeCorrect, RCCaptureSafe, PTL DEF RCSpec

LEMMA RCEscrowStep ==
  ASSUME RCTypeOK, Found, PspTruth, CaptureBacked, SettlementConsistent, [RCNext]_rcVars
  PROVE  [Books!EscrowNext]_<<captured, settled, reversed>>
<1>1. CASE QuietStep
  BY <1>1 DEF QuietStep, Books!EscrowNext, Books!Capture
<1>2. ASSUME NEW r \in Refunds, ReversalStep(r)
      PROVE  [Books!EscrowNext]_<<captured, settled, reversed>>
  <2>1. OrderOf[r] \in Orders
    BY CheckoutAssumption
  <2>2. OrderOf[r] \in settled <=> settlement[OrderOf[r]] # "none"
    BY <2>1 DEF SettlementConsistent
  <2>3. UNCHANGED <<captured, settled>> /\ Books!Covered(OrderOf[r])
    BY <1>2, <2>1 DEF ReversalStep, CaptureBacked, Books!Covered
  <2>4. \/ reversed' = reversed
        \/ /\ reversed[r] = "none"
           /\ reversed' = [reversed EXCEPT ![r] =
                IF settlement[OrderOf[r]] = "none" THEN "held" ELSE "payable"]
    BY <1>2 DEF ReversalStep, ReversalJournal
  <2>. QED
    BY <2>1, <2>2, <2>3, <2>4 DEF Books!EscrowNext, Books!Reverse
<1>. QED  BY <1>1, <1>2, RCStepKinds, EscrowStep DEF RCTypeOK

\* READ COMMITTED does not change what the ledger promises: it is still the
\* ledger of an escrow.
THEOREM RCLedgerIsEscrow == RCSpec => ImplementsEscrow
<1>1. RCInit => Books!EscrowInit
  BY EscrowStart DEF RCInit
<1>. QED
  BY <1>1, RCEscrowStep, RCTypeCorrect, RCCaptureSafe, RCSettlementSafe, PTL
  DEF RCSpec, ImplementsEscrow, Books!EscrowSpec

-----------------------------------------------------------------------------
(***************************************************************************)
(* Reservations.  Of an order no lost update touched, what CheckoutProofs  *)
(* shows of every order still holds: with a refund row it is past its      *)
(* payment, and it holds its item alone.  So a cancellation that read such *)
(* an order while it held the item also read that the item was reserved.   *)
(***************************************************************************)
Exclusive(i) ==
  /\ listing[i] = "reserved" <=> stock[i] = "reserved"
  /\ listing[i] = "reserved" <=> \E o \in Orders : ItemOf[o] = i /\ Holds(o)
  /\ \A o, q \in Orders : ItemOf[o] = i /\ ItemOf[q] = i /\ Holds(o) /\ Holds(q) => o = q

UndisturbedPaid ==
  \A o \in Orders : o \notin conflicted /\ (RowsOf(o) # {} \/ o \in restocked) =>
    order[o].status \in PastPayment

SawReserved ==
  \A s \in Sessions :
    work[s] # NoWork /\ work[s].task = "cancel" /\ ~ Disturbed(ItemOf[work[s].order]) =>
      work[s].read.listing = "reserved" /\ work[s].read.stock = "reserved"

LEMMA ExclusiveStays ==
  ASSUME NEW i, Exclusive(i), listing'[i] = listing[i], stock'[i] = stock[i],
         \A o \in Orders : ItemOf[o] = i => (Holds(o)' <=> Holds(o))
  PROVE  Exclusive(i)'
BY DEF Exclusive

\* An order that takes a free item, or gives up the one it holds.
LEMMA ExclusiveMoves ==
  ASSUME NEW o \in Orders, NEW i, i = ItemOf[o], Exclusive(i),
         stock[i] # "reserved" \/ Holds(o),
         \A q \in Orders : q # o => (Holds(q)' <=> Holds(q)),
         listing'[i] = "reserved" <=> stock'[i] = "reserved",
         listing'[i] = "reserved" <=> Holds(o)'
  PROVE  Exclusive(i)'
<1>1. \A q \in Orders : q # o /\ ItemOf[q] = i => ~ Holds(q)
  BY DEF Exclusive
<1>. QED  BY <1>1 DEF Exclusive

LEMMA HoldsBoth ==
  ASSUME TypeOK, TypeOK', NEW o \in Orders
  PROVE  /\ Holds(o) <=> order[o].status \notin {"absent", "cancelled"} /\ o \notin restocked
         /\ Holds(o)' <=> order'[o].status \notin {"absent", "cancelled"} /\ o \notin restocked'
BY DEF TypeOK, Holds, Live, OrderRow, OrderStatus

\* What the steps of the handlers that lock do to the orders.
LEMMA LockedMoves ==
  ASSUME TypeOK, (LockedStep \/ PspStep) \/ UNCHANGED vars
  PROVE  /\ InnerStep \/ \E o \in Orders : PlaceOrder(o)
         /\ UNCHANGED processed
         /\ UNCHANGED republished
         /\ \/ UNCHANGED <<listing, stock, restocked>>
            \/ \E o \in Orders : PlaceOrder(o) \/ Restock(o)
<1>1. CASE PspStep \/ UNCHANGED vars
  BY <1>1 DEF PspStep, BuyerPays, AttemptFails, PspRefundSucceeds, PspRefundFails,
              platformVars, vars, InnerStep
<1>3. ASSUME NEW o \in Orders,
             \/ CreateIntent(o) \/ MockCheckout(o) \/ ConfirmReceipt(o)
             \/ \E t \in FulfillmentTarget : Fulfil(o, t)
      PROVE  InnerStep /\ UNCHANGED <<processed, listing, stock, restocked, republished>>
  BY <1>3, StatusOrder DEF CreateIntent, MockCheckout, ConfirmReceipt, Fulfil, catalogVars
<1>4. ASSUME NEW o \in Orders, PlaceOrder(o) \/ Restock(o)
      PROVE  (InnerStep \/ PlaceOrder(o)) /\ UNCHANGED <<processed, republished>>
  BY <1>4, StatusOrder DEF PlaceOrder, Restock
<1>5. ASSUME NEW r \in Refunds, RefundStep(r)
      PROVE  InnerStep /\ UNCHANGED <<processed, listing, stock, restocked, republished>>
  BY <1>5, StatusRefund
     DEF RefundStep, RequestRefundSucceeded, RequestRefundUnsettled,
         RequestRefundLost, catalogVars
<1>. QED
  BY <1>1, <1>3, <1>4, <1>5 DEF LockedStep

\* The histories of lost updates and lost reservations only grow.
LEMMA ConflictsStay ==
  ASSUME RCTypeOK, [RCNext]_rcVars
  PROVE  /\ conflicted \subseteq conflicted' /\ republished \subseteq republished'
         /\ \A i : Disturbed(i) => Disturbed(i)'
<1>1. \A o : \A old, new : WriteOrder(o, old, new) => conflicted \subseteq conflicted'
  BY DEF WriteOrder
<1>2. ASSUME NEW s \in Sessions, CancelCommit(s) \/ \E e \in sent : WebhookCommit(s, e)
      PROVE  conflicted \subseteq conflicted' /\ republished' = republished
  BY <1>1, <1>2
     DEF CancelCommit, WebhookCommit, SuccessCommit, FailureCommit, RefundSucceededCommit,
         RefundFailedCommit, RefundCreatedCommit, catalogVars
<1>3. ASSUME NEW s \in Sessions, PublishCommit(s)
      PROVE  conflicted' = conflicted /\ republished \subseteq republished'
  BY <1>3, PublishWrites
<1>4. (LockedStep \/ PspStep) \/ UNCHANGED vars => republished' = republished
  BY LockedMoves DEF RCTypeOK
<1>5. conflicted \subseteq conflicted' /\ republished \subseteq republished'
  BY <1>2, <1>3, <1>4, StepParts DEF rcVars
<1>. QED  BY <1>5 DEF Disturbed

\* Unless it loses an update, a commit of a webhook leaves an order holding
\* its item or not, past its payment, and with no refund row if it had none.
Kept(o) ==
  /\ order'[o].status \notin {"absent", "cancelled"}
       <=> order[o].status \notin {"absent", "cancelled"}
  /\ order[o].status \in PastPayment => order'[o].status \in PastPayment
  /\ (RowsOf(o) # {})' => RowsOf(o) # {}

LEMMA PaymentKept ==
  ASSUME RCTypeOK, NEW s \in Sessions, NEW e \in sent,
         SuccessCommit(s, e) \/ FailureCommit(s, e)
  PROVE  /\ UNCHANGED <<listing, stock, restocked>>
         /\ \A o \in Orders : o \notin conflicted' => Kept(o)
<1>1. PICK old \in OrderRow : old = work[s].read.row
  BY WorkParts DEF SuccessCommit, FailureCommit, Applies
<1>2. PICK o \in Orders : o = e.order
  BY EventKinds DEF SuccessCommit, FailureCommit, OrderKind, RCTypeOK, TypeOK
<1>3. /\ UNCHANGED <<listing, stock, restocked, refund>>
      /\ WriteOrder(o, old, PaymentSucceeded(old)) \/ WriteOrder(o, old, PaymentFailed(old))
  BY <1>1, <1>2 DEF SuccessCommit, FailureCommit, catalogVars
<1>4. PICK new \in OrderRow :
        /\ WriteOrder(o, old, new)
        /\ new.status = old.status \/ (old.status = "pending_payment" /\ new.status = "paid")
  <2>1. /\ PaymentSucceeded(old) \in OrderRow /\ PaymentFailed(old) \in OrderRow
        /\ PaymentFailed(old).status = old.status
        /\ \/ PaymentSucceeded(old).status = old.status
           \/ old.status = "pending_payment" /\ PaymentSucceeded(old).status = "paid"
    BY RowType, RowStatus
  <2>2. CASE WriteOrder(o, old, PaymentSucceeded(old))
    BY <2>1, <2>2
  <2>3. CASE WriteOrder(o, old, PaymentFailed(old))
    BY <2>1, <2>3
  <2>. QED  BY <1>3, <2>2, <2>3
<1>5. /\ \A q \in Orders : q # o => order'[q] = order[q]
      /\ o \notin conflicted' => order'[o] = order[o] \/ (order[o] = old /\ order'[o] = new)
  BY <1>1, <1>2, <1>4, WrittenOrder DEF RCTypeOK
<1>6. \A q \in Orders : (RowsOf(q) # {})' <=> RowsOf(q) # {}
  BY <1>3 DEF RowsOf, RefundsOf
<1>7. ASSUME NEW q \in Orders, q \notin conflicted'
      PROVE  Kept(q)
  <2>1. \/ order'[q].status = order[q].status
        \/ order[q].status = "pending_payment" /\ order'[q].status = "paid"
    BY <1>4, <1>5, <1>7
  <2>. QED  BY <1>6, <2>1 DEF Kept, PastPayment, Refundable
<1>. QED  BY <1>3, <1>7

LEMMA RefundKept ==
  ASSUME RCTypeOK, Found, UndisturbedPaid, NEW s \in Sessions, NEW e \in sent,
         \/ RefundSucceededCommit(s, e) \/ RefundFailedCommit(s, e)
         \/ RefundCreatedCommit(s, e)
  PROVE  /\ UNCHANGED <<listing, stock, restocked>>
         /\ \A o \in Orders : o \notin conflicted' => Kept(o)
<1>1. Applies(s, e) /\ e \in RefundEvent
  BY EventKinds
     DEF RefundSucceededCommit, RefundFailedCommit, RefundCreatedCommit, RefundKind,
         RCTypeOK, TypeOK
<1>2. PICK old \in OrderRow : old = work[s].read.row
  BY <1>1, WorkParts DEF Applies
<1>3. PICK o \in Orders : o = OrderOf[e.refund]
  BY <1>1, CheckoutAssumption DEF RefundEvent
<1>4. PICK target \in Rows(s, e), status \in RefundStatus \ {"absent"} :
        /\ WriteRefund(target, status)
        /\ \/ UNCHANGED <<order, conflicted>>
           \/ WriteOrder(o, old, RefundReverted(old, target.row.prev))
           \/ WriteOrder(o, old, Refunded(old))
  BY <1>2, <1>3
     DEF RefundSucceededCommit, RefundFailedCommit, RefundCreatedCommit, RefundStatus
<1>5. /\ target.id \in RefundsOf(o) /\ target.row.prev \in Refundable
      /\ refund[target.id].status # "absent"
      /\ \A r \in Refunds : r # target.id => refund'[r] = refund[r]
  BY <1>1, <1>3, <1>4, ReadRows, WrittenRefund DEF RefundRow
<1>6. RowsOf(o) # {} /\ \A q \in Orders : (RowsOf(q) # {})' => RowsOf(q) # {}
  BY <1>5 DEF RowsOf, RefundsOf
<1>7. UNCHANGED <<order, conflicted>> \/ \E new \in OrderRow :
        WriteOrder(o, old, new) /\ new.status \in PastPayment
  <2>1. target.row.prev \in Refundable
    BY <1>5
  <2>2. /\ RefundReverted(old, target.row.prev) \in OrderRow
        /\ RefundReverted(old, target.row.prev).status \in PastPayment
    BY <2>1 DEF RefundReverted, OrderRow, Refundable, OrderStatus, PastPayment
  <2>3. Refunded(old) \in OrderRow /\ Refunded(old).status \in PastPayment
    BY RowType, RowStatus DEF PastPayment
  <2>4. CASE WriteOrder(o, old, RefundReverted(old, target.row.prev))
    BY <2>2, <2>4
  <2>5. CASE WriteOrder(o, old, Refunded(old))
    BY <2>3, <2>5
  <2>. QED  BY <1>4, <2>4, <2>5
<1>8. \/ UNCHANGED <<order, conflicted>>
      \/ /\ conflicted \subseteq conflicted'
         /\ \A q \in Orders : q # o => order'[q] = order[q]
         /\ o \notin conflicted' =>
              order'[o] = order[o] \/ order'[o].status \in PastPayment
  BY <1>2, <1>3, <1>7, WrittenOrder DEF RCTypeOK
<1>9. ASSUME NEW q \in Orders, q \notin conflicted'
      PROVE  Kept(q)
  <2>1. \/ order'[q].status = order[q].status
        \/ order[q].status \in PastPayment /\ order'[q].status \in PastPayment
    BY <1>6, <1>8, <1>9 DEF UndisturbedPaid
  <2>. QED  BY <1>6, <2>1 DEF Kept, PastPayment, Refundable
<1>10. UNCHANGED <<listing, stock, restocked>>
  BY DEF RefundSucceededCommit, RefundFailedCommit, RefundCreatedCommit, catalogVars
<1>. QED  BY <1>9, <1>10

LEMMA WebhookKept ==
  ASSUME RCTypeOK, Found, UndisturbedPaid, NEW s \in Sessions, NEW e \in sent,
         WebhookCommit(s, e)
  PROVE  /\ UNCHANGED <<listing, stock, restocked>>
         /\ \A o \in Orders : o \notin conflicted' => Kept(o)
BY PaymentKept, RefundKept DEF WebhookCommit

\* What the commit of a cancellation writes. An order that stays undisturbed
\* was still waiting for its payment.
LEMMA CancelWrites ==
  ASSUME RCTypeOK, Found, NEW s \in Sessions, CancelCommit(s)
  PROVE  \E o \in Orders :
           /\ o = work[s].order
           /\ UNCHANGED <<restocked, refund>>
           /\ \A q \in Orders : q # o => order'[q] = order[q]
           /\ \A i \in Items : i # ItemOf[o] => listing'[i] = listing[i] /\ stock'[i] = stock[i]
           /\ work[s].read.listing = "reserved" => listing'[ItemOf[o]] = "active"
           /\ work[s].read.stock = "reserved" => stock'[ItemOf[o]] = "available"
           /\ o \notin conflicted' =>
                order[o].status = "pending_payment" /\ order'[o].status = "cancelled"
<1>1. PICK o \in Orders : o = work[s].order
  BY WorkParts DEF CancelCommit
<1>2. PICK old \in OrderRow : old = work[s].read.row /\ old.status = "pending_payment"
  BY WorkParts DEF CancelCommit, Found
<1>3. Cancelled(old) \in OrderRow /\ Cancelled(old).status = "cancelled"
  BY RowType, RowStatus
<1>4. WriteOrder(o, old, Cancelled(old)) /\ UNCHANGED <<restocked, refund>>
  BY <1>1, <1>2 DEF CancelCommit
<1>5. o \notin conflicted' => order[o] = old
  BY <1>2, <1>3, <1>4 DEF WriteOrder
<1>6. /\ \A q \in Orders : q # o => order'[q] = order[q]
      /\ order'[o].status = Column(order[o].status, old.status, Cancelled(old).status)
  BY <1>3, <1>4, WrittenOrder DEF RCTypeOK
<1>7. ItemOf[o] \in Items /\ listing \in [Items -> ListingStatus] /\ stock \in [Items -> StockStatus]
  BY CheckoutAssumption DEF RCTypeOK, TypeOK
<1>8. /\ \A i \in Items : i # ItemOf[o] => listing'[i] = listing[i] /\ stock'[i] = stock[i]
      /\ work[s].read.listing = "reserved" => listing'[ItemOf[o]] = "active"
      /\ work[s].read.stock = "reserved" => stock'[ItemOf[o]] = "available"
  BY <1>1, <1>7 DEF CancelCommit
<1>. QED  BY <1>1, <1>2, <1>3, <1>4, <1>5, <1>6, <1>8 DEF Column

LEMMA UndisturbedPaidStep ==
  ASSUME RCTypeOK, RCTypeOK', Found, UndisturbedPaid, [RCNext]_rcVars
  PROVE  UndisturbedPaid'
<1>1. SUFFICES ASSUME NEW o \in Orders, o \notin conflicted',
                      (RowsOf(o) # {})' \/ o \in restocked'
               PROVE  order'[o].status \in PastPayment
  BY DEF UndisturbedPaid
<1>2. o \notin conflicted
  BY <1>1, ConflictsStay
<1>3. CASE (LockedStep \/ PspStep) \/ UNCHANGED vars
  <2>1. order[o].status \in PastPayment
    BY <1>1, <1>2, <1>3, NewRows, LockedIsStep DEF UndisturbedPaid, RCTypeOK
  <2>2. CASE InnerStep
    BY <2>1, <2>2, StaysPastPayment DEF InnerStep, StatusStep, Inner
  <2>3. ASSUME NEW q \in Orders, PlaceOrder(q)
        PROVE  order'[o] = order[o]
    <3>1. q # o /\ order' = [order EXCEPT ![q] = NewOrder]
      BY <2>1, <2>3 DEF PlaceOrder, PastPayment, Refundable
    <3>. QED  BY <3>1 DEF RCTypeOK, TypeOK
  <2>. QED  BY <1>3, <2>1, <2>2, <2>3, LockedMoves DEF RCTypeOK
<1>4. ASSUME NEW s \in Sessions, CancelCommit(s)
      PROVE  order'[o].status \in PastPayment
  <2>1. PICK q \in Orders :
          /\ UNCHANGED <<restocked, refund>>
          /\ \A p \in Orders : p # q => order'[p] = order[p]
          /\ q \notin conflicted' => order[q].status = "pending_payment"
    BY <1>4, CancelWrites
  <2>2. order[o].status \in PastPayment
    BY <1>1, <1>2, <2>1 DEF UndisturbedPaid, RowsOf, RefundsOf
  <2>. QED  BY <1>1, <2>1, <2>2 DEF PastPayment, Refundable
<1>5. ASSUME NEW s \in Sessions, NEW e \in sent, WebhookCommit(s, e)
      PROVE  order'[o].status \in PastPayment
  BY <1>1, <1>2, <1>5, WebhookKept DEF Kept, UndisturbedPaid
<1>6. ASSUME NEW s \in Sessions, PublishCommit(s)
      PROVE  order'[o].status \in PastPayment
  <2>1. UNCHANGED <<order, restocked, refund>>
    BY <1>6, PublishWrites
  <2>. QED  BY <1>1, <1>2, <2>1 DEF UndisturbedPaid, RowsOf
<1>. QED  BY <1>3, <1>4, <1>5, <1>6, StepParts DEF rcVars

LEMMA SawReservedStep ==
  ASSUME RCTypeOK, UndisturbedPaid, UndisturbedExclusive, SawReserved, [RCNext]_rcVars
  PROVE  SawReserved'
<1>1. SUFFICES ASSUME NEW s \in Sessions, work'[s] # NoWork, work'[s].task = "cancel",
                      ItemOf[work'[s].order] \notin republished',
                      \A o \in conflicted' : ItemOf[o] # ItemOf[work'[s].order]
               PROVE  work'[s].read.listing = "reserved" /\ work'[s].read.stock = "reserved"
  BY DEF SawReserved, Disturbed
<1>2. ~ Disturbed(ItemOf[work'[s].order])
  BY <1>1, ConflictsStay DEF Disturbed
<1>3. CASE work'[s] = work[s]
  BY <1>1, <1>2, <1>3 DEF SawReserved
<1>4. ASSUME NEW o \in Orders, CancelBegin(s, o)
      PROVE  work'[s].read.listing = "reserved" /\ work'[s].read.stock = "reserved"
  <2>1. /\ work'[s].order = o /\ order[o].status = "pending_payment"
        /\ work'[s].read.listing = listing[ItemOf[o]]
        /\ work'[s].read.stock = stock[ItemOf[o]]
    BY <1>4 DEF CancelBegin, Start, MayCancel, RCTypeOK
  <2>2. ItemOf[o] \in Items /\ ~ Disturbed(ItemOf[o])
    BY <1>2, <2>1, CheckoutAssumption
  <2>3. o \notin restocked
    BY <2>1, <2>2 DEF UndisturbedPaid, Disturbed, PastPayment, Refundable
  <2>4. Holds(o)
    BY <2>1, <2>3, HoldsWhen DEF RCTypeOK
  <2>. QED  BY <2>1, <2>2, <2>4 DEF UndisturbedExclusive
<1>5. ASSUME NEW e \in sent, WebhookBegin(s, e)
      PROVE  FALSE
  BY <1>1, <1>5 DEF WebhookBegin, Start, RCTypeOK
<1>6. ASSUME NEW i \in Items, PublishBegin(s, i)
      PROVE  FALSE
  BY <1>1, <1>6 DEF PublishBegin, Start, RCTypeOK
<1>. QED  BY <1>1, <1>3, <1>4, <1>5, <1>6, WorkStep

LEMMA ExclusiveStep ==
  ASSUME RCTypeOK, RCTypeOK', Found, UndisturbedPaid, UndisturbedExclusive, SawReserved,
         [RCNext]_rcVars
  PROVE  UndisturbedExclusive'
<1>1. SUFFICES ASSUME NEW i \in Items, ~ Disturbed(i)'
               PROVE  Exclusive(i)'
  BY DEF UndisturbedExclusive, Exclusive
<1>2. /\ ~ Disturbed(i) /\ Exclusive(i)
      /\ \A o \in Orders : ItemOf[o] = i => o \notin conflicted /\ o \notin conflicted'
  BY <1>1, ConflictsStay DEF UndisturbedExclusive, Exclusive, Disturbed
<1>3. TypeOK /\ TypeOK' /\ i \in Items
  BY DEF RCTypeOK
<1>4. \A o \in Orders : ItemOf[o] = i /\ o \in restocked => order[o].status \in PastPayment
  BY <1>2 DEF UndisturbedPaid
<1>5. CASE (LockedStep \/ PspStep) \/ UNCHANGED vars
  <2>1. ASSUME NEW o \in Orders, PlaceOrder(o)
        PROVE  Exclusive(i)'
    <3>1. /\ order[o].status = "absent" /\ stock[ItemOf[o]] # "reserved"
          /\ order' = [order EXCEPT ![o] = NewOrder]
          /\ listing' = [listing EXCEPT ![ItemOf[o]] = "reserved"]
          /\ stock' = [stock EXCEPT ![ItemOf[o]] = "reserved"]
          /\ restocked' = restocked
      BY <2>1 DEF PlaceOrder, MayPlace
    <3>2. \A q \in Orders : q # o => (Holds(q)' <=> Holds(q))
      BY <1>3, <3>1 DEF TypeOK, Holds, Live
    <3>3. CASE ItemOf[o] = i
      <4>1. o \notin restocked
        BY <1>4, <3>1, <3>3 DEF PastPayment, Refundable
      <4>2. Holds(o)'
        BY <1>3, <3>1, <4>1, HoldsBoth DEF NewOrder, TypeOK
      <4>. QED  BY <1>2, <1>3, <3>1, <3>2, <3>3, <4>2, ExclusiveMoves DEF TypeOK
    <3>4. CASE ItemOf[o] # i
      BY <1>2, <1>3, <3>1, <3>2, <3>4, ExclusiveStays DEF TypeOK
    <3>. QED  BY <3>3, <3>4
  <2>2. ASSUME NEW o \in Orders, Restock(o)
        PROVE  Exclusive(i)'
    <3>1. /\ order[o].status = "refunded" /\ o \notin restocked
          /\ listing' = [listing EXCEPT ![ItemOf[o]] = "active"]
          /\ stock' = [stock EXCEPT ![ItemOf[o]] = "available"]
          /\ restocked' = restocked \cup {o} /\ order' = order
      BY <2>2 DEF Restock, MayRestockNow, MayRestock
    <3>2. \A q \in Orders : q # o => (Holds(q)' <=> Holds(q))
      BY <3>1 DEF Holds, Live
    <3>3. Holds(o) /\ ~ Holds(o)'
      BY <1>3, <3>1, HoldsBoth
    <3>4. CASE ItemOf[o] = i
      BY <1>2, <1>3, <3>1, <3>2, <3>3, <3>4, ExclusiveMoves DEF TypeOK
    <3>5. CASE ItemOf[o] # i
      BY <1>2, <1>3, <3>1, <3>2, <3>5, ExclusiveStays DEF TypeOK
    <3>. QED  BY <3>4, <3>5
  <2>4. CASE InnerStep /\ UNCHANGED <<processed, listing, stock, restocked>>
    <3>1. \A o \in Orders : order'[o].status \notin {"absent", "cancelled"}
                              <=> order[o].status \notin {"absent", "cancelled"}
      BY <2>4 DEF InnerStep, Undone, Inner, Forward, Refundable
    <3>2. \A o \in Orders : Holds(o)' <=> Holds(o)
      BY <1>3, <2>4, <3>1, HoldsBoth
    <3>. QED  BY <1>2, <2>4, <3>2, ExclusiveStays
  <2>. QED  BY <1>3, <1>5, <2>1, <2>2, <2>4, LockedMoves
<1>6. ASSUME NEW s \in Sessions, NEW e \in sent, WebhookCommit(s, e)
      PROVE  Exclusive(i)'
  <2>1. /\ UNCHANGED <<listing, stock, restocked>>
        /\ \A o \in Orders : ItemOf[o] = i => Kept(o)
    BY <1>2, <1>6, WebhookKept
  <2>2. \A o \in Orders : ItemOf[o] = i => (Holds(o)' <=> Holds(o))
    BY <1>3, <2>1, HoldsBoth DEF Kept
  <2>. QED  BY <1>2, <2>1, <2>2, ExclusiveStays
<1>7. ASSUME NEW s \in Sessions, CancelCommit(s)
      PROVE  Exclusive(i)'
  <2>1. PICK o \in Orders :
          /\ o = work[s].order
          /\ UNCHANGED <<restocked, refund>>
          /\ \A q \in Orders : q # o => order'[q] = order[q]
          /\ \A j \in Items : j # ItemOf[o] => listing'[j] = listing[j] /\ stock'[j] = stock[j]
          /\ work[s].read.listing = "reserved" => listing'[ItemOf[o]] = "active"
          /\ work[s].read.stock = "reserved" => stock'[ItemOf[o]] = "available"
          /\ o \notin conflicted' =>
               order[o].status = "pending_payment" /\ order'[o].status = "cancelled"
    BY <1>7, CancelWrites
  <2>2. \A q \in Orders : q # o => (Holds(q)' <=> Holds(q))
    BY <2>1 DEF Holds, Live
  <2>3. CASE ItemOf[o] = i
    <3>1. /\ order[o].status = "pending_payment" /\ order'[o].status = "cancelled"
          /\ o \notin restocked
      BY <1>2, <1>4, <2>1, <2>3 DEF PastPayment, Refundable
    <3>2. Holds(o) /\ ~ Holds(o)'
      BY <1>3, <2>1, <3>1, HoldsBoth
    <3>3. listing'[i] = "active" /\ stock'[i] = "available"
      BY <1>2, <1>7, <2>1, <2>3 DEF SawReserved, CancelCommit
    <3>. QED  BY <1>2, <2>2, <2>3, <3>2, <3>3, ExclusiveMoves
  <2>4. CASE ItemOf[o] # i
    BY <1>2, <2>1, <2>2, <2>4, ExclusiveStays
  <2>. QED  BY <2>3, <2>4
<1>8. ASSUME NEW s \in Sessions, PublishCommit(s)
      PROVE  Exclusive(i)'
  <2>1. PICK j \in Items :
          /\ UNCHANGED <<order, restocked>>
          /\ \A k \in Items : k # j => listing'[k] = listing[k] /\ stock'[k] = stock[k]
          /\ listing'[j] \in {listing[j], "active"} /\ stock'[j] \in {stock[j], "available"}
          /\ j \notin republished' =>
               /\ listing[j] = "reserved" => listing'[j] = "reserved"
               /\ stock[j] = "reserved" => stock'[j] = "reserved"
    BY <1>8, PublishWrites
  <2>2. \A o \in Orders : Holds(o)' <=> Holds(o)
    BY <2>1 DEF Holds, Live
  <2>3. i \notin republished'
    BY <1>1 DEF Disturbed
  <2>4. /\ listing'[i] = "reserved" <=> listing[i] = "reserved"
        /\ stock'[i] = "reserved" <=> stock[i] = "reserved"
    BY <2>1, <2>3
  <2>. QED  BY <1>2, <2>2, <2>4 DEF Exclusive
<1>. QED  BY <1>5, <1>6, <1>7, <1>8, StepParts DEF rcVars

\* Whatever requests interleave under READ COMMITTED, an item is sold twice,
\* or is reserved for nobody, only after a handler overwrote an order that
\* changed since it was read, or a publication overwrote a reservation.
THEOREM RCReservationSafe == RCSpec => []UndisturbedExclusive
<1>. DEFINE Inv == UndisturbedPaid /\ UndisturbedExclusive /\ SawReserved
<1>1. RCInit => Inv
  <2>1. ASSUME RCInit
        PROVE  /\ \A o \in Orders : RowsOf(o) = {} /\ o \notin restocked /\ ~ Holds(o)
               /\ \A i \in Items : listing[i] # "reserved" /\ stock[i] # "reserved"
               /\ \A s \in Sessions : work[s] = NoWork
    BY <2>1 DEF RCInit, Init, RowsOf, RefundsOf, NoRefundRow, Holds, Live, NoOrderRow
  <2>. QED  BY <2>1 DEF UndisturbedPaid, UndisturbedExclusive, SawReserved
<1>2. ASSUME RCTypeOK, RCTypeOK', Found, Inv, [RCNext]_rcVars
      PROVE  Inv'
  BY <1>2, UndisturbedPaidStep, ExclusiveStep, SawReservedStep
<1>3. Inv => UndisturbedExclusive
  OBVIOUS
<1>. HIDE DEF Inv
<1>. QED  BY <1>1, <1>2, <1>3, RCTypeCorrect, PTL DEF RCSpec
=============================================================================

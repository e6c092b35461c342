SPECIFICATION RCSpec
CONSTANTS
  o1 = o1
  o2 = o2
  i1 = i1
  m1 = m1
  r1 = r1
  s1 = s1
  s2 = s2
  Items = {i1}
  Merchants = {m1}
  Refunds = {r1}
  Sessions = {s1, s2}
  NoWork = NoWork
  SellerOf <- MCSellerOf
  Total <- MCTotal
  Orders = {o1}
  ItemOf <- MCOneOrder
  OrderOf <- MCRefundOf
  MerchantStatus = {"active"}
  Subscribed = {"intent_succeeded", "intent_failed", "refund_created",
                "refund_succeeded", "refund_failed"}
INVARIANTS
  CaptureBacked
  RefundBacked
  SettlementConsistent
PROPERTY ImplementsEscrow
CHECK_DEADLOCK FALSE

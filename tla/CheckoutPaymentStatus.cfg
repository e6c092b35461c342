SPECIFICATION Spec
CONSTANTS
  o1 = o1
  o2 = o2
  i1 = i1
  m1 = m1
  r1 = r1
  r2 = r2
  Items = {i1}
  Merchants = {m1}
  Refunds = {r1, r2}
  SellerOf <- MCSellerOf
  Total <- MCTotal
  Orders = {o1}
  ItemOf <- MCOneOrder
  OrderOf <- MCTwoRefunds
  MerchantStatus = {"active"}
  Subscribed = {"intent_succeeded", "intent_failed", "charge_refunded",
                "refund_succeeded", "refund_failed"}
INVARIANT PaymentStatusMatchesLedger

SPECIFICATION CatalogueSpec
CHECK_DEADLOCK FALSE
CONSTANTS
  e1 = e1
  e2 = e2
  t1 = t1
  t2 = t2
  m1 = m1
  m2 = m2
  q1 = q1
  q2 = q2
  p1 = p1
  p2 = p2
  k1 = k1
  k2 = k2
  i1 = i1
  None = None
  PlatformKey = PlatformKey
  NoCredential = NoCredential
  Users = {e1, e2}
  Tokens = {t1}
  Merchants = {m1, m2}
  Requests = {q1, q2}
  Servers = {p1, p2}
  SigningKeys = {k1, k2}
  AdminEmail = e1
  InternalRoles = {"admin", "operator", "analyst"}
  Modes = {"api_key", "oidc"}
  Items = {i1}
  ItemStatuses = {"intake", "available"}
  SessionTtl = 1
  KeyTtl = 1
  Horizon = 1
  MaxWork = 3
  MaxOrders = 1
INVARIANTS
  AdminInPlace
  OffersSellable
  RetiredKeysExpire
SYMMETRY MCSymmetry
PROPERTIES
  RevokedForGood
  SellerKeepsMerchant

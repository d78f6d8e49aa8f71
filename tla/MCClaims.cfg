SPECIFICATION Spec
CONSTANTS
  None = None
  host = host
  shop = shop
  Micro = {1}
  Thread = {t1, t2}
  Reply = {}
  Ack = {}
  Claim = {c1, c2, c3}
  Name = {host, shop}
  ValidId = {host, shop}
  Header = {host, shop, None}
  TypeSent = {None, "bogus"}
  MaxFail = 1
  Payload <- Payloads
SYMMETRY ClaimSymmetry
CHECK_DEADLOCK FALSE
INVARIANT ClaimAgreement
PROPERTY ImplementsBoard

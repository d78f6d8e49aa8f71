SPECIFICATION Spec
CONSTANTS
  None = None
  host = host
  shop = shop
  blog = blog
  Micro = {1}
  Thread = {t1}
  Reply = {}
  Ack = {a1, a2, a3}
  Claim = {}
  Name = {host, shop, blog}
  ValidId = {host, shop, blog}
  Header = {host, shop, blog}
  TypeSent = {"debate"}
  MaxFail = 1
  Payload <- Payloads
SYMMETRY AckSymmetry
CHECK_DEADLOCK FALSE
INVARIANTS
  EveryoneAckedClosed
  NoForgottenClose
  EarlyCloseExplained
  AcksAreLogged
PROPERTIES
  HistoryKept
  ImplementsBoard

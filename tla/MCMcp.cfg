SPECIFICATION McpSpec
CONSTANTS
  None = None
  r1 = r1
  a1 = a1
  c1 = c1
  host = host
  shop = shop
  Micro = {1}
  Thread = {t1}
  Reply = {r1}
  Ack = {a1}
  Claim = {c1, c2}
  Name = {host, shop}
  ValidId = {host, shop}
  Header = {host, shop}
  TypeSent = {None, "design_question"}
  MaxFail = 1
  Own <- Tools
  Call = {k1, k2}
  Me = host
  Payload <- Payloads
  Split <- Whole
CHECK_DEADLOCK FALSE
INVARIANTS
  AnswersTrue
  CallsInOrder
SYMMETRY McpSymmetry

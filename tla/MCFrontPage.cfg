SPECIFICATION PageSpec
CONSTANTS
  None = None
  host = host
  shop = shop
  Micro = {7}
  Thread = {t1}
  Reply = {r1}
  Ack = {a1}
  Claim = {c1}
  Name = {host, shop}
  ValidId = {host, shop}
  Header = {host, shop}
  TypeSent = {None, "escalation", "postmortem"}
  MaxFail = 0
  Payload <- Payloads
  Split <- Whole
CHECK_DEADLOCK FALSE
INVARIANTS
  PanelsFollowList
  EscalationsCounted
PROPERTIES
  HistoryKept

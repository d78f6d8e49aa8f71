SPECIFICATION FairTabSpec
CONSTANTS
  None = None
  host = host
  shop = shop
  blog = blog
  bad = bad
  Micro = {7}
  Thread = {t1}
  Reply = {}
  Ack = {a1, a2}
  Claim = {}
  Name = {host, shop, blog, bad}
  ValidId = {host, shop, blog}
  Header = {host, shop, blog}
  TypeSent = {None}
  MaxFail = 1
  Payload <- Payloads
CHECK_DEADLOCK FALSE
INVARIANTS
  ButtonNamesRecipient
  ClickNeverRefused
  ClickCounts
PROPERTIES
  AllAckedCloses
  ClickEnds

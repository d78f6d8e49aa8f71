SPECIFICATION Spec
CONSTANTS
  None = None
  host = host
  shop = shop
  blog = blog
  both = both
  Micro = {0, 7, 9}
  Thread = {t1}
  Reply = {r1, r2}
  Ack = {}
  Claim = {}
  Name = {host, shop, blog, both}
  ValidId = {host, shop, blog}
  Header = {host, shop, blog}
  TypeSent = {None}
  MaxFail = 1
  Payload <- Payloads
  Split <- Parts
CHECK_DEADLOCK FALSE
INVARIANTS
  TypeOK
  RecipientsRegistered
  OnlyParticipantsPost
  RepliesCrossSides
  SeedLeadsUnlessWholeSecond
  SinceKeepsRecent
  ListNamesRecipients
PROPERTY LateRecipientsNeverRefused

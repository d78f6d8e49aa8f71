SPECIFICATION Spec
CONSTANTS
  None = None
  host = host
  shop = shop
  blog = blog
  Micro = {1}
  Thread = {t1}
  Reply = {}
  Ack = {a1}
  Claim = {}
  Name = {host, shop, blog}
  ValidId = {host, shop, blog}
  Header = {host, shop, blog}
  TypeSent = {None}
  MaxFail = 0
  Payload <- Payloads
CHECK_DEADLOCK FALSE
INVARIANT RecipientAcksCloseTogether

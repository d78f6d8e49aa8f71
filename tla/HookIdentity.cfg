SPECIFICATION FairSpec
CONSTANTS
  None = None
  host = host
  shop = shop
  odd = odd
  Word = {host, shop}
  Odd = {}
  Length <- Lengths
  Safe <- Underscores
  s1 = s1
  s2 = s2
  Session = {s1, s2}
  Thread = {t1}
  Env <- Capital
  Addressee <- Shops
  Interval = 2
  Timeout = 1
  Cap = 1
  MaxFail = 0
CHECK_DEADLOCK FALSE
PROPERTY EverySessionHears

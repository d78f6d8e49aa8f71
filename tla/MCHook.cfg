SPECIFICATION FairSpec
CONSTANTS
  None = None
  host = host
  shop = shop
  odd = odd
  Word = {host, shop, odd}
  Odd = {odd}
  Length <- Lengths
  Safe <- Underscores
  s1 = s1
  s2 = s2
  Session = {s1, s2}
  Thread = {t1, t2}
  Env <- Shared
  Addressee <- Shops
  Interval = 2
  Timeout = 1
  Cap = 1
  MaxFail = 1
CHECK_DEADLOCK FALSE
INVARIANT TypeOK
PROPERTIES
  ThrottleEarned
  FetchesSpaced
  Surfaced

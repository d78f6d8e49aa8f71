SPECIFICATION FairSpec
CONSTANTS
  None = None
  Server = {old, new}
  MaxCrash = 3
INVARIANTS
  TypeOK
  ServesComplete
  VersionLast
PROPERTY EverybodyServes
CHECK_DEADLOCK FALSE

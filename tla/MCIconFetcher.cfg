CONSTANTS
  MaxRequests = 3
  Urls = {a, b}
  NoUrl = none
  Unsupported = {}
  MaxPendingRequests = 2
  MaxCacheBytes = 1
  MaxCacheEntries = 1
  MaxSize = 1
SPECIFICATION FairSpec
INVARIANTS
  TypeOK
  InOnePlace
PROPERTIES
  OnlyCancelledAreTold
  EveryRequestIsAnswered
CHECK_DEADLOCK FALSE

SPECIFICATION FairSpec
CONSTANTS
  Users = {"alice"}
  Symbols = {"S"}
  Requests = {"r1"}
  Executors = {"x1","x2"}
  Expirers = {"e1"}
  Prices <- TwoPrices
  Quantities <- OneShare
  MaxOrders = 2
  BuyCap = 1
  InitialBalance = 25
  LastDay = 1
  MaxFaults = 1
  ExecutionBatch = 1
  ExpiryBatch = 1
  Offered = {"LIMIT","cancel","reset","execute","expire","clock","upgrade"}
  Overlapping = {"LIMIT","cancel","reset","execute","expire","clock","upgrade"}
INVARIANTS
  FilledAtMostOnce
PROPERTIES
  PendingEventuallySettles
  CancelOnlyPending

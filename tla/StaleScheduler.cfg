SPECIFICATION Spec
CONSTANTS
  Users = {"alice"}
  Symbols = {"S"}
  Requests = {"r1"}
  Executors = {"x1"}
  Expirers = {"e1"}
  Prices <- TwoPrices
  Quantities <- OneShare
  MaxOrders = 1
  BuyCap = 2
  InitialBalance = 45
  LastDay = 1
  MaxFaults = 0
  ExecutionBatch = 2
  ExpiryBatch = 2
  Offered = {"LIMIT","cancel","execute"}
  Overlapping = {"LIMIT","cancel","execute"}
PROPERTIES
  SettledOnce
CHECK_DEADLOCK FALSE

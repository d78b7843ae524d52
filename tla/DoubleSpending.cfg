SPECIFICATION Spec
CONSTANTS
  Users = {"alice"}
  Symbols = {"S"}
  Requests = {"r1","r2"}
  Executors = {"x1"}
  Expirers = {"e1"}
  Prices <- TwoPrices
  Quantities <- OneShare
  MaxOrders = 3
  BuyCap = 2
  InitialBalance = 45
  LastDay = 1
  MaxFaults = 0
  ExecutionBatch = 2
  ExpiryBatch = 2
  Offered = {"MARKET"}
  Overlapping = {"MARKET"}
INVARIANTS
  HistoryExplainsAccount
CHECK_DEADLOCK FALSE

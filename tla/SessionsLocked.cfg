SPECIFICATION Spec
CONSTANTS
  Users = {"alice"}
  Symbols = {"S"}
  Requests = {r1,r2}
  Executors = {x1}
  Expirers = {"e1"}
  Prices <- TwoPrices
  Quantities <- OneShare
  MaxOrders = 3
  BuyCap = 2
  InitialBalance = 25
  LastDay = 2
  MaxFaults = 1
  ExecutionBatch = 2
  ExpiryBatch = 1
  Offered = {"trade","MARKET","LIMIT","cancel","reset","execute","expire","clock"}
  Overlapping = {"cancel","reset"}
INVARIANTS
  OneRowPerHolding
  SomeoneProceeds
PROPERTIES
  ImplementsLedger
SYMMETRY RequestSymmetry

SPECIFICATION Spec
CONSTANTS
  Users = {1}
  Symbols = {"S"}
  Prices <- MCPrices
  Quantities <- MCQuantities
  InitialBalance = 2700
  BuyCap = 2
  MaxOrders = 3
  LastDay = 2
INVARIANTS
  TypeOK
  ReservedCashBacked
  ReservedSharesBacked
  Solvent
  AccountingIdentity
  HistoryExplainsAccount
  FillNeverRefused
  FreeBuyCap
  InvestedMatchesHoldings
PROPERTIES
  TerminalStatusFinal

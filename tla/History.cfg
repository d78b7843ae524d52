SPECIFICATION Spec
CONSTANTS
  Symbols = {"A", "B"}
  Prices = {10, 14}
  Quantities = {1, 2}
  StartingBalance = 60
  Resets = TRUE
  Pace = 10
  Stamps = {{}, {20}, {8, 35}}
  MaxTrades = 4
INVARIANTS OpenMatchesHoldings PnlAgrees FifoIsOverlap CampaignsAreCycles CurveIsTheLedgersPast 
CHECK_DEADLOCK FALSE

SPECIFICATION Spec
CONSTANTS
  Requests = {x1, x2}
  QuoteKeys = {k1, k2}
  FrameKeys = {f1, f2, f3}
  IndexKeys = {i1}
  IndexNames = {n1, n2}
  Loads = {{"quote"}, {"frame"}, {"index"}}
  QuoteTTL = 2
  FrameTTL = 2
  IndexTTL = 2
  ProviderFails = TRUE
  MaxFrames = 2
  MaxTime = 4
  MaxWait = 2
INVARIANTS HitsAreFresh FramesBounded
CHECK_DEADLOCK FALSE

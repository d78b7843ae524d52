SPECIFICATION LiveSpec
CONSTANTS
  Deleters = {d1, d2}
  Placers = {p1}
  Tickers = {t1}
  Settlers = {c1}
  Resetters = {r1}
  Reviewers = {v1}
  Casts = {{d1, t1, c1}, {d1, d2, t1}, {d1, d2, c1, v1}, {d1, t1, v1}, {d1, t1, r1}, {d1, c1, r1}, {d1, p1, c1}, {d1, p1, r1}}
  OtherOrders = {other}
  MaxRows = 3
INVARIANTS NothingOutlivesUser 
PROPERTIES ErasedTogether DeletionEnds
CHECK_DEADLOCK FALSE

SPECIFICATION Spec
CONSTANTS
  Users = {u1, u2}
  Tokens = {t1}
  NULL = NULL
  Requests = {r1, r2}
  Alone = {TRUE, FALSE}
  MaxTime = 2
INVARIANTS TokenOwnedOnce ProMeansPaid ProAcknowledged
CHECK_DEADLOCK FALSE

SPECIFICATION Spec
CONSTANTS
  Emails = {e1}
  GoogleIds = {g1, g2}
  Passwords = {p1, p2}
  NULL = NULL
  Requests = {r1, r2}
  VerifyLife = 2
  ResetLife = 2
  Tolerance = 1
  MailFails = TRUE
  MaxAccounts = 2
  MaxTime = 5
SYMMETRY Symmetry
INVARIANTS OnlyProvenSignIn LinkedIsVerified FreshLinkUnspent
PROPERTIES LinkChangesOnce
CHECK_DEADLOCK FALSE

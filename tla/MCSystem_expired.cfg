\* A session whose token has expired.
CONSTANTS
  u1 = u1
  c1 = c1
  Blank = blank
  Users = {u1}
  Registered = {u1}
  Conns = {c1}
  Logins <- RightLogin
  Lifetime = 1
  MaxTime = 1
  Abrupt = FALSE
  DbFaults = FALSE
  Crashes = FALSE
  Bodies = {"short"}
  MaxMessages = 1
SPECIFICATION SystemSpec
INVARIANT RenewalServesMessage

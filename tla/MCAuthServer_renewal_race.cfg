\* Two sessions of one user find its token expired at the same time.
CONSTANTS
  u1 = u1
  u2 = u2
  c1 = c1
  c2 = c2
  Blank = blank
  Users = {u1}
  Registered = {u1}
  Conns = {c1, c2}
  Logins <- RightPassword
  Lifetime = 1
  MaxTime = 1
  Abrupt = FALSE
  DbFaults = FALSE
  Crashes = FALSE
SPECIFICATION Spec
INVARIANT RenewalUpdatesDatabase

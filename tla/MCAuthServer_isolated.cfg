\* Two sessions of different users; every peer stays for its answer.
CONSTANTS
  u1 = u1
  u2 = u2
  c1 = c1
  c2 = c2
  Blank = blank
  Users = {u1, u2}
  Registered = {u1, u2}
  Conns = {c1, c2}
  Logins <- OwnUser
  Lifetime = 1
  MaxTime = 2
  Abrupt = FALSE
  DbFaults = FALSE
  Crashes = FALSE
SPECIFICATION FairSpec
INVARIANTS LoggedInKeepsRow
PROPERTIES ImplementsTokenService

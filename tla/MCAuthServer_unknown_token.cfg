\* A session whose login failed asks to verify what it took for a token.
CONSTANTS
  u1 = u1
  u2 = u2
  c1 = c1
  c2 = c2
  Blank = blank
  Users = {u1}
  Registered = {u1}
  Conns = {c1}
  Logins <- WrongPassword
  Lifetime = 1
  MaxTime = 1
  Abrupt = FALSE
  DbFaults = FALSE
  Crashes = FALSE
SPECIFICATION Spec
INVARIANT UnknownTokenIsInvalid

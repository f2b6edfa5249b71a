\* Two connections that share users, with failing queries and crashes.
CONSTANTS
  u1 = u1
  u2 = u2
  c1 = c1
  c2 = c2
  Blank = blank
  Users = {u1}
  Registered = {u1}
  Conns = {c1, c2}
  Logins <- OneUser
  Lifetime = 1
  MaxTime = 1
  Abrupt = TRUE
  DbFaults = TRUE
  Crashes = TRUE
SPECIFICATION Spec
INVARIANTS TypeOK TableSound VerifiedOnlyForLoggedIn BoundedLifetime FirstAnswerIsForLogin

\* One session, every kind of login and a message that is read as two; processes crash and restart.
CONSTANTS
  u1 = u1
  c1 = c1
  Blank = blank
  Users = {u1}
  Registered = {u1}
  Conns = {c1}
  Logins <- AnyLogin
  Lifetime = 1
  MaxTime = 0
  Abrupt = TRUE
  DbFaults = FALSE
  Crashes = TRUE
  Bodies = {"huge"}
  MaxMessages = 1
SPECIFICATION SystemSpec
INVARIANTS SystemTypeOK DeliveredOnlyForOwnLogin

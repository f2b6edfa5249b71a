\* One session, with a short login or a split one; the client may leave, processes crash
\* and restart.
CONSTANTS
  u1 = u1
  c1 = c1
  Blank = blank
  Users = {u1}
  Registered = {u1}
  Conns = {c1}
  Logins <- RightOrLong
  Lifetime = 1
  MaxTime = 0
  Abrupt = TRUE
  DbFaults = FALSE
  Crashes = TRUE
  Bodies = {"short", "empty"}
  MaxMessages = 1
SPECIFICATION FairSystemSpec
INVARIANTS RepliesMatch
PROPERTIES PeerGoneFreesThread RefinesAuthServer ClientIsAnswered ClientGoneFreesSession

\* Two threads, three calls in all, a user with two passwords to try, and two times of the clock.
\* When the calls are used up, or the process has died, nothing is left to do.
CONSTANTS
  t1 = t1
  t2 = t2
  alice = alice
  pw1 = pw1
  pw2 = pw2
  Threads <- MCThreads
  Names <- MCNames
  Passwords <- MCPasswords
  MaxTime = 1
  MaxCalls = 3
CHECK_DEADLOCK FALSE
SYMMETRY MCSymmetry
SPECIFICATION ProviderSpec
INVARIANTS ProviderTypeOK AnswersHold StampOverlaps

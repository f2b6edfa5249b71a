\* Three peers that speak or leave, one of which may stay silent, room for two, every
\* failure and every delay.
CONSTANTS
  p1 = p1
  p2 = p2
  p3 = p3
  None = none
  Peers = {p1, p2, p3}
  Silent = {p1}
  MaxFds = 2
  CtxFaults = TRUE
  Rivals = TRUE
  Delays = {"infinite", "finite", "zero"}
SPECIFICATION FairListenerSpec
INVARIANTS ListenerTypeOK DescriptorsHaveOneUser
PROPERTIES HelloIsServed TimedListenReturns FailedBindIsFinal
CHECK_DEADLOCK FALSE

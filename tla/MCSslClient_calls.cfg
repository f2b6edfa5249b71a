\* Three Connects, two addresses, two descriptors that another thread uses as well.
CONSTANTS
  f1 = f1
  f2 = f2
  Invalid = invalid
  Fds = {f1, f2}
  MaxConnects = 3
  MaxAddresses = 2
SPECIFICATION SslClientSpec
INVARIANTS SslClientTypeOK OwnsItsDescriptor UsesOwnSession FreesOnlyLive LastConnectReleased
CHECK_DEADLOCK FALSE

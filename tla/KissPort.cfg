\* One KISS port with up to two connections.
CONSTANTS
  Byte = {1}
  Window = 1
  N2 = 1
  N1 = 1
  Call = {"A", "B"}
  Spelling = {"A", "A-0", "B", "?"}
  AddressOf <- MCAddressOf
  HeardFrame <- MCHeardFrame
  Message <- OneByte
  MaxIds = 2
  MaxSent = 2
SPECIFICATION FairSpec
INVARIANTS
  UiMatchesSessions
  CallsLeadToTheirSession
PROPERTIES
  ImplementsPortService
  ConnectAttemptsEnd
CHECK_DEADLOCK FALSE

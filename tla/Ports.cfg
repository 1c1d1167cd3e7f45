\* A kernel AX.25 port with two connections, an AGWPE port with two stations
\* and two connects, and every kind of stream port.
CONSTANTS
  MaxIds = 2
  Call = {c1, c2}
  MaxCalls = 2
  MaxQueue = 2
SPECIFICATION MCSpec
INVARIANTS
  ConnectedIsReachable
  OnlyLateLinksSurvive
  MapsAreInverse
  QuietMapIsTrue
  QuietUiIsTrue
PROPERTIES
  ImplementsPortService
  EndedLinksClose
  ConnectAttemptsEnd
  PortsEnd
CHECK_DEADLOCK FALSE

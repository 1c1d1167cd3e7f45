\* One session against a peer that may send any frame at any time.
CONSTANTS
  Byte = {1, 2}
  Window = 3
  N2 = 1
  N1 = 2
  Message <- MCMessage
  PeerInfo <- MCPeerInfo
  MaxChunks = 10

SPECIFICATION FairSpec
INVARIANTS
  TypeOK
  WindowIsContiguous
  TimerRunsWhileWaiting
  NoStrandedBacklog
  ReportedStateIsActual
  QueuesKeepOrder
  AiredFramesAreRetained
PROPERTIES
  ClosedExactlyAtTheEnd
  SilenceEndsWaiting

\* A peer that answers RNR and then stays silent stalls the session for good.
CONSTANTS
  Byte = {1}
  Window = 2
  N2 = 2
  N1 = 1
  Message <- OneByte
  PeerInfo <- OneByte
  MaxChunks = 3
SPECIFICATION FairSpec
PROPERTY BacklogNeverHangs

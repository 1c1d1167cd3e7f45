\* A second connect to a station that is already connected.
CONSTANTS
  Byte = {1}
  Window = 1
  N2 = 1
  N1 = 1
  Call = {"A", "B"}
  Spelling = {"A", "A-0", "B", "?"}
  AddressOf <- MCAddressOf
  HeardFrame <- MCHeardFrame
  Message <- OneByte
  MaxIds = 2
  MaxSent = 2
SPECIFICATION Spec
INVARIANT OneSessionPerCall
CHECK_DEADLOCK FALSE

\* Liveness of a lossy link.
CONSTANTS
  Station = {a, b}
  Sender = {a}
  Byte <- MCByte
  Window = 2
  N2 = 1
  N1 = 1
  MaxBytes = 2
  MaxOpens = 1
  MaxAir = 4
  PatientT1 = TRUE
  Digipeated = FALSE
  LinkUp = FALSE
  FirstSeq = 0
SPECIFICATION FairSpec
PROPERTY WaitsEnd
CHECK_DEADLOCK FALSE

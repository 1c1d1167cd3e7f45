\* Every frame may be heard twice, directly and from a digipeater.
CONSTANTS
  Station = {a, b}
  Sender = {a}
  Byte <- MCByte
  Window = 2
  N2 = 1
  N1 = 1
  MaxBytes = 3
  MaxOpens = 0
  MaxAir = 4
  PatientT1 = TRUE
  Digipeated = TRUE
  LinkUp = TRUE
  FirstSeq = 6
SPECIFICATION Spec
INVARIANT AckedWasReceived
CHECK_DEADLOCK FALSE

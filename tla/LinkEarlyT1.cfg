\* Connecting while T1 is shorter than the round trip.
CONSTANTS
  Station = {a, b}
  Sender = {a, b}
  Byte <- MCByte
  Window = 2
  N2 = 1
  N1 = 1
  MaxBytes = 2
  MaxOpens = 1
  MaxAir = 4
  PatientT1 = FALSE
  Digipeated = FALSE
  LinkUp = FALSE
  FirstSeq = 0
SPECIFICATION Spec
INVARIANT AckedWasReceived
CHECK_DEADLOCK FALSE

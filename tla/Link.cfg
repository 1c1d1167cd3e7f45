\* Two stations that connect and transfer over a radio that loses frames; the
\* constants are those of the transfer.
CONSTANTS
  Station = {a, b}
  Sender = {a}
  Byte = {1, 2, 3}
  Window = 2
  N2 = 1
  N1 = 1
  MaxBytes = 3
  MaxOpens = 0
  MaxAir = 3
  PatientT1 = FALSE
  Digipeated = FALSE
  LinkUp = TRUE
  FirstSeq = 6
SPECIFICATION MCSpec
INVARIANTS
  AckedWasReceived
  EndsAgreeWhenQuiet
PROPERTY ImplementsLinkService
CHECK_DEADLOCK FALSE

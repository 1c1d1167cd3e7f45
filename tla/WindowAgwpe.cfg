\* An AGWPE port with the mailbox on, one dial.
CONSTANTS
  Port = {p}
  Kinds = {"agwpe"}
  Node = {n}
  Answer <- MailboxAnswers
  MaxRuns = 1
  MaxMoves = 1
SPECIFICATION Spec
INVARIANT OnlyCallersAreGreeted
CHECK_DEADLOCK FALSE

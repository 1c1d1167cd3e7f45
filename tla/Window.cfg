\* One port of each kind, started twice.
CONSTANTS
  Port = {p}
  Kinds = {"kiss", "kernel", "agwpe", "terminal"}
  Node = {n}
  Answer <- MailboxAnswers
  MaxRuns = 2
  MaxMoves = 2
SPECIFICATION FairSpec
INVARIANTS
  TabsFollowConnections
  NoRunnerIsOrphaned
  QuietTabsAreTrue
PROPERTY DisconnectEnds
CHECK_DEADLOCK FALSE

\* Streams of two items; a frame and its answers; two edits and two stops; two
\* contacts and five words; two stations and two ports; three
\* starts of Direwolf.
CONSTANTS
  MaxHops = 3
  MaxEdits = 2
  MaxStops = 2
  MaxQsos = 2
  MaxTokens = 5
  Call = {"A", "B"}
  MaxPorts = 2
  MaxBeacons = 3
  MaxMoves = 4
  MaxStarts = 3
  MaxSaves = 2
SPECIFICATION MCSpec
INVARIANTS
  StreamsAreUnderstood
  LinesAreAnswered
  LiveQsosAreOpen
  HeardIsKept
  RowsDeleteWhatTheyShow
  WatchesFollowTheToggle
  TimersFollowSettings
  RunningIsHeld
PROPERTIES
  AnswersGoBack
  SavedIsLoaded
CHECK_DEADLOCK FALSE

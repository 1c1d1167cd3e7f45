------------------------------- MODULE MCLocal -------------------------------
(***************************************************************************)
(* Small instances of the parts that run in one thread, in one run of TLC: *)
(* a behaviour is of one of the seven, whose variables move while those of *)
(* the others stay at rest; Direwolf rests in its initial state.           *)
(***************************************************************************)
EXTENDS Direwolf

CONSTANTS
  MaxHops,               \* of Frames
  MaxEdits, MaxStops,    \* of ConfigFiles
  MaxQsos, MaxTokens,    \* of Responders
  Call,                  \* of Stations
  MaxPorts, MaxBeacons,  \* of Beacons
  MaxMoves               \* of Stations and Beacons

VARIABLES
  part,  \* which of the seven moves
  codec, items, rest, dec, out,
  at, frame, internal, reports, hops,
  disk, mem, phase, todo, source, edits, stops, safe, hurt,
  keyboard_mode, mailbox, tabs, qso_log, received,
  address_book, beacon_rules, directed_enabled, log, dialog, heard, watched,
  ports, beacons, enabled, prefs, beacon_timers, lost, avail_timers, stale,
  moves

streamvars == <<codec, items, rest, dec, out>>
framevars == <<at, frame, internal, reports, hops>>
filevars == <<disk, mem, phase, todo, source, edits, stops, safe, hurt>>
tabvars == <<keyboard_mode, mailbox, tabs, qso_log, received>>
stationvars == <<address_book, beacon_rules, directed_enabled, log, dialog, heard, watched>>
beaconvars == <<ports, beacons, enabled, prefs, beacon_timers, lost, avail_timers, stale>>
mcvars == <<part, streamvars, framevars, filevars, tabvars, stationvars, beaconvars, moves,
            vars>>

Bytes == INSTANCE Streams
Air == INSTANCE Frames
Files == INSTANCE ConfigFiles
Answering == INSTANCE Responders
Book == INSTANCE Stations
Timers == INSTANCE Beacons

-----------------------------------------------------------------------------
(* At rest.                                                                *)

BytesAtRest == codec = "telnet" /\ items = <<>> /\ rest = <<>> /\ dec = <<>> /\ out = <<>>
AirAtRest ==
  at = "ME" /\ frame = Air!NoFrame /\ internal = Air!Nothing /\ reports = <<>> /\ hops = 0
FilesAtRest ==
  /\ disk = <<>> /\ mem = <<>> /\ phase = "off" /\ todo = <<>> /\ source = <<>>
  /\ edits = 0 /\ stops = 0 /\ safe = <<>> /\ hurt = ""
AnsweringAtRest ==
  keyboard_mode = <<>> /\ mailbox = <<>> /\ tabs = <<>> /\ qso_log = <<>> /\ received = 0
BookAtRest ==
  /\ address_book = <<>> /\ beacon_rules = <<>> /\ directed_enabled = FALSE
  /\ log = [notified |-> <<>>, beacons |-> <<>>] /\ dialog = Book!Closed
  /\ heard = [c \in Call |-> 0] /\ watched = {}
TimersAtRest ==
  /\ ports = <<>> /\ beacons = <<>> /\ enabled = FALSE /\ prefs = <<>>
  /\ beacon_timers = <<>> /\ lost = 0 /\ avail_timers = <<>> /\ stale = FALSE

MCInit ==
  /\ part \in {"bytes", "air", "files", "answering", "book", "timers", "direwolf"}
  /\ IF part = "bytes" THEN Bytes!Init ELSE BytesAtRest
  /\ IF part = "air" THEN Air!Init ELSE AirAtRest
  /\ IF part = "files" THEN Files!Init ELSE FilesAtRest
  /\ IF part = "answering" THEN Answering!Init ELSE AnsweringAtRest
  /\ IF part = "book" THEN Book!Init ELSE BookAtRest
  /\ IF part = "timers" THEN Timers!Init ELSE TimersAtRest
  /\ Init
  /\ moves = 0

MCNext ==
  \/ /\ part = "bytes" /\ Bytes!Next
     /\ UNCHANGED <<part, framevars, filevars, tabvars, stationvars, beaconvars, moves, vars>>
  \/ /\ part = "air" /\ Air!Next
     /\ UNCHANGED <<part, streamvars, filevars, tabvars, stationvars, beaconvars, moves, vars>>
  \/ /\ part = "files" /\ Files!Next
     /\ UNCHANGED <<part, streamvars, framevars, tabvars, stationvars, beaconvars, moves, vars>>
  \/ /\ part = "answering" /\ Answering!Next
     /\ UNCHANGED <<part, streamvars, framevars, filevars, stationvars, beaconvars, moves, vars>>
  \/ /\ part = "book" /\ Book!Next
     /\ UNCHANGED <<part, streamvars, framevars, filevars, tabvars, beaconvars, vars>>
  \/ /\ part = "timers" /\ Timers!Next
     /\ UNCHANGED <<part, streamvars, framevars, filevars, tabvars, stationvars, vars>>
  \/ /\ part = "direwolf" /\ Next
     /\ UNCHANGED <<part, streamvars, framevars, filevars, tabvars, stationvars, beaconvars, moves>>

MCSpec == MCInit /\ [][MCNext]_mcvars

-----------------------------------------------------------------------------
(* The properties of the seven.                                            *)

\* The KISS, Telnet and AGWPE decoders yield what was sent, however the
\* stream is cut into reads.
StreamsAreUnderstood == part = "bytes" => Bytes!StreamsAreUnderstood

\* What a KISS port answers outside a session goes back to who asked, by the
\* way it came, and there ends.
AnswersGoBack == Air!AnswersGoBack

\* What was saved is loaded again, whenever the program stopped.
SavedIsLoaded == Files!SavedIsLoaded

\* Mailbox and keyboard mode tell a caller what its lines ask for, in whatever
\* pieces they arrive.
LinesAreAnswered == Answering!LinesAreAnswered

\* A contact that is under way is open in the log.
LiveQsosAreOpen == Answering!LiveQsosAreOpen

\* A dialog that saves an old clone loses no hearing of a station.
HeardIsKept == Book!HeardIsKept

\* A row of the Notifications dialog deletes the packet it shows.
RowsDeleteWhatTheyShow == Book!RowsDeleteWhatTheyShow

\* The address book's rules are those of the stations whose toggle is on.
WatchesFollowTheToggle == Book!WatchesFollowTheToggle

\* The beacons that go out are those the settings ask for.
TimersFollowSettings == Timers!TimersFollowSettings
=============================================================================

---------------------------- MODULE ConfigFiles ----------------------------
(***************************************************************************)
(* pr-core/src/config.rs: the configuration in memory and the files it is  *)
(* kept in, with a program that may stop at any moment.  Every save writes *)
(* every file, one after the other, in place: a file is emptied before it  *)
(* is written.  A directory from before the split has everything in        *)
(* config.toml, which the first load distributes.                          *)
(*                                                                         *)
(* The content of a part is the number of the edit that made it.           *)
(*                                                                         *)
(* A definition marked "Fault" is no part of the model: it is a slip the   *)
(* next definition could contain, which the properties must detect.        *)
(***************************************************************************)
EXTENDS Integers, Sequences, Functions

CONSTANTS
  MaxEdits,  \* bound: changes to the configuration
  MaxStops   \* bound: times the program ends, in order or not

\* The order of save; every one but the first holds one list of AppConfig.
Files == <<"config", "ports", "address_book", "qso_log", "notified_packets", "rules",
           "pinned_sessions", "beacons", "mailbox", "beacon_rules", "incoming_beacons">>
Names == Range(Files)

\* What a file may hold besides the number of an edit, or 0, the default.
Absent == -5     \* no file
Blank == -1      \* emptied, and not yet written
Garbage == -2    \* half written: not TOML any more
Legacy == -3     \* config.toml from before the split, all parts in it
NoEntries == -4  \* a list that is empty

VARIABLES
  disk,    \* file -> content
  mem,     \* part -> content, while the program runs
  phase,   \* "off", "migrating", "idle" or "saving"
  todo,    \* the files still to write, the first of them emptied already
  source,  \* what is written to them
  edits, stops,
  safe,    \* history: the contents each part may have after the next load
  hurt     \* history: the file being written when the program stopped, or ""

vars == <<disk, mem, phase, todo, source, edits, stops, safe, hurt>>

-----------------------------------------------------------------------------
(* load.                                                                   *)

\* Fault: a list is left behind in the old file.
MigratedButOne == SubSeq(Files, 2, 8)

\* migrate_legacy_config: every list from the old file but the two that are
\* younger than the split.
Migrated == SubSeq(Files, 2, 9)

NeedsMigration == disk["config"] # Absent /\ disk["ports"] = Absent

\* The slimmed preferences come last, in the place of what all was read from.
MigrationOrder == Migrated \o <<"config">>

\* load_part: a file that is not there is the default, and one without entries
\* the empty list, which is the same for all parts but the highlight rules.
LoadPart(p) == CASE disk[p] = Absent             -> 0
                 [] disk[p] \in {Blank, NoEntries} -> IF p = "rules" THEN NoEntries ELSE 0
                 [] disk[p] = Legacy             -> 1
                 [] OTHER                        -> disk[p]
Unreadable == \E p \in Names : disk[p] = Garbage
AllDefaults == [p \in Names |-> 0]

\* What the lists are extracted from may be slim already, if only ports.toml
\* is missing.
Extracted ==
  [p \in Names |-> CASE p = "config" -> LoadPart(p)
                     [] OTHER        -> IF disk["config"] = Legacy THEN 1 ELSE NoEntries]

\* Emptying the first of the files is the first half of writing it.
Begin(files, content) ==
  /\ todo' = files
  /\ source' = content
  /\ disk' = [disk EXCEPT ![Head(files)] = Blank]

Loaded ==
  /\ phase \in {"off", "migrating"} /\ phase' = "idle"
  /\ hurt' = "" /\ safe' = [p \in Names |-> {mem'[p], LoadPart(p)'}]

\* build_ui: what cannot be loaded is replaced by the defaults.
Loads ==
  /\ phase = "off" /\ stops < MaxStops
  /\ IF NeedsMigration /\ disk["config"] # Garbage
     THEN /\ Begin(MigrationOrder, Extracted)
          /\ phase' = "migrating"
          /\ UNCHANGED <<mem, safe, hurt>>
     ELSE /\ mem' = IF Unreadable THEN AllDefaults ELSE [p \in Names |-> LoadPart(p)]
          /\ UNCHANGED <<disk, todo, source>>
          /\ Loaded
  /\ UNCHANGED <<edits, stops>>

-----------------------------------------------------------------------------
(* Writing: a file at a time.                                              *)

Written == [disk EXCEPT ![Head(todo)] = source[Head(todo)]]

WriteFile ==
  /\ phase \in {"saving", "migrating"} /\ Len(todo) > 1
  /\ disk' = [Written EXCEPT ![todo[2]] = Blank]
  /\ todo' = Tail(todo)
  /\ UNCHANGED <<mem, phase, source, edits, stops, safe, hurt>>

\* The last one: the save is complete, or the migration, and loading goes on.
SaveEnds ==
  /\ phase = "saving" /\ Len(todo) = 1
  /\ disk' = Written /\ todo' = <<>>
  /\ phase' = "idle" /\ safe' = [p \in Names |-> {mem[p]}]
  /\ UNCHANGED <<mem, source, edits, stops, hurt>>

MigrationEnds ==
  /\ phase = "migrating" /\ Len(todo) = 1
  /\ disk' = Written /\ todo' = <<>>
  /\ mem' = IF \E p \in Names : Written[p] = Garbage THEN AllDefaults ELSE [p \in Names |-> LoadPart(p)']
  /\ Loaded
  /\ UNCHANGED <<source, edits, stops>>

-----------------------------------------------------------------------------
(* The program.                                                            *)

\* A change in any dialog, and the save that follows it at once.
EditAndSave(p) ==
  /\ phase = "idle" /\ edits < MaxEdits
  /\ edits' = edits + 1
  /\ mem' = [mem EXCEPT ![p] = edits + 2]
  /\ phase' = "saving"
  /\ Begin(Files, mem')
  /\ safe' = [q \in Names |-> safe[q] \cup {mem'[q]}]
  /\ UNCHANGED <<stops, hurt>>

\* The program ends: in the middle of a write, the file may be cut anywhere.
Stop ==
  /\ phase # "off"
  /\ phase' = "off" /\ stops' = stops + 1 /\ todo' = <<>>
  /\ hurt' = CASE phase = "idle" -> "" [] phase = "saving" -> Head(todo) [] OTHER -> "all"
  /\ disk' \in IF todo = <<>> THEN {disk}
               ELSE {disk, [disk EXCEPT ![Head(todo)] = Garbage], Written}
  /\ UNCHANGED <<mem, source, edits, safe>>

Init ==
  /\ disk \in {[p \in Names |-> Absent], [p \in Names |-> IF p = "config" THEN Legacy ELSE Absent]}
  /\ mem = AllDefaults /\ phase = "off" /\ todo = <<>> /\ source = AllDefaults
  /\ edits = 0 /\ stops = 0 /\ hurt = ""
  /\ safe = [p \in Names |-> {IF disk["config"] = Legacy /\ p \notin {"beacon_rules", "incoming_beacons"}
                              THEN 1 ELSE 0}]

Next == \/ Loads \/ WriteFile \/ SaveEnds \/ MigrationEnds
        \/ \E p \in {"config", "rules", "beacons"} : EditAndSave(p)
        \/ Stop

Spec == Init /\ [][Next]_vars

-----------------------------------------------------------------------------
(* Properties.                                                             *)

\* Whatever was saved is loaded again, and a migration loses nothing: after a
\* stop in the middle of a save every list but the one in the file that was
\* being written is as it was before the last edit or after it.  (Not so, and
\* left out: a stop that leaves half a file makes all of it default; one during
\* the migration leaves the lists after ports.toml behind for good; and a stop
\* in the first file of the very first save is taken for a migration, which
\* empties the highlight rules.)
SavedIsLoaded ==
  [][Loaded /\ hurt # "all" /\ ~Unreadable' =>
       \A p \in Names \ {hurt} :
         \/ mem'[p] \in safe[p]
         \/ p = "rules" /\ phase = "migrating" /\ hurt = "config" /\ mem'[p] = NoEntries]_vars
=============================================================================

------------------------------ MODULE Stations ------------------------------
(***************************************************************************)
(* What is kept of the stations heard: the address book and the logs of    *)
(* notified packets (app_state.rs), the rules that fill the logs           *)
(* (maybe_notify_directed and its neighbours in window.rs, notify.rs), and *)
(* the dialogs over both (address_book_dialog.rs,                          *)
(* incoming_beacons_dialog.rs).  Everything runs on the GTK thread, but a  *)
(* dialog works on clones from when it was opened while frames are heard.  *)
(* Dialogs are modal: one is open at a time, with those it was opened from *)
(* waiting underneath.                                                     *)
(*                                                                         *)
(* A call sign stands for itself without SSID, and a destination pattern   *)
(* for the destination it matches; of the fields a user edits the alias    *)
(* stands for all.                                                         *)
(*                                                                         *)
(* A definition marked "Fault" is no part of the model: it is a slip the   *)
(* next definition could contain, which the properties must detect.        *)
(***************************************************************************)
EXTENDS Integers, Sequences, FiniteSetsExt, Lists

CONSTANTS
  Call,     \* call signs of other stations
  MaxMoves  \* bound: events and dialogs opened, together

VARIABLES
  address_book,      \* its entries, in order
  beacon_rules,      \* the rules, in order
  directed_enabled,  \* frames to us are notified
  log,               \* notified_packets and incoming_beacons; a tag tells packets apart
  dialog,            \* the dialog in front, with its clones
  heard,             \* history: hearings of a station since the user last took its entry away
  watched,           \* history: stations whose toggle is on
  moves              \* what is spent of MaxMoves

data == <<address_book, beacon_rules, directed_enabled, log, heard, watched>>
vars == <<data, dialog, moves>>

None == ""
Anyone == ""  \* as a sender or destination of a rule
Move == moves < MaxMoves /\ moves' = moves + 1

-----------------------------------------------------------------------------
(* The address book.                                                       *)

Entry(call, direct) ==
  [callsign |-> call, alias |-> None, heard_count |-> 0, heard_direct |-> direct,
   id_packet |-> None]

\* The first entry of a call sign; nothing keeps another from being renamed to it.
Of(book, call) == {i \in DOMAIN book : book[i].callsign = call}
In(book, call) == Min(Of(book, call))

\* The book with an entry of call, a new one where there is none.
Known(book, call, direct) ==
  IF Of(book, call) = {} THEN Append(book, Entry(call, direct)) ELSE book

record_heard(book, call) ==
  LET known == Known(book, call, TRUE)
      i == In(known, call)
  IN  [known EXCEPT ![i].heard_count = @ + 1, ![i].heard_direct = TRUE]

Backfilled(e, alias) == IF e.alias = None THEN [e EXCEPT !.alias = alias] ELSE e

\* Of a broadcast's entries one stands for all.
record_nodes_broadcast(book, from, sender_alias, entry) ==
  LET heard_from == record_heard(book, from)
      own == [heard_from EXCEPT ![In(heard_from, from)] = Backfilled(@, sender_alias)]
      known == Known(own, entry.callsign, FALSE)
  IN  [known EXCEPT ![In(known, entry.callsign)] =
         IF @.heard_direct THEN @ ELSE Backfilled(@, entry.alias)]

record_id_packet(book, from, message) ==
  LET known == Known(book, from, FALSE)
  IN  [known EXCEPT ![In(known, from)].id_packet = message]

-----------------------------------------------------------------------------
(* The logs.                                                               *)

\* Fault: ids are positions.
NextIdLength(packets) == Len(packets) + 1
NextId(packets) == Max({packets[i].id : i \in DOMAIN packets} \cup {0}) + 1

\* record_notified_packet, record_incoming_beacon.
Record(packets) == Append(packets, [id |-> NextId(packets), tag |-> moves])

\* remove_notified_packet, remove_incoming_beacon.
Removed(packets, id) == Retain(packets, LAMBDA p : p.id # id)

-----------------------------------------------------------------------------
(* handle_event on what is heard.                                          *)

StationHeard(call) ==
  /\ Move
  /\ address_book' = record_heard(address_book, call)
  /\ heard' = [heard EXCEPT ![call] = @ + 1]
  /\ UNCHANGED <<beacon_rules, directed_enabled, log, dialog, watched>>

NodesBroadcast(from, entry) ==
  /\ Move
  /\ address_book' = record_nodes_broadcast(address_book, from, "node", entry)
  /\ heard' = [heard EXCEPT ![from] = @ + 1]
  /\ UNCHANGED <<beacon_rules, directed_enabled, log, dialog, watched>>

Matches(rule, from, to) ==
  rule.enabled /\ rule.sender \in {Anyone, from} /\ rule.to \in {Anyone, to}

\* Monitor of a UI frame: maybe_notify_directed, maybe_detect_beacon,
\* maybe_record_beacon_packet and maybe_detect_mail, of mail for us.
Monitor(from, to) ==
  /\ Move
  /\ LET notifies == (to = "ME" /\ directed_enabled) \/ to = "MAIL"
         watches == \E i \in DOMAIN beacon_rules : Matches(beacon_rules[i], from, to)
     IN  log' = [notified |-> IF notifies THEN Record(log.notified) ELSE log.notified,
                 beacons  |-> IF watches THEN Record(log.beacons) ELSE log.beacons]
  /\ address_book' = IF to = "BEACON" THEN record_id_packet(address_book, from, "hello")
                     ELSE address_book
  /\ UNCHANGED <<beacon_rules, directed_enabled, dialog, heard, watched>>

\* ConnectionOpened that no tab waits for.
StationConnects ==
  /\ Move /\ directed_enabled
  /\ log' = [log EXCEPT !.notified = Record(@)]
  /\ UNCHANGED <<address_book, beacon_rules, directed_enabled, dialog, heard, watched>>

-----------------------------------------------------------------------------
(* The address book's dialogs.                                             *)

Closed == [kind |-> "none"]
Shown(name) == dialog.kind = name
Shows(d) == dialog' = d

Detail(e) == [kind |-> "detail", entry |-> e]

OpenDetail ==
  /\ Shown("none") /\ Move
  /\ \E i \in DOMAIN address_book : Shows(Detail(address_book[i]))
  /\ UNCHANGED data

\* Remove in the list of the address book: all entries of the call sign.
RemoveEntry(call) ==
  /\ Shown("none") /\ Of(address_book, call) # {}
  /\ address_book' = Retain(address_book, LAMBDA e : e.callsign # call)
  /\ heard' = [heard EXCEPT ![call] = 0]
  /\ UNCHANGED <<beacon_rules, directed_enabled, log, dialog, watched, moves>>

BookRule(call) == [sender |-> call, to |-> "BEACON", enabled |-> TRUE, from_address_book |-> TRUE]
OfBook(rule) == rule.from_address_book
IsRuleOf(rule, call) == rule.from_address_book /\ rule.sender = call

\* The watch button of the detail view.
ToggleWatch ==
  /\ Shown("detail")
  /\ LET call == dialog.entry.callsign
     IN  IF call \in watched
         THEN /\ beacon_rules' = Retain(beacon_rules, LAMBDA r : ~IsRuleOf(r, call))
              /\ watched' = watched \ {call}
         ELSE /\ beacon_rules' =
                   IF \E i \in DOMAIN beacon_rules : IsRuleOf(beacon_rules[i], call)
                   THEN beacon_rules ELSE Append(beacon_rules, BookRule(call))
              /\ watched' = watched \cup {call}
  /\ UNCHANGED <<address_book, directed_enabled, log, heard, dialog, moves>>

\* Edit Details of the entry the detail view shows, and Add Entry.
OpenEdit ==
  /\ Move
  /\ \/ Shown("detail") /\ Shows([kind |-> "edit", was |-> dialog.entry])
     \/ Shown("none") /\ Shows([kind |-> "edit", was |-> Entry(None, TRUE)])
  /\ UNCHANGED data

\* Fault: the dialog's clone is put back whole.
SavedWhole(e, was, call, alias) == [was EXCEPT !.callsign = call, !.alias = alias]

Saved(e, was, call, alias) == [e EXCEPT !.callsign = call, !.alias = alias]

\* Save: what the fields hold goes to the entry of the call sign the dialog was
\* opened with, or now has.  Afterwards the detail view shows the entry afresh.
SaveEntry(call, alias) ==
  /\ Shown("edit") /\ alias \in {dialog.was.alias, "mine"}
  /\ LET was == dialog.was
         key == IF was.callsign = None THEN call ELSE was.callsign
         known == Known(address_book, key, TRUE)
         book == [known EXCEPT ![In(known, key)] = Saved(@, was, call, alias)]
     IN  /\ address_book' = book
         /\ heard' = IF key = call THEN heard ELSE [heard EXCEPT ![key] = 0]
         /\ Shows(IF was.callsign # None /\ Of(book, key) # {}
                  THEN Detail(book[In(book, key)]) ELSE Closed)
  /\ UNCHANGED <<beacon_rules, directed_enabled, log, watched, moves>>

-----------------------------------------------------------------------------
(* The Notifications dialog and its rules.                                 *)

OpenLog ==
  /\ Shown("none") /\ Move
  /\ Shows([kind |-> "log", rows |-> log])
  /\ UNCHANGED data

Rebuilt(which) == Shows([dialog EXCEPT !.rows[which] = log'[which]])

\* The second click on the delete button of a row.
DeleteRow(which, row) ==
  /\ log' = [log EXCEPT ![which] = Removed(@, row.id)]
  /\ Rebuilt(which)
  /\ UNCHANGED <<address_book, beacon_rules, directed_enabled, heard, watched, moves>>

ClearLog(which) ==
  /\ log[which] # <<>>
  /\ log' = [log EXCEPT ![which] = <<>>]
  /\ Rebuilt(which)
  /\ UNCHANGED <<address_book, beacon_rules, directed_enabled, heard, watched, moves>>

ToggleDirected ==
  /\ Shown("log")
  /\ directed_enabled' = ~directed_enabled
  /\ UNCHANGED <<address_book, beacon_rules, log, heard, watched, dialog, moves>>

NotOfBook(rule) == ~OfBook(rule)

OpenRules ==
  /\ Shown("log") /\ Move
  /\ Shows([kind |-> "rules", rows |-> dialog.rows,
            rules |-> Retain(beacon_rules, OfBook) \o Retain(beacon_rules, NotOfBook)])
  /\ UNCHANGED data

\* A rule that is added watches everything until it is edited.
AddRule ==
  /\ Shown("rules") /\ Len(dialog.rules) < 2
  /\ Shows([dialog EXCEPT !.rules = Append(@,
       [sender |-> Anyone, to |-> Anyone, enabled |-> TRUE, from_address_book |-> FALSE])])
  /\ UNCHANGED <<data, moves>>

EditRule(i) ==
  /\ NotOfBook(dialog.rules[i])
  /\ \E sender \in Call, enabled \in BOOLEAN :
       Shows([dialog EXCEPT !.rules[i] = [@ EXCEPT !.sender = sender, !.to = "ME", !.enabled = enabled]])
  /\ UNCHANGED <<data, moves>>

RemoveRule(i) ==
  /\ Shows([dialog EXCEPT !.rules = Without(@, i)])
  /\ UNCHANGED <<data, moves>>

\* Fault: the dialog's rules are put back whole.
RulesAfterAll(rules) == rules

\* Rules of the address book are kept as they are, also those removed here.
RulesAfter(rules) == Retain(beacon_rules, OfBook) \o Retain(rules, NotOfBook)

SaveRules ==
  /\ Shown("rules")
  /\ beacon_rules' = RulesAfter(dialog.rules)
  /\ Shows([kind |-> "log", rows |-> dialog.rows])
  /\ UNCHANGED <<address_book, directed_enabled, log, heard, watched, moves>>

\* Close and Cancel, in any of them.
CloseDialog ==
  /\ ~Shown("none")
  /\ Shows(CASE Shown("rules") -> [kind |-> "log", rows |-> dialog.rows]
             [] Shown("edit") /\ dialog.was.callsign # None -> Detail(dialog.was)
             [] OTHER -> Closed)
  /\ UNCHANGED <<data, moves>>

-----------------------------------------------------------------------------
Init ==
  /\ address_book = <<>> /\ beacon_rules = <<>> /\ directed_enabled = TRUE
  /\ log = [notified |-> <<>>, beacons |-> <<>>]
  /\ dialog = Closed
  /\ heard = [c \in Call |-> 0] /\ watched = {}
  /\ moves = 0

BookNext ==
  \/ \E c \in Call : \/ StationHeard(c) \/ RemoveEntry(c)
                     \/ \E to \in {"ME", "BEACON", "MAIL"} : Monitor(c, to)
                     \/ \E e \in [callsign : Call, alias : {None, "node"}] : NodesBroadcast(c, e)
                     \/ \E alias \in {None, "node", "mine"} : SaveEntry(c, alias)
  \/ StationConnects
  \/ OpenDetail \/ ToggleWatch \/ OpenEdit \/ CloseDialog

LogNext ==
  \/ OpenLog \/ ToggleDirected \/ OpenRules \/ SaveRules \/ AddRule
  \/ Shown("log") /\ \E which \in DOMAIN log :
       ClearLog(which) \/ \E row \in Range(dialog.rows[which]) : DeleteRow(which, row)
  \/ Shown("rules") /\ \E i \in DOMAIN dialog.rules : EditRule(i) \/ RemoveRule(i)

Next == BookNext \/ LogNext

Spec == Init /\ [][Next]_vars

-----------------------------------------------------------------------------
(* Properties.                                                             *)

\* What the entries of a call sign count: a pair for each hearing.
Hearings(call) ==
  UNION {{i} \X (1..address_book[i].heard_count) : i \in Of(address_book, call)}

\* No hearing of a station is lost while its entry is there, whatever dialog
\* with an older clone of it is saved meanwhile (Save in edit_entry_dialog,
\* address_book_dialog.rs:718), and a station heard directly never counts as
\* known from a broadcast only.
HeardIsKept ==
  \A c \in Call :
    /\ Cardinality(Hearings(c)) >= heard[c]
    /\ heard[c] > 0 => \E i \in Of(address_book, c) : address_book[i].heard_direct

\* A row of the Notifications dialog deletes the packet it shows and no other:
\* the id in a row, which may be one that was given out before, is that of one
\* packet of the log, the one shown (app_state.rs:296, 320).
RowsDeleteWhatTheyShow ==
  dialog.kind \in {"log", "rules"} =>
    \A which \in DOMAIN log : \A row \in Range(dialog.rows[which]) :
      {p \in Range(log[which]) : p.id = row.id} = {row}

\* The address book's rules are those of the stations whose toggle is on, one
\* each, although the rules dialog lists them, takes them off its own list on
\* Remove (incoming_beacons_dialog.rs:571) and then saves that list.
WatchesFollowTheToggle ==
  LET ofBook == Retain(beacon_rules, OfBook)
  IN  /\ {ofBook[i].sender : i \in DOMAIN ofBook} = watched
      /\ IsInjective(ofBook)
=============================================================================

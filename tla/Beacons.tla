------------------------------ MODULE Beacons ------------------------------
(***************************************************************************)
(* What the station transmits by itself: the beacons of the Beacons dialog *)
(* (beacons_dialog.rs) and the availability beacons of the mailbox and of  *)
(* keyboard-to-keyboard mode (their dialogs, the header's buttons), each   *)
(* sent by a glib timer that keeps a copy of what it sends                 *)
(* (the reschedule functions in window.rs), over ports that are edited in  *)
(* the Ports dialog (ports_dialog.rs).  Everything runs on the GTK thread. *)
(*                                                                         *)
(* A definition marked "Fault" is no part of the model: it is a slip the   *)
(* next definition could contain, which the properties must detect.        *)
(***************************************************************************)
EXTENDS Integers, Sequences, FiniteSetsExt, Lists

CONSTANTS
  MaxPorts,    \* bound: ports in the list
  MaxBeacons,  \* bound: beacons in the list
  MaxMoves     \* bound: settings saved and ports edited, together

VARIABLES
  ports,          \* the configured ports, in order
  beacons,        \* the configured beacons, in order
  enabled,        \* beacon_prefs.enabled
  prefs,          \* the availability beacons' settings
  beacon_timers,  \* id of a beacon -> what its timer sends
  lost,           \* timers that run and that nothing leads to
  avail_timers,   \* what the timers of the availability beacons send; <<>> for none
  stale,          \* history: the header's button came after the last reschedule_beacons
  moves           \* what is spent of MaxMoves

vars == <<ports, beacons, enabled, prefs, beacon_timers, lost, avail_timers, stale, moves>>

NoPort == -1
Text == {"", "hi"}
Move == moves < MaxMoves /\ moves' = moves + 1
Index(items, id) == {i \in DOMAIN items : items[i].id = id}

\* port_supports_connect and port_supports_unproto, which agree on every kind.
Radio(port) == port.kind = "radio"

\* Fault: an id is the length of the list.
next_idLength(items) == Len(items)

\* "port-{n}" and "beacon-{n}": the first from the length on that is not taken.
next_id(items) ==
  Min({n \in Len(items)..(2 * Len(items)) : Index(items, n) = {}})

-----------------------------------------------------------------------------
(* Timers.                                                                 *)

\* reschedule_beacons: a timer replaced in the map while the list is walked
\* would go on running.
Scheduled(on, list) ==
  LET due == {i \in DOMAIN list : on /\ list[i].enabled}
      ids == {list[i].id : i \in due}
  IN  [timers |-> [id \in ids |-> list[Max(Index(list, id) \cap due)].aim],
       lost   |-> Cardinality(due) - Cardinality(ids)]

Reschedule(on, list) ==
  /\ beacon_timers' = Scheduled(on, list).timers
  /\ lost' = lost + Scheduled(on, list).lost
  /\ stale' = FALSE

\* reschedule_keyboard_mode_beacon, reschedule_mailbox_beacon.
Availability(p) ==
  IF p.enabled /\ p.text # "" THEN <<[text |-> p.text, listen_ports |-> p.listen_ports]>> ELSE <<>>

RescheduleAvailability(which) ==
  avail_timers' = [avail_timers EXCEPT ![which] = Availability(prefs'[which])]

-----------------------------------------------------------------------------
(* The Beacons dialog and the header's button.                             *)

GlobalSwitch ==
  /\ enabled' = ~enabled
  /\ Reschedule(enabled', beacons)
  /\ UNCHANGED <<ports, beacons, prefs, avail_timers, moves>>

\* The timers are left as they are.
BeaconsButton ==
  /\ enabled' = ~enabled
  /\ stale' = TRUE
  /\ UNCHANGED <<ports, beacons, prefs, beacon_timers, lost, avail_timers, moves>>

Listed(list) ==
  /\ beacons' = list
  /\ Reschedule(enabled, list)
  /\ UNCHANGED <<ports, enabled, prefs, avail_timers>>

RowSwitch(id) ==
  /\ Listed([beacons EXCEPT ![Min(Index(beacons, id))].enabled = ~@])
  /\ UNCHANGED moves

\* The pinned beacon has no Remove button.
RemoveBeacon(id) ==
  /\ \A i \in Index(beacons, id) : ~beacons[i].pinned
  /\ Listed(Retain(beacons, LAMBDA b : b.id # id))
  /\ UNCHANGED moves

SaveBeacon(id, port, text, on) ==
  /\ Move
  /\ Listed([beacons EXCEPT ![Min(Index(beacons, id))] =
               [@ EXCEPT !.aim = [port_id |-> port.id, text |-> text], !.enabled = on]])

AddBeacon(port, text, on) ==
  /\ Move /\ Len(beacons) < MaxBeacons
  /\ Listed(Append(beacons, [id |-> next_id(beacons), pinned |-> FALSE, enabled |-> on,
                             aim |-> [port_id |-> port.id, text |-> text]]))

-----------------------------------------------------------------------------
(* The settings of the availability beacons.                               *)

Set(which, p) ==
  /\ prefs' = [prefs EXCEPT ![which] = p]
  /\ RescheduleAvailability(which)
  /\ UNCHANGED <<ports, beacons, enabled, beacon_timers, lost, stale>>

\* keyboard_mode_button, and the mailbox's own button, which needs a call sign.
EnableButton(which) ==
  /\ which = "keyboard_mode" \/ prefs[which].enabled \/ prefs[which].call
  /\ Set(which, [prefs[which] EXCEPT !.enabled = ~@])
  /\ UNCHANGED moves

\* collapse_listen_ports: every switch on means any port, as does every one off.
collapse_listen_ports(all, on) ==
  LET listed == {ports[i].id : i \in {j \in DOMAIN ports : Radio(ports[j])}}
  IN  IF all \/ listed \cap on = listed THEN {} ELSE listed \cap on

\* Save in either settings dialog.  The call sign is made of the profile's, if
\* that has one by then; the mailbox cannot do without while it is on.
SaveSettings(which, profile, text, all, on) ==
  /\ Move
  /\ which = "keyboard_mode" \/ ~prefs[which].enabled \/ profile
  /\ Set(which, [prefs[which] EXCEPT !.text = text, !.call = profile,
                    !.listen_ports = collapse_listen_ports(all, on)])

-----------------------------------------------------------------------------
(* The Ports dialog.  Timers, beacons and listen lists go by the id.       *)

Ports(list) ==
  /\ ports' = list
  /\ UNCHANGED <<beacons, enabled, prefs, beacon_timers, lost, avail_timers, stale>>

AddPort(kind) ==
  /\ Move /\ Len(ports) < MaxPorts
  /\ Ports(Append(ports, [id |-> next_id(ports), kind |-> kind]))

SavePort(id, kind) ==
  Move /\ Ports([ports EXCEPT ![Min(Index(ports, id))].kind = kind])

RemovePort(id) ==
  Move /\ Ports(Retain(ports, LAMBDA p : p.id # id))

move_port(id, direction) ==
  LET i == Min(Index(ports, id))
  IN  /\ i + direction \in DOMAIN ports
      /\ Move
      /\ Ports([ports EXCEPT ![i] = ports[i + direction], ![i + direction] = ports[i]])

-----------------------------------------------------------------------------
(* Ticks.                                                                  *)

listens_on(listen_ports, id) == listen_ports = {} \/ id \in listen_ports

\* What a tick of an availability beacon's timer sends, and where, if up: ports
\* are looked up afresh.
Ticks(timer) ==
  UNION {{<<p.id, t.text>> : p \in {q \in Range(ports) : Radio(q) /\ listens_on(t.listen_ports, q.id)}}
           : t \in Range(timer)}

-----------------------------------------------------------------------------
Off == [enabled |-> FALSE, text |-> "", call |-> FALSE, listen_ports |-> {}]

\* A first start: the built-in ID beacon, which has no port and is off.
Init ==
  /\ ports = <<>>
  /\ beacons = <<[id |-> -1, pinned |-> TRUE, enabled |-> FALSE,
                  aim |-> [port_id |-> NoPort, text |-> ""]]>>
  /\ enabled = TRUE
  /\ prefs = [which \in {"keyboard_mode", "mailbox"} |-> Off]
  /\ beacon_timers = <<>> /\ lost = 0
  /\ avail_timers = [which \in {"keyboard_mode", "mailbox"} |-> <<>>]
  /\ stale = FALSE /\ moves = 0

Next ==
  \/ GlobalSwitch \/ BeaconsButton
  \/ \E b \in Range(beacons) : RowSwitch(b.id) \/ RemoveBeacon(b.id)
  \/ \E p \in Range(ports), on \in BOOLEAN :
       \/ AddBeacon(p, "hi", on)
       \/ \E b \in Range(beacons) : SaveBeacon(b.id, p, "hi", on)
  \/ \E which \in DOMAIN prefs :
       \/ EnableButton(which)
       \/ \E profile, all \in BOOLEAN, text \in Text, on \in SUBSET {p.id : p \in Range(ports)} :
            SaveSettings(which, profile, text, all, on)
  \/ \E kind \in {"radio", "terminal"} :
       AddPort(kind) \/ \E p \in Range(ports) : SavePort(p.id, kind)
  \/ \E p \in Range(ports) : RemovePort(p.id) \/ \E d \in {-1, 1} : move_port(p.id, d)

Spec == Init /\ [][Next]_vars

-----------------------------------------------------------------------------
(* Properties.                                                             *)

\* What goes out by itself is what the settings say.  Each beacon that is on
\* has one timer, which sends its text on its port, and no other timer runs:
\* none that edits have left behind, or that shares its key in the map with
\* another and can never be stopped (reschedule_beacons, window.rs:291).  The
\* availability beacons go out on the ports that are listened on now.  After
\* the header's button, which reschedules nothing (window.rs:2448), the timers
\* are those of the one or the other position of the switch, for the whole of
\* the list, and those of its position again with the next change in the dialog.
TimersFollowSettings ==
  /\ lost = 0
  /\ \E on \in (IF stale THEN BOOLEAN ELSE {enabled}) :
       /\ DOMAIN beacon_timers = {b.id : b \in {c \in Range(beacons) : on /\ c.enabled}}
       /\ \A b \in Range(beacons) : b.id \in DOMAIN beacon_timers => beacon_timers[b.id] = b.aim
  /\ \A which \in DOMAIN prefs :
       Ticks(avail_timers[which]) =
         IF ~prefs[which].enabled \/ prefs[which].text = "" THEN {}
         ELSE {<<p.id, prefs[which].text>> :
                 p \in {q \in Range(ports) : Radio(q) /\ listens_on(prefs[which].listen_ports, q.id)}}
=============================================================================

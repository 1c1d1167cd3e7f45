----------------------------- MODULE Responders -----------------------------
(***************************************************************************)
(* What happens on the connections of one port with one other station:     *)
(* who answers an unsolicited connect (handle_event in window.rs), the     *)
(* mailbox and the keyboard-to-keyboard mode on what is received           *)
(* (pr-app/src/mailbox.rs, keyboard_mode.rs, drive_mailbox, drive_k2k,     *)
(* take_mailbox_lines in session_tab.rs), and the log of contacts          *)
(* (app_state.rs).                                                         *)
(*                                                                         *)
(* Received text is a sequence of words and line ends.  A command's answer *)
(* is reduced to what the next state depends on.                           *)
(*                                                                         *)
(* A definition marked "Fault" is no part of the model: it is a slip the   *)
(* next definition could contain, which the properties must detect.        *)
(***************************************************************************)
EXTENDS Integers, Sequences, FiniteSetsExt, Lists

CONSTANTS
  MaxQsos,   \* bound: connections opened while the log has as many entries
  MaxTokens  \* bound: words and line ends received

VARIABLES
  keyboard_mode, mailbox,  \* the settings of the two
  tabs,                    \* the tabs with the station, in order
  qso_log,                 \* its entries in the log
  received                 \* what is spent of MaxTokens

vars == <<keyboard_mode, mailbox, tabs, qso_log, received>>

-----------------------------------------------------------------------------
(* Who answers.                                                            *)

should_answer(prefs, to) == prefs.enabled /\ prefs.call # "" /\ to = prefs.call

\* An empty list of ports means any.
listens_on(prefs, port) == prefs.listen_ports = {} \/ port \in prefs.listen_ports

\* Keyboard-to-keyboard comes first.
Responder(to) ==
  IF should_answer(keyboard_mode, to) /\ listens_on(keyboard_mode, "here") THEN "k2k"
  ELSE IF should_answer(mailbox, to) /\ listens_on(mailbox, "here") THEN "mailbox"
  ELSE "none"

-----------------------------------------------------------------------------
(* Lines.                                                                  *)

\* Fault: what is behind the last line end is dropped.
RestForgotten(text) == <<>>

LineEnds(text) == {i \in DOMAIN text : text[i] = "LF"}
Rest(text) == SubSeq(text, 1 + Max(LineEnds(text) \cup {0}), Len(text))

\* A line, with the CRs at its ends trimmed.
Trim(line) ==
  LET inner == {i \in DOMAIN line : line[i] # "CR"}
  IN  IF inner = {} THEN <<>> ELSE SubSeq(line, Min(inner), Max(inner))

\* take_mailbox_lines: only LF ends a line.
Lines(text) ==
  LET ends == Picked([i \in DOMAIN text |-> i], LineEnds(text))
  IN  [i \in DOMAIN ends |->
         Trim(SubSeq(text, IF i = 1 THEN 1 ELSE ends[i - 1] + 1, ends[i] - 1))]

Bye == <<"BYE">>

-----------------------------------------------------------------------------
(* The responders, on a tab and the log.                                   *)

\* mailbox.rs, handle_line.
handle_line(tab, line) ==
  IF tab.mailbox_state = "AwaitingQth"
  THEN [tab EXCEPT !.mailbox_state = "Command", !.said = Append(@, "logged"), !.cqs = @ + 1]
  ELSE CASE line = Bye ->
              [tab EXCEPT !.mailbox_state = "none", !.said = Append(@, "73"), !.closing = TRUE]
         [] line = <<"CQ">> ->
              [tab EXCEPT !.mailbox_state = "AwaitingQth", !.said = Append(@, "QTH?")]
         [] OTHER -> [tab EXCEPT !.said = Append(@, "answer")]

\* Lines behind the one that signs off are taken out of the buffer unread.
Read(tab, line) == IF tab.mailbox_state = "none" THEN tab ELSE handle_line(tab, line)

Answered(tab, lines) ==
  LET after[i \in 0..Len(lines)] == IF i = 0 THEN tab ELSE Read(after[i - 1], lines[i])
  IN  after[Len(lines)]

drive_mailbox(tab, text) == Answered([tab EXCEPT !.mailbox_input = Rest(text)], Lines(text))

drive_k2k(tab, text) ==
  IF Bye \in Range(Lines(text))
  THEN [tab EXCEPT !.mailbox_input = Rest(text), !.k2k_active = FALSE,
                   !.said = Append(@, "73"), !.closing = TRUE]
  ELSE [tab EXCEPT !.mailbox_input = Rest(text)]

\* Data: what nobody drives is not buffered.
Driven(tab, chunk) ==
  LET text == tab.mailbox_input \o chunk
  IN  IF tab.mailbox_state # "none" THEN drive_mailbox(tab, text)
      ELSE IF tab.k2k_active THEN drive_k2k(tab, text)
      ELSE tab

-----------------------------------------------------------------------------
(* The log.                                                                *)

log_qso_started(log) == Append(log, [ended |-> FALSE, from_cq |-> FALSE])

\* A contact by CQ is logged beside the connection's own entry, and never ends.
LogContacts(log, n) == log \o [i \in 1..n |-> [ended |-> FALSE, from_cq |-> TRUE]]

\* Fault: all that is open ends.
log_qso_endedAll(log) == [i \in DOMAIN log |-> [log[i] EXCEPT !.ended = TRUE]]

\* The latest open entry, whichever connection it is of.
log_qso_ended(log) ==
  LET open == {i \in DOMAIN log : ~log[i].ended}
  IN  IF open = {} THEN log ELSE [log EXCEPT ![Max(open)].ended = TRUE]

-----------------------------------------------------------------------------
(* Events.                                                                 *)

NewTab == [conn |-> "none", by |-> "us", mailbox_state |-> "none", k2k_active |-> FALSE,
           mailbox_input |-> <<>>, closing |-> FALSE,
           said |-> <<>>, cqs |-> 0, heard |-> <<>>, greeted |-> "none"]

Opened(tab, by) == [tab EXCEPT !.conn = "up", !.by = by]

\* What is left in a tab that no longer shows a connection.
Unbound(tab) ==
  [NewTab EXCEPT !.mailbox_state = tab.mailbox_state, !.k2k_active = tab.k2k_active,
                 !.mailbox_input = tab.mailbox_input]

\* ConnectionOpened that no tab is waiting for.
StationCalls(to) ==
  /\ Len(qso_log) < MaxQsos
  /\ LET who == Responder(to)
     IN  tabs' = Append(tabs, [Opened(NewTab, "them") EXCEPT
                   !.k2k_active = (who = "k2k"), !.greeted = who,
                   !.mailbox_state = IF who = "mailbox" THEN "Command" ELSE "none"])
  /\ qso_log' = log_qso_started(qso_log)
  /\ UNCHANGED <<keyboard_mode, mailbox, received>>

\* One that the user dialed, in a new tab or again in one: the responder a tab
\* may still have stays.
Dialed ==
  /\ Len(qso_log) < MaxQsos
  /\ \/ tabs' = Append(tabs, Opened(NewTab, "us"))
     \/ \E t \in DOMAIN tabs : tabs[t].conn = "none" /\ tabs' = [tabs EXCEPT ![t] = Opened(@, "us")]
  /\ qso_log' = log_qso_started(qso_log)
  /\ UNCHANGED <<keyboard_mode, mailbox, received>>

Receives(t, chunk) ==
  /\ tabs[t].conn = "up" /\ received + Len(chunk) <= MaxTokens
  /\ LET tab == Driven(tabs[t], chunk)
     IN  /\ tabs' = [tabs EXCEPT ![t] = [tab EXCEPT !.heard = @ \o chunk, !.cqs = 0]]
         /\ qso_log' = LogContacts(qso_log, tab.cqs)
  /\ received' = received + Len(chunk)
  /\ UNCHANGED <<keyboard_mode, mailbox>>

\* ConnectionClosed, whoever closed it.
Ends(t) ==
  /\ tabs[t].conn = "up"
  /\ tabs' = [tabs EXCEPT ![t] =
       Unbound([@ EXCEPT !.mailbox_state = "none", !.k2k_active = FALSE])]
  /\ qso_log' = log_qso_ended(qso_log)
  /\ UNCHANGED <<keyboard_mode, mailbox, received>>

\* PortDisconnected: the tabs are unbound and that is all.
PortGoes ==
  /\ \E t \in DOMAIN tabs : tabs[t].conn = "up"
  /\ tabs' = [t \in DOMAIN tabs |-> IF tabs[t].conn = "up" THEN Unbound(tabs[t]) ELSE tabs[t]]
  /\ UNCHANGED <<keyboard_mode, mailbox, qso_log, received>>

\* close_tab: nobody will log the end of the connection.
CloseTab(t) ==
  /\ tabs' = Without(tabs, t)
  /\ UNCHANGED <<keyboard_mode, mailbox, qso_log, received>>

\* confirm_clear_cq.
ClearContacts ==
  /\ \E i \in DOMAIN qso_log : qso_log[i].from_cq
  /\ qso_log' = Retain(qso_log, LAMBDA e : ~e.from_cq)
  /\ UNCHANGED <<keyboard_mode, mailbox, tabs, received>>

Settings(call) ==
  {[enabled |-> TRUE, call |-> call, listen_ports |-> {}],
   [enabled |-> TRUE, call |-> "", listen_ports |-> {}],
   [enabled |-> TRUE, call |-> call, listen_ports |-> {"elsewhere"}]}

Init ==
  /\ keyboard_mode \in Settings("ME-1")
  /\ mailbox \in Settings("ME-2") \cup {[enabled |-> TRUE, call |-> "ME-1", listen_ports |-> {}]}
  /\ tabs = <<>> /\ qso_log = <<>> /\ received = 0

Chunks == {<<"BYE", "LF">>, <<"CQ", "CR", "LF">>, <<"BYE">>, <<"CR">>, <<"LF">>, <<"x", "LF", "BYE">>}

Next ==
  \/ \E to \in {"ME-1", "ME-2"} : StationCalls(to)
  \/ Dialed \/ PortGoes \/ ClearContacts
  \/ \E t \in DOMAIN tabs : Ends(t) \/ CloseTab(t) \/ \E chunk \in Chunks : Receives(t, chunk)

Spec == Init /\ [][Next]_vars

-----------------------------------------------------------------------------
(* Properties.                                                             *)

\* The lines that tell where the station lives: each is the one after a CQ
\* that was not itself such a line.
Qth(lines) ==
  LET qth[i \in DOMAIN lines] == i > 1 /\ lines[i - 1] = <<"CQ">> /\ ~qth[i - 1]
  IN  {i \in DOMAIN lines : qth[i]}

\* What a caller should have been told, from everything it sent.
Expected(who, lines) ==
  LET qths == IF who = "mailbox" THEN Qth(lines) ELSE {}
      byes == {i \in DOMAIN lines : lines[i] = Bye} \ qths
      read == SubSeq(lines, 1, Min(byes \cup {Len(lines)}))
  IN  CASE who = "none" -> <<>>
        [] who = "k2k"  -> IF byes = {} THEN <<>> ELSE <<"73">>
        [] OTHER        -> [i \in DOMAIN read |->
                              IF i \in qths THEN "logged"
                              ELSE CASE read[i] = Bye      -> "73"
                                     [] read[i] = <<"CQ">> -> "QTH?"
                                     [] OTHER              -> "answer"]

\* Whatever pieces its lines arrive in, a station that called is told what its
\* whole transcript asks for, nothing after it has signed off, and is hung up
\* on exactly then.  (Lines end with LF alone: of a station that ends them with
\* CR, as AX.25 stations do, window.rs:1866, nothing is understood.)
LinesAreAnswered ==
  \A t \in DOMAIN tabs :
    LET tab == tabs[t]
    IN  tab.conn = "up" /\ tab.by = "them" =>
          /\ tab.said = Expected(tab.greeted, Lines(tab.heard))
          /\ tab.closing <=> "73" \in Range(tab.said)

\* A contact that is under way is open in the log: there are at least as many
\* open entries, contacts by CQ apart, as tabs that show a connection, although
\* the end of a connection is logged for the latest open entry, a contact's
\* included (app_state.rs:213).
LiveQsosAreOpen ==
  Len(Retain(tabs, LAMBDA tab : tab.conn = "up"))
    <= Len(Retain(qso_log, LAMBDA e : ~e.ended /\ ~e.from_cq))
=============================================================================

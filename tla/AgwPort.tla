------------------------------ MODULE AgwPort ------------------------------
(***************************************************************************)
(* The AGWPE port, pr-agwpe/src/client.rs: the command thread (run) and    *)
(* the reader thread (read_loop, handle_frame) share the ConnMap under its *)
(* mutex and the events channel, and talk to a TNC over TCP.  The TNC has  *)
(* the AX.25 links, one per station; the map says which id each is shown   *)
(* under.                                                                  *)
(*                                                                         *)
(* A step is one access to the map, one burst of events of a connection,   *)
(* or one read or write.  Of a connection, the UI keeps the last ConnState *)
(* it was told.  Data and unproto frames change nothing that is shared.    *)
(*                                                                         *)
(* The TNC is external: it carries out requests in order, answers every    *)
(* call with a 'C' or a 'd', and a call to a station it is linked with     *)
(* already establishes the link anew.                                      *)
(*                                                                         *)
(* A definition marked "Fault" is no part of the model: it is a slip the   *)
(* next definition could contain, which the properties must detect.        *)
(***************************************************************************)
EXTENDS Integers, Sequences, Functions

CONSTANTS
  Call,      \* remote stations
  MaxCalls,  \* bound: connects, by the UI or the other station
  MaxQueue   \* bound: frames under way in each direction

VARIABLES
  command,     \* what the command thread does next, with which id and station
  reader,      \* what the reader thread does next, with which id and station
  id_to_call, call_to_id,  \* the ConnMap
  next_id,     \* next_incoming_id, from 1 instead of 2^32
  tcp,         \* the stream: up, gone (the TNC closed it) or shut (we did)
  toTnc, fromTnc,  \* frames under way
  link,        \* link[c]: the TNC's link with station c
  calls,       \* connects so far
  told,        \* history: what the UI was told of each connection
  overtaken    \* history: ids announced after the reader had removed them

connMap == <<id_to_call, call_to_id, next_id>>
tncVars == <<tcp, toTnc, fromTnc, link>>
uiVars == <<calls, told, overtaken>>
vars == <<command, reader, connMap, tncVars, uiVars>>

\* A connect takes an id of its own, and its 'C' may take another.
Id == 1..(2 * MaxCalls)

At(place) == [at |-> place]
Busy(place, id, c) == [at |-> place, id |-> id, call |-> c]

With(f, key, value) == [x \in DOMAIN f \cup {key} |-> IF x = key THEN value ELSE f[x]]
Without(f, keys) == Restrict(f, DOMAIN f \ keys)

-----------------------------------------------------------------------------

Init ==
  /\ command = At("idle")
  /\ reader = At("reading")
  /\ id_to_call = <<>> /\ call_to_id = <<>>
  /\ next_id = 1
  /\ tcp = "up" /\ toTnc = <<>> /\ fromTnc = <<>>
  /\ link = [c \in Call |-> "down"]
  /\ calls = 0
  /\ told = [id \in Id |-> "none"]
  /\ overtaken = {}

\* Fault: every connect takes an id of its own, mapped station or not.
FindOrInsertAlways(c, id) ==
  /\ id = next_id
  /\ next_id' = next_id + 1
  /\ id_to_call' = With(id_to_call, id, c)
  /\ call_to_id' = With(call_to_id, c, id)

\* The id of station c, a new one if it has none.
FindOrInsert(c, id) ==
  IF c \in DOMAIN call_to_id
  THEN id = call_to_id[c] /\ UNCHANGED connMap
  ELSE /\ id = next_id
       /\ next_id' = next_id + 1
       /\ id_to_call' = With(id_to_call, id, c)
       /\ call_to_id' = With(call_to_id, c, id)

-----------------------------------------------------------------------------
(* The command thread.                                                     *)

OpenConnection ==
  /\ command.at = "idle"
  /\ calls < MaxCalls /\ calls' = calls + 1
  /\ \E c \in Call, id \in Id :
       /\ FindOrInsert(c, id)
       /\ command' = Busy("announcing", id, c)
  /\ UNCHANGED <<reader, tncVars, told, overtaken>>

AnnounceConnecting ==
  /\ command.at = "announcing"
  /\ told' = [told EXCEPT ![command.id] = "Connecting"]
  /\ overtaken' = overtaken \cup ({command.id} \ DOMAIN id_to_call)
  /\ command' = [command EXCEPT !.at = "calling"]
  /\ UNCHANGED <<reader, connMap, tncVars, calls>>

\* What is written to a stream that is gone is lost, before the first write
\* that fails.
Write(kind) ==
  IF tcp = "up"
  THEN /\ Len(toTnc) < MaxQueue
       /\ toTnc' = Append(toTnc, [kind |-> kind, call |-> command.call])
  ELSE UNCHANGED toTnc

WriteCall ==
  /\ command.at = "calling"
  /\ Write("C")
  /\ command' = At("idle") \/ (tcp # "up" /\ command' = At("closing"))
  /\ UNCHANGED <<reader, connMap, tcp, fromTnc, link, uiVars>>

\* Fault: the connection is forgotten before the TNC confirms its end.
CloseConnectionForgetting ==
  /\ command.at = "idle"
  /\ \E id \in DOMAIN id_to_call :
       /\ command' = Busy("hanging up", id, id_to_call[id])
       /\ call_to_id' = Without(call_to_id, {id_to_call[id]})
       /\ id_to_call' = Without(id_to_call, {id})
  /\ UNCHANGED <<reader, next_id, tncVars, uiVars>>

CloseConnection ==
  /\ command.at = "idle"
  /\ \E id \in DOMAIN id_to_call : command' = Busy("hanging up", id, id_to_call[id])
  /\ UNCHANGED <<reader, connMap, tncVars, uiVars>>

\* Here a failure is ignored.
WriteHangUp ==
  /\ command.at = "hanging up"
  /\ Write("d")
  /\ command' = At("idle")
  /\ UNCHANGED <<reader, connMap, tcp, fromTnc, link, uiVars>>

\* A write of data or of an unproto frame fails on a stream that is gone, too.
SendFails ==
  /\ command.at = "idle"
  /\ tcp # "up"
  /\ command' = At("closing")
  /\ UNCHANGED <<reader, connMap, tncVars, uiVars>>

\* The user disconnects the port, or the UI is gone.
Disconnect ==
  /\ command.at = "idle"
  /\ command' = At("closing")
  /\ UNCHANGED <<reader, connMap, tncVars, uiVars>>

ShutStream ==
  /\ command.at = "closing"
  /\ tcp' = "shut"
  /\ command' = At("reporting")
  /\ UNCHANGED <<reader, connMap, toTnc, fromTnc, link, uiVars>>

ReportPortDisconnected ==
  /\ command.at = "reporting"
  /\ command' = At("joining")
  /\ UNCHANGED <<reader, connMap, tncVars, uiVars>>

JoinReader ==
  /\ command.at = "joining" /\ reader.at = "done"
  /\ command' = At("stopped")
  /\ UNCHANGED <<reader, connMap, tncVars, uiVars>>

-----------------------------------------------------------------------------
(* The reader thread.                                                      *)

Reads(kind, c) ==
  /\ reader.at = "reading"
  /\ fromTnc # <<>> /\ Head(fromTnc) = [kind |-> kind, call |-> c]
  /\ fromTnc' = Tail(fromTnc)

ReadConnect(c) ==
  /\ Reads("C", c)
  /\ \E id \in Id : FindOrInsert(c, id) /\ reader' = Busy("announcing", id, c)
  /\ UNCHANGED <<command, tcp, toTnc, link, uiVars>>

AnnounceConnected ==
  /\ reader.at = "announcing"
  /\ told' = [told EXCEPT ![reader.id] = "Connected"]
  /\ reader' = At("reading")
  /\ UNCHANGED <<command, connMap, tncVars, calls, overtaken>>

\* Found under the lock, to be removed under it again.
ReadDisconnect(c) ==
  /\ Reads("d", c)
  /\ IF c \in DOMAIN call_to_id
     THEN reader' = Busy("removing", call_to_id[c], c)
     ELSE UNCHANGED reader
  /\ UNCHANGED <<command, connMap, tcp, toTnc, link, uiVars>>

\* Fault: the station still leads to the id.
RemoveIdOnly ==
  /\ reader.at = "removing"
  /\ id_to_call' = Without(id_to_call, {reader.id})
  /\ reader' = [reader EXCEPT !.at = "reporting"]
  /\ UNCHANGED <<command, call_to_id, next_id, tncVars, uiVars>>

RemoveCall ==
  /\ reader.at = "removing"
  /\ IF reader.call \in DOMAIN call_to_id
     THEN /\ call_to_id' = Without(call_to_id, {reader.call})
          /\ id_to_call' = Without(id_to_call, {call_to_id[reader.call]})
     ELSE UNCHANGED <<call_to_id, id_to_call>>
  /\ reader' = [reader EXCEPT !.at = "reporting"]
  /\ UNCHANGED <<command, next_id, tncVars, uiVars>>

ReportClosed ==
  /\ reader.at = "reporting"
  /\ told' = [told EXCEPT ![reader.id] = "closed"]
  /\ reader' = At("reading")
  /\ UNCHANGED <<command, connMap, tncVars, calls, overtaken>>

\* The stream ends, and what it still held may be lost.  The thread ends
\* without a word to the UI or the command thread.
ReadEnds ==
  /\ reader.at = "reading" /\ tcp # "up"
  /\ reader' = At("done")
  /\ UNCHANGED <<command, connMap, tncVars, uiVars>>

-----------------------------------------------------------------------------
(* The TNC and the other stations.                                         *)

PortUnchanged == UNCHANGED <<command, reader, connMap, told, overtaken>>

Tell(kind, c) ==
  /\ Len(fromTnc) < MaxQueue
  /\ fromTnc' = Append(fromTnc, [kind |-> kind, call |-> c])

Requested(kind, c) ==
  /\ tcp = "up"
  /\ toTnc # <<>> /\ Head(toTnc) = [kind |-> kind, call |-> c]
  /\ toTnc' = Tail(toTnc)

PlaceCall(c) ==
  /\ Requested("C", c)
  /\ link' = [link EXCEPT ![c] = "calling"]
  /\ PortUnchanged /\ UNCHANGED <<tcp, fromTnc, calls>>

HangUp(c) ==
  /\ Requested("d", c)
  /\ link' = [link EXCEPT ![c] = "down"]
  /\ IF link[c] = "down" THEN UNCHANGED fromTnc ELSE Tell("d", c)
  /\ PortUnchanged /\ UNCHANGED <<tcp, calls>>

CallAnswered(c) ==
  /\ tcp = "up" /\ link[c] = "calling"
  /\ link' = [link EXCEPT ![c] = "up"]
  /\ Tell("C", c)
  /\ PortUnchanged /\ UNCHANGED <<tcp, toTnc, calls>>

CallFails(c) ==
  /\ tcp = "up" /\ link[c] = "calling"
  /\ link' = [link EXCEPT ![c] = "down"]
  /\ Tell("d", c)
  /\ PortUnchanged /\ UNCHANGED <<tcp, toTnc, calls>>

StationConnects(c) ==
  /\ tcp = "up" /\ link[c] = "down"
  /\ calls < MaxCalls /\ calls' = calls + 1
  /\ link' = [link EXCEPT ![c] = "up"]
  /\ Tell("C", c)
  /\ PortUnchanged /\ UNCHANGED <<tcp, toTnc>>

LinkLost(c) ==
  /\ tcp = "up" /\ link[c] = "up"
  /\ link' = [link EXCEPT ![c] = "down"]
  /\ Tell("d", c)
  /\ PortUnchanged /\ UNCHANGED <<tcp, toTnc, calls>>

TncGone ==
  /\ tcp = "up"
  /\ tcp' = "gone"
  /\ PortUnchanged /\ UNCHANGED <<toTnc, fromTnc, link, calls>>

-----------------------------------------------------------------------------

Command == OpenConnection \/ CloseConnection \/ SendFails \/ Disconnect

CommandRuns ==
  \/ AnnounceConnecting \/ WriteCall \/ WriteHangUp
  \/ ShutStream \/ ReportPortDisconnected \/ JoinReader

ReaderRuns ==
  \/ \E c \in Call : ReadConnect(c) \/ ReadDisconnect(c)
  \/ AnnounceConnected \/ RemoveCall \/ ReportClosed \/ ReadEnds

Answers(c) == PlaceCall(c) \/ HangUp(c) \/ CallAnswered(c) \/ CallFails(c)

Next ==
  \/ Command \/ CommandRuns \/ ReaderRuns
  \/ \E c \in Call : Answers(c) \/ StationConnects(c) \/ LinkLost(c)
  \/ TncGone

Spec == Init /\ [][Next]_vars

\* Both threads run, and the TNC answers; nothing obliges another station or
\* the user.
Fairness ==
  /\ WF_vars(CommandRuns) /\ WF_vars(ReaderRuns)
  /\ \A c \in Call : WF_vars(Answers(c))

FairSpec == Spec /\ Fairness

-----------------------------------------------------------------------------
(* Properties.                                                             *)

\* The two maps of the ConnMap are each other's inverse, although two threads
\* change them and remove_call is asked with what an earlier look-up found.
MapsAreInverse ==
  /\ Range(call_to_id) = DOMAIN id_to_call
  /\ \A c \in DOMAIN call_to_id : id_to_call[call_to_id[c]] = c

\* Nothing is under way between the UI and the TNC.
Quiet ==
  /\ command.at = "idle" /\ reader.at = "reading"
  /\ tcp = "up" /\ toTnc = <<>> /\ fromTnc = <<>>

\* Once everything under way has arrived, every link that is up is mapped, so
\* that its data reaches a tab and the UI can end it, and nothing is mapped
\* that the TNC knows nothing of.
QuietMapIsTrue ==
  Quiet => \A c \in Call :
             /\ link[c] = "up" => c \in DOMAIN call_to_id
             /\ c \in DOMAIN call_to_id => link[c] # "down"

Open(id) == told[id] \in {"Connecting", "Connected"}

\* And the UI shows as open exactly what is mapped, as connected all that is
\* up, except the ids the command thread announced after the reader had
\* removed them (client.rs:119): those the UI never hears of again.
QuietUiIsTrue ==
  Quiet =>
    /\ \A id \in DOMAIN id_to_call :
         Open(id) /\ (link[id_to_call[id]] = "up" => told[id] = "Connected")
    /\ \A id \in Id : Open(id) => id \in DOMAIN id_to_call \cup overtaken

\* Every connect attempt is answered, or the stream is gone, or the id was
\* overtaken.
ConnectAttemptsEnd ==
  \A id \in Id :
    told[id] = "Connecting" ~>
      (told[id] # "Connecting" \/ id \in overtaken \/ tcp # "up")

\* Disconnecting the port ends it, although it joins a reader that may be
\* waiting for the stream.
DisconnectEnds == command.at = "closing" ~> command.at = "stopped"
=============================================================================

------------------------------- MODULE MCPorts -------------------------------
(***************************************************************************)
(* Small instances of KernelPort, AgwPort and StreamPort in one run of     *)
(* TLC: a behaviour is of one of the three, whose variables move while     *)
(* those of the others stay at rest.                                       *)
(***************************************************************************)
EXTENDS KernelPort

CONSTANTS Call, MaxCalls, MaxQueue  \* of AgwPort

VARIABLES
  port,  \* which of the three moves
  a_command, a_reader, id_to_call, call_to_id, a_next_id, tcp, toTnc, fromTnc,
  a_link, calls, a_told, overtaken,
  kind, main, s_reader, stream, stop, asked, said

agwvars == <<a_command, a_reader, id_to_call, call_to_id, a_next_id, tcp, toTnc,
             fromTnc, a_link, calls, a_told, overtaken>>
streamvars == <<kind, main, s_reader, stream, stop, asked, said>>
mcvars == <<port, vars, agwvars, streamvars>>

Agw == INSTANCE AgwPort
  WITH command <- a_command, reader <- a_reader, next_id <- a_next_id,
       link <- a_link, told <- a_told

Stream == INSTANCE StreamPort WITH reader <- s_reader

StreamAtRest ==
  /\ kind = "tcp" /\ main = "gone" /\ s_reader = "none" /\ stream = "open"
  /\ stop = FALSE /\ asked = "nothing" /\ said = <<"PortError">>

MCInit ==
  /\ port \in {"kernel", "agwpe", "stream"}
  /\ Init /\ (port # "kernel" => accept = "done")
  /\ Agw!Init
  /\ IF port = "stream" THEN Stream!Init ELSE StreamAtRest

MCNext ==
  \/ port = "kernel" /\ Next /\ UNCHANGED <<port, agwvars, streamvars>>
  \/ port = "agwpe" /\ Agw!Next /\ UNCHANGED <<port, vars, streamvars>>
  \/ port = "stream" /\ Stream!Next /\ UNCHANGED <<port, vars, agwvars>>

\* At rest, a port has no step that its fairness makes due.
MCSpec ==
  /\ MCInit /\ [][MCNext]_mcvars
  /\ Fairness /\ Agw!Fairness /\ Stream!Fairness

\* The ConnMap's two maps are each other's inverse (client.rs:268).
MapsAreInverse == Agw!MapsAreInverse

\* With nothing under way, the ConnMap has the links that are up.
QuietMapIsTrue == Agw!QuietMapIsTrue

\* And the UI shows what the ConnMap has (client.rs:119).
QuietUiIsTrue == Agw!QuietUiIsTrue

\* An AGWPE connect is answered, unless the TNC goes away.
ConnectAttemptsEnd == Agw!ConnectAttemptsEnd

\* A port that is disconnected ends, whatever its threads are blocked in:
\* sockets and the lock of a kernel port, the stream of an AGWPE port, and the
\* reads of a KISS, Telnet or ssh port.
PortsEnd == DisconnectEnds /\ Agw!DisconnectEnds /\ Stream!ThreadsEnd
=============================================================================

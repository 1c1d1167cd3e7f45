----------------------------- MODULE StreamPort -----------------------------
(***************************************************************************)
(* The threads of a port that is one byte stream: a KISS TNC over TCP, a   *)
(* serial line or Bluetooth LE (pr-ax25/src/kiss_runner.rs: run_tcp,       *)
(* run_serial, run_ble, kiss_read_loop), a Telnet session and an ssh child *)
(* on a pseudo terminal (pr-core/src/transports).  A main thread opens the *)
(* stream, takes commands and goes away; a reader thread blocks in read.   *)
(* What a KISS port does with commands and frames is in KissPort; here it  *)
(* is only whether the threads start, notice and end.                      *)
(*                                                                         *)
(* A definition marked "Fault" is no part of the model: it is a slip the   *)
(* next definition could contain, which the properties must detect.        *)
(***************************************************************************)
EXTENDS Sequences

Tnc == {"tcp", "serial", "ble"}
Terminal == {"telnet", "ssh"}

VARIABLES
  kind,     \* which of the five
  main,     \* what the main thread does
  reader,   \* the reader thread
  stream,   \* "open", or "ended": every read returns at once, writes may fail
  stop,     \* the flag a TNC's reader looks at between two reads
  asked,    \* "nothing", "disconnect", or "dropped": the window let go
  said      \* what the window was told, without frames and data

vars == <<kind, main, reader, stream, stop, asked, said>>

Says(what) == said' = said \o what

-----------------------------------------------------------------------------
(* Opening.                                                                *)

\* A call sign that does not parse, no such host, device, adapter or program.
OpenFails ==
  /\ main = "opening"
  /\ main' = "gone"
  /\ Says(<<"PortError">>)
  /\ UNCHANGED <<kind, reader, stream, stop, asked>>

\* A terminal is its own, only connection.
Greeting == IF kind \in Terminal
            THEN <<"PortConnected", "ConnectionOpened", "Connected">>
            ELSE <<"PortConnected">>

\* send_kiss_params: a TNC that takes no parameters is worth a message only.
ParamsReport == IF kind \in Tnc THEN {<<>>, <<"PortError">>} ELSE {<<>>}

Opens ==
  /\ main = "opening"
  /\ \E report \in ParamsReport : Says(Greeting \o report)
  /\ main' = "looping"
  /\ reader' = "reading"
  /\ UNCHANGED <<kind, stream, stop, asked>>

\* The stream has no second handle for the reader: the port was announced and
\* is given up without a PortDisconnected.
Breaks ==
  /\ main = "opening" /\ kind # "ble"
  /\ \E report \in ParamsReport : Says(Greeting \o report \o <<"PortError">>)
  /\ main' = "gone"
  /\ stream' = "ended"
  /\ UNCHANGED <<kind, reader, stop, asked>>

-----------------------------------------------------------------------------
(* The world: the window, and the other end of the stream.                 *)

Ask(what) ==
  /\ main \in {"opening", "looping"} /\ asked = "nothing"
  /\ asked' = what
  /\ UNCHANGED <<kind, main, reader, stream, stop, said>>

StreamEnds ==
  /\ stream = "open" /\ main # "opening"
  /\ stream' = "ended"
  /\ UNCHANGED <<kind, main, reader, stop, asked, said>>

-----------------------------------------------------------------------------
(* The loops.                                                              *)

\* Fault: nobody watches the Bluetooth link.
LoopEndsUnwatched == asked # "nothing"

\* Disconnect, or an error from a channel that has no sender; for BLE also
\* what the watcher of ble_connect sends.
LoopEnds == asked # "nothing" \/ (kind = "ble" /\ stream = "ended")

\* A write to a stream that ended may fail, and breaks the loop; BleWriter
\* fails once its drain task gave up.
WriteFails == stream = "ended"

\* What the end of the loop does to the stream: a socket is shut down, and a
\* child killed, when that was asked for; a Telnet session whose handle was
\* dropped only breaks.  ble: the runtime goes, with all its tasks.
StreamAfter ==
  IF \/ kind \in {"tcp", "ble"}
     \/ asked = "disconnect" /\ kind \in Terminal
     \/ asked = "dropped" /\ kind = "ssh"
  THEN "ended" ELSE stream

LoopReturns ==
  /\ main = "looping"
  /\ LoopEnds \/ WriteFails
  /\ main' = "leaving"
  /\ stop' = (kind \in Tnc)
  /\ stream' = StreamAfter
  /\ UNCHANGED <<kind, reader, asked, said>>

Farewell == IF kind \in Terminal
            THEN <<"Disconnected", "ConnectionClosed", "PortDisconnected">>
            ELSE <<"PortDisconnected">>

\* ssh waits for its child first.
Leaves ==
  /\ main = "leaving"
  /\ kind = "ssh" => stream = "ended"
  /\ Says(Farewell)
  /\ main' = "joining"
  /\ UNCHANGED <<kind, reader, stream, stop, asked>>

Joins ==
  /\ main = "joining" /\ reader = "done"
  /\ main' = "gone"
  /\ UNCHANGED <<kind, reader, stream, stop, asked, said>>

\* kiss_read_loop, read_loop: a read of a TNC times out and looks at stop.
ReaderReturns ==
  /\ reader = "reading"
  /\ stream = "ended" \/ stop
  /\ reader' = "done"
  /\ UNCHANGED <<kind, main, stream, stop, asked, said>>

-----------------------------------------------------------------------------
Init ==
  /\ kind \in Tnc \cup Terminal
  /\ main = "opening" /\ reader = "none" /\ stream = "open" /\ stop = FALSE
  /\ asked = "nothing" /\ said = <<>>

Threads == LoopReturns \/ Leaves \/ Joins \/ ReaderReturns

Next == \/ OpenFails \/ Opens \/ Breaks
        \/ \E what \in {"disconnect", "dropped"} : Ask(what)
        \/ StreamEnds
        \/ Threads

\* Opening returns in the end, and threads that can go on do.  A write happens
\* only when there is something to send: nothing makes WriteFails due.
Fairness == /\ WF_vars(OpenFails \/ Opens \/ Breaks)
            /\ WF_vars(LoopEnds /\ LoopReturns)
            /\ WF_vars(Leaves) /\ WF_vars(Joins) /\ WF_vars(ReaderReturns)

Spec == Init /\ [][Next]_vars /\ Fairness

-----------------------------------------------------------------------------
(* Properties.                                                             *)

\* The window was told last that the port is down, or that it never was up, or
\* broke while it was opened.
Told ==
  said # <<>> /\ said[Len(said)] = IF reader = "none" THEN "PortError" ELSE "PortDisconnected"

Gone == main = "gone" /\ reader # "reading" /\ Told

\* Every thread of the port ends, and the window is told, when the window
\* disconnects it, when it lets go of it, and when Bluetooth loses the device,
\* whatever the threads are in the middle of: the shutdown of the socket, the
\* stop flag and the killed child are what the blocked reads depend on.  (A
\* Telnet session that was let go of stays blocked until its host hangs up.)
ThreadsEnd ==
  /\ (asked = "disconnect") ~> Gone
  /\ (asked = "dropped" /\ (kind = "telnet" => stream = "ended")) ~> Gone
  /\ (kind = "ble" /\ main = "looping" /\ stream = "ended") ~> Gone
=============================================================================

------------------------------- MODULE Frames -------------------------------
(***************************************************************************)
(* What a KISS port makes of a frame outside any session: the reader       *)
(* thread's handle_kiss_payload, the header and XID code it relies on      *)
(* (pr-ax25/src/wire.rs, xid.rs, netrom.rs) and the command loop's answer  *)
(* to a SABME, an XID and a DISC for a link it has no record of.  Two      *)
(* stations run the same code, and the answer of one is heard by the other. *)
(*                                                                         *)
(* A frame on the air is its address fields, each a call sign with the two *)
(* bits of its last byte, and its content; a field may be one that does    *)
(* not decode, or be cut short by its end bit.  The ax25 crate encodes and *)
(* decodes all frames but SABME and XID (external).                        *)
(*                                                                         *)
(* A definition marked "Fault" is no part of the model: it is a slip the   *)
(* next definition could contain, which the properties must detect.        *)
(***************************************************************************)
EXTENDS Integers, FiniteSetsExt, SequencesExt

CONSTANT MaxHops  \* bound: times a frame and its answers are heard

VARIABLES
  at,        \* the station that hears the frame
  frame,     \* the frame on the air, or NoFrame
  internal,  \* what its reader thread passed to its command loop
  reports,   \* what that reader told the window
  hops       \* frames heard so far

vars == <<at, frame, internal, reports, hops>>

Stations == {"ME", "PEER"}
Peer(s) == CHOOSE t \in Stations : t # s
NoFrame == [fields |-> <<>>, content |-> <<>>]
Nothing == [kind |-> "nothing"]

-----------------------------------------------------------------------------
(* wire.rs.                                                                *)

Field(call, high, last) ==
  [call |-> call, high |-> high, last |-> last, valid |-> TRUE, whole |-> TRUE]

\* The addresses end with the first byte whose low bit is set.
AddressEnd(f) == Min({i \in DOMAIN f.fields : f.fields[i].last})
WholeFields(f) ==
  SubSeq(f.fields, 1, IF f.fields[AddressEnd(f)].whole THEN AddressEnd(f) ELSE AddressEnd(f) - 1)

HasHeader(f) ==
  /\ \E i \in DOMAIN f.fields : f.fields[i].last
  /\ Len(WholeFields(f)) >= 2
  /\ f.content # <<>>
  /\ \A i \in DOMAIN WholeFields(f) : f.fields[i].valid

parse_header(f) ==
  [destination |-> f.fields[1].call, source |-> f.fields[2].call,
   route |-> [i \in 1..Len(WholeFields(f)) - 2 |->
                [repeater |-> f.fields[i + 2].call, has_repeated |-> f.fields[i + 2].high]],
   command_or_response |->
     CASE f.fields[1].high /\ ~f.fields[2].high -> "command"
       [] ~f.fields[1].high /\ f.fields[2].high -> "response"
       [] OTHER                                 -> "none"]

\* The crate's Ax25Frame::to_bytes, and encode_address.
ToBytes(h, content) ==
  [fields |-> <<Field(h.destination, h.command_or_response = "command", FALSE),
                Field(h.source, h.command_or_response = "response", h.route = <<>>)>>
      \o [i \in DOMAIN h.route |->
            Field(h.route[i].repeater, h.route[i].has_repeated, i = Len(h.route))],
   content |-> content]

\* Fault: the path is taken as the request came by it.
reverse_route_Forgotten(route) == route

\* The way back: the same digipeaters in the other order, none used yet.
reverse_route(route) ==
  Reverse([i \in DOMAIN route |-> [route[i] EXCEPT !.has_repeated = FALSE]])

Reply(local, remote, route, content) ==
  ToBytes([destination |-> remote, source |-> local, route |-> reverse_route(route),
           command_or_response |-> "response"], <<content>>)

build_dm(local, remote, route) == Reply(local, remote, route, [kind |-> "DM"])

-----------------------------------------------------------------------------
(* xid.rs.  A parameter is <<identifier, value>>; "unknown" is one whose   *)
(* identifier or length the code skips, "cut" one whose value is missing.  *)

\* encode, our_params: what we advertise whatever was proposed; the window is
\* capped at what modulus 8 has room for.
OurParams(window) ==
  <<<<"classes", {"half"}>>, <<"functions", {"rej"}>>, <<"n1", 2048>>,
    <<"window", IF window < 7 THEN window ELSE 7>>, <<"t1", 4000>>, <<"n2", 10>>>>

\* Parameters are read up to one that is cut short.
Read(params) ==
  IF \E i \in DOMAIN params : params[i][1] = "cut"
  THEN SubSeq(params, 1, SelectInSeq(params, LAMBDA p : p[1] = "cut") - 1)
  ELSE params

Value(params, name, default) ==
  LET given == SelectSeq(Read(params), LAMBDA p : p[1] = name)
  IN  IF given = <<>> THEN default ELSE Last(given)[2]

\* The proposal needs more than modulus 8, REJ and half duplex.
requests_extended(params) ==
  \/ \E p \in Range(Read(params)) :
       \/ p[1] = "classes" /\ p[2] = {"full"}
       \/ p[1] = "functions" /\ p[2] \cap {"srej", "modulo128", "extended"} # {}
  \/ Value(params, "window", 4) > 7

handle_peer_xid(local, remote, route, content) ==
  IF content.envelope = "good" /\ ~requests_extended(content.params)
  THEN Reply(local, remote, route, [kind |-> "XID", envelope |-> "good", params |-> OurParams(8)])
  ELSE build_dm(local, remote, route)

-----------------------------------------------------------------------------
(* netrom.rs.                                                              *)

\* Entries up to a truncated one, less those whose call sign is garbled; no
\* broadcast at all without the signature and the sender's alias.
parse_nodes_broadcast(info) ==
  LET whole == IF "part" \in Range(info.entries)
               THEN SubSeq(info.entries, 1, SelectInSeq(info.entries, LAMBDA e : e = "part") - 1)
               ELSE info.entries
  IN  SelectSeq(whole, LAMBDA e : e # "garbled")

-----------------------------------------------------------------------------
(* kiss_runner.rs: the reader.                                             *)

ArqRelevant == {"I", "RR", "RNR", "REJ", "SABM", "DISC", "DM", "UA", "FRMR"}

Heard(f) == [kind |-> "StationHeard", callsign |-> parse_header(f).source]
Monitor(f, directed) ==
  [kind |-> "Monitor", to |-> IF directed THEN parse_header(f).destination ELSE "none"]
Nodes(f, c) ==
  IF c.kind = "UI" /\ c.netrom /\ parse_header(f).destination = "NODES" /\ c.info.signed
  THEN <<[kind |-> "NodesBroadcast", entries |-> parse_nodes_broadcast(c.info)]>>
  ELSE <<>>

\* SABME and XID are taken apart here because the crate cannot; only an UI
\* frame is a message that may be directed at somebody.
handle_kiss_payload ==
  /\ frame # NoFrame /\ internal = Nothing
  /\ IF HasHeader(frame) /\ frame.content[1].kind # "unknown"
     THEN LET c == frame.content[1]
          IN  /\ reports' = <<Heard(frame)>> \o Nodes(frame, c) \o <<Monitor(frame, c.kind = "UI")>>
              /\ internal' = IF /\ c.kind \in ArqRelevant \cup {"SABME", "XID"}
                                /\ parse_header(frame).destination = at
                             THEN [kind |-> c.kind, header |-> parse_header(frame), content |-> c]
                             ELSE Nothing
     ELSE reports' = <<>> /\ internal' = Nothing
  /\ frame' = NoFrame
  /\ UNCHANGED <<at, hops>>

-----------------------------------------------------------------------------
(* kiss_runner.rs: the command loop, without a session for the sender.     *)

\* Declined with a DM; a SABM is accepted (KissPort) and the rest is ignored.
Declined == {"SABME", "DISC"}

handle_internal_event ==
  /\ internal # Nothing
  /\ LET h == internal.header
     IN  frame' = CASE internal.kind \in Declined -> build_dm(at, h.source, h.route)
                    [] internal.kind = "XID" -> handle_peer_xid(at, h.source, h.route, internal.content)
                    [] OTHER -> NoFrame
  /\ internal' = Nothing
  /\ hops < MaxHops
  /\ at' = IF frame' = NoFrame THEN at ELSE Peer(at)
  /\ hops' = hops + 1
  /\ UNCHANGED reports

-----------------------------------------------------------------------------
(* The frames to start from.                                               *)

Routes == {<<>>} \cup {<<[repeater |-> "D1", has_repeated |-> r]>> : r \in BOOLEAN}
            \cup {<<[repeater |-> "D1", has_repeated |-> TRUE], [repeater |-> "D2", has_repeated |-> r]>> :
                   r \in BOOLEAN}
Params == {<<"classes", c>> : c \in {{"half"}, {"full"}, {"half", "full"}}}
            \cup {<<"functions", f>> : f \in {{"rej"}, {"rej", "srej"}, {"modulo128"}}}
            \cup {<<"window", w>> : w \in {7, 8}} \cup {<<"cut", 0>>, <<"unknown", 0>>}
Xids == [kind : {"XID"}, envelope : {"good"}, params : SeqOf(Params, 2)]
          \cup {[kind |-> "XID", envelope |-> "bad", params |-> <<>>]}
NodesInfos == [signed : BOOLEAN, entries : SeqOf({"N1", "N2", "garbled", "part"}, 2)]
Contents == [kind : {"SABME", "SABM", "DISC", "DM", "UA", "I", "unknown"}] \cup Xids
              \cup [kind : {"UI"}, netrom : BOOLEAN, info : NodesInfos]

Good == {ToBytes([destination |-> d, source |-> "PEER", route |-> r, command_or_response |-> "command"], <<c>>) :
           d \in {"ME", "NODES"}, r \in Routes, c \in Contents}
\* Headers that end nowhere, too early, in the middle of a field, or before
\* the content, and one with a field that is no call sign.
Broken ==
  LET f == ToBytes([destination |-> "ME", source |-> "PEER", route |-> <<>>,
                    command_or_response |-> "command"], <<[kind |-> "SABME"]>>)
  IN  {[f EXCEPT !.fields[2].last = FALSE], [f EXCEPT !.fields[1].last = TRUE],
       [f EXCEPT !.fields[2].whole = FALSE], [f EXCEPT !.fields[2].valid = FALSE],
       [f EXCEPT !.content = <<>>], [f EXCEPT !.fields = <<>>]}

Init ==
  /\ at = "ME" /\ frame \in Good \cup Broken
  /\ internal = Nothing /\ reports = <<>> /\ hops = 0

Next == handle_kiss_payload \/ handle_internal_event

Spec == Init /\ [][Next]_vars

-----------------------------------------------------------------------------
(* Properties.                                                             *)

Answer == frame' # NoFrame
Asked == internal.header

\* What the command loop answers outside a session reaches who asked, and
\* there ends: the answer's header says what the code that built it meant, it
\* goes to the sender by the digipeaters of the request in the other order,
\* none of them used yet; a decline is not answered in turn; and a proposal is
\* agreed to only by a reply the proposer can keep, one that would itself be
\* agreed to.  (An XID reply is taken for a proposal by a station that runs
\* this code, since nothing looks at command_or_response: each side would
\* answer the other for ever.)
AnswersGoBack ==
  [][handle_internal_event /\ Answer =>
       /\ HasHeader(frame')
       /\ LET h == parse_header(frame')
          IN  /\ h.destination = Asked.source /\ h.source = at
              /\ h.command_or_response = "response"
              /\ [i \in DOMAIN h.route |-> h.route[i].repeater]
                   = Reverse([i \in DOMAIN Asked.route |-> Asked.route[i].repeater])
              /\ \A i \in DOMAIN h.route : ~h.route[i].has_repeated
       /\ internal.kind # "DM"
       /\ frame'.content[1].kind = "XID" =>
            /\ ~requests_extended(frame'.content[1].params)
            /\ \A p \in Range(Read(internal.content.params)) :
                 /\ p[1] = "functions" => p[2] \subseteq {"rej"}
                 /\ p[1] = "classes" => "half" \in p[2]]_vars
=============================================================================

------------------------------- MODULE Streams -------------------------------
(***************************************************************************)
(* The three decoders that find their frames in a byte stream, each with   *)
(* the encoding it undoes: KISS (pr-ax25/src/kiss.rs), Telnet negotiation  *)
(* (pr-core/src/transports/telnet.rs) and AGWPE (pr-agwpe/src/codec.rs).   *)
(* A stream is sent once and arrives in chunks of any size.                *)
(*                                                                         *)
(* A byte is one of the bytes a codec gives a meaning to, or a letter.  An *)
(* AGWPE field of n bytes is n places, NUL where it is padded, and the     *)
(* header keeps only its fields: kind, two call signs and the length.      *)
(*                                                                         *)
(* A definition marked "Fault" is no part of the model: it is a slip the   *)
(* next definition could contain, which the properties must detect.        *)
(***************************************************************************)
EXTENDS Integers, SequencesExt

VARIABLES
  codec,   \* "kiss", "telnet" or "agwpe"
  items,   \* what was sent
  rest,    \* the bytes still to arrive
  dec,     \* the decoder
  out      \* what it has yielded

vars == <<codec, items, rest, dec, out>>

-----------------------------------------------------------------------------
(* KISS.  A frame is <<command, payload>>; command 0 is data.              *)

Escape(b) == CASE b = "FEND" -> <<"FESC", "TFEND">>
               [] b = "FESC" -> <<"FESC", "TFESC">>
               [] OTHER      -> <<b>>

encode_frame(cmd, payload) ==
  <<"FEND", cmd>> \o FlattenSeq([i \in DOMAIN payload |-> Escape(payload[i])]) \o <<"FEND">>

KissDecoder == [buf |-> <<>>, in_frame |-> FALSE, escaped |-> FALSE, yields |-> <<>>]

\* A delimiter ends a frame, unless it is empty, and starts the next.
FrameEnd(d) ==
  [buf |-> <<>>, in_frame |-> TRUE, escaped |-> FALSE,
   yields |-> IF d.in_frame /\ d.buf # <<>> THEN <<<<Head(d.buf), Tail(d.buf)>>>> ELSE <<>>]

Pushed(d, b) == [d EXCEPT !.buf = Append(@, b), !.escaped = FALSE]

KissByte(d0, b) ==
  LET d == [d0 EXCEPT !.yields = <<>>]
  IN  IF b = "FEND" THEN FrameEnd(d)
      ELSE IF ~d.in_frame THEN d
      ELSE CASE b = "FESC"               -> [d EXCEPT !.escaped = TRUE]
             [] b = "TFEND" /\ d.escaped -> Pushed(d, "FEND")
             [] b = "TFESC" /\ d.escaped -> Pushed(d, "FESC")
             [] OTHER                    -> Pushed(d, b)

-----------------------------------------------------------------------------
(* Telnet.  What is yielded is a letter for the window or a reply.         *)

Refusal == [WILL |-> "DONT", DO |-> "WONT", WONT |-> "DONT", DONT |-> "WONT"]

TelnetFilter == [state |-> "Data", cmd |-> "none", yields |-> <<>>]

To(state) == [state |-> state, cmd |-> "none", yields |-> <<>>]

\* Fault: an IAC inside a subnegotiation ends it.
AfterSubIacAny(b) == To("Data")

AfterSubIac(b) == To(IF b = "SE" THEN "Data" ELSE "Sub")

AfterIac(b) ==
  CASE b = "IAC"                -> [To("Data") EXCEPT !.yields = <<"IAC">>]
    [] b \in DOMAIN Refusal     -> [To("Neg") EXCEPT !.cmd = b]
    [] b = "SB"                 -> To("Sub")
    [] OTHER                    -> To("Data")

TelnetByte(d, b) ==
  CASE d.state = "Data"   -> IF b = "IAC" THEN To("Iac") ELSE [To("Data") EXCEPT !.yields = <<b>>]
    [] d.state = "Iac"    -> AfterIac(b)
    [] d.state = "Neg"    -> [To("Data") EXCEPT !.yields = <<<<"IAC", Refusal[d.cmd], b>>>>]
    [] d.state = "Sub"    -> To(IF b = "IAC" THEN "SubIac" ELSE "Sub")
    [] d.state = "SubIac" -> AfterSubIac(b)

-----------------------------------------------------------------------------
(* AGWPE.  A frame is its kind, two call signs and its data.               *)

CallFieldLen == 3
HeaderLen == 2 + 2 * CallFieldLen

\* write_padded: a field keeps its last byte for the NUL.
Truncated(call) == SubSeq(call, 1, IF Len(call) < CallFieldLen THEN Len(call) ELSE CallFieldLen - 1)
Padded(call) ==
  [i \in 1..CallFieldLen |-> IF i \in DOMAIN Truncated(call) THEN call[i] ELSE "NUL"]

\* read_padded.
Unpadded(field) ==
  IF "NUL" \in Range(field) THEN SubSeq(field, 1, SelectInSeq(field, LAMBDA b : b = "NUL") - 1)
  ELSE field

\* encode_digi_path: the data of a connect or UNPROTO via digipeaters.
DigiPath(digis) == <<Len(digis)>> \o FlattenSeq([i \in DOMAIN digis |-> Padded(digis[i])])

Encode(f) == <<f.kind>> \o Padded(f.from) \o Padded(f.to) \o <<Len(f.data)>> \o f.data

Complete(buf) == Len(buf) >= HeaderLen /\ Len(buf) >= HeaderLen + buf[HeaderLen]

Upto(s, n) == SubSeq(s, 1, IF Len(s) < n THEN Len(s) ELSE n)

Decode(buf) ==
  [kind |-> buf[1], from |-> Unpadded(SubSeq(buf, 2, 1 + CallFieldLen)),
   to |-> Unpadded(SubSeq(buf, 2 + CallFieldLen, HeaderLen - 1)),
   data |-> Upto(SubSeq(buf, HeaderLen + 1, Len(buf)), buf[HeaderLen])]

\* next_frame: the first frame, if it is complete.
NextFrame(d) ==
  IF ~Complete(d.buf) THEN d
  ELSE [buf |-> SubSeq(d.buf, HeaderLen + d.buf[HeaderLen] + 1, Len(d.buf)),
        yields |-> Append(d.yields, Decode(d.buf))]

\* feed, and next_frame until it has none: a chunk may complete several, though
\* never more than it leaves bytes in the buffer.
AgwFrames(d) == FoldLeft(LAMBDA e, b : NextFrame(e), d, d.buf)

AgwDecoder == [buf |-> <<>>, yields |-> <<>>]

-----------------------------------------------------------------------------
(* What is sent.  kiss: noise, as on a line that is opened in the middle   *)
(* of something, then frames.  telnet: text, offers and subnegotiations.   *)

KissBytes == {"FEND", "FESC", "TFEND", "TFESC", "x"}
Offers == {<<"IAC", c, "o">> : c \in DOMAIN Refusal}
Subnegotiations == {<<"IAC", "SB">> \o s \o <<"IAC", "SE">> :
                      s \in {<<>>, <<"x">>, <<"SE">>, <<"IAC", "IAC">>, <<"IAC", "IAC", "SE">>}}
TelnetItems == {<<"x">>, <<"SE">>, <<"IAC", "IAC">>, <<"IAC", "NOP">>} \cup Offers \cup Subnegotiations
Calls == {<<>>, <<"a">>, <<"a", "b">>, <<"a", "b", "c">>}
AgwItems == [kind : {"D"}, from : Calls, to : {<<"n">>}, data : {<<>>, <<"x", "NUL">>}]
              \cup {[kind |-> "v", from |-> <<"a">>, to |-> <<"n">>, data |-> DigiPath(<<<<"d">>, c>>)] : c \in Calls}

Sent ==
  CASE codec = "kiss"   -> items.noise \o encode_frame("0", items.first) \o encode_frame("0", items.then)
    [] codec = "telnet" -> FlattenSeq(items)
    [] codec = "agwpe"  -> FlattenSeq([i \in DOMAIN items |-> Encode(items[i])])

Init ==
  /\ \/ codec = "kiss" /\ dec = KissDecoder
        /\ items \in [noise : SeqOf(KissBytes, 2), first : SeqOf(KissBytes, 2), then : {<<"FESC">>, <<>>}]
     \/ codec = "telnet" /\ dec = TelnetFilter /\ items \in SeqOf(TelnetItems, 2)
     \/ codec = "agwpe" /\ dec = AgwDecoder /\ items \in [1..2 -> AgwItems]
  /\ rest = Sent
  /\ out = <<>>

\* One read: kiss and telnet look at a byte at a time, so that a chunk is as
\* good as its bytes; agwpe puts the whole chunk into its buffer.
ByteArrives ==
  /\ codec # "agwpe" /\ rest # <<>>
  /\ dec' = IF codec = "kiss" THEN KissByte(dec, Head(rest)) ELSE TelnetByte(dec, Head(rest))
  /\ out' = out \o dec'.yields
  /\ rest' = Tail(rest)
  /\ UNCHANGED <<codec, items>>

ChunkArrives ==
  /\ codec = "agwpe"
  /\ \E n \in {1, 7, 20} :
       /\ n <= Len(rest)
       /\ dec' = AgwFrames([buf |-> dec.buf \o SubSeq(rest, 1, n), yields |-> <<>>])
       /\ rest' = SubSeq(rest, n + 1, Len(rest))
  /\ out' = out \o dec'.yields
  /\ UNCHANGED <<codec, items>>

Next == ByteArrives \/ ChunkArrives

Spec == Init /\ [][Next]_vars

-----------------------------------------------------------------------------
(* Properties.                                                             *)

\* What each item of the stream is to the reader.
TelnetMeaning(item) ==
  CASE item = <<"IAC", "IAC">> -> <<"IAC">>
    [] item \in Offers         -> <<<<"IAC", Refusal[item[2]], item[3]>>>>
    [] Len(item) = 1           -> item
    [] OTHER                   -> <<>>
AgwMeaning(f) == [f EXCEPT !.from = Truncated(@), !.to = Truncated(@)]

KissMeaning == <<<<"0", items.first>>, <<"0", items.then>>>>
Meaning ==
  CASE codec = "telnet" -> FlattenSeq([i \in DOMAIN items |-> TelnetMeaning(items[i])])
    [] codec = "agwpe"  -> [i \in DOMAIN items |-> AgwMeaning(items[i])]

\* However the stream is cut into reads, the decoders yield what was sent, in
\* order, once: KISS after noise that may itself look like one frame, escaped
\* delimiters included; Telnet with every offer refused once and every
\* subnegotiation swallowed whole; AGWPE with the call signs that fit.
StreamsAreUnderstood ==
  IF codec = "kiss"
  THEN rest = <<>> => IsSuffix(KissMeaning, out) /\ Len(out) <= 3
  ELSE IsPrefix(out, Meaning) /\ (rest = <<>> => out = Meaning)
=============================================================================

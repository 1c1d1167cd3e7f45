---------------------------- MODULE MCKissPort ----------------------------
(* Small instances of KissPort for TLC.                                    *)
EXTENDS KissPort

\* "A-0" and "A" are the same station, of which only "A" is ever printed;
\* "?" does not parse.
MCAddressOf == [s \in {"A", "A-0", "B"} |-> IF s = "B" THEN "B" ELSE "A"]

\* Every kind of frame; I frames are numbered 0 and acknowledge all or nothing.
MCHeardFrame ==
       [type : {"I"}, ns : {0}, nr : {0, 1}, pf : {FALSE}, info : {<<1>>}]
  \cup [type : {"RR"}, nr : {0, 1}, pf : {TRUE}]
  \cup [type : {"RNR", "REJ"}, nr : {1}, pf : {FALSE}]
  \cup [type : {"SABM", "DISC", "UA", "DM", "FRMR"}, pf : {TRUE}]

OneByte == {<<1>>}
=============================================================================

----------------------------- MODULE LinkService -----------------------------
(***************************************************************************)
(* What an AX.25 connected-mode link promises its two users, without any   *)
(* frame: each direction is a byte stream.  The bytes a station accepts    *)
(* are numbered 1, 2, ...; some of them start a new stream, because the    *)
(* link was set up or reset since the byte before.  The peer is delivered  *)
(* bytes in that order, each at most once, and skips bytes only to start   *)
(* the next stream: a broken stream loses its tail, never its middle.      *)
(***************************************************************************)
EXTENDS Integers, Sequences

CONSTANTS Station, MaxBytes

VARIABLES
  offered,   \* offered[p]: how many bytes p's link has accepted
  starts,    \* starts[p]: those of them that begin a stream
  delivered  \* delivered[p]: the bytes p's user was given, in order

vars == <<offered, starts, delivered>>

LastOf(seq) == IF seq = <<>> THEN 0 ELSE seq[Len(seq)]

Init ==
  /\ offered = [p \in Station |-> 0]
  /\ starts = [p \in Station |-> {}]
  /\ delivered = [p \in Station |-> <<>>]

Accept(p) ==
  /\ offered[p] < MaxBytes
  /\ offered' = [offered EXCEPT ![p] = @ + 1]
  /\ \/ starts' = [starts EXCEPT ![p] = @ \cup {offered[p] + 1}]
     \/ UNCHANGED starts
  /\ UNCHANGED delivered

Deliver(p, q) ==
  /\ \E b \in (LastOf(delivered[q]) + 1)..offered[p] :
       /\ b = LastOf(delivered[q]) + 1 \/ b \in starts[p]
       /\ delivered' = [delivered EXCEPT ![q] = Append(@, b)]
  /\ UNCHANGED <<offered, starts>>

Next ==
  \E p \in Station : Accept(p) \/ \E q \in Station \ {p} : Deliver(p, q)

Spec == Init /\ [][Next]_vars
=============================================================================

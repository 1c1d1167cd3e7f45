------------------------------- MODULE ArqLink -------------------------------
(***************************************************************************)
(* Two stations running the ARQ state machine of pr-ax25/src/arq.rs        *)
(* against each other over the radio.  Each has at most one session with   *)
(* the other, looked up, minted and dropped the way command_loop and       *)
(* handle_internal_event do (pr-ax25/src/kiss_runner.rs); a Disconnected   *)
(* session stands for none.                                                *)
(*                                                                         *)
(* The radio loses frames.  With Digipeated a station hears both a frame   *)
(* and its retransmission by a digipeater: handle_kiss_payload passes on   *)
(* every copy, since nothing looks at has_repeated.                        *)
(***************************************************************************)
EXTENDS Arq, SequencesExt

CONSTANTS
  Station,    \* the two stations
  Sender,     \* those of them whose users send
  MaxBytes,   \* bound: bytes each of these users sends
  MaxOpens,   \* bound: connects and repeated closes each station's user asks for
  MaxAir,     \* bound: frames under way to a station; more are lost
  PatientT1,  \* TRUE: T1 exceeds the time frames and their answers take
  Digipeated, \* TRUE: every frame may be heard twice
  LinkUp,     \* TRUE: start in the middle of an established link
  FirstSeq    \* with LinkUp: V(S) and V(R) of both stations at the start

ASSUME ArqLinkAssumption ==
  /\ \E p, q \in Station : p # q /\ Station = {p, q}
  /\ Sender \subseteq Station
  /\ Byte = 1..MaxBytes
  /\ {MaxBytes, MaxOpens, MaxAir} \subseteq Nat
  /\ {PatientT1, Digipeated, LinkUp} \subseteq BOOLEAN
  /\ FirstSeq \in SeqNum

VARIABLES
  sess,      \* sess[p]: p's session with its peer
  air,       \* air[p]: frames under way to p, oldest first
  opens,     \* connects p's user asked for so far
  offered,   \* history: bytes p's session accepted
  starts,    \* history: those that were the first after a reset of V(S)
  fresh,     \* history: V(S) was reset and no byte accepted since
  acked,     \* history: bytes p dropped because its peer acknowledged them
  delivered  \* history: bytes p's user was given, in order

vars == <<sess, air, opens, offered, starts, fresh, acked, delivered>>

Peer(p) == CHOOSE q \in Station : q # p

-----------------------------------------------------------------------------

\* remove_if_disconnected: only what is not Disconnected is kept.
Kept(s) == IF s.state = "Disconnected" THEN NewSession ELSE s

\* The frames among the actions, in order.
Aired(acts) ==
  LET aired[i \in 0..Len(acts)] ==
        IF i = 0 THEN <<>>
        ELSE IF acts[i].act = "Transmit"
             THEN Append(aired[i - 1], [frame |-> acts[i].frame, direct |-> TRUE])
             ELSE aired[i - 1]
  IN  aired[Len(acts)]

\* What does not fit is lost.
Carry(queue, copies) ==
  LET all == queue \o copies
  IN  IF Len(all) <= MaxAir THEN all ELSE SubSeq(all, 1, MaxAir)

\* Only on_information hands data over, and once.
Payload(acts) ==
  LET data == {i \in 1..Len(acts) : acts[i].act = "Data"}
  IN  IF data = {} THEN <<>> ELSE acts[CHOOSE i \in data : TRUE].info

InFlight(s) ==
  UNION {Range(s.outstanding[i].info) : i \in 1..Len(s.outstanding)}

\* p's session becomes the result's, whose frames go to the peer after what
\* is left of p's own queue, and whose data goes to p's user.
Do(p, r, queue) ==
  /\ sess' = [sess EXCEPT ![p] = Kept(r.session)]
  /\ air' = [air EXCEPT ![p] = queue,
                        ![Peer(p)] = Carry(@, Aired(r.actions))]
  /\ delivered' = [delivered EXCEPT ![p] = @ \o Payload(r.actions)]

Up == [NewSession EXCEPT !.state = "Connected", !.vs = FirstSeq, !.vr = FirstSeq]

Init ==
  /\ sess = [p \in Station |-> IF LinkUp THEN Up ELSE NewSession]
  /\ air = [p \in Station |-> <<>>]
  /\ opens = [p \in Station |-> 0]
  /\ offered = [p \in Station |-> 0]
  /\ starts = [p \in Station |-> {}]
  /\ fresh = [p \in Station |-> TRUE]
  /\ acked = [p \in Station |-> {}]
  /\ delivered = [p \in Station |-> <<>>]

Connect(p) ==
  /\ sess[p].state = "Disconnected"
  /\ opens[p] < MaxOpens
  /\ opens' = [opens EXCEPT ![p] = @ + 1]
  /\ Do(p, Open(NewSession), air[p])
  /\ fresh' = [fresh EXCEPT ![p] = TRUE]
  /\ UNCHANGED <<offered, starts, acked>>

\* Asked for again while the answer to the DISC is awaited, it starts over.
Disconnect(p) ==
  /\ \/ /\ sess[p].state \in {"Connecting", "Connected"}
        /\ UNCHANGED opens
     \/ /\ sess[p].state = "Disconnecting"
        /\ opens[p] < MaxOpens
        /\ opens' = [opens EXCEPT ![p] = @ + 1]
  /\ Do(p, Close(sess[p]), air[p])
  /\ UNCHANGED <<offered, starts, fresh, acked>>

SendByte(p) ==
  /\ p \in Sender
  /\ sess[p].state = "Connected"
  /\ offered[p] < MaxBytes
  /\ Do(p, Send(sess[p], <<offered[p] + 1>>), air[p])
  /\ offered' = [offered EXCEPT ![p] = @ + 1]
  /\ starts' = [starts EXCEPT ![p] = IF fresh[p] THEN @ \cup {offered[p] + 1} ELSE @]
  /\ fresh' = [fresh EXCEPT ![p] = FALSE]
  /\ UNCHANGED <<opens, acked>>

\* handle_internal_event on a frame from the peer.
Handle(s, f) ==
  CASE s.state # "Disconnected" -> OnFrame(s, f)
    [] s.state = "Disconnected" /\ f.type = "SABM" ->
         AcceptIncoming(NewSession, f.pf)
    [] s.state = "Disconnected" /\ f.type = "DISC" ->
         Result(s, <<Transmit(UFrame("DM", TRUE))>>)
    [] OTHER -> Ignored(s)

\* The oldest frame reaches p.  Its digipeated copy, if it will be heard too,
\* comes after what is under way by then.
Hear(p) ==
  /\ air[p] # <<>>
  /\ LET f == Head(air[p]).frame
         r == Handle(sess[p], f)
         again == <<[frame |-> f, direct |-> FALSE]>>
     IN  /\ \/ Do(p, r, Tail(air[p]))
            \/ /\ Digipeated /\ Head(air[p]).direct
               /\ Do(p, r, Carry(Tail(air[p]), again))
         /\ fresh' = [fresh EXCEPT ![p] = @ \/ f.type = "SABM"]
         /\ acked' = [acked EXCEPT ![p] =
              IF f.type \in {"I", "RR", "RNR", "REJ"}
              THEN @ \cup (InFlight(sess[p]) \ InFlight(r.session)) ELSE @]
  /\ UNCHANGED <<opens, offered, starts>>

Lose(p) ==
  /\ air[p] # <<>>
  /\ air' = [air EXCEPT ![p] = Tail(@)]
  /\ UNCHANGED <<sess, opens, offered, starts, fresh, acked, delivered>>

\* A patient T1 expires only when no frame that could answer is under way.
Timeout(p) ==
  /\ sess[p].t1
  /\ PatientT1 => \A q \in Station : air[q] = <<>>
  /\ Do(p, T1Expires(sess[p]), air[p])
  /\ UNCHANGED <<opens, offered, starts, fresh, acked>>

Next ==
  \E p \in Station :
    Connect(p) \/ Disconnect(p) \/ SendByte(p) \/ Hear(p) \/ Lose(p) \/ Timeout(p)

Spec == Init /\ [][Next]_vars

\* Both command loops keep running: a frame that was heard is handled and an
\* expired timer is noticed.  Users and the radio owe nothing.
FairSpec ==
  Spec /\ \A p \in Station : WF_vars(Hear(p)) /\ WF_vars(Timeout(p))

-----------------------------------------------------------------------------

\* ack_up_to's comment (arq.rs:423-424) takes N(R) to mean "I have everything
\* up to but not including this": whatever a station drops on the strength of
\* an acknowledgement, its peer's user has been given.
AckedWasReceived ==
  \A p \in Station : acked[p] \subseteq Range(delivered[Peer(p)])

Service == INSTANCE LinkService

\* The two sessions implement the link service: in order, without duplicates,
\* and without a gap inside a stream.
ImplementsLinkService == Service!Spec

BothUpAndQuiet ==
  \A p \in Station : sess[p].state = "Connected" /\ air[p] = <<>>

\* What p may still send its peer next: a frame it holds, or a new one.
NextFrom(p) == {sess[p].vs} \cup {f.seq : f \in Range(sess[p].outstanding)}

\* While both ends are connected over a quiet channel they agree: what one
\* expects next is a frame the other still holds or would number next, so no
\* order of resets, timeouts and losses leaves a link that is up at both ends
\* and can only reject (on_sabm, arq.rs:314, resets one end alone).
EndsAgreeWhenQuiet ==
  BothUpAndQuiet => \A p \in Station : sess[Peer(p)].vr \in NextFrom(p)

\* Once the radio stops losing frames no station waits for an answer forever:
\* a connect or disconnect is answered or given up, data is acknowledged or its
\* link torn down.  (A radio that loses the same frame of every window forever
\* keeps a link waiting forever: the REJ for the next frame resets the count.)
RadioRecovers == <>[][\A p \in Station : ~Lose(p)]_vars

WaitsEnd == RadioRecovers => \A p \in Station : sess[p].t1 ~> ~sess[p].t1
=============================================================================

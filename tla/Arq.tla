-------------------------------- MODULE Arq --------------------------------
(***************************************************************************)
(* The modulus-8 AX.25 connected-mode state machine of                     *)
(* pr-ax25/src/arq.rs.  As in the code it is pure: every operation of      *)
(* ArqSession is an operator from a session (and an input) to a Result,    *)
(* the session afterwards and the list of Actions the caller must apply.   *)
(*                                                                         *)
(* Abstractions.  The addresses and the digipeater route of a session never *)
(* change and are left out.  T1 is a Boolean, armed or not: a duration is  *)
(* never compared with another one, so an armed timer may expire at any    *)
(* tick.  A frame keeps its type, sequence numbers, P/F bit and payload.   *)
(*                                                                         *)
(* A definition marked "Fault" is no part of the model: it is a slip the   *)
(* next definition could contain, which the properties must detect.        *)
(***************************************************************************)
EXTENDS Integers, Sequences

CONSTANTS
  Byte,    \* the values of an application byte
  Window,  \* k, the largest number of unacknowledged I frames
  N2,      \* T1 expiries tolerated before giving up
  N1       \* largest I-frame payload, in bytes (paclen)

\* arq_config_from clamps the window to 1..7 and N1 to at least 1.
ASSUME ArqConfigAssumption ==
  /\ Window \in 1..7
  /\ N2 \in Nat
  /\ N1 \in Nat \ {0}

-----------------------------------------------------------------------------
(* Data types.                                                             *)

ConnState == {"Connecting", "Connected", "Disconnecting", "Disconnected"}

SeqNum == 0..7

\* Fault: the modulus is forgotten.
SeqAddUnbounded(a, b) == a + b

SeqAdd(a, b) == (a + b) % 8

PendingIFrame == [seq : SeqNum, info : Seq(Byte)]

Session ==
  [ state       : ConnState,
    vs          : SeqNum,
    vr          : SeqNum,
    outstanding : Seq(PendingIFrame),
    backlog     : Seq(Seq(Byte)),
    retry_count : Nat,
    t1          : BOOLEAN,
    peer_busy   : BOOLEAN ]

IFrame(ns, nr, poll, info) ==
  [type |-> "I", ns |-> ns, nr |-> nr, pf |-> poll, info |-> info]
SFrame(kind, nr, pf) == [type |-> kind, nr |-> nr, pf |-> pf]
UFrame(kind, pf)     == [type |-> kind, pf |-> pf]

FrameCarrying(infos) ==
       [type : {"I"}, ns : SeqNum, nr : SeqNum, pf : BOOLEAN, info : infos]
  \cup [type : {"RR", "RNR", "REJ"}, nr : SeqNum, pf : BOOLEAN]
  \cup [type : {"SABM", "DISC", "UA", "DM", "FRMR"}, pf : BOOLEAN]

Frame == FrameCarrying(Seq(Byte))

\* The Actions an operation hands back to its caller.
Transmit(frame)   == [act |-> "Transmit", frame |-> frame]
Data(info)        == [act |-> "Data", info |-> info]
StateChanged(st)  == [act |-> "StateChanged", state |-> st]
Monitor           == [act |-> "Monitor"]
Closed            == [act |-> "Closed"]

Action ==
       [act : {"Transmit"}, frame : Frame]
  \cup [act : {"Data"}, info : Seq(Byte)]
  \cup [act : {"StateChanged"}, state : ConnState]
  \cup [act : {"Monitor", "Closed"}]

Result(s, actions) == [session |-> s, actions |-> actions]
Ignored(s)         == Result(s, <<>>)

NewSession ==
  [ state |-> "Disconnected", vs |-> 0, vr |-> 0, outstanding |-> <<>>,
    backlog |-> <<>>, retry_count |-> 0, t1 |-> FALSE, peer_busy |-> FALSE ]

-----------------------------------------------------------------------------
(* The helpers every handler is built from.                                *)

\* Fault: a reset forgets V(S), or the frames already sent.
ResetKeepingVs(s) == [NewSession EXCEPT !.state = s.state, !.vs = s.vs]
ResetKeepingOutstanding(s) ==
  [NewSession EXCEPT !.state = s.state, !.outstanding = s.outstanding,
                     !.t1 = s.outstanding # <<>>]

\* Everything but the state.
ResetSequenceState(s) == [NewSession EXCEPT !.state = s.state]

\* N(R) of an I frame is V(R) when it is built, also when it is a resend.
BuildIFrame(s, p, poll) == Transmit(IFrame(p.seq, s.vr, poll, p.info))
RR(s, final)            == Transmit(SFrame("RR", s.vr, final))
REJ(s)                  == Transmit(SFrame("REJ", s.vr, FALSE))

\* Fault: the bound of the window is off by one.
RoomForOneMore(s) ==
  IF s.peer_busy \/ Len(s.outstanding) > Window THEN 0
  ELSE IF Len(s.backlog) <= Window + 1 - Len(s.outstanding) THEN Len(s.backlog)
  ELSE Window + 1 - Len(s.outstanding)

\* How many backlog chunks the window takes now.
Room(s) ==
  IF s.peer_busy \/ Len(s.outstanding) >= Window THEN 0
  ELSE IF Len(s.backlog) <= Window - Len(s.outstanding) THEN Len(s.backlog)
  ELSE Window - Len(s.outstanding)

PushBacklogIntoWindow(s) ==
  LET n   == Room(s)
      new == [i \in 1..n |-> [seq |-> SeqAdd(s.vs, i - 1), info |-> s.backlog[i]]]
  IN  Result([ s EXCEPT !.vs          = SeqAdd(s.vs, n),
                        !.outstanding = s.outstanding \o new,
                        !.backlog     = SubSeq(s.backlog, n + 1, Len(s.backlog)),
                        !.t1          = s.t1 \/ n > 0 ],
             [i \in 1..n |-> BuildIFrame(s, new[i], FALSE)])

\* Fault: the frame numbered nr is popped too.
StillUnackedPastNr(outstanding, nr) ==
  LET hits == {i \in 1..Len(outstanding) : outstanding[i].seq = nr}
  IN  IF hits = {} THEN <<>>
      ELSE SubSeq(outstanding, 1 + CHOOSE i \in hits : \A j \in hits : i <= j,
                  Len(outstanding))

\* The frames that stay outstanding after the front is popped until a frame
\* numbered nr is at the front: every frame goes when no frame has that number.
StillUnacked(outstanding, nr) ==
  LET hits == {i \in 1..Len(outstanding) : outstanding[i].seq = nr}
  IN  IF hits = {} THEN <<>>
      ELSE SubSeq(outstanding, CHOOSE i \in hits : \A j \in hits : i <= j,
                  Len(outstanding))

\* Fault: T1 keeps running when nothing is left, or the window stays unfilled.
AckUpToKeepingT1(s, nr) ==
  PushBacklogIntoWindow([ s EXCEPT !.outstanding = StillUnacked(@, nr),
                                   !.retry_count = 0 ])
AckUpToWithoutRefill(s, nr) ==
  LET left == StillUnacked(s.outstanding, nr)
  IN  Ignored([ s EXCEPT !.outstanding = left, !.retry_count = 0,
                         !.t1 = left # <<>> ])

AckUpTo(s, nr) ==
  LET left == StillUnacked(s.outstanding, nr)
  IN  PushBacklogIntoWindow([ s EXCEPT !.outstanding = left,
                                       !.retry_count = 0,
                                       !.t1 = left # <<>> ])

RetransmitOutstanding(s, pollLast) ==
  [i \in 1..Len(s.outstanding) |->
     BuildIFrame(s, s.outstanding[i], pollLast /\ i = Len(s.outstanding))]

\* Chunks of at most N1 bytes, none for an empty message.
Fragment(bytes) ==
  [i \in 1..((Len(bytes) + N1 - 1) \div N1) |->
     SubSeq(bytes, (i - 1) * N1 + 1,
            IF i * N1 <= Len(bytes) THEN i * N1 ELSE Len(bytes))]

\* What on_dm, on_frmr and give_up leave behind.
TornDown(s) ==
  [ s EXCEPT !.state = "Disconnected", !.outstanding = <<>>, !.backlog = <<>>,
             !.t1 = FALSE, !.retry_count = 0 ]

-----------------------------------------------------------------------------
(* Requests of the application.                                            *)

Open(s) ==
  IF s.state # "Disconnected" THEN Ignored(s)
  ELSE Result([ResetSequenceState(s) EXCEPT !.state = "Connecting", !.t1 = TRUE],
              <<Transmit(UFrame("SABM", TRUE)), StateChanged("Connecting")>>)

AcceptIncoming(s, poll) ==
  Result([ResetSequenceState(s) EXCEPT !.state = "Connected"],
         <<Transmit(UFrame("UA", poll)), StateChanged("Connected")>>)

Close(s) ==
  IF s.state = "Disconnected" THEN Ignored(s)
  ELSE Result([ s EXCEPT !.state = "Disconnecting", !.outstanding = <<>>,
                         !.backlog = <<>>, !.t1 = TRUE, !.retry_count = 0 ],
              <<Transmit(UFrame("DISC", TRUE)), StateChanged("Disconnecting")>>)

Send(s, bytes) ==
  IF s.state # "Connected" THEN Ignored(s)
  ELSE PushBacklogIntoWindow([s EXCEPT !.backlog = @ \o Fragment(bytes)])

-----------------------------------------------------------------------------
(* Frames from the peer.                                                   *)

\* Answers a poll after the Actions of r: on_rr, on_rnr and on_reject.
FinalIfPolled(r, f) ==
  IF f.pf THEN Result(r.session, Append(r.actions, RR(r.session, TRUE))) ELSE r

\* Fault: any N(S) will do, or N(S) is compared after V(R) was advanced.
AnySequence(s, f)  == TRUE
LateSequence(s, f) == f.ns = SeqAdd(s.vr, 1)

InSequence(s, f) == f.ns = s.vr

OnInformation(s, f) ==
  IF s.state # "Connected"
  THEN Result(s, <<Transmit(UFrame("FRMR", FALSE))>>)
  ELSE LET r == AckUpTo(s, f.nr)
           t == [r.session EXCEPT !.vr = SeqAdd(@, 1)]
       IN  IF InSequence(s, f)
           THEN Result(t, r.actions \o <<Data(f.info), RR(t, FALSE)>>)
           ELSE Result(r.session, Append(r.actions, REJ(r.session)))

OnRr(s, f) ==
  IF s.state # "Connected" THEN Ignored(s)
  ELSE FinalIfPolled(AckUpTo([s EXCEPT !.peer_busy = FALSE], f.nr), f)

OnRnr(s, f) ==
  IF s.state # "Connected" THEN Ignored(s)
  ELSE FinalIfPolled(AckUpTo([s EXCEPT !.peer_busy = TRUE], f.nr), f)

\* Fault: the window is sent again before N(R) is looked at.
OnRejectResendingFirst(s, f) ==
  IF s.state # "Connected" THEN Ignored(s)
  ELSE LET r == AckUpTo([s EXCEPT !.peer_busy = FALSE], f.nr)
       IN  Result(r.session, RetransmitOutstanding(s, FALSE) \o r.actions)

OnReject(s, f) ==
  IF s.state # "Connected" THEN Ignored(s)
  ELSE LET r == AckUpTo([s EXCEPT !.peer_busy = FALSE], f.nr)
       IN  FinalIfPolled(
             Result(r.session,
                    r.actions \o RetransmitOutstanding(r.session, FALSE)), f)

\* Fault: a SABM on a link that is up is taken for a repeated connect.
OnSabmWithoutReset(s, f) ==
  Result(IF s.state = "Connected" THEN s
         ELSE [ResetSequenceState(s) EXCEPT !.state = "Connected"],
         << Transmit(UFrame("UA", f.pf)),
            IF s.state = "Connected" THEN Monitor ELSE StateChanged("Connected") >>)

OnSabm(s, f) ==
  Result([ResetSequenceState(s) EXCEPT !.state = "Connected"],
         << Transmit(UFrame("UA", f.pf)),
            IF s.state = "Connected" THEN Monitor ELSE StateChanged("Connected") >>)

Teardown == <<StateChanged("Disconnected"), Closed>>

\* Fault: the UI is not told.
OnDiscUnreported(s, f) ==
  Result(TornDown(s), <<Transmit(UFrame("UA", f.pf))>>)

\* Unlike on_dm and on_frmr, on_disc leaves retry_count alone.
OnDisc(s, f) ==
  Result([ s EXCEPT !.state = "Disconnected", !.outstanding = <<>>,
                    !.backlog = <<>>, !.t1 = FALSE ],
         <<Transmit(UFrame("UA", f.pf))>> \o
           (IF s.state = "Disconnected" THEN <<>> ELSE Teardown))

OnUa(s) ==
  CASE s.state = "Connecting" ->
         LET r == PushBacklogIntoWindow(
                    [s EXCEPT !.state = "Connected", !.retry_count = 0, !.t1 = FALSE])
         IN  Result(r.session, <<StateChanged("Connected")>> \o r.actions)
    [] s.state = "Disconnecting" ->
         Result([s EXCEPT !.state = "Disconnected", !.t1 = FALSE, !.retry_count = 0],
                Teardown)
    [] OTHER -> Ignored(s)

OnDm(s) ==
  Result(TornDown(s), IF s.state = "Disconnected" THEN <<>> ELSE <<Monitor>> \o Teardown)

\* Fault: the change of state is reported, the end of the connection is not.
OnFrmrWithoutClosed(s) ==
  Result(TornDown(s), IF s.state = "Disconnected" THEN <<>>
                      ELSE <<Monitor, StateChanged("Disconnected")>>)

\* No recovery from a reported protocol error: the same as a DM.
OnFrmr(s) ==
  Result(TornDown(s), IF s.state = "Disconnected" THEN <<>> ELSE <<Monitor>> \o Teardown)

OnFrame(s, f) ==
  CASE f.type = "I"    -> OnInformation(s, f)
    [] f.type = "RR"   -> OnRr(s, f)
    [] f.type = "RNR"  -> OnRnr(s, f)
    [] f.type = "REJ"  -> OnReject(s, f)
    [] f.type = "SABM" -> OnSabm(s, f)
    [] f.type = "DISC" -> OnDisc(s, f)
    [] f.type = "UA"   -> OnUa(s)
    [] f.type = "DM"   -> OnDm(s)
    [] f.type = "FRMR" -> OnFrmr(s)

-----------------------------------------------------------------------------
(* The T1 timer.                                                           *)

GiveUp(s) ==
  Result(TornDown(s), <<Monitor>> \o (IF s.state = "Disconnected" THEN <<>> ELSE Teardown))

\* Fault: retries are not counted.
T1ExpiresUncounted(s) ==
  CASE s.state = "Connecting"    -> Result(s, <<Transmit(UFrame("SABM", TRUE))>>)
    [] s.state = "Disconnecting" -> Result(s, <<Transmit(UFrame("DISC", TRUE))>>)
    [] OTHER                     -> Result(s, RetransmitOutstanding(s, TRUE))

\* tick once the deadline has passed.
T1Expires(s) ==
  LET retried == [s EXCEPT !.retry_count = @ + 1]
  IN  CASE ~s.t1 -> Ignored(s)
        [] s.t1 /\ retried.retry_count > N2 -> GiveUp(retried)
        [] OTHER ->
             CASE s.state = "Connecting" ->
                    Result(retried, <<Transmit(UFrame("SABM", TRUE))>>)
               [] s.state = "Disconnecting" ->
                    Result(retried, <<Transmit(UFrame("DISC", TRUE))>>)
               [] s.state = "Connected" /\ s.outstanding # <<>> ->
                    Result(retried, RetransmitOutstanding(retried, TRUE))
               [] s.state = "Connected" /\ s.outstanding = <<>> ->
                    Ignored([s EXCEPT !.t1 = FALSE, !.retry_count = 0])
               [] s.state = "Disconnected" -> Ignored(retried)

-----------------------------------------------------------------------------
(* What every operation keeps true of a session.                           *)

WindowConsistent(s) ==
  /\ Len(s.outstanding) <= Window
  /\ \A i \in 1..Len(s.outstanding) :
       SeqAdd(s.outstanding[i].seq, Len(s.outstanding) - i + 1) = s.vs

TimerConsistent(s) ==
  s.t1 <=> \/ s.state \in {"Connecting", "Disconnecting"}
           \/ s.outstanding # <<>>

QueuesOnlyWhileConnected(s) ==
  s.state # "Connected" => s.outstanding = <<>> /\ s.backlog = <<>>

BacklogWaitsForRoom(s) ==
  s.backlog # <<>> => s.peer_busy \/ Len(s.outstanding) = Window
=============================================================================

--------------------------- MODULE ArqSession_proofs ---------------------------
(***************************************************************************)
(* The invariants of ArqSession, for every value of the constants.         *)
(*                                                                         *)
(* None of them is inductive alone: that T1 runs while something is        *)
(* outstanding rests on what PushBacklogIntoWindow appends, that on the    *)
(* window being contiguous, and giving up on the retry count.  Inv is      *)
(* their conjunction.  Each operation is treated by its lemma in           *)
(* Arq_proofs, and what is left here is the driver around it.              *)
(***************************************************************************)
EXTENDS ArqSession, Arq_proofs

Inv ==
  /\ Consistent(sess)
  /\ actions \in Seq(Action)
  /\ reported = sess.state
  /\ accepted \in Seq(Seq(Byte))

-----------------------------------------------------------------------------
(* One operation.                                                          *)

\* The UI's last report is the session's state if it was before a sound
\* operation.
LEMMA LastReportIsActual ==
  ASSUME NEW r, NEW before, Truthful(r, before)
  PROVE  LastReport(r.actions, before) = r.session.state
<1> DEFINE changes == {i \in DOMAIN r.actions : r.actions[i].act = "StateChanged"}
           last == CHOOSE i \in changes : \A j \in changes : j <= i
<1>1. changes = Changes(r.actions)
  BY DEF Changes
<1>2. LastReport(r.actions, before)
        = IF changes = {} THEN before ELSE r.actions[last].state
  BY DEF LastReport
<1>3. CASE changes = {}
  BY <1>1, <1>2, <1>3 DEF Truthful
<1>4. CASE changes # {}
  <2>1. PICK i \in DOMAIN r.actions :
          changes = {i} /\ r.actions[i].state = r.session.state
    BY <1>1, <1>4 DEF Truthful
  <2>2. i \in Nat
    BY <2>1, LenProperties DEF Truthful
  <2>3. last = i
    BY <2>1, <2>2
  <2> QED
    BY <1>2, <1>4, <2>1, <2>3
<1> QED
  BY <1>3, <1>4

\* What ClosedExactlyAtTheEnd says of one step.
ClosedStep ==
  HasClosed(actions') <=> /\ sess.state # "Disconnected"
                          /\ sess'.state = "Disconnected"

\* Applying a sound result keeps the session's part of the invariant.
LEMMA ApplyKeepsInv ==
  ASSUME Inv, NEW r, Sound(r, sess.state), Apply(r)
  PROVE  /\ Consistent(sess')
         /\ actions' \in Seq(Action)
         /\ reported' = sess'.state
         /\ ClosedStep
<1>1. Consistent(sess') /\ actions' \in Seq(Action)
  BY DEF Apply, Sound, Truthful
<1>2. reported' = sess'.state
  BY LastReportIsActual DEF Inv, Apply, Sound
<1>3. HasClosed(actions') <=> SaysClosed(actions')
  BY DEF HasClosed, SaysClosed, Range
<1>4. ClosedStep
  BY <1>3 DEF ClosedStep, Apply, Sound, Truthful
<1> QED
  BY <1>1, <1>2, <1>4

-----------------------------------------------------------------------------
(* The invariant.                                                          *)

\* The invariant holds at the start.
LEMMA InitInv == Init => Inv
BY NewSessionIsConsistent, NewSessionFields, EmptySeq DEF Init, Inv

\* Every step keeps the invariant, and closes the connection as it should.
LEMMA NextKeepsInv ==
  ASSUME Inv, Next
  PROVE  Inv' /\ ClosedStep
<1>1. /\ sess \in Session /\ sess.state \in ConnState
      /\ accepted \in Seq(Seq(Byte))
  BY SessionParts DEF Inv, Consistent
<1>2. <<>> \in Seq(Seq(Byte))
  BY EmptySeq
<1>3. CASE OpenConnection
  <2>1. Sound(Open(NewSession), sess.state)
    BY <1>3, NewSessionIsConsistent, NewSessionFields, OpenIsSound DEF OpenConnection
  <2> QED
    BY <1>2, <1>3, <2>1, ApplyKeepsInv DEF OpenConnection, Inv
<1>4. ASSUME NEW poll \in BOOLEAN, AcceptConnection(poll)
      PROVE  Inv' /\ ClosedStep
  <2>1. Sound(AcceptIncoming(NewSession, poll), sess.state)
    BY NewSessionFields, AcceptIncomingIsSound
  <2> QED
    BY <1>2, <1>4, <2>1, ApplyKeepsInv DEF AcceptConnection, Inv
<1>5. CASE CloseConnection
  <2>1. Sound(Close(sess), sess.state)
    BY CloseIsSound DEF Inv
  <2> QED
    BY <1>2, <1>5, <2>1, ApplyKeepsInv DEF CloseConnection, Inv
<1>6. ASSUME NEW bytes \in Message, SendBytes(bytes)
      PROVE  Inv' /\ ClosedStep
  <2>1. bytes \in Seq(Byte)
    BY ArqSessionAssumption
  <2>2. Sound(Send(sess, bytes), sess.state)
    BY <2>1, SendIsSound DEF Inv
  <2>3. accepted \o Fragment(bytes) \in Seq(Seq(Byte))
    BY <1>1, <2>1, FragmentType, ConcatProperties
  <2>4. accepted' \in Seq(Seq(Byte))
    BY <1>1, <1>6, <2>3 DEF SendBytes
  <2> QED
    BY <1>6, <2>2, <2>4, ApplyKeepsInv DEF SendBytes, Inv
<1>7. ASSUME NEW f \in PeerFrame, Receive(f)
      PROVE  Inv' /\ ClosedStep
  <2>1. f \in Frame
    BY ArqSessionAssumption DEF PeerFrame, Frame, FrameCarrying
  <2>2. Sound(OnFrame(sess, f), sess.state)
    BY <2>1, OnFrameIsSound DEF Inv
  <2>3. accepted' \in Seq(Seq(Byte))
    BY <1>1, <1>2, <1>7 DEF Receive
  <2> QED
    BY <1>7, <2>2, <2>3, ApplyKeepsInv DEF Receive, Inv
<1>8. CASE Tick
  <2>1. Sound(T1Expires(sess), sess.state)
    BY T1ExpiresIsSound DEF Inv
  <2>2. accepted' \in Seq(Seq(Byte))
    BY <1>1, <1>2, <1>8 DEF Tick
  <2> QED
    BY <1>8, <2>1, <2>2, ApplyKeepsInv DEF Tick, Inv
<1> QED
  BY <1>3, <1>4, <1>5, <1>6, <1>7, <1>8 DEF Next

\* Inv is an inductive invariant.
THEOREM Invariance == Spec => []Inv
<1>1. Inv /\ [Next]_vars => Inv'
  <2>1. ASSUME Inv, UNCHANGED vars PROVE Inv'
    BY <2>1 DEF Inv, vars, Consistent, WindowConsistent, TimerConsistent,
                BacklogWaitsForRoom, QueuesOnlyWhileConnected
  <2> QED
    BY <2>1, NextKeepsInv
<1> QED
  BY <1>1, InitInv, PTL DEF Spec

-----------------------------------------------------------------------------
(* What the runs of ArqSession check.                                      *)

\* Every variable has its type, and retry_count never exceeds N2 (tick,
\* arq.rs:209-220).
THEOREM TypeCorrect == Spec => []TypeOK
<1>1. Inv => TypeOK
  <2> SUFFICES ASSUME Inv PROVE TypeOK
    OBVIOUS
  <2>1. sess \in Session /\ sess.retry_count \in Nat /\ sess.state \in ConnState
    BY SessionParts DEF Inv, Consistent
  <2>2. sess.retry_count \in 0..N2
    BY <2>1, ArqConfigAssumption DEF Inv, Consistent
  <2> QED
    BY <2>1, <2>2 DEF Inv, TypeOK
<1> QED
  BY <1>1, Invariance, PTL

\* The outstanding frames are numbered consecutively up to V(S) - 1 and never
\* exceed the window, whatever window of 1..7 is configured (arq.rs:427-460).
THEOREM WindowStaysContiguous == Spec => []WindowIsContiguous
<1>1. Inv => WindowIsContiguous
  BY DEF Inv, Consistent, WindowIsContiguous
<1> QED
  BY <1>1, Invariance, PTL

\* T1 is armed exactly while an answer is awaited: no operation of arq.rs
\* leaves a wait without a timer, or a timer without a wait.
THEOREM TimerRunsExactlyWhileWaiting == Spec => []TimerRunsWhileWaiting
<1>1. Inv => TimerRunsWhileWaiting
  BY DEF Inv, Consistent, TimerRunsWhileWaiting
<1> QED
  BY <1>1, Invariance, PTL

\* Data stays in the backlog only for want of room or because of a busy peer
\* (push_backlog_into_window, arq.rs:443-460, is called wherever it must be).
THEOREM NoBacklogIsStranded == Spec => []NoStrandedBacklog
<1>1. Inv => NoStrandedBacklog
  BY DEF Inv, Consistent, NoStrandedBacklog
<1> QED
  BY <1>1, Invariance, PTL

\* The UI's last ConnState event is always the session's state.
THEOREM UiIsToldTheTruth == Spec => []ReportedStateIsActual
<1>1. Inv => ReportedStateIsActual
  BY DEF Inv, ReportedStateIsActual
<1> QED
  BY <1>1, Invariance, PTL

\* A link's end is reported by the step that ends it, and by no other step.
THEOREM LinksCloseOnce == Spec => ClosedExactlyAtTheEnd
<1>1. Inv /\ [Next]_vars => [ClosedStep]_vars
  BY NextKeepsInv
<1>2. ClosedExactlyAtTheEnd <=> [][ClosedStep]_vars
  BY DEF ClosedExactlyAtTheEnd, ClosedStep
<1> QED
  BY <1>1, <1>2, Invariance, PTL DEF Spec

-----------------------------------------------------------------------------
(* What a session puts on the air it can put on the air again: each        *)
(* operation either transmits what push_backlog_into_window has just       *)
(* appended to the window, or sends the window again, and what it does     *)
(* besides leaves the window alone.  From the invariant it needs that the  *)
(* window is not too long to be refilled.                                  *)

Aired(a) == a.act = "Transmit" /\ a.frame.type = "I"

\* Whatever a airs is outstanding in s.
Again(s, a) ==
  Aired(a) => \E p \in Range(s.outstanding) : p.seq = a.frame.ns /\ p.info = a.frame.info

\* An operation retains what it airs.
Retains(r) == \A i \in DOMAIN r.actions : Again(r.session, r.actions[i])

-----------------------------------------------------------------------------
(* Actions.                                                                *)

\* All but I frames are not aired.
LEMMA UnairedActions ==
  /\ \A s, pf : ~Aired(RR(s, pf)) /\ ~Aired(REJ(s))
  /\ \A kind \in {"SABM", "DISC", "UA", "DM", "FRMR"} : \A pf :
       ~Aired(Transmit(UFrame(kind, pf)))
  /\ \A st : ~Aired(StateChanged(st))
  /\ \A info : ~Aired(Data(info))
  /\ ~Aired(Monitor) /\ ~Aired(Closed)
BY DEF Aired, RR, REJ, Transmit, SFrame, UFrame, StateChanged, Data, Monitor, Closed

\* What airs nothing retains it.
LEMMA SilenceRetains ==
  ASSUME NEW s, NEW a, NEW b, NEW c, ~Aired(a), ~Aired(b), ~Aired(c)
  PROVE  /\ Retains(Ignored(s))
         /\ Retains(Result(s, <<a>>))
         /\ Retains(Result(s, <<a, b>>))
         /\ Retains(Result(s, <<a, b, c>>))
<1>1. \A x \in {a, b, c} : Again(s, x)
  BY DEF Again
<1>2. Retains(Ignored(s))
  BY DEF Retains, Ignored, Result
<1>3. Retains(Result(s, <<a>>))
  BY <1>1 DEF Retains, Result
<1>4. Retains(Result(s, <<a, b>>))
  BY <1>1 DEF Retains, Result
<1>5. Retains(Result(s, <<a, b, c>>))
  BY <1>1 DEF Retains, Result
<1> QED
  BY <1>2, <1>3, <1>4, <1>5

\* So does one action that is not aired.
LEMMA OneRetains ==
  ASSUME NEW s, NEW a, ~Aired(a)
  PROVE  Retains(Result(s, <<a>>))
BY SilenceRetains

\* Two lists of actions, one after the other.
LEMMA JoinRetains ==
  ASSUME NEW s, NEW acts \in Seq(Action), NEW more \in Seq(Action),
         Retains(Result(s, acts)), Retains(Result(s, more))
  PROVE  Retains(Result(s, acts \o more))
<1> DEFINE all == acts \o more
<1>1. /\ \A i \in DOMAIN acts : Again(s, acts[i])
      /\ \A i \in DOMAIN more : Again(s, more[i])
  BY DEF Retains, Result
<1>2. /\ all \in Seq(Action) /\ Len(all) = Len(acts) + Len(more)
      /\ \A i \in 1..(Len(acts) + Len(more)) :
           all[i] = IF i <= Len(acts) THEN acts[i] ELSE more[i - Len(acts)]
  BY ConcatProperties
<1>3. /\ Len(acts) \in Nat /\ Len(more) \in Nat
      /\ DOMAIN acts = 1..Len(acts) /\ DOMAIN more = 1..Len(more)
      /\ DOMAIN all = 1..(Len(acts) + Len(more))
  BY <1>2, LenProperties
<1> HIDE DEF all
<1>4. ASSUME NEW i \in DOMAIN all
      PROVE  Again(s, all[i])
  <2>1. CASE i <= Len(acts)
    BY <1>1, <1>2, <1>3, <2>1
  <2>2. CASE i > Len(acts)
    <3>1. i - Len(acts) \in DOMAIN more /\ all[i] = more[i - Len(acts)]
      BY <1>2, <1>3, <2>2
    <3> QED
      BY <1>1, <3>1
  <2> QED
    BY <1>3, <2>1, <2>2
<1> QED
  BY <1>4 DEF Retains, Result, all

\* One more action.
LEMMA AddRetains ==
  ASSUME NEW s, NEW acts \in Seq(Action), NEW a \in Action, ~Aired(a), Retains(Result(s, acts))
  PROVE  Retains(Result(s, Append(acts, a)))
<1>1. <<a>> \in Seq(Action)
  OBVIOUS
<1>2. Retains(Result(s, <<a>>))
  BY SilenceRetains
<1>3. Append(acts, a) = acts \o <<a>>
  BY AppendIsConcat
<1> QED
  BY <1>1, <1>2, <1>3, JoinRetains

\* The window alone decides.
LEMMA SameWindowRetains ==
  ASSUME NEW s, NEW t, t.outstanding = s.outstanding, NEW acts, Retains(Result(s, acts))
  PROVE  Retains(Result(t, acts))
BY DEF Retains, Again, Result

-----------------------------------------------------------------------------
(* The window.                                                             *)

\* push_backlog_into_window airs what it appends.
LEMMA PushRetains ==
  ASSUME NEW s \in Session, Len(s.outstanding) <= Window
  PROVE  Retains(PushBacklogIntoWindow(s))
<1> DEFINE o == Len(s.outstanding)
           n == Room(s)
           new == Pushed(s)
           out == s.outstanding \o new
           t == PushBacklogIntoWindow(s).session
           acts == PushBacklogIntoWindow(s).actions
<1>1. s.outstanding \in Seq(PendingIFrame) /\ o \in Nat
  BY SessionParts
<1>2. new \in Seq(PendingIFrame) /\ Len(new) = n /\ n \in Nat
  BY PushedType
<1>3. /\ t = [ s EXCEPT !.vs = SeqAdd(s.vs, n), !.outstanding = out,
                        !.backlog = SubSeq(s.backlog, n + 1, Len(s.backlog)),
                        !.t1 = s.t1 \/ n > 0 ]
      /\ acts = [i \in 1..n |-> BuildIFrame(s, new[i], FALSE)]
  BY DEF PushBacklogIntoWindow, Pushed, Result
<1>4. t.outstanding = out
  <2> HIDE DEF out, n
  <2> QED
    BY <1>3 DEF Session
<1> HIDE DEF new, n, o, t, acts
<1>5. ASSUME NEW i \in 1..n
      PROVE  Again(t, acts[i])
  <2>1. /\ out \in Seq(PendingIFrame) /\ Len(out) = o + Len(new)
        /\ \A j \in 1..(o + Len(new)) :
             out[j] = IF j <= o THEN s.outstanding[j] ELSE new[j - o]
    BY <1>1, <1>2, ConcatProperties DEF o
  <2> HIDE DEF out
  <2>2. o + i \in 1..(o + n) /\ out[o + i] = new[i]
    <3>1. o + i \in 1..(o + n) /\ ~(o + i <= o) /\ (o + i) - o = i
      BY <1>1, <1>2
    <3> QED
      BY <1>2, <2>1, <3>1
  <2>3. o + i \in DOMAIN out
    BY <1>2, <2>1, <2>2, LenProperties
  <2>4. new[i] \in Range(t.outstanding)
    BY <1>4, <2>2, <2>3 DEF Range
  <2>5. acts[i] = BuildIFrame(s, new[i], FALSE)
    BY <1>3
  <2>6. acts[i].frame.ns = new[i].seq /\ acts[i].frame.info = new[i].info
    BY <2>5 DEF BuildIFrame, Transmit, IFrame
  <2> QED
    BY <2>4, <2>6 DEF Again
<1>6. DOMAIN acts = 1..n
  BY <1>3
<1> QED
  BY <1>5, <1>6 DEF Retains, t, acts

\* The whole window is sent again.
LEMMA RetransmitRetains ==
  ASSUME NEW s \in Session, NEW pollLast
  PROVE  Retains(Result(s, RetransmitOutstanding(s, pollLast)))
<1> DEFINE acts == RetransmitOutstanding(s, pollLast)
           out == s.outstanding
<1>1. DOMAIN out = 1..Len(out)
  BY SessionParts, LenProperties
<1>2. DOMAIN acts = 1..Len(out)
  BY DEF RetransmitOutstanding
<1>3. ASSUME NEW i \in 1..Len(out)
      PROVE  Again(s, acts[i])
  <2>1. acts[i] = BuildIFrame(s, out[i], pollLast /\ i = Len(out))
    BY DEF RetransmitOutstanding
  <2> HIDE DEF acts
  <2>2. acts[i].frame.ns = out[i].seq /\ acts[i].frame.info = out[i].info
    BY <2>1 DEF BuildIFrame, Transmit, IFrame
  <2>3. out[i] \in Range(s.outstanding)
    BY <1>1 DEF Range
  <2> QED
    BY <2>2, <2>3 DEF Again
<1> QED
  BY <1>2, <1>3 DEF Retains, Result

\* ack_up_to airs what it refills the window with.
LEMMA AckUpToRetains ==
  ASSUME NEW u \in Session, WindowConsistent(u), NEW nr
  PROVE  Retains(AckUpTo(u, nr))
<1> DEFINE left == StillUnacked(u.outstanding, nr)
           t == [ u EXCEPT !.outstanding = left, !.retry_count = 0, !.t1 = left # <<>> ]
<1>1. left \in Seq(PendingIFrame) /\ Len(left) <= Window
  BY StillUnackedKeepsWindow
<1>2. AckUpTo(u, nr) = PushBacklogIntoWindow(t)
  BY DEF AckUpTo
<1> HIDE DEF left
<1>3. t \in Session /\ t.outstanding = left
  BY <1>1 DEF Session
<1> HIDE DEF t
<1> QED
  BY <1>1, <1>2, <1>3, PushRetains

\* So it does when it is told whether the peer is busy.
LEMMA BusyAckUpToRetains ==
  ASSUME NEW s, Consistent(s), NEW busy \in BOOLEAN, NEW nr
  PROVE  Retains(AckUpTo([s EXCEPT !.peer_busy = busy], nr))
<1> DEFINE v == [s EXCEPT !.peer_busy = busy]
<1>1. s \in Session /\ WindowConsistent(s)
  BY DEF Consistent
<1>2. v \in Session /\ v.outstanding = s.outstanding /\ v.vs = s.vs
  BY <1>1 DEF Session
<1> HIDE DEF v
<1>3. WindowConsistent(v)
  BY <1>1, <1>2 DEF WindowConsistent
<1> QED
  BY <1>2, <1>3, AckUpToRetains DEF v

-----------------------------------------------------------------------------
(* The operations.                                                         *)

\* Actions as they are typed.
LEMMA QuietIsAction ==
  /\ \A acts \in Seq(QuietAction) : acts \in Seq(Action)
  /\ \A a \in QuietAction : a \in Action
<1>1. QuietAction \subseteq Action
  BY DEF QuietAction
<1> QED
  BY <1>1, SeqMonotonic

\* The requests of the application.
LEMMA RequestsRetain ==
  ASSUME NEW s, Consistent(s), NEW poll, NEW bytes \in Seq(Byte)
  PROVE  /\ Retains(Open(s))
         /\ Retains(AcceptIncoming(s, poll))
         /\ Retains(Close(s))
         /\ Retains(Send(s, bytes))
<1>1. Retains(Ignored(s))
  BY SilenceRetains, UnairedActions
<1>2. Retains(Open(s))
  <2> DEFINE t == [ResetSequenceState(s) EXCEPT !.state = "Connecting", !.t1 = TRUE]
             a == Transmit(UFrame("SABM", TRUE))
             b == StateChanged("Connecting")
  <2>1. Open(s) \in {Ignored(s), Result(t, <<a, b>>)}
    BY DEF Open
  <2>2. ~Aired(a) /\ ~Aired(b)
    BY UnairedActions
  <2> HIDE DEF a, b, t
  <2> QED
    BY <1>1, <2>1, <2>2, SilenceRetains
<1>3. Retains(AcceptIncoming(s, poll))
  <2> DEFINE t == [ResetSequenceState(s) EXCEPT !.state = "Connected"]
             a == Transmit(UFrame("UA", poll))
             b == StateChanged("Connected")
  <2>1. AcceptIncoming(s, poll) = Result(t, <<a, b>>)
    BY DEF AcceptIncoming
  <2>2. ~Aired(a) /\ ~Aired(b)
    BY UnairedActions
  <2> HIDE DEF a, b, t
  <2> QED
    BY <2>1, <2>2, SilenceRetains
<1>4. Retains(Close(s))
  <2> DEFINE t == [ s EXCEPT !.state = "Disconnecting", !.outstanding = <<>>,
                             !.backlog = <<>>, !.t1 = TRUE, !.retry_count = 0 ]
             a == Transmit(UFrame("DISC", TRUE))
             b == StateChanged("Disconnecting")
  <2>1. Close(s) \in {Ignored(s), Result(t, <<a, b>>)}
    BY DEF Close
  <2>2. ~Aired(a) /\ ~Aired(b)
    BY UnairedActions
  <2> HIDE DEF a, b, t
  <2> QED
    BY <1>1, <2>1, <2>2, SilenceRetains
<1>5. Retains(Send(s, bytes))
  <2> DEFINE backlog == s.backlog \o Fragment(bytes)
             t == [s EXCEPT !.backlog = backlog]
  <2>1. Send(s, bytes) \in {Ignored(s), PushBacklogIntoWindow(t)}
    BY DEF Send
  <2>2. s \in Session /\ Len(s.outstanding) <= Window
    BY DEF Consistent, WindowConsistent
  <2>3. backlog \in Seq(Seq(Byte))
    BY <2>2, SessionParts, FragmentType, ConcatProperties
  <2> HIDE DEF backlog
  <2>4. t \in Session /\ t.outstanding = s.outstanding
    BY <2>2, <2>3 DEF Session
  <2> HIDE DEF t
  <2> QED
    BY <1>1, <2>1, <2>2, <2>4, PushRetains
<1> QED
  BY <1>2, <1>3, <1>4, <1>5

\* Answering a poll airs nothing.
LEMMA FinalRetains ==
  ASSUME NEW r, Working(r), Retains(r), r = Result(r.session, r.actions), NEW f
  PROVE  Retains(FinalIfPolled(r, f))
<1> DEFINE a == RR(r.session, TRUE)
<1>1. FinalIfPolled(r, f) \in {r, Result(r.session, Append(r.actions, a))}
  BY DEF FinalIfPolled
<1>2. r.session \in Session
  BY DEF Working, Consistent
<1>3. a \in Action /\ ~Aired(a)
  BY <1>2, OtherFrameTypes, QuietIsAction, UnairedActions
<1>4. r.actions \in Seq(Action)
  BY QuietIsAction DEF Working
<1> HIDE DEF a
<1>5. Retains(Result(r.session, Append(r.actions, a)))
  BY <1>3, <1>4, AddRetains
<1> QED
  BY <1>1, <1>5

\* ack_up_to makes a result.
LEMMA AckUpToResult ==
  ASSUME NEW s, NEW nr
  PROVE  AckUpTo(s, nr) = Result(AckUpTo(s, nr).session, AckUpTo(s, nr).actions)
BY DEF AckUpTo, PushBacklogIntoWindow, Result

\* An I frame.
LEMMA OnInformationRetains ==
  ASSUME NEW s, Consistent(s),
         NEW f \in [type : {"I"}, ns : SeqNum, nr : SeqNum, pf : BOOLEAN, info : Seq(Byte)]
  PROVE  Retains(OnInformation(s, f))
<1>1. CASE s.state # "Connected"
  <2> DEFINE frmr == Transmit(UFrame("FRMR", FALSE))
  <2>1. OnInformation(s, f) = Result(s, <<frmr>>)
    BY <1>1 DEF OnInformation
  <2>2. ~Aired(frmr)
    BY UnairedActions
  <2> HIDE DEF frmr
  <2> QED
    BY <2>1, <2>2, OneRetains
<1>2. CASE s.state = "Connected"
  <2> DEFINE r == AckUpTo(s, f.nr)
             t == [r.session EXCEPT !.vr = SeqAdd(r.session.vr, 1)]
             data == Data(f.info)
             rr == RR(t, FALSE)
             rej == REJ(r.session)
  <2>1. \/ OnInformation(s, f) = Result(t, r.actions \o <<data, rr>>)
        \/ OnInformation(s, f) = Result(r.session, Append(r.actions, rej))
    BY <1>2 DEF OnInformation
  <2>2. Retains(Result(r.session, r.actions))
    <3>1. s \in Session /\ WindowConsistent(s)
      BY DEF Consistent
    <3>2. Retains(r)
      BY <3>1, AckUpToRetains
    <3>3. r = Result(r.session, r.actions)
      BY AckUpToResult
    <3> QED
      BY <3>2, <3>3
  <2>3. Working(r)
    BY <1>2, AckUpToWorks
  <2>4. /\ r.session \in Session
        /\ r.actions \in Seq(Action)
    BY <2>3, QuietIsAction DEF Working, Consistent
  <2>5. ~Aired(data) /\ ~Aired(rr) /\ ~Aired(rej)
    BY UnairedActions
  <2> HIDE DEF r
  <2>6. t \in Session /\ t.outstanding = r.session.outstanding
    <3>1. r.session.vr \in SeqNum
      BY <2>4, SessionParts, Zenon
    <3>2. SeqAdd(r.session.vr, 1) \in SeqNum
      <4>1. r.session.vr \in Nat
        BY <3>1 DEF SeqNum
      <4> QED
        BY <4>1, SeqAddProperties
    <3> QED
      BY <2>4, <3>2 DEF Session
  <2>7. data \in Action /\ rr \in Action /\ rej \in Action
    <3>1. rr \in QuietAction /\ rej \in QuietAction
      BY <2>4, <2>6, OtherFrameTypes
    <3>2. data \in Action
      BY DEF Data, Action
    <3> QED
      BY <3>1, <3>2, QuietIsAction
  <2> HIDE DEF t, data, rr, rej
  <2>8. Retains(Result(t, r.actions)) /\ Retains(Result(t, <<data, rr>>))
    BY <2>2, <2>5, <2>6, SameWindowRetains, SilenceRetains
  <2>9. <<data, rr>> \in Seq(Action)
    BY <2>7
  <2>10. Retains(Result(t, r.actions \o <<data, rr>>))
    BY <2>4, <2>8, <2>9, JoinRetains
  <2>11. Retains(Result(r.session, Append(r.actions, rej)))
    BY <2>2, <2>4, <2>5, <2>7, AddRetains
  <2> QED
    BY <2>1, <2>10, <2>11
<1> QED
  BY <1>1, <1>2

\* A supervisory frame.
LEMMA SupervisoryRetains ==
  ASSUME NEW s, Consistent(s), NEW f \in SupervisoryFrame
  PROVE  Retains(OnRr(s, f)) /\ Retains(OnRnr(s, f)) /\ Retains(OnReject(s, f))
<1>1. CASE s.state # "Connected"
  <2>1. OnRr(s, f) = Ignored(s) /\ OnRnr(s, f) = Ignored(s) /\ OnReject(s, f) = Ignored(s)
    BY <1>1 DEF OnRr, OnRnr, OnReject
  <2> QED
    BY <2>1, SilenceRetains, UnairedActions
<1>2. CASE s.state = "Connected"
  <2> DEFINE free == AckUpTo([s EXCEPT !.peer_busy = FALSE], f.nr)
             busy == AckUpTo([s EXCEPT !.peer_busy = TRUE], f.nr)
             again == RetransmitOutstanding(free.session, FALSE)
             rejected == Result(free.session, free.actions \o again)
  <2>1. /\ OnRr(s, f) = FinalIfPolled(free, f)
        /\ OnRnr(s, f) = FinalIfPolled(busy, f)
        /\ OnReject(s, f) = FinalIfPolled(rejected, f)
    BY <1>2 DEF OnRr, OnRnr, OnReject
  <2>2. Working(free) /\ Working(busy)
    BY <1>2, AckUpToWorks
  <2>3. Retains(free) /\ Retains(busy)
    BY BusyAckUpToRetains
  <2>4. free = Result(free.session, free.actions) /\ busy = Result(busy.session, busy.actions)
    BY AckUpToResult
  <2> HIDE DEF free, busy
  <2>5. free.session \in Session /\ free.actions \in Seq(QuietAction)
    BY <2>2 DEF Working, Consistent
  <2>6. again \in Seq(QuietAction) /\ Retains(Result(free.session, again))
    BY <2>5, RetransmitType, RetransmitRetains
  <2> HIDE DEF again
  <2>7. Retains(rejected)
    BY <2>3, <2>4, <2>5, <2>6, JoinRetains, QuietIsAction
  <2>8. Working(rejected)
    <3>1. free.actions \o again \in Seq(QuietAction)
      BY <2>5, <2>6, ConcatProperties
    <3> QED
      BY <2>2, <3>1 DEF Working, Result
  <2>9. rejected = Result(rejected.session, rejected.actions)
    BY DEF Result
  <2> HIDE DEF rejected
  <2> QED
    BY <2>1, <2>2, <2>3, <2>4, <2>7, <2>8, <2>9, FinalRetains
<1> QED
  BY <1>1, <1>2

\* An unnumbered frame airs nothing, but for a UA to a connect, which refills
\* a window.
LEMMA UnnumberedRetains ==
  ASSUME NEW s, Consistent(s), NEW f
  PROVE  /\ Retains(OnSabm(s, f))
         /\ Retains(OnDisc(s, f))
         /\ Retains(OnUa(s))
         /\ Retains(OnDm(s))
         /\ Retains(OnFrmr(s))
<1> DEFINE ua == Transmit(UFrame("UA", f.pf))
           up == StateChanged("Connected")
           down == StateChanged("Disconnected")
<1>1. ~Aired(ua) /\ ~Aired(up) /\ ~Aired(down) /\ ~Aired(Monitor) /\ ~Aired(Closed)
  BY UnairedActions
<1>2. Teardown = <<down, Closed>>
  BY DEF Teardown
<1>3. s \in Session
  BY DEF Consistent
<1>4. Retains(OnSabm(s, f))
  <2> DEFINE t == [ResetSequenceState(s) EXCEPT !.state = "Connected"]
  <2>1. OnSabm(s, f) \in {Result(t, <<ua, Monitor>>), Result(t, <<ua, up>>)}
    BY DEF OnSabm
  <2> HIDE DEF t, ua, up
  <2> QED
    BY <1>1, <2>1, SilenceRetains
<1>5. Retains(OnDisc(s, f))
  <2> DEFINE t == [ s EXCEPT !.state = "Disconnected", !.outstanding = <<>>,
                             !.backlog = <<>>, !.t1 = FALSE ]
  <2>1. OnDisc(s, f) \in {Result(t, <<ua>> \o <<>>), Result(t, <<ua>> \o Teardown)}
    BY DEF OnDisc
  <2> HIDE DEF t, ua, down
  <2>2. <<ua>> \o <<>> = <<ua>> /\ <<ua>> \o Teardown = <<ua, down, Closed>>
    BY <1>2, ConcatOneTwo, ConcatEmptySeq
  <2>3. Retains(Result(t, <<ua>>))
    BY <1>1, OneRetains
  <2>4. Retains(Result(t, <<ua, down, Closed>>))
    BY <1>1, SilenceRetains
  <2> QED
    BY <2>1, <2>2, <2>3, <2>4
<1> DEFINE torn == Result(TornDown(s), <<Monitor>> \o Teardown)
<1>6. Retains(torn) /\ Retains(Result(TornDown(s), <<>>))
  <2>1. <<Monitor>> \o Teardown = <<Monitor, down, Closed>>
    BY <1>2, ConcatOneTwo
  <2>2. Retains(Result(TornDown(s), <<Monitor, down, Closed>>))
    <3> HIDE DEF down
    <3> QED
      BY <1>1, SilenceRetains
  <2>3. Retains(Result(TornDown(s), <<>>))
    BY DEF Retains, Result
  <2> QED
    BY <2>1, <2>2, <2>3
<1>7. Retains(OnDm(s)) /\ Retains(OnFrmr(s))
  <2>1. /\ OnDm(s) \in {torn, Result(TornDown(s), <<>>)}
        /\ OnFrmr(s) \in {torn, Result(TornDown(s), <<>>)}
    BY DEF OnDm, OnFrmr
  <2> HIDE DEF torn
  <2> QED
    BY <1>6, <2>1
<1>8. Retains(OnUa(s))
  <2>1. CASE s.state = "Connecting"
    <3> DEFINE t == [s EXCEPT !.state = "Connected", !.retry_count = 0, !.t1 = FALSE]
               r == PushBacklogIntoWindow(t)
    <3>1. OnUa(s) = Result(r.session, <<up>> \o r.actions)
      BY <2>1 DEF OnUa
    <3>2. s.outstanding = <<>>
      BY <2>1 DEF Consistent, QueuesOnlyWhileConnected
    <3>3. /\ t \in Session /\ t.state = "Connected" /\ t.t1 = FALSE
          /\ t.outstanding = <<>> /\ t.retry_count = 0
      BY <1>3, <3>2 DEF Session, ConnState
    <3> HIDE DEF t
    <3>4. WindowConsistent(t) /\ Unfilled(t)
      BY <3>3, EmptySeq, ArqConfigAssumption DEF WindowConsistent, Unfilled
    <3>5. r.actions \in Seq(Action)
      BY <3>4, PushKeepsConsistent, QuietIsAction
    <3>6. Retains(Result(r.session, r.actions))
      <4>1. Retains(r)
        BY <3>3, <3>4, PushRetains DEF WindowConsistent
      <4>2. r = Result(r.session, r.actions)
        BY DEF PushBacklogIntoWindow, Result
      <4> QED
        BY <4>1, <4>2
    <3> HIDE DEF r
    <3>7. <<up>> \in Seq(Action)
      BY DEF StateChanged, Action, ConnState
    <3> HIDE DEF up
    <3>8. Retains(Result(r.session, <<up>>))
      BY <1>1, OneRetains
    <3>9. Retains(Result(r.session, <<up>> \o r.actions))
      BY <3>5, <3>6, <3>7, <3>8, JoinRetains
    <3> QED
      BY <3>1, <3>9
  <2>2. CASE s.state = "Disconnecting"
    <3> DEFINE t == [s EXCEPT !.state = "Disconnected", !.t1 = FALSE, !.retry_count = 0]
    <3>1. OnUa(s) = Result(t, <<down, Closed>>)
      BY <1>2, <2>2 DEF OnUa
    <3> HIDE DEF t, down
    <3> QED
      BY <1>1, <3>1, SilenceRetains
  <2>3. CASE s.state \notin {"Connecting", "Disconnecting"}
    <3>1. OnUa(s) = Ignored(s)
      BY <2>3 DEF OnUa
    <3> QED
      BY <1>1, <3>1, SilenceRetains
  <2> QED
    BY <2>1, <2>2, <2>3
<1> QED
  BY <1>4, <1>5, <1>7, <1>8

\* Any frame of the peer.
LEMMA OnFrameRetains ==
  ASSUME NEW s, Consistent(s), NEW f \in Frame
  PROVE  Retains(OnFrame(s, f))
<1>1. CASE f \in [type : {"I"}, ns : SeqNum, nr : SeqNum, pf : BOOLEAN, info : Seq(Byte)]
  <2>1. OnFrame(s, f) = OnInformation(s, f)
    BY <1>1 DEF OnFrame
  <2> QED
    BY <1>1, <2>1, OnInformationRetains
<1>2. CASE f \in SupervisoryFrame
  <2>1. OnFrame(s, f) \in {OnRr(s, f), OnRnr(s, f), OnReject(s, f)}
    BY <1>2 DEF OnFrame, SupervisoryFrame
  <2> QED
    BY <1>2, <2>1, SupervisoryRetains
<1>3. CASE f \in [type : {"SABM", "DISC", "UA", "DM", "FRMR"}, pf : BOOLEAN]
  <2>1. OnFrame(s, f) \in {OnSabm(s, f), OnDisc(s, f), OnUa(s), OnDm(s), OnFrmr(s)}
    BY <1>3 DEF OnFrame
  <2> QED
    BY <2>1, UnnumberedRetains
<1> QED
  BY <1>1, <1>2, <1>3 DEF Frame, FrameCarrying, SupervisoryFrame

\* An expiry of T1.
LEMMA T1Retains ==
  ASSUME NEW s, Consistent(s)
  PROVE  Retains(T1Expires(s))
<1> DEFINE t == [s EXCEPT !.retry_count = s.retry_count + 1]
           idle == [s EXCEPT !.t1 = FALSE, !.retry_count = 0]
           sabm == Transmit(UFrame("SABM", TRUE))
           disc == Transmit(UFrame("DISC", TRUE))
           resent == RetransmitOutstanding(t, TRUE)
<1>1. s \in Session /\ s.state \in ConnState
  BY SessionParts DEF Consistent
<1>2. t \in Session
  <2>1. s.retry_count + 1 \in Nat
    BY <1>1, SessionParts
  <2> QED
    BY <1>1, <2>1 DEF Session
<1>3. \/ T1Expires(s) \in {Ignored(s), Ignored(t), Ignored(idle)}
      \/ T1Expires(s) = GiveUp(t)
      \/ T1Expires(s) = Result(t, <<sabm>>)
      \/ T1Expires(s) = Result(t, <<disc>>)
      \/ T1Expires(s) = Result(t, resent)
  <2> HIDE DEF sabm, disc, resent
  <2> QED
    BY <1>1 DEF T1Expires, ConnState, sabm, disc, resent
<1> HIDE DEF t, idle
<1>4. Retains(GiveUp(t))
  <2> DEFINE down == StateChanged("Disconnected")
  <2>1. ~Aired(Monitor) /\ ~Aired(down) /\ ~Aired(Closed)
    BY UnairedActions
  <2>2. /\ <<Monitor>> \o Teardown = <<Monitor, down, Closed>>
        /\ <<Monitor>> \o <<>> = <<Monitor>>
    BY ConcatOneTwo, ConcatEmptySeq DEF Teardown
  <2>3. GiveUp(t) \in {Result(TornDown(t), <<Monitor>>),
                       Result(TornDown(t), <<Monitor, down, Closed>>)}
    BY <2>2 DEF GiveUp
  <2> HIDE DEF down
  <2> QED
    BY <2>1, <2>3, OneRetains, SilenceRetains
<1>5. Retains(Ignored(s)) /\ Retains(Ignored(t)) /\ Retains(Ignored(idle))
  BY DEF Retains, Ignored, Result
<1>6. Retains(Result(t, <<sabm>>)) /\ Retains(Result(t, <<disc>>))
  <2>1. ~Aired(sabm) /\ ~Aired(disc)
    BY UnairedActions
  <2> HIDE DEF sabm, disc
  <2> QED
    BY <2>1, OneRetains
<1>7. Retains(Result(t, resent))
  BY <1>2, RetransmitRetains
<1> HIDE DEF sabm, disc, resent
<1> QED
  BY <1>3, <1>4, <1>5, <1>6, <1>7

\* Applying what retains it.
LEMMA ApplyRetains ==
  ASSUME NEW r, Retains(r), Apply(r)
  PROVE  AiredFramesAreRetained'
BY DEF Retains, Again, Aired, Apply, AiredFramesAreRetained, Range

\* Every step of a session applies such a result.
LEMMA NextRetains ==
  ASSUME Inv, Next
  PROVE  AiredFramesAreRetained'
<1>1. Consistent(sess)
  BY DEF Inv
<1>2. <<>> \in Seq(Byte)
  BY EmptySeq
<1>3. CASE OpenConnection
  BY <1>2, <1>3, NewSessionIsConsistent, RequestsRetain, ApplyRetains DEF OpenConnection
<1>4. ASSUME NEW poll \in BOOLEAN, AcceptConnection(poll)
      PROVE  AiredFramesAreRetained'
  BY <1>2, <1>4, NewSessionIsConsistent, RequestsRetain, ApplyRetains DEF AcceptConnection
<1>5. CASE CloseConnection
  BY <1>1, <1>2, <1>5, RequestsRetain, ApplyRetains DEF CloseConnection
<1>6. ASSUME NEW bytes \in Message, SendBytes(bytes)
      PROVE  AiredFramesAreRetained'
  <2>1. bytes \in Seq(Byte)
    BY ArqSessionAssumption
  <2> QED
    BY <1>1, <1>6, <2>1, RequestsRetain, ApplyRetains DEF SendBytes
<1>7. ASSUME NEW f \in PeerFrame, Receive(f)
      PROVE  AiredFramesAreRetained'
  <2>1. f \in Frame
    BY ArqSessionAssumption DEF PeerFrame, Frame, FrameCarrying
  <2> QED
    BY <1>1, <1>7, <2>1, OnFrameRetains, ApplyRetains DEF Receive
<1>8. CASE Tick
  BY <1>1, <1>8, T1Retains, ApplyRetains DEF Tick
<1> QED
  BY <1>3, <1>4, <1>5, <1>6, <1>7, <1>8 DEF Next

\* Every I frame that is put on the air can be sent again, under its number and
\* with its payload, by a timeout or a REJ that follows: push_backlog_into_window
\* and retransmit_outstanding (arq.rs:443, 462) air nothing but the window.
THEOREM AiredFramesStayRetained == Spec => []AiredFramesAreRetained
<1>1. Init => AiredFramesAreRetained
  BY DEF Init, AiredFramesAreRetained, Range
<1>2. Inv /\ AiredFramesAreRetained /\ [Next]_vars => AiredFramesAreRetained'
  <2>1. ASSUME AiredFramesAreRetained, UNCHANGED vars
        PROVE  AiredFramesAreRetained'
    BY <2>1 DEF vars, AiredFramesAreRetained
  <2> QED
    BY <2>1, NextRetains
<1> QED
  BY <1>1, <1>2, Invariance, PTL DEF Spec

-----------------------------------------------------------------------------
(* The queues keep order: InOrder of Arq_proofs with the history of what   *)
(* was accepted is the inductive invariant.                                *)

\* Every step of a session keeps it in order with its history.
LEMMA NextInOrder ==
  ASSUME Inv, InOrder(sess, accepted), Next
  PROVE  InOrder(sess', accepted')
<1>1. Consistent(sess) /\ accepted \in Accepted /\ sess \in Session
  BY DEF Inv, Accepted, Consistent
<1>2. sess'.state = "Disconnected" => sess'.outstanding = <<>> /\ sess'.backlog = <<>>
  BY NextKeepsInv DEF Inv, Consistent, QueuesOnlyWhileConnected
<1>3. <<>> \in Accepted
  BY EmptySeq DEF Accepted
<1>4. ASSUME sess'.state = "Disconnected", accepted' \in Accepted
      PROVE  InOrder(sess', accepted')
  BY <1>2, <1>4, EmptyIsInOrder
<1>5. InOrder(Open(NewSession).session, <<>>)
  BY NewSessionFields, ResetIsInOrder DEF Open, Result
<1>6. \A poll : InOrder(AcceptIncoming(NewSession, poll).session, <<>>)
  BY NewSessionFields, ResetIsInOrder DEF AcceptIncoming, Result
<1>7. CASE OpenConnection
  BY <1>5, <1>7 DEF OpenConnection, Apply
<1>8. ASSUME NEW poll \in BOOLEAN, AcceptConnection(poll)
      PROVE  InOrder(sess', accepted')
  BY <1>6, <1>8 DEF AcceptConnection, Apply
<1>9. CASE CloseConnection
  BY <1>1, <1>9, CloseInOrder DEF CloseConnection, Apply
<1>10. ASSUME NEW bytes \in Message, SendBytes(bytes)
       PROVE  InOrder(sess', accepted')
  <2>1. bytes \in Seq(Byte) /\ sess' = Send(sess, bytes).session
    BY <1>10, ArqSessionAssumption DEF SendBytes, Apply
  <2>2. CASE sess.state = "Connected"
    <3>1. accepted' = accepted \o Fragment(bytes)
      BY <1>10, <2>2 DEF SendBytes
    <3> QED
      BY <1>1, <2>1, <2>2, <3>1, SendInOrder
  <2>3. CASE sess.state # "Connected"
    <3>1. sess' = sess /\ accepted' = accepted
      BY <1>10, <2>1, <2>3 DEF SendBytes, Send, Ignored, Result
    <3> QED
      BY <3>1
  <2> QED
    BY <2>2, <2>3
<1>11. ASSUME NEW f \in PeerFrame, Receive(f)
       PROVE  InOrder(sess', accepted')
  <2>1. f \in Frame /\ sess' = OnFrame(sess, f).session
    BY <1>11, ArqSessionAssumption DEF PeerFrame, Frame, FrameCarrying, Receive, Apply
  <2>2. accepted' = IF f.type = "SABM" \/ sess'.state = "Disconnected" THEN <<>> ELSE accepted
    BY <1>11 DEF Receive
  <2>3. CASE f.type = "SABM"
    <3>1. sess' = [ResetSequenceState(sess) EXCEPT !.state = "Connected"]
      BY <2>1, <2>3 DEF OnFrame, OnSabm, Result
    <3> QED
      BY <1>1, <2>2, <2>3, <3>1, ResetIsInOrder
  <2>4. CASE sess'.state = "Disconnected"
    BY <1>3, <1>4, <2>2, <2>4
  <2>5. CASE f.type # "SABM" /\ sess'.state # "Disconnected"
    BY <1>1, <2>1, <2>2, <2>5, OnFrameInOrder
  <2> QED
    BY <2>3, <2>4, <2>5
<1>12. CASE Tick
  <2>1. /\ sess' = T1Expires(sess).session
        /\ accepted' = IF sess'.state = "Disconnected" THEN <<>> ELSE accepted
    BY <1>12 DEF Tick, Apply
  <2>2. CASE sess'.state = "Disconnected"
    BY <1>3, <1>4, <2>1, <2>2
  <2>3. CASE sess'.state # "Disconnected"
    BY <1>1, <2>1, <2>3, T1InOrder
  <2> QED
    BY <2>2, <2>3
<1> QED
  BY <1>7, <1>8, <1>9, <1>10, <1>11, <1>12 DEF Next

\* A sequence whose elements are the last ones of another is its suffix.
LEMMA LastOnesAreSuffix ==
  ASSUME NEW S, NEW h \in Seq(S), NEW t \in Seq(S), Len(h) <= Len(t),
         \A i \in 1..Len(h) : h[i] = t[Len(t) - Len(h) + i]
  PROVE  IsSuffix(h, t)
<1> DEFINE m == Len(h)
           n == Len(t)
           rh == Reverse(h)
           rt == Reverse(t)
<1>1. m \in Nat /\ n \in Nat /\ m <= n
  BY LenProperties
<1>2. /\ rh \in Seq(S) /\ Len(rh) = m /\ \A i \in 1..m : rh[i] = h[m - i + 1]
      /\ rt \in Seq(S) /\ Len(rt) = n /\ \A i \in 1..n : rt[i] = t[n - i + 1]
  <2>1. rh = [i \in 1..m |-> h[m - i + 1]] /\ rt = [i \in 1..n |-> t[n - i + 1]]
    BY DEF Reverse
  <2>2. \A i \in 1..m : h[m - i + 1] \in S
    <3>1. \A i \in 1..m : m - i + 1 \in 1..m
      BY <1>1
    <3> QED
      BY <3>1, ElementOfSeq
  <2>3. \A i \in 1..n : t[n - i + 1] \in S
    <3>1. \A i \in 1..n : n - i + 1 \in 1..n
      BY <1>1
    <3> QED
      BY <3>1, ElementOfSeq
  <2> HIDE DEF rh, rt, m, n
  <2>4. rh \in [1..m -> S] /\ rt \in [1..n -> S]
    BY <2>1, <2>2, <2>3
  <2> QED
    BY <1>1, <2>1, <2>4, FunctionIsSeq
<1> HIDE DEF rh, rt
<1>3. \A i \in 1..m : rh[i] = rt[i]
  <2> SUFFICES ASSUME NEW i \in 1..m PROVE rh[i] = rt[i]
    OBVIOUS
  <2>1. h[m - i + 1] = t[n - m + (m - i + 1)]
    <3>1. m - i + 1 \in 1..m
      BY <1>1
    <3> QED
      BY <3>1
  <2> HIDE DEF m, n
  <2>2. n - m + (m - i + 1) = n - i + 1 /\ i \in 1..n
    BY <1>1
  <2> QED
    BY <1>2, <2>1, <2>2
<1> HIDE DEF m, n
<1>4. SubSeq(rh, 1, m) = SubSeq(rt, 1, m)
  <2>1. 1 \in Int /\ m \in Int /\ m - 1 + 1 = m
    BY <1>1
  <2>2. \A i \in 1..m : rh[i] \in S /\ rt[i] \in S
    <3>1. \A i \in 1..m : i \in 1..n
      BY <1>1
    <3> QED
      BY <1>2, <3>1, ElementOfSeq
  <2>3. /\ SubSeq(rh, 1, m) \in Seq(S)
        /\ Len(SubSeq(rh, 1, m)) = IF 1 <= m THEN m - 1 + 1 ELSE 0
        /\ \A i \in 1..(m - 1 + 1) : SubSeq(rh, 1, m)[i] = rh[1 + i - 1]
    BY <2>1, <2>2, SubSeqProperties
  <2>4. /\ SubSeq(rt, 1, m) \in Seq(S)
        /\ Len(SubSeq(rt, 1, m)) = IF 1 <= m THEN m - 1 + 1 ELSE 0
        /\ \A i \in 1..(m - 1 + 1) : SubSeq(rt, 1, m)[i] = rt[1 + i - 1]
    BY <2>1, <2>2, SubSeqProperties
  <2> DEFINE u == SubSeq(rh, 1, m)
             v == SubSeq(rt, 1, m)
  <2> HIDE DEF u, v
  <2>5. Len(u) = m /\ Len(v) = m /\ u \in Seq(S) /\ v \in Seq(S)
    BY <1>1, <2>3, <2>4 DEF u, v
  <2>6. \A i \in 1..m : u[i] = v[i]
    <3>1. \A i \in 1..m : 1 + i - 1 = i
      BY <1>1
    <3> QED
      BY <1>3, <2>1, <2>3, <2>4, <3>1 DEF u, v
  <2>7. u = v
    BY <2>5, <2>6, SeqEqual
  <2> QED
    BY <2>7 DEF u, v
<1>5. IsPrefix(rh, rt)
  BY <1>1, <1>2, <1>4 DEF IsPrefix
<1> QED
  BY <1>5 DEF IsSuffix, rh, rt

\* A consistent session in order is what QueuesKeepOrder says.
LEMMA InOrderKeepsOrder ==
  ASSUME Inv, InOrder(sess, accepted)
  PROVE  QueuesKeepOrder
<1> DEFINE a == Len(accepted)
           out == sess.outstanding
           o == Len(out)
           b == Len(sess.backlog)
           infos == [i \in 1..o |-> out[i].info]
           held == infos \o sess.backlog
<1>1. /\ sess \in Session /\ accepted \in Seq(Seq(Byte))
      /\ WindowConsistent(sess) /\ QueuesOnlyWhileConnected(sess)
  BY DEF Inv, Consistent
<1>2. /\ out \in Seq(PendingIFrame) /\ sess.backlog \in Seq(Seq(Byte))
      /\ o \in Nat /\ b \in Nat /\ a \in Nat /\ o <= 7
  BY <1>1, SessionParts, LenProperties, ArqConfigAssumption DEF WindowConsistent
<1>3. /\ o + b <= a
      /\ \A i \in 1..o : out[i].info = accepted[a - b - o + i]
      /\ \A i \in 1..b : sess.backlog[i] = accepted[a - b + i]
  BY DEF InOrder, Newest
<1>4. \A i \in 1..o : out[i] \in PendingIFrame
  BY <1>2, ElementOfSeq
<1>5. infos \in Seq(Seq(Byte)) /\ Len(infos) = o /\ \A i \in 1..o : infos[i] = out[i].info
  <2>1. \A i \in 1..o : out[i].info \in Seq(Byte)
    BY <1>4 DEF PendingIFrame
  <2> HIDE DEF o, out
  <2>2. infos \in [1..o -> Seq(Byte)]
    BY <2>1
  <2>3. \A i \in 1..o : infos[i] = out[i].info
    OBVIOUS
  <2> HIDE DEF infos
  <2> QED
    BY <1>2, <2>2, <2>3, FunctionIsSeq
<1>6. Held(sess) = held
  BY DEF Held
<1> HIDE DEF infos
<1>7. /\ held \in Seq(Seq(Byte)) /\ Len(held) = o + b
      /\ \A i \in 1..(o + b) : held[i] = IF i <= o THEN infos[i] ELSE sess.backlog[i - o]
  <2> DEFINE bl == sess.backlog
  <2>1. infos \in Seq(Seq(Byte)) /\ bl \in Seq(Seq(Byte)) /\ Len(infos) = o /\ Len(bl) = b
    BY <1>2, <1>5
  <2> HIDE DEF bl, o, b
  <2>2. /\ infos \o bl \in Seq(Seq(Byte)) /\ Len(infos \o bl) = Len(infos) + Len(bl)
        /\ \A i \in 1..(Len(infos) + Len(bl)) :
             (infos \o bl)[i] = IF i <= Len(infos) THEN infos[i] ELSE bl[i - Len(infos)]
    BY <2>1, ConcatProperties
  <2> QED
    BY <2>1, <2>2 DEF bl
<1> HIDE DEF held, a, o, b, out
<1>8. \A i \in 1..(o + b) : held[i] = accepted[a - (o + b) + i]
  <2> SUFFICES ASSUME NEW i \in 1..(o + b) PROVE held[i] = accepted[a - (o + b) + i]
    OBVIOUS
  <2>1. CASE i <= o
    <3>1. i \in 1..o /\ a - (o + b) + i = a - b - o + i
      BY <1>2, <2>1
    <3> QED
      BY <1>3, <1>5, <1>7, <2>1, <3>1
  <2>2. CASE i > o
    <3>1. i - o \in 1..b /\ ~(i <= o) /\ a - (o + b) + i = a - b + (i - o)
      BY <1>2, <2>2
    <3> QED
      BY <1>3, <1>7, <3>1
  <2> QED
    BY <1>2, <2>1, <2>2
<1>9. IsSuffix(held, accepted)
  <2>1. Len(held) <= Len(accepted)
    BY <1>3, <1>7 DEF a
  <2>2. \A i \in 1..Len(held) : held[i] = accepted[Len(accepted) - Len(held) + i]
    BY <1>7, <1>8 DEF a
  <2> QED
    BY <1>1, <1>7, <2>1, <2>2, LastOnesAreSuffix
<1>10. ASSUME NEW i \in 1..o
       PROVE  out[i].seq = (a - (o + b) + i - 1) % 8
  <2>1. o # 0
    BY <1>2
  <2>2. sess.state = "Connected"
    BY <1>1, <2>1, EmptySeq DEF QueuesOnlyWhileConnected, o, out
  <2>3. sess.vs = (a - b) % 8
    BY <2>2 DEF InOrder, Counted, a, b
  <2>4. SeqAdd(out[i].seq, o - i + 1) = sess.vs
    BY <1>1 DEF WindowConsistent, o, out
  <2> DEFINE q == out[i].seq
             x == a - (o + b) + i - 1
             k == o - i + 1
  <2>5. q \in SeqNum
    BY <1>4 DEF PendingIFrame
  <2>6. (q + k) % 8 = (a - b) % 8
    BY <2>3, <2>4 DEF SeqAdd
  <2> HIDE DEF q
  <2>7. x \in Nat /\ k \in 1..7 /\ x + k = a - b
    BY <1>2, <1>3
  <2> HIDE DEF x, k
  <2>8. q = x % 8
    BY <2>5, <2>6, <2>7, SameNumber
  <2> QED
    BY <2>8 DEF q, x
<1>11. \A i \in 1..Len(sess.outstanding) :
         sess.outstanding[i].seq = (Len(accepted) - Len(Held(sess)) + i - 1) % 8
  BY <1>6, <1>7, <1>10 DEF a, o, out
<1> QED
  BY <1>6, <1>9, <1>11 DEF QueuesKeepOrder

\* Between accepting and acknowledging no chunk is lost, doubled or reordered,
\* and a frame's number is its chunk's position on the link modulo 8, whatever
\* is sent, acknowledged, rejected or reset (arq.rs:180, 427, 443).
THEOREM QueuesStayInOrder == Spec => []QueuesKeepOrder
<1> DEFINE Strong == InOrder(sess, accepted)
<1>1. Init => Strong
  <2> SUFFICES ASSUME Init PROVE InOrder(sess, accepted)
    OBVIOUS
  <2>1. <<>> \in Accepted
    BY EmptySeq DEF Accepted
  <2> QED
    BY <2>1, NewSessionFields, EmptyIsInOrder DEF Init
<1>2. Inv /\ Strong /\ [Next]_vars => Strong'
  <2>1. ASSUME Strong, UNCHANGED vars
        PROVE  Strong'
    BY <2>1 DEF vars
  <2> QED
    BY <2>1, NextInOrder
<1>3. Inv /\ Strong => QueuesKeepOrder
  BY InOrderKeepsOrder
<1> HIDE DEF Strong
<1> QED
  BY <1>1, <1>2, <1>3, Invariance, PTL DEF Spec
=============================================================================

----------------------------- MODULE Arq_proofs -----------------------------
(***************************************************************************)
(* Lemmas about the operators of Arq: what each of them keeps true of a    *)
(* session, for every value of the constants.                              *)
(***************************************************************************)
EXTENDS Arq, SequenceTheorems, TLAPS

\* All that an operation of ArqSession may rely on and must reestablish.
Consistent(s) ==
  /\ s \in Session
  /\ s.retry_count <= N2
  /\ WindowConsistent(s)
  /\ TimerConsistent(s)
  /\ BacklogWaitsForRoom(s)
  /\ QueuesOnlyWhileConnected(s)

\* The same, of a connected session whose backlog may not have moved up yet.
Unfilled(s) ==
  /\ s \in Session
  /\ s.state = "Connected"
  /\ s.retry_count <= N2
  /\ WindowConsistent(s)
  /\ s.t1 <=> s.outstanding # <<>>

\* Actions none of which tells the UI that the state changed.
QuietAction == {a \in Action : a.act \in {"Transmit", "Data", "Monitor"}}

\* Those that do not concern the UI's connection at all.
SilentAction == {a \in Action : a.act \in {"Transmit", "Monitor"}}

-----------------------------------------------------------------------------
(* Sequences and numbers modulo 8.                                         *)

\* A function on 1..n is a sequence of length n.
LEMMA FunctionIsSeq ==
  ASSUME NEW S, NEW n \in Nat, NEW f \in [1..n -> S]
  PROVE  f \in Seq(S) /\ Len(f) = n
<1>1. f \in Seq(S)
  BY SeqDef
<1>2. 1..Len(f) = 1..n
  BY <1>1, LenProperties
<1>3. Len(f) \in Nat
  BY <1>1, LenProperties
<1> QED
  BY <1>1, <1>2, <1>3

\* Sequence numbers stay below 8, and advancing them is addition modulo 8.
LEMMA SeqAddProperties ==
  ASSUME NEW a \in Nat, NEW b \in Nat, NEW c \in Nat
  PROVE  /\ SeqAdd(a, b) \in SeqNum
         /\ SeqAdd(SeqAdd(a, b), c) = SeqAdd(a, b + c)
         /\ a \in SeqNum => SeqAdd(a, 0) = a
BY DEF SeqAdd, SeqNum

\* A frame built for a queued chunk is a frame.
LEMMA BuildIFrameType ==
  ASSUME NEW s \in Session, NEW p \in PendingIFrame, NEW poll \in BOOLEAN
  PROVE  BuildIFrame(s, p, poll) \in QuietAction
<1>1. IFrame(p.seq, s.vr, poll, p.info) \in Frame
  BY DEF Session, PendingIFrame, IFrame, Frame, FrameCarrying
<1> QED
  BY <1>1 DEF BuildIFrame, Transmit, QuietAction, Action

\* So are supervisory and unnumbered frames.
LEMMA OtherFrameTypes ==
  ASSUME NEW s \in Session, NEW pf \in BOOLEAN
  PROVE  /\ RR(s, pf) \in QuietAction
         /\ REJ(s) \in QuietAction
         /\ \A kind \in {"SABM", "DISC", "UA", "DM", "FRMR"} :
              /\ Transmit(UFrame(kind, pf)) \in QuietAction
              /\ Transmit(UFrame(kind, pf)) \in SilentAction
<1>1. /\ SFrame("RR", s.vr, pf) \in Frame
      /\ SFrame("REJ", s.vr, FALSE) \in Frame
      /\ \A kind \in {"SABM", "DISC", "UA", "DM", "FRMR"} : UFrame(kind, pf) \in Frame
  BY DEF Session, SFrame, UFrame, Frame, FrameCarrying
<1> QED
  BY <1>1 DEF RR, REJ, Transmit, QuietAction, SilentAction, Action

-----------------------------------------------------------------------------
(* The window.                                                             *)

\* The frames of a session are typed, however they are named.
LEMMA SessionParts ==
  ASSUME NEW s \in Session
  PROVE  /\ s.state \in ConnState
         /\ s.vs \in SeqNum /\ s.vr \in SeqNum
         /\ s.outstanding \in Seq(PendingIFrame)
         /\ s.backlog \in Seq(Seq(Byte))
         /\ s.retry_count \in Nat
         /\ s.t1 \in BOOLEAN /\ s.peer_busy \in BOOLEAN
         /\ Len(s.outstanding) \in Nat /\ Len(s.backlog) \in Nat
BY LenProperties DEF Session

\* The window takes some of the backlog: all of it, or as much as fits.
LEMMA RoomProperties ==
  ASSUME NEW s \in Session, Len(s.outstanding) <= Window
  PROVE  /\ Room(s) \in 0..Len(s.backlog)
         /\ Len(s.outstanding) + Room(s) <= Window
         /\ \/ Room(s) = Len(s.backlog)
            \/ s.peer_busy /\ Room(s) = 0
            \/ Len(s.outstanding) + Room(s) = Window
<1> DEFINE o == Len(s.outstanding)
           b == Len(s.backlog)
           r == Room(s)
<1>1. o \in Nat /\ b \in Nat /\ Window \in Nat /\ o <= Window
  BY SessionParts, ArqConfigAssumption
<1>2. CASE s.peer_busy
  <2>1. r = 0
    BY <1>2 DEF Room
  <2> HIDE DEF o, b, r
  <2>2. r \in 0..b /\ o + r <= Window
    BY <1>1, <2>1
  <2> QED
    BY <1>2, <2>1, <2>2 DEF o, b, r
<1>3. CASE ~s.peer_busy
  <2>1. r = IF o >= Window THEN 0 ELSE IF b <= Window - o THEN b ELSE Window - o
    BY <1>3 DEF Room
  <2> HIDE DEF o, b, r
  <2>2. r \in 0..b /\ o + r <= Window /\ (r = b \/ o + r = Window)
    BY <1>1, <2>1
  <2> QED
    BY <2>2 DEF o, b, r
<1> QED
  BY <1>2, <1>3

\* What push_backlog_into_window appends to the window.
Pushed(s) ==
  [i \in 1..Room(s) |-> [seq |-> SeqAdd(s.vs, i - 1), info |-> s.backlog[i]]]

\* It is a sequence of as many frames as there is room for.
LEMMA PushedType ==
  ASSUME NEW s \in Session, Len(s.outstanding) <= Window
  PROVE  /\ Pushed(s) \in Seq(PendingIFrame)
         /\ Len(Pushed(s)) = Room(s)
         /\ Room(s) \in Nat
<1> DEFINE n == Room(s)
           b == Len(s.backlog)
<1>1. n \in 0..b /\ b \in Nat
  BY RoomProperties, SessionParts
<1>2. s.vs \in Nat /\ s.backlog \in Seq(Seq(Byte))
  <2>1. s.vs \in SeqNum /\ s.backlog \in Seq(Seq(Byte))
    BY SessionParts, Zenon
  <2> QED
    BY <2>1 DEF SeqNum
<1>3. ASSUME NEW i \in 1..n
      PROVE  [seq |-> SeqAdd(s.vs, i - 1), info |-> s.backlog[i]] \in PendingIFrame
  <2> HIDE DEF n, b
  <2>1. i \in 1..b /\ i - 1 \in Nat
    BY <1>1
  <2>2. s.backlog[i] \in Seq(Byte)
    BY <1>2, <2>1, ElementOfSeq DEF b
  <2>3. SeqAdd(s.vs, i - 1) \in SeqNum
    BY <1>2, <2>1, SeqAddProperties
  <2> QED
    BY <2>2, <2>3 DEF PendingIFrame
<1>4. Pushed(s) \in [1..n -> PendingIFrame]
  BY <1>3 DEF Pushed
<1> HIDE DEF n
<1>5. n \in Nat
  BY <1>1
<1> QED
  BY <1>4, <1>5, FunctionIsSeq DEF n

\* push_backlog_into_window numbers what it appends consecutively, and
\* refills a connected session's window completely.
LEMMA PushKeepsConsistent ==
  ASSUME NEW s, Unfilled(s)
  PROVE  /\ Consistent(PushBacklogIntoWindow(s).session)
         /\ PushBacklogIntoWindow(s).session.state = "Connected"
         /\ PushBacklogIntoWindow(s).actions \in Seq(QuietAction)
<1> DEFINE o == Len(s.outstanding)
           b == Len(s.backlog)
           n == Room(s)
           new == Pushed(s)
           out == s.outstanding \o new
           left == SubSeq(s.backlog, n + 1, b)
           t == PushBacklogIntoWindow(s).session
           acts == PushBacklogIntoWindow(s).actions
<1>1. /\ s \in Session /\ s.state = "Connected" /\ s.retry_count <= N2
      /\ s.t1 <=> s.outstanding # <<>>
      /\ o <= Window
      /\ \A i \in 1..o : SeqAdd(s.outstanding[i].seq, o - i + 1) = s.vs
  BY DEF Unfilled, WindowConsistent
<1>2. /\ s.vs \in SeqNum /\ s.outstanding \in Seq(PendingIFrame)
      /\ s.backlog \in Seq(Seq(Byte)) /\ o \in Nat /\ b \in Nat
  BY <1>1, SessionParts
<1>3. n \in 0..b /\ o + n <= Window
  BY <1>1, RoomProperties
<1>4. n = b \/ (s.peer_busy /\ n = 0) \/ o + n = Window
  BY <1>1, RoomProperties
<1>5. new \in Seq(PendingIFrame) /\ Len(new) = n
  BY <1>1, PushedType
<1>6. \A j \in 1..n : new[j].seq = SeqAdd(s.vs, j - 1)
  BY DEF Pushed
<1>7. /\ t = [ s EXCEPT !.vs = SeqAdd(s.vs, n), !.outstanding = out,
                        !.backlog = left, !.t1 = s.t1 \/ n > 0 ]
      /\ acts = [i \in 1..n |-> BuildIFrame(s, new[i], FALSE)]
  BY DEF PushBacklogIntoWindow, Pushed, Result
<1>8. /\ out \in Seq(PendingIFrame) /\ Len(out) = o + Len(new)
      /\ \A i \in 1..(o + Len(new)) :
           out[i] = IF i <= o THEN s.outstanding[i] ELSE new[i - o]
      /\ out = <<>> <=> s.outstanding = <<>> /\ new = <<>>
  <2> HIDE DEF new
  <2>1. s.outstanding \in Seq(PendingIFrame) /\ new \in Seq(PendingIFrame)
    BY <1>2, <1>5
  <2>2. out = <<>> <=> s.outstanding = <<>> /\ new = <<>>
    BY <2>1, ConcatEqualIffEmpty
  <2>3. /\ out \in Seq(PendingIFrame) /\ Len(out) = o + Len(new)
        /\ \A i \in 1..(o + Len(new)) :
             out[i] = IF i <= o THEN s.outstanding[i] ELSE new[i - o]
    BY <2>1, ConcatProperties
  <2> QED
    BY <2>2, <2>3
<1>9. left \in Seq(Seq(Byte)) /\ (n = b => left = <<>>)
  <2> HIDE DEF n
  <2>1. \A i \in (n + 1)..b : s.backlog[i] \in Seq(Byte)
    BY <1>2, <1>3, ElementOfSeq
  <2>2. n + 1 \in Int /\ b \in Int /\ (n = b => b < n + 1)
    BY <1>2, <1>3
  <2> QED
    BY <2>1, <2>2, SubSeqProperties, SubSeqEmpty
<1>10. new = <<>> <=> n = 0
  <2> HIDE DEF new, n
  <2> QED
    BY <1>5, EmptySeq
<1>11. \A i \in 1..n : BuildIFrame(s, new[i], FALSE) \in QuietAction
  <2> HIDE DEF new, n
  <2> QED
    BY <1>1, <1>5, ElementOfSeq, BuildIFrameType
<1> HIDE DEF o, b, n, new, out, left, t, acts
<1>12. s.vs \in Nat /\ n \in Nat /\ SeqAdd(s.vs, n) \in SeqNum
  <2>1. s.vs \in Nat /\ n \in Nat
    BY <1>2, <1>3 DEF SeqNum
  <2> QED
    BY <2>1, SeqAddProperties
<1>13. /\ t.state = "Connected" /\ t.retry_count = s.retry_count
       /\ t.vs = SeqAdd(s.vs, n) /\ t.outstanding = out /\ t.backlog = left
  BY <1>1, <1>7 DEF Session
<1>14. t.t1 = (s.t1 \/ n > 0) /\ t.peer_busy = s.peer_busy
  BY <1>1, <1>7 DEF Session
<1>15. t \in Session
  <2>1. (s.t1 \/ n > 0) \in BOOLEAN
    OBVIOUS
  <2> QED
    BY <2>1, <1>1, <1>7, <1>8, <1>9, <1>12 DEF Session
<1>16. WindowConsistent(t)
  <2>1. Len(t.outstanding) = o + n
    BY <1>5, <1>8, <1>13
  <2>2. ASSUME NEW i \in 1..(o + n)
        PROVE  SeqAdd(out[i].seq, o + n - i + 1) = SeqAdd(s.vs, n)
    <3>1. CASE i <= o
      <4>1. i \in 1..o /\ out[i] = s.outstanding[i] /\ o - i + 1 \in Nat
        BY <1>2, <1>5, <1>8, <1>12, <3>1
      <4>2. s.outstanding[i].seq \in Nat
        <5>1. s.outstanding[i] \in PendingIFrame
          BY <4>1, <1>2, ElementOfSeq DEF o
        <5> QED
          BY <5>1 DEF PendingIFrame, SeqNum
      <4>3. SeqAdd(SeqAdd(s.outstanding[i].seq, o - i + 1), n)
              = SeqAdd(s.outstanding[i].seq, (o - i + 1) + n)
        <5>1. o - i + 1 \in Nat /\ n \in Nat
          BY <4>1, <1>12
        <5> QED
          BY <4>2, <5>1, SeqAddProperties, Zenon
      <4>4. (o - i + 1) + n = o + n - i + 1
        BY <1>2, <1>12
      <4> QED
        BY <4>1, <4>3, <4>4, <1>1
    <3>2. CASE i > o
      <4>1. i - o \in 1..n /\ out[i] = new[i - o] /\ n - (i - o) + 1 \in Nat
        BY <1>2, <1>5, <1>8, <1>12, <3>2
      <4>2. new[i - o].seq = SeqAdd(s.vs, (i - o) - 1) /\ (i - o) - 1 \in Nat
        BY <4>1, <1>6, <1>12
      <4>3. SeqAdd(SeqAdd(s.vs, (i - o) - 1), n - (i - o) + 1)
              = SeqAdd(s.vs, ((i - o) - 1) + (n - (i - o) + 1))
        <5>1. s.vs \in Nat /\ (i - o) - 1 \in Nat /\ n - (i - o) + 1 \in Nat
          BY <4>1, <4>2, <1>12
        <5> QED
          BY <5>1, SeqAddProperties, Zenon
      <4>4. /\ ((i - o) - 1) + (n - (i - o) + 1) = n
            /\ n - (i - o) + 1 = o + n - i + 1
        BY <1>2, <1>12
      <4> QED
        BY <4>1, <4>2, <4>3, <4>4
    <3> QED
      BY <3>1, <3>2, <1>2
  <2>3. ASSUME NEW i \in 1..Len(t.outstanding)
        PROVE  SeqAdd(t.outstanding[i].seq, Len(t.outstanding) - i + 1) = t.vs
    <3>1. i \in 1..(o + n)
      BY <2>1
    <3>2. SeqAdd(out[i].seq, o + n - i + 1) = SeqAdd(s.vs, n)
      BY <3>1, <2>2
    <3>3. Len(t.outstanding) - i + 1 = o + n - i + 1
      BY <2>1, <1>2, <1>12
    <3> QED
      BY <3>2, <3>3, <1>13
  <2>4. Len(t.outstanding) <= Window
    BY <2>1, <1>3
  <2> QED
    BY <2>3, <2>4 DEF WindowConsistent
<1>17. TimerConsistent(t)
  <2>1. n > 0 <=> n # 0
    BY <1>12
  <2>2. (s.t1 \/ n > 0) <=> out # <<>>
    BY <2>1, <1>1, <1>8, <1>10
  <2> QED
    BY <2>2, <1>13, <1>14 DEF TimerConsistent
<1>18. BacklogWaitsForRoom(t)
  <2>1. Len(t.outstanding) = o + n
    BY <1>5, <1>8, <1>13
  <2> QED
    BY <2>1, <1>4, <1>9, <1>13, <1>14 DEF BacklogWaitsForRoom
<1>19. acts \in Seq(QuietAction)
  <2>1. acts \in [1..n -> QuietAction]
    BY <1>7, <1>11
  <2> QED
    BY <2>1, <1>12, FunctionIsSeq
<1> QED
  BY <1>1, <1>13, <1>16, <1>17, <1>18, <1>19, <1>15
  DEF Consistent, QueuesOnlyWhileConnected, t, acts

-----------------------------------------------------------------------------
(* Acknowledgements.                                                       *)

\* Modulo 8, seven consecutive numbers differ.
LEMMA SeqAddInjective ==
  ASSUME NEW a \in Nat, NEW b \in 1..7, NEW c \in 1..7, SeqAdd(a, b) = SeqAdd(a, c)
  PROVE  b = c
BY DEF SeqAdd

\* Popping the front until N(R) is found leaves nothing, or what follows the
\* one frame with that number: a window of at most 7 has no second one.
LEMMA StillUnackedIsSuffix ==
  ASSUME NEW s \in Session, WindowConsistent(s), NEW nr
  PROVE  \/ StillUnacked(s.outstanding, nr) = <<>>
         \/ \E m \in 1..Len(s.outstanding) :
              StillUnacked(s.outstanding, nr)
                = SubSeq(s.outstanding, m, Len(s.outstanding))
<1> DEFINE out == s.outstanding
           o == Len(out)
           hits == {i \in 1..o : out[i].seq = nr}
           first == CHOOSE i \in hits : \A j \in hits : i <= j
<1>1. CASE hits = {}
  BY <1>1 DEF StillUnacked
<1>2. CASE hits # {}
  <2>1. PICK m \in hits : TRUE
    BY <1>2
  <2>2. out \in Seq(PendingIFrame) /\ o \in Nat /\ o <= 7
    BY SessionParts, ArqConfigAssumption DEF WindowConsistent
  <2>3. \A i \in 1..o : SeqAdd(out[i].seq, o - i + 1) = s.vs
    BY DEF WindowConsistent
  <2>4. nr \in Nat
    <3>1. out[m] \in PendingIFrame
      BY <2>1, <2>2, ElementOfSeq
    <3> QED
      BY <2>1, <3>1 DEF PendingIFrame, SeqNum
  <2>5. ASSUME NEW j \in hits PROVE m = j
    <3> HIDE DEF o, out
    <3>1. SeqAdd(nr, o - m + 1) = s.vs /\ SeqAdd(nr, o - j + 1) = s.vs
      BY <2>1, <2>3
    <3>2. o - m + 1 \in 1..7 /\ o - j + 1 \in 1..7
      BY <2>1, <2>2
    <3>3. o - m + 1 = o - j + 1
      BY <3>1, <3>2, <2>4, SeqAddInjective
    <3> QED
      BY <3>3, <2>1, <2>2
  <2>6. m \in 1..o /\ \A j \in hits : m <= j
    BY <2>1, <2>5
  <2>7. first \in hits
    BY <2>1, <2>6
  <2>8. StillUnacked(out, nr) = SubSeq(out, first, o)
    BY <1>2 DEF StillUnacked
  <2> QED
    BY <2>7, <2>8
<1> QED
  BY <1>1, <1>2

\* What is left after an acknowledgement is still numbered up to V(S) - 1.
LEMMA StillUnackedKeepsWindow ==
  ASSUME NEW s \in Session, WindowConsistent(s), NEW nr
  PROVE  LET left == StillUnacked(s.outstanding, nr)
         IN  /\ left \in Seq(PendingIFrame)
             /\ Len(left) <= Window
             /\ \A i \in 1..Len(left) :
                  SeqAdd(left[i].seq, Len(left) - i + 1) = s.vs
<1> DEFINE out == s.outstanding
           o == Len(out)
           left == StillUnacked(out, nr)
<1>1. out \in Seq(PendingIFrame) /\ o \in Nat /\ o <= Window
  BY SessionParts DEF WindowConsistent
<1>2. \A i \in 1..o : SeqAdd(out[i].seq, o - i + 1) = s.vs
  BY DEF WindowConsistent
<1>3. CASE left = <<>>
  BY <1>3, EmptySeq, ArqConfigAssumption
<1>4. CASE \E m \in 1..o : left = SubSeq(out, m, o)
  <2>1. PICK m \in 1..o : left = SubSeq(out, m, o)
    BY <1>4
  <2>2. m \in Int /\ o \in Int /\ m <= o
    BY <1>1
  <2>3. \A i \in m..o : out[i] \in PendingIFrame
    BY <1>1, ElementOfSeq
  <2>4. /\ SubSeq(out, m, o) \in Seq(PendingIFrame)
        /\ Len(SubSeq(out, m, o)) = IF m <= o THEN o - m + 1 ELSE 0
        /\ \A i \in 1..(o - m + 1) : SubSeq(out, m, o)[i] = out[m + i - 1]
    BY <2>2, <2>3, SubSeqProperties
  <2> HIDE DEF left, o, out
  <2>5. Len(left) = o - m + 1 /\ left \in Seq(PendingIFrame)
    BY <2>1, <2>2, <2>4
  <2>6. ASSUME NEW i \in 1..(o - m + 1)
        PROVE  SeqAdd(left[i].seq, (o - m + 1) - i + 1) = s.vs
    <3>1. m + i - 1 \in 1..o /\ o - (m + i - 1) + 1 = (o - m + 1) - i + 1
      BY <2>2, <1>1
    <3>2. left[i] = out[m + i - 1]
      BY <2>1, <2>4
    <3>3. SeqAdd(out[m + i - 1].seq, o - (m + i - 1) + 1) = s.vs
      BY <3>1, <1>2
    <3> QED
      BY <3>1, <3>2, <3>3
  <2>7. ASSUME NEW i \in 1..Len(left)
        PROVE  SeqAdd(left[i].seq, Len(left) - i + 1) = s.vs
    <3>1. i \in 1..(o - m + 1)
      BY <2>5, <2>2
    <3>2. Len(left) - i + 1 = (o - m + 1) - i + 1
      BY <2>5, <2>2
    <3> QED
      BY <3>1, <3>2, <2>6
  <2>8. Len(left) <= Window
    BY <2>5, <2>2, <1>1, ArqConfigAssumption
  <2> QED
    BY <2>5, <2>7, <2>8 DEF left, out
<1> QED
  BY <1>3, <1>4, StillUnackedIsSuffix

\* ack_up_to on a connected session: the retry count starts over, T1 runs if
\* and only if frames are left or sent, and the window is refilled.
LEMMA AckUpToKeepsConsistent ==
  ASSUME NEW s \in Session, s.state = "Connected", WindowConsistent(s), NEW nr
  PROVE  /\ Consistent(AckUpTo(s, nr).session)
         /\ AckUpTo(s, nr).session.state = "Connected"
         /\ AckUpTo(s, nr).actions \in Seq(QuietAction)
<1> DEFINE left == StillUnacked(s.outstanding, nr)
           t == [ s EXCEPT !.outstanding = left, !.retry_count = 0, !.t1 = left # <<>> ]
<1>1. /\ left \in Seq(PendingIFrame)
      /\ Len(left) <= Window
      /\ \A i \in 1..Len(left) : SeqAdd(left[i].seq, Len(left) - i + 1) = s.vs
  BY StillUnackedKeepsWindow
<1>2. AckUpTo(s, nr) = PushBacklogIntoWindow(t)
  BY DEF AckUpTo
<1> HIDE DEF left
<1>3. t \in Session
  BY <1>1 DEF Session
<1>4. /\ t.state = "Connected" /\ t.outstanding = left /\ t.vs = s.vs
      /\ t.retry_count = 0
  BY DEF Session
<1>5. t.t1 = (left # <<>>)
  BY DEF Session
<1> HIDE DEF t
<1>6. WindowConsistent(t)
  BY <1>1, <1>4 DEF WindowConsistent
<1>7. Unfilled(t)
  <2>1. t.retry_count <= N2
    BY <1>4, ArqConfigAssumption
  <2> QED
    BY <2>1, <1>3, <1>4, <1>5, <1>6 DEF Unfilled
<1> QED
  BY <1>2, <1>7, PushKeepsConsistent

-----------------------------------------------------------------------------
(* What an operation reports.                                              *)

Changes(acts) == {i \in DOMAIN acts : acts[i].act = "StateChanged"}
SaysClosed(acts) == \E i \in DOMAIN acts : acts[i].act = "Closed"

\* An operation on a session whose state was before reports at most one change
\* of state, to the state it leaves; none means there was none.  It reports the
\* connection closed exactly if it ends it, right after that change and last.
\* Data comes of a connected session that stays connected.
Truthful(r, before) ==
  /\ r.actions \in Seq(Action)
  /\ \/ Changes(r.actions) = {} /\ r.session.state = before
     \/ \E i \in DOMAIN r.actions :
          Changes(r.actions) = {i} /\ r.actions[i].state = r.session.state
  /\ SaysClosed(r.actions) <=> before # "Disconnected" /\ r.session.state = "Disconnected"
  /\ \A i \in DOMAIN r.actions :
       r.actions[i].act = "Closed" => i = Len(r.actions) /\ i - 1 \in Changes(r.actions)
  /\ \A i \in DOMAIN r.actions :
       r.actions[i].act = "Data" => before = "Connected" /\ Changes(r.actions) = {}

\* Silence is quiet.
LEMMA SilentIsQuiet ==
  ASSUME NEW acts \in Seq(SilentAction)
  PROVE  acts \in Seq(QuietAction)
<1>1. SilentAction \subseteq QuietAction
  BY DEF SilentAction, QuietAction
<1> QED
  BY <1>1, SeqMonotonic

\* Without reports nothing may have changed.
LEMMA QuietIsTruthful ==
  ASSUME NEW r, NEW before, r.actions \in Seq(QuietAction), r.session.state = before,
         before = "Connected" \/ r.actions \in Seq(SilentAction)
  PROVE  Truthful(r, before)
<1>1. QuietAction \subseteq Action
  BY DEF QuietAction
<1>2. r.actions \in Seq(Action)
  BY <1>1, SeqMonotonic
<1>3. \A i \in DOMAIN r.actions : r.actions[i] \in QuietAction
  BY ElementOfSeq, LenProperties
<1>4. /\ Changes(r.actions) = {} /\ ~SaysClosed(r.actions)
      /\ \A i \in DOMAIN r.actions : r.actions[i].act # "Closed"
  BY <1>3 DEF Changes, SaysClosed, QuietAction
<1>5. \A i \in DOMAIN r.actions : r.actions[i].act = "Data" => before = "Connected"
  <2> SUFFICES ASSUME r.actions \in Seq(SilentAction)
               PROVE  \A i \in DOMAIN r.actions : r.actions[i].act # "Data"
    OBVIOUS
  <2>1. \A i \in DOMAIN r.actions : r.actions[i] \in SilentAction
    BY ElementOfSeq, LenProperties
  <2> QED
    BY <2>1 DEF SilentAction
<1> QED
  BY <1>2, <1>4, <1>5 DEF Truthful

\* A report of one change, and one of a teardown.
LEMMA ReportIsTruthful ==
  ASSUME NEW t, NEW a \in SilentAction, NEW st \in ConnState, t.state = st
  PROVE  /\ st # "Disconnected" =>
              \A before : Truthful(Result(t, <<a, StateChanged(st)>>), before)
         /\ st # "Disconnected" =>
              \A before : Truthful(Result(t, <<StateChanged(st)>>), before)
<1>1. /\ a \in Action /\ StateChanged(st) \in Action
      /\ a.act # "StateChanged" /\ a.act # "Closed" /\ a.act # "Data"
      /\ StateChanged(st).act = "StateChanged" /\ StateChanged(st).state = st
  BY DEF SilentAction, Action, StateChanged
<1> HIDE DEF StateChanged
<1>2. ASSUME st # "Disconnected", NEW before
      PROVE  Truthful(Result(t, <<a, StateChanged(st)>>), before)
  <2> DEFINE acts == <<a, StateChanged(st)>>
  <2>1. acts \in Seq(Action) /\ DOMAIN acts = {1, 2}
    BY <1>1
  <2>2. /\ Changes(acts) = {2} /\ ~SaysClosed(acts)
        /\ \A i \in DOMAIN acts : acts[i].act \notin {"Closed", "Data"}
    BY <1>1, <2>1 DEF Changes, SaysClosed
  <2>3. acts[2].state = st
    BY <1>1
  <2> QED
    BY <1>2, <2>1, <2>2, <2>3 DEF Truthful, Result
<1>3. ASSUME st # "Disconnected", NEW before
      PROVE  Truthful(Result(t, <<StateChanged(st)>>), before)
  <2> DEFINE acts == <<StateChanged(st)>>
  <2>1. acts \in Seq(Action) /\ DOMAIN acts = {1}
    BY <1>1
  <2>2. /\ Changes(acts) = {1} /\ ~SaysClosed(acts)
        /\ \A i \in DOMAIN acts : acts[i].act \notin {"Closed", "Data"}
    BY <1>1, <2>1 DEF Changes, SaysClosed
  <2>3. acts[1].state = st
    BY <1>1
  <2> QED
    BY <1>3, <2>1, <2>2, <2>3 DEF Truthful, Result
<1> QED
  BY <1>2, <1>3

\* A frame is put before a teardown.
LEMMA ConcatOneTwo ==
  ASSUME NEW a, NEW b, NEW c
  PROVE  <<a>> \o <<b, c>> = <<a, b, c>>
<1> DEFINE S == {a, b, c}
<1>1. <<a>> \in Seq(S) /\ <<b, c>> \in Seq(S) /\ <<a, b, c>> \in Seq(S)
  OBVIOUS
<1>2. Len(<<a>>) = 1 /\ Len(<<b, c>>) = 2 /\ Len(<<a, b, c>>) = 3
  OBVIOUS
<1>3. /\ <<a>> \o <<b, c>> \in Seq(S)
      /\ Len(<<a>> \o <<b, c>>) = Len(<<a>>) + Len(<<b, c>>)
      /\ \A i \in 1..(Len(<<a>>) + Len(<<b, c>>)) :
           (<<a>> \o <<b, c>>)[i]
             = IF i <= Len(<<a>>) THEN <<a>>[i] ELSE <<b, c>>[i - Len(<<a>>)]
  BY <1>1, ConcatProperties
<1>4. \A i \in 1..3 : (<<a>> \o <<b, c>>)[i] = <<a, b, c>>[i]
  BY <1>2, <1>3
<1> DEFINE long == <<a>> \o <<b, c>>
           short == <<a, b, c>>
<1>5. /\ long \in Seq(S) /\ short \in Seq(S) /\ Len(long) = 3 /\ Len(short) = 3
      /\ \A i \in 1..3 : long[i] = short[i]
  BY <1>1, <1>2, <1>3, <1>4
<1>6. long = short
  <2> HIDE DEF long, short, S
  <2> QED
    BY <1>5, SeqEqual
<1> QED
  BY <1>6

\* The end of a link, reported alone or after a frame or a notice.
LEMMA TeardownIsTruthful ==
  ASSUME NEW t, t.state = "Disconnected", NEW a \in SilentAction, NEW before,
         before # "Disconnected"
  PROVE  /\ Truthful(Result(t, Teardown), before)
         /\ Truthful(Result(t, <<a>> \o Teardown), before)
<1>1. /\ a \in Action /\ a.act # "StateChanged" /\ a.act # "Closed" /\ a.act # "Data"
      /\ StateChanged("Disconnected") \in Action /\ Closed \in Action
      /\ StateChanged("Disconnected").act = "StateChanged"
      /\ StateChanged("Disconnected").state = "Disconnected"
      /\ Closed.act = "Closed"
  BY DEF SilentAction, Action, StateChanged, Closed, ConnState
<1>2. /\ Teardown = <<StateChanged("Disconnected"), Closed>>
      /\ <<a>> \o Teardown = <<a, StateChanged("Disconnected"), Closed>>
  BY ConcatOneTwo DEF Teardown
<1> HIDE DEF StateChanged, Closed
<1>3. Truthful(Result(t, Teardown), before)
  <2> DEFINE acts == <<StateChanged("Disconnected"), Closed>>
  <2>1. acts \in Seq(Action) /\ DOMAIN acts = {1, 2} /\ Len(acts) = 2
    BY <1>1
  <2>2. /\ Changes(acts) = {1} /\ SaysClosed(acts)
        /\ \A i \in DOMAIN acts : acts[i].act # "Data" /\ (acts[i].act = "Closed" => i = 2)
    BY <1>1, <2>1 DEF Changes, SaysClosed
  <2>3. acts[1].state = "Disconnected"
    BY <1>1
  <2> QED
    BY <1>2, <2>1, <2>2, <2>3 DEF Truthful, Result
<1>4. Truthful(Result(t, <<a>> \o Teardown), before)
  <2> DEFINE acts == <<a, StateChanged("Disconnected"), Closed>>
  <2>1. acts \in Seq(Action) /\ DOMAIN acts = {1, 2, 3} /\ Len(acts) = 3
    BY <1>1
  <2>2. /\ Changes(acts) = {2} /\ SaysClosed(acts)
        /\ \A i \in DOMAIN acts : acts[i].act # "Data" /\ (acts[i].act = "Closed" => i = 3)
    BY <1>1, <2>1 DEF Changes, SaysClosed
  <2>3. acts[2].state = "Disconnected"
    BY <1>1
  <2> DEFINE r == Result(t, acts)
  <2>4. r.session = t /\ r.actions = acts
    BY DEF Result
  <2> HIDE DEF r, acts
  <2>5. Truthful(r, before)
    BY <2>1, <2>2, <2>3, <2>4 DEF Truthful
  <2> QED
    BY <1>2, <2>5 DEF r, acts
<1> QED
  BY <1>3, <1>4

-----------------------------------------------------------------------------
(* The operations.  Each keeps a session consistent and reports truthfully. *)

Sound(r, before) == Consistent(r.session) /\ Truthful(r, before)

\* Doing nothing is sound.
LEMMA IgnoredIsSound ==
  ASSUME NEW s, Consistent(s)
  PROVE  Sound(Ignored(s), s.state)
<1> DEFINE r == Ignored(s)
<1>1. r.session = s /\ r.actions = <<>>
  BY DEF Ignored, Result
<1> HIDE DEF r
<1>2. r.actions \in Seq(QuietAction) /\ r.actions \in Seq(SilentAction)
  BY <1>1, EmptySeq
<1> QED
  BY <1>1, <1>2, QuietIsTruthful DEF Sound, r

\* A session without queues is consistent if its timer fits its state.
LEMMA EmptyIsConsistent ==
  ASSUME NEW s \in Session, s.outstanding = <<>>, s.backlog = <<>>,
         s.retry_count <= N2,
         s.t1 <=> s.state \in {"Connecting", "Disconnecting"}
  PROVE  Consistent(s)
<1>1. WindowConsistent(s)
  BY EmptySeq, ArqConfigAssumption DEF WindowConsistent
<1> QED
  BY <1>1 DEF Consistent, TimerConsistent, BacklogWaitsForRoom, QueuesOnlyWhileConnected

\* What a session looks like once its queues are cleared.
LEMMA ClearedFields ==
  ASSUME NEW s \in Session, NEW st \in ConnState, NEW timer \in BOOLEAN
  PROVE  LET t == [ s EXCEPT !.state = st, !.outstanding = <<>>,
                             !.backlog = <<>>, !.t1 = timer ]
             u == [t EXCEPT !.retry_count = 0]
         IN  /\ t \in Session /\ t.state = st /\ t.t1 = timer
             /\ t.outstanding = <<>> /\ t.backlog = <<>>
             /\ t.retry_count = s.retry_count
             /\ u \in Session /\ u.state = st /\ u.t1 = timer
             /\ u.outstanding = <<>> /\ u.backlog = <<>> /\ u.retry_count = 0
<1> DEFINE v == [s EXCEPT !.state = st, !.outstanding = <<>>]
           t == [v EXCEPT !.backlog = <<>>, !.t1 = timer]
           u == [t EXCEPT !.retry_count = 0]
<1>1. <<>> \in Seq(PendingIFrame) /\ <<>> \in Seq(Seq(Byte))
  BY EmptySeq
<1>2. /\ v \in Session /\ v.state = st /\ v.outstanding = <<>>
      /\ v.retry_count = s.retry_count
  BY <1>1 DEF Session
<1> HIDE DEF v
<1>3. /\ t \in Session /\ t.state = st /\ t.t1 = timer
      /\ t.outstanding = <<>> /\ t.backlog = <<>> /\ t.retry_count = s.retry_count
  BY <1>1, <1>2 DEF Session
<1> HIDE DEF t
<1>4. /\ u \in Session /\ u.state = st /\ u.t1 = timer
      /\ u.outstanding = <<>> /\ u.backlog = <<>> /\ u.retry_count = 0
  BY <1>3 DEF Session
<1> QED
  BY <1>3, <1>4 DEF t, v

\* A new session is disconnected and empty.
LEMMA NewSessionFields ==
  /\ NewSession \in Session /\ NewSession.state = "Disconnected"
  /\ NewSession.outstanding = <<>> /\ NewSession.backlog = <<>>
  /\ NewSession.retry_count = 0 /\ NewSession.t1 = FALSE
BY DEF NewSession, Session, SeqNum, ConnState

\* A reset leaves nothing but the state.
LEMMA ResetFields ==
  ASSUME NEW s \in Session
  PROVE  LET r == ResetSequenceState(s)
         IN  /\ r \in Session /\ r.state = s.state
             /\ r.outstanding = <<>> /\ r.backlog = <<>>
             /\ r.retry_count = 0 /\ r.t1 = FALSE
<1>1. s.state \in ConnState
  BY SessionParts
<1> QED
  BY <1>1, NewSessionFields DEF ResetSequenceState, Session

\* So a new session is consistent.
LEMMA NewSessionIsConsistent == Consistent(NewSession)
<1>1. NewSession.retry_count <= N2
  BY NewSessionFields, ArqConfigAssumption
<1> QED
  BY <1>1, NewSessionFields, EmptyIsConsistent

\* Connecting: only from Disconnected, and T1 guards the SABM.
LEMMA OpenIsSound ==
  ASSUME NEW s, Consistent(s)
  PROVE  Sound(Open(s), s.state)
<1>1. CASE s.state # "Disconnected"
  BY <1>1, IgnoredIsSound DEF Open
<1>2. CASE s.state = "Disconnected"
  <2> DEFINE r == ResetSequenceState(s)
             t == [r EXCEPT !.state = "Connecting", !.t1 = TRUE]
             sabm == Transmit(UFrame("SABM", TRUE))
  <2>1. s \in Session
    BY DEF Consistent
  <2>2. Open(s) = Result(t, <<sabm, StateChanged("Connecting")>>)
    BY <1>2 DEF Open
  <2>3. /\ t \in Session /\ t.state = "Connecting" /\ t.t1 = TRUE
        /\ t.outstanding = <<>> /\ t.backlog = <<>> /\ t.retry_count = 0
    <3>1. /\ r \in Session /\ r.outstanding = <<>> /\ r.backlog = <<>>
          /\ r.retry_count = 0
      BY <2>1, ResetFields
    <3> HIDE DEF r
    <3> QED
      BY <3>1 DEF Session, ConnState
  <2>4. sabm \in SilentAction
    BY <2>1, OtherFrameTypes
  <2> HIDE DEF t, sabm
  <2>5. t.retry_count <= N2
    BY <2>3, ArqConfigAssumption
  <2>6. Consistent(t)
    BY <2>3, <2>5, EmptyIsConsistent
  <2>7. Truthful(Result(t, <<sabm, StateChanged("Connecting")>>), s.state)
    BY <2>3, <2>4, ReportIsTruthful DEF ConnState
  <2> QED
    BY <2>2, <2>6, <2>7 DEF Sound, Result
<1> QED
  BY <1>1, <1>2

\* Accepting a connect is the same whatever the session was before.
LEMMA AcceptIncomingIsSound ==
  ASSUME NEW s \in Session, NEW poll \in BOOLEAN, NEW before
  PROVE  Sound(AcceptIncoming(s, poll), before)
<1> DEFINE r == ResetSequenceState(s)
           t == [r EXCEPT !.state = "Connected"]
           ua == Transmit(UFrame("UA", poll))
<1>1. AcceptIncoming(s, poll) = Result(t, <<ua, StateChanged("Connected")>>)
  BY DEF AcceptIncoming
<1>2. /\ t \in Session /\ t.state = "Connected" /\ t.t1 = FALSE
      /\ t.outstanding = <<>> /\ t.backlog = <<>> /\ t.retry_count = 0
  <2>1. /\ r \in Session /\ r.outstanding = <<>> /\ r.backlog = <<>>
        /\ r.retry_count = 0 /\ r.t1 = FALSE
    BY ResetFields
  <2> HIDE DEF r
  <2> QED
    BY <2>1 DEF Session, ConnState
<1>3. ua \in SilentAction
  BY OtherFrameTypes
<1> HIDE DEF t, ua
<1>4. t.retry_count <= N2
  BY <1>2, ArqConfigAssumption
<1>5. Consistent(t)
  BY <1>2, <1>4, EmptyIsConsistent
<1>6. Truthful(Result(t, <<ua, StateChanged("Connected")>>), before)
  BY <1>2, <1>3, ReportIsTruthful DEF ConnState
<1> QED
  BY <1>1, <1>5, <1>6 DEF Sound, Result

\* Disconnecting: the queues go, and T1 guards the DISC.
LEMMA CloseIsSound ==
  ASSUME NEW s, Consistent(s)
  PROVE  Sound(Close(s), s.state)
<1>1. CASE s.state = "Disconnected"
  BY <1>1, IgnoredIsSound DEF Close
<1>2. CASE s.state # "Disconnected"
  <2> DEFINE t == [ s EXCEPT !.state = "Disconnecting", !.outstanding = <<>>,
                             !.backlog = <<>>, !.t1 = TRUE, !.retry_count = 0 ]
             disc == Transmit(UFrame("DISC", TRUE))
  <2>1. s \in Session
    BY DEF Consistent
  <2>2. Close(s) = Result(t, <<disc, StateChanged("Disconnecting")>>)
    BY <1>2 DEF Close
  <2>3. /\ t \in Session /\ t.state = "Disconnecting" /\ t.t1 = TRUE
        /\ t.outstanding = <<>> /\ t.backlog = <<>> /\ t.retry_count = 0
    <3> DEFINE v == [s EXCEPT !.state = "Disconnecting", !.outstanding = <<>>]
               u == [v EXCEPT !.backlog = <<>>, !.t1 = TRUE]
    <3>1. /\ "Disconnecting" \in ConnState
          /\ <<>> \in Seq(PendingIFrame) /\ <<>> \in Seq(Seq(Byte))
      BY EmptySeq DEF ConnState
    <3>2. v \in Session /\ v.state = "Disconnecting" /\ v.outstanding = <<>>
      BY <2>1, <3>1 DEF Session
    <3> HIDE DEF v
    <3>3. /\ u \in Session /\ u.state = "Disconnecting" /\ u.t1 = TRUE
          /\ u.outstanding = <<>> /\ u.backlog = <<>>
      BY <3>1, <3>2 DEF Session
    <3>4. t = [u EXCEPT !.retry_count = 0]
      BY DEF v
    <3> HIDE DEF t, u
    <3> QED
      BY <3>3, <3>4 DEF Session
  <2>4. disc \in SilentAction
    BY <2>1, OtherFrameTypes
  <2> HIDE DEF t, disc
  <2>5. t.retry_count <= N2
    BY <2>3, ArqConfigAssumption
  <2>6. Consistent(t)
    BY <2>3, <2>5, EmptyIsConsistent
  <2>7. Truthful(Result(t, <<disc, StateChanged("Disconnecting")>>), s.state)
    BY <2>3, <2>4, ReportIsTruthful DEF ConnState
  <2> QED
    BY <2>2, <2>6, <2>7 DEF Sound, Result
<1> QED
  BY <1>1, <1>2

-----------------------------------------------------------------------------
(* Operations on a connected session that leave it connected.              *)

Working(r) ==
  /\ Consistent(r.session)
  /\ r.session.state = "Connected"
  /\ r.actions \in Seq(QuietAction)

\* What stays connected and reports nothing is sound.
LEMMA WorkingIsSound ==
  ASSUME NEW r, Working(r)
  PROVE  Sound(r, "Connected")
BY QuietIsTruthful DEF Working, Sound

\* Of a connected session, acknowledgement only needs the window.
LEMMA AckUpToWorks ==
  ASSUME NEW s, Consistent(s), s.state = "Connected", NEW busy \in BOOLEAN, NEW nr
  PROVE  /\ Working(AckUpTo(s, nr))
         /\ Working(AckUpTo([s EXCEPT !.peer_busy = busy], nr))
<1> DEFINE t == [s EXCEPT !.peer_busy = busy]
<1>1. s \in Session /\ WindowConsistent(s)
  BY DEF Consistent
<1>2. /\ t \in Session /\ t.state = "Connected"
      /\ t.outstanding = s.outstanding /\ t.vs = s.vs
  BY <1>1 DEF Session
<1> HIDE DEF t
<1>3. WindowConsistent(t)
  BY <1>1, <1>2 DEF WindowConsistent
<1>4. Working(AckUpTo(s, nr))
  BY <1>1, AckUpToKeepsConsistent DEF Working
<1>5. Working(AckUpTo(t, nr))
  BY <1>2, <1>3, AckUpToKeepsConsistent DEF Working
<1> QED
  BY <1>4, <1>5 DEF t

\* Frames are sent again as frames.
LEMMA RetransmitType ==
  ASSUME NEW s \in Session, NEW pollLast \in BOOLEAN
  PROVE  RetransmitOutstanding(s, pollLast) \in Seq(QuietAction)
<1> DEFINE out == s.outstanding
           n == Len(out)
           resent == [i \in 1..n |-> BuildIFrame(s, out[i], pollLast /\ i = n)]
<1>1. n \in Nat /\ out \in Seq(PendingIFrame)
  BY SessionParts
<1>2. ASSUME NEW i \in 1..n PROVE BuildIFrame(s, out[i], pollLast /\ i = n) \in QuietAction
  <2>1. out[i] \in PendingIFrame
    BY <1>1, ElementOfSeq
  <2>2. (pollLast /\ i = n) \in BOOLEAN
    OBVIOUS
  <2> QED
    BY <2>1, <2>2, BuildIFrameType
<1>3. resent \in [1..n -> QuietAction]
  BY <1>2
<1>4. resent \in Seq(QuietAction)
  <2> HIDE DEF resent, n
  <2> QED
    BY <1>1, <1>3, FunctionIsSeq
<1> QED
  BY <1>4 DEF RetransmitOutstanding

\* Answering a poll changes nothing.
LEMMA FinalIfPolledWorks ==
  ASSUME NEW r, Working(r), NEW f, f.pf \in BOOLEAN
  PROVE  Working(FinalIfPolled(r, f))
<1>1. r.session \in Session
  BY DEF Working, Consistent
<1>2. CASE f.pf
  <2> DEFINE final == RR(r.session, TRUE)
             acts == Append(r.actions, final)
  <2>1. FinalIfPolled(r, f) = Result(r.session, acts)
    BY <1>2 DEF FinalIfPolled
  <2>2. final \in QuietAction
    BY <1>1, OtherFrameTypes
  <2>3. acts \in Seq(QuietAction)
    <3> HIDE DEF final
    <3> QED
      BY <2>2, AppendProperties DEF Working
  <2> HIDE DEF acts
  <2> QED
    BY <2>1, <2>3 DEF Working, Result
<1>3. CASE ~f.pf
  BY <1>3 DEF FinalIfPolled
<1> QED
  BY <1>2, <1>3

\* V(R) is not the window's business.
LEMMA ReceivingWorks ==
  ASSUME NEW s, Consistent(s), NEW vr \in SeqNum
  PROVE  Consistent([s EXCEPT !.vr = vr]) /\ [s EXCEPT !.vr = vr].state = s.state
<1> DEFINE t == [s EXCEPT !.vr = vr]
<1>1. /\ t \in Session /\ t.state = s.state /\ t.vs = s.vs
      /\ t.outstanding = s.outstanding /\ t.backlog = s.backlog
      /\ t.retry_count = s.retry_count
  BY DEF Consistent, Session
<1>2. t.t1 = s.t1 /\ t.peer_busy = s.peer_busy
  BY DEF Consistent, Session
<1> HIDE DEF t
<1>3. WindowConsistent(t)
  BY <1>1 DEF Consistent, WindowConsistent
<1>4. TimerConsistent(t) /\ BacklogWaitsForRoom(t) /\ QueuesOnlyWhileConnected(t)
  BY <1>1, <1>2
  DEF Consistent, TimerConsistent, BacklogWaitsForRoom, QueuesOnlyWhileConnected
<1>5. t.retry_count <= N2
  BY <1>1 DEF Consistent
<1> QED
  BY <1>1, <1>3, <1>4, <1>5 DEF Consistent, t

\* An I frame acknowledges first, then is accepted or rejected.
LEMMA OnInformationIsSound ==
  ASSUME NEW s, Consistent(s),
         NEW f \in [type : {"I"}, ns : SeqNum, nr : SeqNum, pf : BOOLEAN, info : Seq(Byte)]
  PROVE  Sound(OnInformation(s, f), s.state)
<1>1. CASE s.state # "Connected"
  <2> DEFINE frmr == Transmit(UFrame("FRMR", FALSE))
             r == Result(s, <<frmr>>)
  <2>1. frmr \in QuietAction /\ frmr \in SilentAction
    BY OtherFrameTypes DEF Consistent
  <2>2. r.session = s /\ r.actions = <<frmr>>
    BY DEF Result
  <2>3. OnInformation(s, f) = r
    BY <1>1 DEF OnInformation
  <2> HIDE DEF frmr, r
  <2>4. r.actions \in Seq(QuietAction) /\ r.actions \in Seq(SilentAction)
    BY <2>1, <2>2
  <2> QED
    BY <2>2, <2>3, <2>4, QuietIsTruthful DEF Sound
<1>2. CASE s.state = "Connected"
  <2> DEFINE r == AckUpTo(s, f.nr)
             t == [r.session EXCEPT !.vr = SeqAdd(r.session.vr, 1)]
             data == Data(f.info)
             rr == RR(t, FALSE)
             rej == REJ(r.session)
  <2>1. Working(r)
    BY <1>2, AckUpToWorks
  <2>2. r.session \in Session
    BY <2>1 DEF Working, Consistent
  <2>3. SeqAdd(r.session.vr, 1) \in SeqNum
    <3>1. r.session.vr \in SeqNum
      BY <2>2, SessionParts, Zenon
    <3> HIDE DEF r
    <3>2. r.session.vr \in Nat
      BY <3>1 DEF SeqNum
    <3> QED
      BY <3>2, SeqAddProperties
  <2>4. Consistent(t) /\ t.state = "Connected"
    BY <2>1, <2>3, ReceivingWorks DEF Working
  <2>5. /\ data \in QuietAction /\ rr \in QuietAction /\ rej \in QuietAction
    <3>1. t \in Session
      BY <2>4 DEF Consistent
    <3>2. rr \in QuietAction /\ rej \in QuietAction
      BY <2>2, <3>1, OtherFrameTypes
    <3>3. data \in QuietAction
      BY DEF Data, QuietAction, Action
    <3> QED
      BY <3>2, <3>3
  <2>6. /\ OnInformation(s, f) = Result(t, r.actions \o <<data, rr>>)
        \/ OnInformation(s, f) = Result(r.session, Append(r.actions, rej))
    BY <1>2 DEF OnInformation
  <2>7. Working(Result(t, r.actions \o <<data, rr>>))
    <3> HIDE DEF r, t, data, rr
    <3>1. <<data, rr>> \in Seq(QuietAction) /\ r.actions \in Seq(QuietAction)
      BY <2>1, <2>5 DEF Working
    <3>2. r.actions \o <<data, rr>> \in Seq(QuietAction)
      BY <3>1, ConcatProperties
    <3> QED
      BY <2>4, <3>2 DEF Working, Result
  <2>8. Working(Result(r.session, Append(r.actions, rej)))
    <3> HIDE DEF r, rej
    <3>1. Append(r.actions, rej) \in Seq(QuietAction)
      BY <2>1, <2>5, AppendProperties DEF Working
    <3> QED
      BY <2>1, <3>1 DEF Working, Result
  <2> QED
    BY <2>6, <2>7, <2>8, <1>2, WorkingIsSound
<1> QED
  BY <1>1, <1>2

SupervisoryFrame == [type : {"RR", "RNR", "REJ"}, nr : SeqNum, pf : BOOLEAN]

\* A supervisory frame acknowledges, whatever it says of the peer.
LEMMA OnRrIsSound ==
  ASSUME NEW s, Consistent(s), NEW f \in SupervisoryFrame
  PROVE  Sound(OnRr(s, f), s.state)
<1>1. CASE s.state # "Connected"
  BY <1>1, IgnoredIsSound DEF OnRr
<1>2. CASE s.state = "Connected"
  <2>1. f.pf \in BOOLEAN
    BY DEF SupervisoryFrame
  <2>2. Working(AckUpTo([s EXCEPT !.peer_busy = FALSE], f.nr))
    BY <1>2, AckUpToWorks
  <2>3. Working(OnRr(s, f))
    BY <1>2, <2>1, <2>2, FinalIfPolledWorks DEF OnRr
  <2> QED
    BY <1>2, <2>3, WorkingIsSound
<1> QED
  BY <1>1, <1>2

\* The same of a peer that is busy.
LEMMA OnRnrIsSound ==
  ASSUME NEW s, Consistent(s), NEW f \in SupervisoryFrame
  PROVE  Sound(OnRnr(s, f), s.state)
<1>1. CASE s.state # "Connected"
  BY <1>1, IgnoredIsSound DEF OnRnr
<1>2. CASE s.state = "Connected"
  <2>1. f.pf \in BOOLEAN
    BY DEF SupervisoryFrame
  <2>2. Working(AckUpTo([s EXCEPT !.peer_busy = TRUE], f.nr))
    BY <1>2, AckUpToWorks
  <2>3. Working(OnRnr(s, f))
    BY <1>2, <2>1, <2>2, FinalIfPolledWorks DEF OnRnr
  <2> QED
    BY <1>2, <2>3, WorkingIsSound
<1> QED
  BY <1>1, <1>2

\* A REJ acknowledges, then has the rest of the window sent again.
LEMMA OnRejectIsSound ==
  ASSUME NEW s, Consistent(s), NEW f \in SupervisoryFrame
  PROVE  Sound(OnReject(s, f), s.state)
<1>1. CASE s.state # "Connected"
  BY <1>1, IgnoredIsSound DEF OnReject
<1>2. CASE s.state = "Connected"
  <2> DEFINE r == AckUpTo([s EXCEPT !.peer_busy = FALSE], f.nr)
             again == RetransmitOutstanding(r.session, FALSE)
             t == Result(r.session, r.actions \o again)
  <2>1. f.pf \in BOOLEAN
    BY DEF SupervisoryFrame
  <2>2. Working(r)
    BY <1>2, AckUpToWorks
  <2>3. OnReject(s, f) = FinalIfPolled(t, f)
    BY <1>2 DEF OnReject
  <2> HIDE DEF r
  <2>4. again \in Seq(QuietAction)
    BY <2>2, RetransmitType DEF Working, Consistent
  <2> HIDE DEF again
  <2>5. r.actions \o again \in Seq(QuietAction)
    BY <2>2, <2>4, ConcatProperties DEF Working
  <2>6. Working(t)
    BY <2>2, <2>5 DEF Working, Result
  <2> HIDE DEF t
  <2>7. Working(OnReject(s, f))
    BY <2>1, <2>3, <2>6, FinalIfPolledWorks
  <2> QED
    BY <1>2, <2>7, WorkingIsSound
<1> QED
  BY <1>1, <1>2

-----------------------------------------------------------------------------
(* Sending.                                                                *)

\* A message becomes chunks of its own bytes, none of them longer than N1.
LEMMA FragmentType ==
  ASSUME NEW bytes \in Seq(Byte)
  PROVE  /\ Fragment(bytes) \in Seq(Seq(Byte))
         /\ \A i \in DOMAIN Fragment(bytes) : Len(Fragment(bytes)[i]) <= N1
<1> DEFINE len == Len(bytes)
           n == (len + N1 - 1) \div N1
           lo(i) == (i - 1) * N1 + 1
           hi(i) == IF i * N1 <= len THEN i * N1 ELSE len
           chunk(i) == SubSeq(bytes, lo(i), hi(i))
<1>1. len \in Nat /\ N1 \in Nat /\ N1 > 0
  BY LenProperties, ArqConfigAssumption
<1> HIDE DEF len
<1>2. n \in Nat
  <2>1. len + N1 - 1 \in Nat
    BY <1>1
  <2> DEFINE a == len + N1 - 1
  <2> HIDE DEF a
  <2>2. a \div N1 \in Nat
    BY <1>1, <2>1 DEF a
  <2> QED
    BY <2>2 DEF a
<1>3. ASSUME NEW i \in 1..n
      PROVE  chunk(i) \in Seq(Byte) /\ Len(chunk(i)) <= N1
  <2>1. i \in Nat /\ i - 1 \in Nat
    BY <1>2
  <2> HIDE DEF n
  <2>2. (i - 1) * N1 \in Nat /\ i * N1 \in Nat /\ i * N1 = (i - 1) * N1 + N1
    BY <1>1, <2>1
  <2>3. /\ lo(i) \in Int /\ hi(i) \in Int /\ lo(i) >= 1 /\ hi(i) <= len
        /\ hi(i) - lo(i) + 1 <= N1
    BY <1>1, <2>2
  <2> HIDE DEF lo, hi
  <2>4. \A k \in lo(i)..hi(i) : bytes[k] \in Byte
    BY <1>1, <2>3, ElementOfSeq DEF len
  <2>5. /\ chunk(i) \in Seq(Byte)
        /\ Len(chunk(i)) = IF lo(i) <= hi(i) THEN hi(i) - lo(i) + 1 ELSE 0
    BY <2>3, <2>4, SubSeqProperties
  <2> QED
    BY <1>1, <2>3, <2>5
<1>4. Fragment(bytes) = [i \in 1..n |-> chunk(i)]
  BY DEF Fragment, len
<1> HIDE DEF n, chunk
<1>5. Fragment(bytes) \in [1..n -> Seq(Byte)]
  BY <1>3, <1>4
<1>6. Fragment(bytes) \in Seq(Seq(Byte))
  BY <1>2, <1>5, FunctionIsSeq
<1>7. \A i \in DOMAIN Fragment(bytes) : Len(Fragment(bytes)[i]) <= N1
  BY <1>3, <1>4
<1> QED
  BY <1>6, <1>7

\* Only a connected session accepts data, and it fills the window at once.
LEMMA SendIsSound ==
  ASSUME NEW s, Consistent(s), NEW bytes \in Seq(Byte)
  PROVE  Sound(Send(s, bytes), s.state)
<1>1. CASE s.state # "Connected"
  BY <1>1, IgnoredIsSound DEF Send
<1>2. CASE s.state = "Connected"
  <2> DEFINE longer == s.backlog \o Fragment(bytes)
             t == [s EXCEPT !.backlog = longer]
  <2>1. s \in Session /\ s.retry_count <= N2 /\ WindowConsistent(s)
    BY DEF Consistent
  <2>2. longer \in Seq(Seq(Byte))
    BY <2>1, SessionParts, FragmentType, ConcatProperties
  <2>3. Send(s, bytes) = PushBacklogIntoWindow(t)
    BY <1>2 DEF Send
  <2> HIDE DEF longer
  <2>4. /\ t \in Session /\ t.state = "Connected" /\ t.vs = s.vs
        /\ t.outstanding = s.outstanding /\ t.retry_count = s.retry_count
    BY <1>2, <2>1, <2>2 DEF Session
  <2>5. t.t1 = s.t1
    BY <2>1 DEF Session
  <2> HIDE DEF t
  <2>6. s.t1 <=> s.outstanding # <<>>
    BY <1>2 DEF Consistent, TimerConsistent
  <2>7. WindowConsistent(t)
    BY <2>1, <2>4 DEF WindowConsistent
  <2>8. Unfilled(t)
    BY <2>1, <2>4, <2>5, <2>6, <2>7 DEF Unfilled
  <2>9. Working(Send(s, bytes))
    BY <2>3, <2>8, PushKeepsConsistent DEF Working
  <2> QED
    BY <1>2, <2>9, WorkingIsSound
<1> QED
  BY <1>1, <1>2

-----------------------------------------------------------------------------
(* Connection management.                                                  *)

\* A SABM resets whatever there is; a link that was up is not reported anew.
LEMMA OnSabmIsSound ==
  ASSUME NEW s, Consistent(s), NEW f, f.pf \in BOOLEAN
  PROVE  Sound(OnSabm(s, f), s.state)
<1>1. s \in Session
  BY DEF Consistent
<1>2. CASE s.state # "Connected"
  <2>1. OnSabm(s, f) = AcceptIncoming(s, f.pf)
    BY <1>2 DEF OnSabm, AcceptIncoming
  <2> QED
    BY <1>1, <2>1, AcceptIncomingIsSound
<1>3. CASE s.state = "Connected"
  <2> DEFINE t == AcceptIncoming(s, f.pf).session
             ua == Transmit(UFrame("UA", f.pf))
             r == Result(t, <<ua, Monitor>>)
  <2>1. OnSabm(s, f) = r
    BY <1>3 DEF OnSabm, AcceptIncoming, Result
  <2>2. Consistent(t)
    BY <1>1, AcceptIncomingIsSound DEF Sound
  <2>3. t.state = "Connected"
    <3>1. ResetSequenceState(s) \in Session
      BY <1>1, ResetFields
    <3> QED
      BY <3>1 DEF AcceptIncoming, Result, Session
  <2>4. ua \in QuietAction /\ Monitor \in QuietAction
    BY <1>1, OtherFrameTypes DEF Monitor, QuietAction, Action
  <2>5. r.session = t /\ r.actions = <<ua, Monitor>>
    BY DEF Result
  <2> HIDE DEF t, ua, r
  <2>6. r.actions \in Seq(QuietAction)
    BY <2>4, <2>5
  <2> QED
    BY <1>3, <2>1, <2>2, <2>3, <2>5, <2>6, QuietIsTruthful DEF Sound
<1> QED
  BY <1>2, <1>3

\* A torn down session is empty.
LEMMA TornDownIsConsistent ==
  ASSUME NEW s \in Session
  PROVE  Consistent(TornDown(s)) /\ TornDown(s).state = "Disconnected"
<1> DEFINE t == TornDown(s)
<1>1. /\ t \in Session /\ t.state = "Disconnected" /\ t.t1 = FALSE
      /\ t.outstanding = <<>> /\ t.backlog = <<>> /\ t.retry_count = 0
  BY ClearedFields DEF TornDown, ConnState
<1> HIDE DEF t
<1>2. t.retry_count <= N2
  BY <1>1, ArqConfigAssumption
<1> QED
  BY <1>1, <1>2, EmptyIsConsistent DEF t

\* A DISC is always acknowledged, and ends a link that there was.
LEMMA OnDiscIsSound ==
  ASSUME NEW s, Consistent(s), NEW f, f.pf \in BOOLEAN
  PROVE  Sound(OnDisc(s, f), s.state)
<1> DEFINE t == [ s EXCEPT !.state = "Disconnected", !.outstanding = <<>>,
                           !.backlog = <<>>, !.t1 = FALSE ]
           ua == Transmit(UFrame("UA", f.pf))
<1>1. s \in Session /\ s.retry_count <= N2
  BY DEF Consistent
<1>2. /\ t \in Session /\ t.state = "Disconnected" /\ t.t1 = FALSE
      /\ t.outstanding = <<>> /\ t.backlog = <<>>
      /\ t.retry_count = s.retry_count
  BY <1>1, ClearedFields DEF ConnState
<1>3. ua \in SilentAction
  BY <1>1, OtherFrameTypes
<1>4. OnDisc(s, f)
        = Result(t, <<ua>> \o (IF s.state = "Disconnected" THEN <<>> ELSE Teardown))
  BY DEF OnDisc
<1> HIDE DEF t, ua
<1>5. Consistent(t)
  BY <1>1, <1>2, EmptyIsConsistent
<1>6. CASE s.state = "Disconnected"
  <2> DEFINE r == Result(t, <<ua>> \o <<>>)
  <2>1. <<ua>> \o <<>> \in Seq(SilentAction)
    <3>1. <<ua>> \in Seq(SilentAction) /\ <<>> \in Seq(SilentAction)
      BY <1>3, EmptySeq
    <3> QED
      BY <3>1, ConcatProperties
  <2>2. r.session = t /\ r.actions = <<ua>> \o <<>> /\ OnDisc(s, f) = r
    BY <1>4, <1>6 DEF Result
  <2> HIDE DEF r
  <2> QED
    BY <1>2, <1>5, <1>6, <2>1, <2>2, SilentIsQuiet, QuietIsTruthful DEF Sound
<1>7. CASE s.state # "Disconnected"
  <2>1. Truthful(Result(t, <<ua>> \o Teardown), s.state)
    BY <1>2, <1>3, <1>7, TeardownIsTruthful
  <2> QED
    BY <1>4, <1>5, <1>7, <2>1 DEF Sound, Result
<1> QED
  BY <1>6, <1>7

\* DM and FRMR tear a link down; one that is down they leave alone.
LEMMA OnDmIsSound ==
  ASSUME NEW s, Consistent(s)
  PROVE  Sound(OnDm(s), s.state) /\ Sound(OnFrmr(s), s.state)
<1> DEFINE t == TornDown(s)
           r == OnDm(s)
<1>1. Consistent(t) /\ t.state = "Disconnected"
  BY TornDownIsConsistent DEF Consistent
<1>2. /\ r = Result(t, IF s.state = "Disconnected" THEN <<>> ELSE <<Monitor>> \o Teardown)
      /\ OnFrmr(s) = r
  BY DEF OnDm, OnFrmr
<1> HIDE DEF t, r
<1>3. Monitor \in SilentAction
  BY DEF Monitor, SilentAction, Action
<1>4. CASE s.state = "Disconnected"
  <2>1. r.session = t /\ r.actions = <<>>
    BY <1>2, <1>4 DEF Result
  <2>2. r.actions \in Seq(QuietAction) /\ r.actions \in Seq(SilentAction)
    BY <2>1, EmptySeq
  <2>3. Truthful(r, s.state)
    BY <1>1, <1>4, <2>1, <2>2, QuietIsTruthful
  <2> QED
    BY <1>1, <1>2, <2>1, <2>3 DEF Sound, r
<1>5. CASE s.state # "Disconnected"
  <2>1. Truthful(Result(t, <<Monitor>> \o Teardown), s.state)
    BY <1>1, <1>3, <1>5, TeardownIsTruthful
  <2> QED
    BY <1>1, <1>2, <1>5, <2>1 DEF Sound, Result, r
<1> QED
  BY <1>4, <1>5

\* The answer to a SABM or a DISC.  While a session is being set up it has
\* nothing queued that the answer could release.
LEMMA OnUaIsSound ==
  ASSUME NEW s, Consistent(s)
  PROVE  Sound(OnUa(s), s.state)
<1>1. /\ s \in Session /\ s.state \in ConnState /\ QueuesOnlyWhileConnected(s)
  BY SessionParts DEF Consistent
<1>2. CASE s.state = "Connecting"
  <2> DEFINE t == [s EXCEPT !.state = "Connected", !.retry_count = 0, !.t1 = FALSE]
             r == PushBacklogIntoWindow(t)
             report == <<StateChanged("Connected")>>
  <2>1. OnUa(s) = Result(r.session, report \o r.actions)
    BY <1>2 DEF OnUa
  <2>2. s.outstanding = <<>> /\ s.backlog = <<>>
    BY <1>1, <1>2 DEF QueuesOnlyWhileConnected
  <2>3. /\ t \in Session /\ t.state = "Connected" /\ t.t1 = FALSE
        /\ t.outstanding = <<>> /\ t.backlog = <<>> /\ t.retry_count = 0
    BY <1>1, <2>2 DEF Session, ConnState
  <2> HIDE DEF t
  <2>4. Unfilled(t)
    <3>1. WindowConsistent(t) /\ t.retry_count <= N2
      BY <2>3, EmptySeq, ArqConfigAssumption DEF WindowConsistent
    <3> QED
      BY <2>3, <3>1 DEF Unfilled
  <2>5. Consistent(r.session) /\ r.session.state = "Connected"
    BY <2>4, PushKeepsConsistent
  <2>6. r.actions = <<>>
    <3>1. Room(t) = 0
      BY <2>3, EmptySeq, ArqConfigAssumption DEF Room
    <3> DEFINE acts == [i \in 1..Room(t) |-> BuildIFrame(t, Pushed(t)[i], FALSE)]
    <3>2. r.actions = acts
      BY DEF PushBacklogIntoWindow, Pushed, Result
    <3>3. acts \in [1..0 -> QuietAction]
      BY <3>1
    <3> HIDE DEF acts
    <3>4. acts \in Seq(QuietAction) /\ Len(acts) = 0
      BY <3>3, FunctionIsSeq
    <3> QED
      BY <3>2, <3>4, EmptySeq
  <2>7. report \o r.actions = report
    <3>1. report \in Seq(Action)
      BY DEF StateChanged, Action, ConnState
    <3> QED
      BY <2>6, <3>1, ConcatEmptySeq
  <2>8. Truthful(Result(r.session, report), s.state)
    <3>1. Monitor \in SilentAction
      BY DEF Monitor, SilentAction, Action
    <3> QED
      BY <2>5, <3>1, ReportIsTruthful DEF ConnState
  <2> HIDE DEF r, report
  <2>9. OnUa(s) = Result(r.session, report)
    BY <2>1, <2>7
  <2>10. Consistent(OnUa(s).session)
    BY <2>5, <2>9 DEF Result
  <2> QED
    BY <2>8, <2>9, <2>10 DEF Sound
<1>3. CASE s.state = "Disconnecting"
  <2> DEFINE t == [s EXCEPT !.state = "Disconnected", !.t1 = FALSE, !.retry_count = 0]
  <2>1. OnUa(s) = Result(t, Teardown)
    BY <1>3 DEF OnUa
  <2>2. s.outstanding = <<>> /\ s.backlog = <<>>
    BY <1>1, <1>3 DEF QueuesOnlyWhileConnected
  <2>3. /\ t \in Session /\ t.state = "Disconnected" /\ t.t1 = FALSE
        /\ t.outstanding = <<>> /\ t.backlog = <<>> /\ t.retry_count = 0
    BY <1>1, <2>2 DEF Session, ConnState
  <2> HIDE DEF t
  <2>4. t.retry_count <= N2
    BY <2>3, ArqConfigAssumption
  <2>5. Consistent(t)
    BY <2>3, <2>4, EmptyIsConsistent
  <2>6. Monitor \in SilentAction
    BY DEF Monitor, SilentAction, Action
  <2>7. Truthful(Result(t, Teardown), s.state)
    BY <1>3, <2>3, <2>6, TeardownIsTruthful
  <2> QED
    BY <2>1, <2>5, <2>7 DEF Sound, Result
<1>4. CASE s.state \in {"Connected", "Disconnected"}
  BY <1>4, IgnoredIsSound DEF OnUa
<1> QED
  BY <1>1, <1>2, <1>3, <1>4 DEF ConnState

\* Each frame is handled by one of the operations above.
LEMMA OnFrameIsSound ==
  ASSUME NEW s, Consistent(s), NEW f \in Frame
  PROVE  Sound(OnFrame(s, f), s.state)
<1>1. CASE f \in [type : {"I"}, ns : SeqNum, nr : SeqNum, pf : BOOLEAN, info : Seq(Byte)]
  <2>1. OnFrame(s, f) = OnInformation(s, f)
    BY <1>1 DEF OnFrame
  <2> QED
    BY <1>1, <2>1, OnInformationIsSound
<1>2. CASE f \in SupervisoryFrame
  <2>1. \/ OnFrame(s, f) = OnRr(s, f)
        \/ OnFrame(s, f) = OnRnr(s, f)
        \/ OnFrame(s, f) = OnReject(s, f)
    BY <1>2 DEF OnFrame, SupervisoryFrame
  <2> QED
    BY <1>2, <2>1, OnRrIsSound, OnRnrIsSound, OnRejectIsSound
<1>3. CASE f \in [type : {"SABM", "DISC", "UA", "DM", "FRMR"}, pf : BOOLEAN]
  <2>1. f.pf \in BOOLEAN
    BY <1>3
  <2>2. \/ OnFrame(s, f) = OnSabm(s, f)
        \/ OnFrame(s, f) = OnDisc(s, f)
        \/ OnFrame(s, f) = OnUa(s)
        \/ OnFrame(s, f) = OnDm(s)
        \/ OnFrame(s, f) = OnFrmr(s)
    BY <1>3 DEF OnFrame
  <2> QED
    BY <2>1, <2>2, OnSabmIsSound, OnDiscIsSound, OnUaIsSound, OnDmIsSound
<1> QED
  BY <1>1, <1>2, <1>3 DEF Frame, FrameCarrying, SupervisoryFrame

-----------------------------------------------------------------------------
(* The T1 timer.                                                           *)

\* An expiry either retries, with the count still at most N2, or gives up.
LEMMA T1ExpiresIsSound ==
  ASSUME NEW s, Consistent(s)
  PROVE  Sound(T1Expires(s), s.state)
<1> DEFINE t == [s EXCEPT !.retry_count = s.retry_count + 1]
<1>1. s \in Session /\ s.state \in ConnState /\ s.retry_count \in Nat
  BY SessionParts DEF Consistent
<1>2. /\ t \in Session /\ t.state = s.state /\ t.vs = s.vs
      /\ t.outstanding = s.outstanding /\ t.backlog = s.backlog
      /\ t.retry_count = s.retry_count + 1
  BY <1>1 DEF Session
<1>3. t.t1 = s.t1 /\ t.peer_busy = s.peer_busy
  BY <1>1 DEF Session
<1>4. CASE ~s.t1
  BY <1>4, IgnoredIsSound DEF T1Expires
<1>5. CASE s.t1
  <2>1. \/ s.state \in {"Connecting", "Disconnecting"}
        \/ s.state = "Connected" /\ s.outstanding # <<>>
    BY <1>1, <1>5 DEF Consistent, TimerConsistent, QueuesOnlyWhileConnected, ConnState
  <2>2. CASE t.retry_count > N2
    <3>1. T1Expires(s) = GiveUp(t)
      BY <1>5, <2>2 DEF T1Expires
    <3>2. GiveUp(t) = Result(TornDown(t), <<Monitor>> \o Teardown)
      BY <1>2, <2>1 DEF GiveUp
    <3>3. Consistent(TornDown(t)) /\ TornDown(t).state = "Disconnected"
      BY <1>2, TornDownIsConsistent
    <3> DEFINE u == TornDown(t)
    <3> HIDE DEF u
    <3>4. Monitor \in SilentAction
      BY DEF Monitor, SilentAction, Action
    <3>5. Truthful(Result(u, <<Monitor>> \o Teardown), s.state)
      BY <2>1, <3>3, <3>4, TeardownIsTruthful DEF u
    <3> QED
      BY <3>1, <3>2, <3>3, <3>5 DEF Sound, Result, u
  <2>3. CASE ~(t.retry_count > N2)
    <3> DEFINE sabm == Transmit(UFrame("SABM", TRUE))
               disc == Transmit(UFrame("DISC", TRUE))
               resent == RetransmitOutstanding(t, TRUE)
               again == IF s.state = "Connecting" THEN <<sabm>>
                        ELSE IF s.state = "Disconnecting" THEN <<disc>>
                        ELSE resent
               r == T1Expires(s)
    <3>1. r = Result(t, again)
      BY <1>5, <2>1, <2>3 DEF T1Expires
    <3>2. /\ again \in Seq(QuietAction)
          /\ s.state = "Connected" \/ again \in Seq(SilentAction)
      <4>1. /\ sabm \in QuietAction /\ disc \in QuietAction
            /\ sabm \in SilentAction /\ disc \in SilentAction
        BY <1>2, OtherFrameTypes
      <4>2. resent \in Seq(QuietAction)
        BY <1>2, RetransmitType
      <4> HIDE DEF sabm, disc, resent
      <4> QED
        BY <2>1, <4>1, <4>2
    <3>3. Consistent(t)
      <4>1. WindowConsistent(t)
        BY <1>2 DEF Consistent, WindowConsistent
      <4>2. /\ TimerConsistent(t) /\ BacklogWaitsForRoom(t)
            /\ QueuesOnlyWhileConnected(t)
        BY <1>2, <1>3
        DEF Consistent, TimerConsistent, BacklogWaitsForRoom, QueuesOnlyWhileConnected
      <4>3. t.retry_count <= N2
        BY <1>1, <1>2, <2>3, ArqConfigAssumption
      <4> QED
        BY <1>2, <4>1, <4>2, <4>3 DEF Consistent
    <3> HIDE DEF t, again, r
    <3>4. r.session = t /\ r.actions = again
      BY <3>1 DEF Result
    <3>5. Truthful(r, s.state)
      BY <1>2, <3>2, <3>4, QuietIsTruthful
    <3> QED
      BY <3>3, <3>4, <3>5 DEF Sound, r
  <2> QED
    BY <2>2, <2>3
<1> QED
  BY <1>4, <1>5

-----------------------------------------------------------------------------
(* The queues keep what was accepted in order.  That they hold the newest  *)
(* accepted chunks says nothing of the number the next frame to leave the  *)
(* backlog gets, V(S): InOrder adds that V(S) counts the chunks that have  *)
(* left it, modulo 8, and that it is 0 before the link is up.              *)

\* The two queues, one after the other, end where the accepted chunks end.
Newest(s, acc) ==
  /\ Len(s.outstanding) + Len(s.backlog) <= Len(acc)
  /\ \A i \in 1..Len(s.outstanding) :
       s.outstanding[i].info = acc[Len(acc) - Len(s.backlog) - Len(s.outstanding) + i]
  /\ \A i \in 1..Len(s.backlog) : s.backlog[i] = acc[Len(acc) - Len(s.backlog) + i]

\* V(S) counts the chunks that have left the backlog.
Counted(s, acc) ==
  /\ s.state = "Connected" => s.vs = (Len(acc) - Len(s.backlog)) % 8
  /\ s.state = "Connecting" => s.vs = 0 /\ acc = <<>>

InOrder(s, acc) == Newest(s, acc) /\ Counted(s, acc)

Accepted == Seq(Seq(Byte))

-----------------------------------------------------------------------------
(* The queues.                                                             *)

\* The order is that of the queues and of V(S) alone.
LEMMA SameQueuesInOrder ==
  ASSUME NEW s, NEW acc, InOrder(s, acc), NEW t,
         t.outstanding = s.outstanding, t.backlog = s.backlog,
         t.vs = s.vs, t.state = s.state
  PROVE  InOrder(t, acc)
BY DEF InOrder, Newest, Counted

\* Empty queues hold nothing of whatever was accepted.
LEMMA EmptyIsInOrder ==
  ASSUME NEW s, s.outstanding = <<>>, s.backlog = <<>>, NEW acc \in Accepted
  PROVE  /\ s.state \notin {"Connecting", "Connected"} => InOrder(s, acc)
         /\ s.vs = 0 /\ acc = <<>> => InOrder(s, acc)
<1>1. Len(s.outstanding) = 0 /\ Len(s.backlog) = 0 /\ Len(acc) \in Nat
  BY EmptySeq, LenProperties DEF Accepted
<1>2. Newest(s, acc)
  BY <1>1 DEF Newest
<1>3. s.state \notin {"Connecting", "Connected"} => Counted(s, acc)
  BY DEF Counted
<1>4. s.vs = 0 /\ acc = <<>> => Counted(s, acc)
  <2> SUFFICES ASSUME s.vs = 0, acc = <<>> PROVE Counted(s, acc)
    OBVIOUS
  <2>1. Len(acc) - Len(s.backlog) = 0
    BY <1>1, EmptySeq
  <2>2. (Len(acc) - Len(s.backlog)) % 8 = 0
    BY <2>1
  <2> QED
    BY <2>2 DEF Counted
<1> QED
  BY <1>2, <1>3, <1>4 DEF InOrder

\* What moves up from the backlog stays in order, and V(S) moves with it.
LEMMA PushInOrder ==
  ASSUME NEW s \in Session, Len(s.outstanding) <= Window, s.state = "Connected",
         NEW acc \in Accepted, InOrder(s, acc)
  PROVE  InOrder(PushBacklogIntoWindow(s).session, acc)
<1> DEFINE a == Len(acc)
           o == Len(s.outstanding)
           b == Len(s.backlog)
           n == Room(s)
           new == Pushed(s)
           out == s.outstanding \o new
           left == SubSeq(s.backlog, n + 1, b)
           t == PushBacklogIntoWindow(s).session
<1>1. /\ s.outstanding \in Seq(PendingIFrame) /\ s.backlog \in Seq(Seq(Byte))
      /\ o \in Nat /\ b \in Nat /\ a \in Nat
  BY SessionParts, LenProperties DEF Accepted
<1>2. n \in 0..b
  BY RoomProperties
<1>3. new \in Seq(PendingIFrame) /\ Len(new) = n
  BY PushedType
<1>4. \A i \in 1..n : new[i].info = s.backlog[i]
  BY DEF Pushed
<1>5. /\ out \in Seq(PendingIFrame) /\ Len(out) = o + Len(new)
      /\ \A i \in 1..(o + Len(new)) :
           out[i] = IF i <= o THEN s.outstanding[i] ELSE new[i - o]
  <2> HIDE DEF new
  <2> QED
    BY <1>1, <1>3, ConcatProperties
<1>6. /\ left \in Seq(Seq(Byte)) /\ Len(left) = b - n
      /\ \A i \in 1..(b - n) : left[i] = s.backlog[n + i]
  <2> HIDE DEF n
  <2>1. \A i \in (n + 1)..b : s.backlog[i] \in Seq(Byte)
    BY <1>1, <1>2, ElementOfSeq
  <2>2. n + 1 \in Int /\ b \in Int /\ b - (n + 1) + 1 = b - n
    BY <1>1, <1>2
  <2> HIDE DEF b
  <2>3. /\ left \in Seq(Seq(Byte))
        /\ Len(left) = IF n + 1 <= b THEN b - (n + 1) + 1 ELSE 0
        /\ \A i \in 1..(b - (n + 1) + 1) : left[i] = s.backlog[n + 1 + i - 1]
    BY <2>1, <2>2, SubSeqProperties
  <2> HIDE DEF left
  <2>4. Len(left) = b - n
    BY <1>1, <1>2, <2>3
  <2>5. \A i \in 1..(b - n) : n + 1 + i - 1 = n + i
    BY <1>1, <1>2
  <2> QED
    BY <2>2, <2>3, <2>4, <2>5
<1>7. t = [ s EXCEPT !.vs = SeqAdd(s.vs, n), !.outstanding = out,
                     !.backlog = left, !.t1 = s.t1 \/ n > 0 ]
  BY DEF PushBacklogIntoWindow, Pushed, Result
<1> HIDE DEF n, new, out, left, t
<1>8. /\ t.state = "Connected" /\ t.vs = SeqAdd(s.vs, n)
      /\ t.outstanding = out /\ t.backlog = left
  BY <1>7 DEF Session
<1>9. /\ o + b <= a
      /\ \A i \in 1..o : s.outstanding[i].info = acc[a - b - o + i]
      /\ \A i \in 1..b : s.backlog[i] = acc[a - b + i]
      /\ s.vs = (a - b) % 8
  BY DEF InOrder, Newest, Counted
<1> HIDE DEF a, o, b
<1>10. Len(t.outstanding) = o + n /\ Len(t.backlog) = b - n
  BY <1>3, <1>5, <1>6, <1>8
<1>11. ASSUME NEW i \in 1..(o + n)
       PROVE  t.outstanding[i].info = acc[a - (b - n) - (o + n) + i]
  <2>1. a - (b - n) - (o + n) + i = a - b - o + i
    BY <1>1, <1>2
  <2>2. CASE i <= o
    <3>1. i \in 1..o /\ out[i] = s.outstanding[i]
      BY <1>1, <1>2, <1>3, <1>5, <2>2
    <3> QED
      BY <1>8, <1>9, <2>1, <3>1
  <2>3. CASE i > o
    <3>1. i - o \in 1..n /\ i - o \in 1..b /\ out[i] = new[i - o]
      BY <1>1, <1>2, <1>3, <1>5, <2>3
    <3>2. a - b + (i - o) = a - b - o + i
      BY <1>1, <1>2
    <3> QED
      BY <1>4, <1>8, <1>9, <2>1, <3>1, <3>2
  <2> QED
    BY <1>1, <1>2, <2>2, <2>3
<1>12. ASSUME NEW i \in 1..(b - n)
       PROVE  t.backlog[i] = acc[a - (b - n) + i]
  <2>1. n + i \in 1..b /\ a - b + (n + i) = a - (b - n) + i
    BY <1>1, <1>2
  <2> QED
    BY <1>6, <1>8, <1>9, <2>1
<1>13. t.vs = (a - (b - n)) % 8
  <2>1. a - b \in Nat /\ n \in Nat /\ (a - b) + n = a - (b - n)
    BY <1>1, <1>2, <1>9
  <2>2. 0 \in Nat
    OBVIOUS
  <2>3. SeqAdd(SeqAdd(a - b, 0), n) = SeqAdd(a - b, 0 + n) /\ 0 + n = n
    BY <2>1, <2>2, SeqAddProperties
  <2>4. s.vs = SeqAdd(a - b, 0)
    BY <1>9, <2>1 DEF SeqAdd
  <2>5. SeqAdd(s.vs, n) = SeqAdd(a - b, n)
    BY <2>3, <2>4
  <2> QED
    BY <1>8, <2>1, <2>5 DEF SeqAdd
<1>14. o + n + (b - n) <= a
  BY <1>1, <1>2, <1>9
<1>15. Newest(t, acc)
  BY <1>10, <1>11, <1>12, <1>14 DEF Newest, a
<1>16. Counted(t, acc)
  BY <1>8, <1>10, <1>13 DEF Counted, a
<1> QED
  BY <1>15, <1>16 DEF InOrder, t

\* An acknowledgement takes frames from the front of the window.
LEMMA ShorterInOrder ==
  ASSUME NEW s \in Session, WindowConsistent(s), NEW nr,
         NEW acc \in Accepted, InOrder(s, acc), NEW t,
         t.outstanding = StillUnacked(s.outstanding, nr),
         t.backlog = s.backlog, t.vs = s.vs, t.state = s.state
  PROVE  InOrder(t, acc)
<1> DEFINE a == Len(acc)
           out == s.outstanding
           o == Len(out)
           b == Len(s.backlog)
           left == StillUnacked(out, nr)
<1>1. /\ out \in Seq(PendingIFrame) /\ o \in Nat /\ b \in Nat /\ a \in Nat
  BY SessionParts, LenProperties DEF Accepted
<1>2. /\ o + b <= a
      /\ \A i \in 1..o : out[i].info = acc[a - b - o + i]
      /\ \A i \in 1..b : s.backlog[i] = acc[a - b + i]
  BY DEF InOrder, Newest
<1>3. Newest(t, acc)
  <2>1. CASE left = <<>>
    <3>1. Len(t.outstanding) = 0 /\ t.backlog = s.backlog
      BY <2>1, EmptySeq
    <3> HIDE DEF left, out, o, b, a
    <3>2. 0 + b <= a
      BY <1>1, <1>2
    <3>3. 1..0 = {}
      OBVIOUS
    <3> QED
      BY <1>2, <3>1, <3>2, <3>3 DEF Newest, a, b
  <2>2. CASE \E m \in 1..o : left = SubSeq(out, m, o)
    <3>1. PICK m \in 1..o : left = SubSeq(out, m, o)
      BY <2>2
    <3>2. m \in Int /\ o \in Int /\ m <= o
      BY <1>1
    <3>3. \A i \in m..o : out[i] \in PendingIFrame
      BY <1>1, ElementOfSeq
    <3>4. /\ Len(SubSeq(out, m, o)) = IF m <= o THEN o - m + 1 ELSE 0
          /\ \A i \in 1..(o - m + 1) : SubSeq(out, m, o)[i] = out[m + i - 1]
      BY <3>2, <3>3, SubSeqProperties
    <3> HIDE DEF left, o, out, a, b
    <3>5. Len(left) = o - m + 1
      BY <3>1, <3>2, <3>4
    <3>6. ASSUME NEW i \in 1..(o - m + 1)
          PROVE  left[i].info = acc[a - b - (o - m + 1) + i]
      <4>1. m + i - 1 \in 1..o /\ a - b - o + (m + i - 1) = a - b - (o - m + 1) + i
        BY <1>1, <3>2
      <4>2. left[i] = out[m + i - 1]
        BY <3>1, <3>4
      <4> QED
        BY <1>2, <4>1, <4>2
    <3>7. (o - m + 1) + b <= a
      BY <1>1, <1>2, <3>2
    <3>8. t.outstanding = left /\ t.backlog = s.backlog
      BY DEF left, out
    <3> QED
      BY <1>2, <3>5, <3>6, <3>7, <3>8 DEF Newest, a, b
  <2> QED
    BY <2>1, <2>2, StillUnackedIsSuffix
<1>4. Counted(t, acc)
  BY DEF InOrder, Counted
<1> QED
  BY <1>3, <1>4 DEF InOrder

\* ack_up_to of a connected session.
LEMMA AckUpToInOrder ==
  ASSUME NEW s \in Session, s.state = "Connected", WindowConsistent(s), NEW nr,
         NEW acc \in Accepted, InOrder(s, acc)
  PROVE  InOrder(AckUpTo(s, nr).session, acc)
<1> DEFINE left == StillUnacked(s.outstanding, nr)
           t == [ s EXCEPT !.outstanding = left, !.retry_count = 0, !.t1 = left # <<>> ]
<1>1. left \in Seq(PendingIFrame) /\ Len(left) <= Window
  BY StillUnackedKeepsWindow
<1>2. AckUpTo(s, nr) = PushBacklogIntoWindow(t)
  BY DEF AckUpTo
<1> HIDE DEF left
<1>3. /\ t \in Session /\ t.state = "Connected" /\ t.outstanding = left
      /\ t.backlog = s.backlog /\ t.vs = s.vs
  BY <1>1 DEF Session
<1> HIDE DEF t
<1>4. InOrder(t, acc)
  BY <1>3, ShorterInOrder DEF left
<1> QED
  BY <1>1, <1>2, <1>3, <1>4, PushInOrder

\* So it does when it is told whether the peer is busy.
LEMMA BusyAckUpToInOrder ==
  ASSUME NEW s, Consistent(s), s.state = "Connected", NEW busy \in BOOLEAN, NEW nr,
         NEW acc \in Accepted, InOrder(s, acc)
  PROVE  InOrder(AckUpTo([s EXCEPT !.peer_busy = busy], nr).session, acc)
<1> DEFINE v == [s EXCEPT !.peer_busy = busy]
<1>1. s \in Session /\ WindowConsistent(s)
  BY DEF Consistent
<1>2. /\ v \in Session /\ v.outstanding = s.outstanding /\ v.vs = s.vs
      /\ v.backlog = s.backlog /\ v.state = s.state
  BY <1>1 DEF Session
<1> HIDE DEF v
<1>3. WindowConsistent(v)
  BY <1>1, <1>2 DEF WindowConsistent
<1>4. InOrder(v, acc)
  BY <1>2, SameQueuesInOrder
<1> QED
  BY <1>2, <1>3, <1>4, AckUpToInOrder DEF v

-----------------------------------------------------------------------------
(* The operations.                                                         *)

\* A reset leaves empty queues and numbers that start over.
LEMMA ResetIsInOrder ==
  ASSUME NEW s \in Session, NEW st \in {"Connecting", "Connected"}, NEW timer \in BOOLEAN
  PROVE  /\ InOrder([ResetSequenceState(s) EXCEPT !.state = st], <<>>)
         /\ InOrder([ResetSequenceState(s) EXCEPT !.state = st, !.t1 = timer], <<>>)
<1> DEFINE r == ResetSequenceState(s)
           t == [r EXCEPT !.state = st]
           u == [r EXCEPT !.state = st, !.t1 = timer]
<1>1. r \in Session /\ r.outstanding = <<>> /\ r.backlog = <<>>
  BY ResetFields
<1>2. r.vs = 0
  BY DEF ResetSequenceState, NewSession
<1>3. <<>> \in Accepted
  BY EmptySeq DEF Accepted
<1> HIDE DEF r
<1>4. /\ t.vs = 0 /\ t.outstanding = <<>> /\ t.backlog = <<>>
      /\ u.vs = 0 /\ u.outstanding = <<>> /\ u.backlog = <<>>
  BY <1>1, <1>2 DEF Session
<1> HIDE DEF t, u
<1>5. InOrder(t, <<>>) /\ InOrder(u, <<>>)
  BY <1>3, <1>4, EmptyIsInOrder
<1> QED
  BY <1>5 DEF t, u, r

\* A close request drops what is queued.
LEMMA CloseInOrder ==
  ASSUME NEW s \in Session, s.state # "Disconnected"
  PROVE  InOrder(Close(s).session, <<>>)
<1> DEFINE v == [ s EXCEPT !.state = "Disconnecting", !.outstanding = <<>>,
                           !.backlog = <<>>, !.t1 = TRUE ]
           t == [v EXCEPT !.retry_count = 0]
<1>1. Close(s).session = t
  BY DEF Close, Result
<1>2. t.state = "Disconnecting" /\ t.outstanding = <<>> /\ t.backlog = <<>>
  BY ClearedFields DEF ConnState
<1>3. <<>> \in Accepted
  BY EmptySeq DEF Accepted
<1> HIDE DEF t
<1> QED
  BY <1>1, <1>2, <1>3, EmptyIsInOrder

\* send appends to the backlog what it appends to the history.
LEMMA SendInOrder ==
  ASSUME NEW s, Consistent(s), s.state = "Connected", NEW bytes \in Seq(Byte),
         NEW acc \in Accepted, InOrder(s, acc)
  PROVE  InOrder(Send(s, bytes).session, acc \o Fragment(bytes))
<1> DEFINE more == Fragment(bytes)
           all == acc \o more
           longer == s.backlog \o more
           t == [s EXCEPT !.backlog = longer]
           a == Len(acc)
           o == Len(s.outstanding)
           b == Len(s.backlog)
           n == Len(more)
<1>1. s \in Session /\ o <= Window
  BY DEF Consistent, WindowConsistent
<1>2. /\ s.backlog \in Seq(Seq(Byte)) /\ acc \in Seq(Seq(Byte)) /\ more \in Seq(Seq(Byte))
      /\ o \in Nat /\ b \in Nat /\ a \in Nat /\ n \in Nat
  <2>1. more \in Seq(Seq(Byte))
    BY FragmentType
  <2> HIDE DEF more
  <2>2. acc \in Seq(Seq(Byte))
    BY DEF Accepted
  <2> QED
    BY <1>1, <2>1, <2>2, SessionParts, LenProperties
<1>3. Send(s, bytes) = PushBacklogIntoWindow(t)
  BY DEF Send
<1> HIDE DEF more
<1>4. /\ all \in Seq(Seq(Byte)) /\ Len(all) = a + n
      /\ \A i \in 1..(a + n) : all[i] = IF i <= a THEN acc[i] ELSE more[i - a]
  BY <1>2, ConcatProperties
<1>5. /\ longer \in Seq(Seq(Byte)) /\ Len(longer) = b + n
      /\ \A i \in 1..(b + n) : longer[i] = IF i <= b THEN s.backlog[i] ELSE more[i - b]
  BY <1>2, ConcatProperties
<1> HIDE DEF all, longer
<1>6. /\ t \in Session /\ t.state = "Connected" /\ t.vs = s.vs
      /\ t.outstanding = s.outstanding /\ t.backlog = longer
  BY <1>1, <1>5 DEF Session
<1>7. /\ o + b <= a
      /\ \A i \in 1..o : s.outstanding[i].info = acc[a - b - o + i]
      /\ \A i \in 1..b : s.backlog[i] = acc[a - b + i]
      /\ s.vs = (a - b) % 8
  BY DEF InOrder, Newest, Counted
<1> HIDE DEF t, a, o, b, n
<1>8. (a + n) - (b + n) = a - b
  BY <1>2
<1>9. ASSUME NEW i \in 1..o
      PROVE  t.outstanding[i].info = all[(a + n) - (b + n) - o + i]
  <2>1. (a + n) - (b + n) - o + i = a - b - o + i
    BY <1>2
  <2>2. a - b - o + i \in 1..(a + n) /\ a - b - o + i <= a
    BY <1>2, <1>7
  <2> QED
    BY <1>4, <1>6, <1>7, <2>1, <2>2
<1>10. ASSUME NEW i \in 1..(b + n)
       PROVE  t.backlog[i] = all[(a + n) - (b + n) + i]
  <2>1. (a + n) - (b + n) + i = a - b + i /\ a - b + i \in 1..(a + n)
    BY <1>2, <1>7
  <2>2. CASE i <= b
    <3>1. i \in 1..b /\ a - b + i <= a
      BY <1>2, <2>2
    <3> QED
      BY <1>4, <1>5, <1>6, <1>7, <2>1, <2>2, <3>1
  <2>3. CASE i > b
    <3>1. ~(i <= b) /\ ~(a - b + i <= a) /\ (a - b + i) - a = i - b
      BY <1>2, <2>3
    <3> QED
      BY <1>4, <1>5, <1>6, <2>1, <3>1
  <2> QED
    BY <1>2, <2>2, <2>3
<1>11. o + (b + n) <= a + n
  BY <1>2, <1>7
<1>12. Len(t.outstanding) = o /\ Len(t.backlog) = b + n
  BY <1>5, <1>6 DEF o
<1>13. Newest(t, all)
  BY <1>4, <1>9, <1>10, <1>11, <1>12 DEF Newest
<1>14. Counted(t, all)
  BY <1>4, <1>6, <1>7, <1>8, <1>12 DEF Counted
<1>15. InOrder(t, all) /\ all \in Accepted /\ Len(t.outstanding) <= Window
  BY <1>1, <1>4, <1>12, <1>13, <1>14 DEF InOrder, Accepted
<1>16. InOrder(PushBacklogIntoWindow(t).session, all)
  BY <1>6, <1>15, PushInOrder
<1> QED
  BY <1>3, <1>16 DEF all, more

\* An I frame, or a supervisory one, acknowledges what is in the window.
LEMMA NumberedInOrder ==
  ASSUME NEW s, Consistent(s), NEW f, NEW acc \in Accepted, InOrder(s, acc)
  PROVE  /\ InOrder(OnInformation(s, f).session, acc)
         /\ InOrder(OnRr(s, f).session, acc)
         /\ InOrder(OnRnr(s, f).session, acc)
         /\ InOrder(OnReject(s, f).session, acc)
<1>1. CASE s.state # "Connected"
  <2>1. /\ OnInformation(s, f).session = s /\ OnRr(s, f).session = s
        /\ OnRnr(s, f).session = s /\ OnReject(s, f).session = s
    BY <1>1 DEF OnInformation, OnRr, OnRnr, OnReject, Ignored, Result
  <2> QED
    BY <2>1
<1>2. CASE s.state = "Connected"
  <2> DEFINE r == AckUpTo(s, f.nr).session
             t == [r EXCEPT !.vr = SeqAdd(r.vr, 1)]
             free == AckUpTo([s EXCEPT !.peer_busy = FALSE], f.nr).session
             busy == AckUpTo([s EXCEPT !.peer_busy = TRUE], f.nr).session
  <2>1. /\ OnInformation(s, f).session \in {t, r}
        /\ OnRr(s, f).session = free
        /\ OnRnr(s, f).session = busy
        /\ OnReject(s, f).session = free
    BY <1>2 DEF OnInformation, OnRr, OnRnr, OnReject, FinalIfPolled, Result
  <2>2. s \in Session /\ WindowConsistent(s)
    BY DEF Consistent
  <2>3. InOrder(r, acc)
    BY <1>2, <2>2, AckUpToInOrder
  <2>4. InOrder(free, acc) /\ InOrder(busy, acc)
    BY <1>2, BusyAckUpToInOrder
  <2>5. r \in Session
    BY <1>2, AckUpToWorks DEF Working, Consistent
  <2> HIDE DEF r, free, busy
  <2>6. /\ t.outstanding = r.outstanding /\ t.backlog = r.backlog
        /\ t.vs = r.vs /\ t.state = r.state
    BY <2>5 DEF Session
  <2> HIDE DEF t
  <2>7. InOrder(t, acc)
    BY <2>3, <2>6, SameQueuesInOrder
  <2> QED
    BY <2>1, <2>3, <2>4, <2>7
<1> QED
  BY <1>1, <1>2

\* A UA brings a link up with the numbers of its connect, or ends it.
LEMMA OnUaInOrder ==
  ASSUME NEW s, Consistent(s), NEW acc \in Accepted, InOrder(s, acc),
         OnUa(s).session.state # "Disconnected"
  PROVE  InOrder(OnUa(s).session, acc)
<1>1. s \in Session /\ QueuesOnlyWhileConnected(s)
  BY DEF Consistent
<1>2. CASE s.state = "Connecting"
  <2> DEFINE t == [s EXCEPT !.state = "Connected", !.retry_count = 0, !.t1 = FALSE]
  <2>1. OnUa(s).session = PushBacklogIntoWindow(t).session
    BY <1>2 DEF OnUa, Result
  <2>2. s.outstanding = <<>> /\ s.backlog = <<>> /\ s.vs = 0 /\ acc = <<>>
    BY <1>1, <1>2 DEF QueuesOnlyWhileConnected, InOrder, Counted
  <2>3. /\ t \in Session /\ t.state = "Connected" /\ t.vs = 0
        /\ t.outstanding = <<>> /\ t.backlog = <<>>
    BY <1>1, <2>2 DEF Session, ConnState
  <2> HIDE DEF t
  <2>4. InOrder(t, acc)
    BY <2>2, <2>3, EmptyIsInOrder
  <2>5. Len(t.outstanding) <= Window
    BY <2>3, EmptySeq, ArqConfigAssumption
  <2> QED
    BY <2>1, <2>3, <2>4, <2>5, PushInOrder
<1>3. CASE s.state = "Disconnecting"
  <2>1. OnUa(s).session.state = "Disconnected"
    BY <1>1, <1>3 DEF OnUa, Result, Session
  <2> QED
    BY <2>1
<1>4. CASE s.state \notin {"Connecting", "Disconnecting"}
  <2>1. OnUa(s).session = s
    BY <1>4 DEF OnUa, Ignored, Result
  <2> QED
    BY <2>1
<1> QED
  BY <1>2, <1>3, <1>4

\* A DISC, a DM and a FRMR end a link.
LEMMA EndingFrames ==
  ASSUME NEW s \in Session, NEW f
  PROVE  /\ OnDisc(s, f).session.state = "Disconnected"
         /\ OnDm(s).session.state = "Disconnected"
         /\ OnFrmr(s).session.state = "Disconnected"
         /\ GiveUp(s).session.state = "Disconnected"
BY DEF OnDisc, OnDm, OnFrmr, GiveUp, TornDown, Result, Session

\* Any frame of the peer, unless it resets the numbers or ends the link.
LEMMA OnFrameInOrder ==
  ASSUME NEW s, Consistent(s), NEW f \in Frame, f.type # "SABM",
         NEW acc \in Accepted, InOrder(s, acc),
         OnFrame(s, f).session.state # "Disconnected"
  PROVE  InOrder(OnFrame(s, f).session, acc)
<1>1. \/ OnFrame(s, f) \in {OnInformation(s, f), OnRr(s, f), OnRnr(s, f), OnReject(s, f)}
      \/ OnFrame(s, f) = OnUa(s)
      \/ OnFrame(s, f) \in {OnDisc(s, f), OnDm(s), OnFrmr(s)}
  <2>1. f.type \in {"I", "RR", "RNR", "REJ", "UA", "DISC", "DM", "FRMR"}
    BY DEF Frame, FrameCarrying
  <2> QED
    BY <2>1 DEF OnFrame
<1>2. s \in Session
  BY DEF Consistent
<1>3. CASE OnFrame(s, f) \in {OnInformation(s, f), OnRr(s, f), OnRnr(s, f), OnReject(s, f)}
  BY <1>3, NumberedInOrder
<1>4. CASE OnFrame(s, f) = OnUa(s)
  BY <1>4, OnUaInOrder
<1>5. CASE OnFrame(s, f) \in {OnDisc(s, f), OnDm(s), OnFrmr(s)}
  BY <1>2, <1>5, EndingFrames
<1> QED
  BY <1>1, <1>3, <1>4, <1>5

\* An expiry of T1, unless it is the last.
LEMMA T1InOrder ==
  ASSUME NEW s, Consistent(s), NEW acc \in Accepted, InOrder(s, acc),
         T1Expires(s).session.state # "Disconnected"
  PROVE  InOrder(T1Expires(s).session, acc)
<1> DEFINE t == [s EXCEPT !.retry_count = s.retry_count + 1]
           idle == [s EXCEPT !.t1 = FALSE, !.retry_count = 0]
<1>1. s \in Session /\ s.state \in ConnState /\ s.retry_count + 1 \in Nat
  BY SessionParts DEF Consistent
<1>2. T1Expires(s).session \in {s, t, idle} \/ T1Expires(s) = GiveUp(t)
  BY <1>1 DEF T1Expires, Ignored, Result, ConnState
<1>3. t \in Session
  BY <1>1 DEF Session
<1>4. \A u \in {t, idle} : /\ u.outstanding = s.outstanding /\ u.backlog = s.backlog
                           /\ u.vs = s.vs /\ u.state = s.state
  BY <1>1 DEF Session
<1> HIDE DEF t, idle
<1>5. InOrder(t, acc) /\ InOrder(idle, acc)
  BY <1>4, SameQueuesInOrder
<1>6. GiveUp(t).session.state = "Disconnected"
  BY <1>3, EndingFrames
<1> QED
  BY <1>2, <1>5, <1>6

\* Numbers below 8 that reach the same number in as many steps are the same.
LEMMA SameNumber ==
  ASSUME NEW q \in SeqNum, NEW x \in Nat, NEW k \in 1..7, (q + k) % 8 = (x + k) % 8
  PROVE  q = x % 8
BY DEF SeqNum
=============================================================================

--------------------------- MODULE ArqLink_proofs ---------------------------
(***************************************************************************)
(* Proofs about ArqLink, for a link that is up (Established): any window,  *)
(* any number of bytes either way, sequence numbers that start anywhere    *)
(* and wrap, frames that are lost, a T1 that expires at any time, links    *)
(* that are given up or taken down.  Nothing is dropped as acknowledged    *)
(* that the peer's user was not given, the ends agree, and the link        *)
(* implements LinkService.                                                 *)
(*                                                                         *)
(* Sequence numbers count modulo 8 what the invariant counts in full: a    *)
(* station's Side says how many bytes it accepted, sent, knows to be       *)
(* acknowledged and was given.  SidesFit relates the two sides; Traffic    *)
(* says what each frame under way carries and means to its receiver        *)
(* (FrameFits), and that frames behind one another go back by less than a  *)
(* window and never take an acknowledgement back (OrderFits).  An          *)
(* operation of the session either goes on (GoesOn), and its frames are    *)
(* those of the window with the newest N(R), or the link ends (Rests).     *)
(***************************************************************************)
EXTENDS ArqLink, Arq_proofs, WellFoundedInduction

-----------------------------------------------------------------------------
(* The frames among the actions.                                           *)

\* Induction over the natural numbers, stated of a set.
LEMMA SetInduction ==
  ASSUME NEW P, 0 \in P, \A m \in Nat : m \in P => m + 1 \in P
  PROVE  Nat \subseteq P
<1> SUFFICES ASSUME Nat \ P # {} PROVE FALSE
  OBVIOUS
<1>1. PICK x \in Nat \ P : \A y \in Nat \ P : <<y, x>> \notin OpToRel(<, Nat)
  BY WFMin, NatLessThanWellFounded, Zenon
<1>2. \A y \in Nat : y < x => y \in P
  BY <1>1, Zenon DEF OpToRel
<1>3. x # 0 /\ x \in Nat
  BY <1>1
<1>4. x - 1 \in Nat /\ x - 1 < x /\ (x - 1) + 1 = x
  BY <1>3
<1> QED
  BY <1>1, <1>2, <1>4

Copy == [frame : Frame, direct : BOOLEAN]

\* The frames among the first i actions, for i up to the last.
AiredBy(acts, aired, n) ==
  aired = [i \in 0..n |->
             IF i = 0 THEN <<>>
             ELSE IF acts[i].act = "Transmit"
                  THEN Append(aired[i - 1], [frame |-> acts[i].frame, direct |-> TRUE])
                  ELSE aired[i - 1]]

\* There is such a function.
LEMMA AiredExists ==
  ASSUME NEW acts, NEW n \in Nat
  PROVE  \E aired : AiredBy(acts, aired, n)
<1> DEFINE P == {m \in Nat : \E aired : AiredBy(acts, aired, m)}
<1>1. 0 \in P
  <2> DEFINE none == [i \in 0..0 |-> <<>>]
  <2>1. AiredBy(acts, none, 0)
    BY DEF AiredBy
  <2> QED
    BY <2>1
<1>2. ASSUME NEW m \in Nat, m \in P
      PROVE  m + 1 \in P
  <2>1. PICK before : AiredBy(acts, before, m)
    BY <1>2
  <2> DEFINE last == IF acts[m + 1].act = "Transmit"
                     THEN Append(before[m], [frame |-> acts[m + 1].frame, direct |-> TRUE])
                     ELSE before[m]
             aired == [i \in 0..(m + 1) |-> IF i = m + 1 THEN last ELSE before[i]]
  <2>2. ASSUME NEW i \in 0..(m + 1)
        PROVE  aired[i] = IF i = 0 THEN <<>>
                 ELSE IF acts[i].act = "Transmit"
                      THEN Append(aired[i - 1], [frame |-> acts[i].frame, direct |-> TRUE])
                      ELSE aired[i - 1]
    <3>1. CASE i = m + 1
      <4>1. i # 0 /\ i - 1 = m /\ m \in 0..(m + 1) /\ m # m + 1
        BY <3>1
      <4>2. aired[i - 1] = before[m] /\ aired[i] = last
        BY <3>1, <4>1
      <4> QED
        BY <3>1, <4>1, <4>2
    <3>2. CASE i # m + 1
      <4>1. i \in 0..m /\ aired[i] = before[i]
        BY <3>2
      <4>2. i # 0 => i - 1 \in 0..(m + 1) /\ i - 1 # m + 1
        BY <4>1
      <4>3. i # 0 => aired[i - 1] = before[i - 1]
        BY <4>2
      <4>4. before[i] = IF i = 0 THEN <<>>
                 ELSE IF acts[i].act = "Transmit"
                      THEN Append(before[i - 1], [frame |-> acts[i].frame, direct |-> TRUE])
                      ELSE before[i - 1]
        BY <2>1, <4>1 DEF AiredBy
      <4> HIDE DEF aired
      <4> QED
        BY <4>1, <4>3, <4>4
    <3> QED
      BY <3>1, <3>2
  <2>3. AiredBy(acts, aired, m + 1)
    <3>1. aired = [i \in 0..(m + 1) |-> aired[i]]
      OBVIOUS
    <3> HIDE DEF aired
    <3> QED
      BY <2>2, <3>1 DEF AiredBy
  <2> QED
    BY <2>3
<1> HIDE DEF P
<1>3. n \in P
  BY <1>1, <1>2, SetInduction
<1> QED
  BY <1>3 DEF P

\* Copy c goes out with action i.
Sends(acts, i, c) ==
  acts[i].act = "Transmit" /\ acts[i].frame = c.frame

\* These copies go out with actions up to n, in their order.
InActionOrder(acts, n, copies) ==
  /\ copies \in Seq(Copy)
  /\ \A x \in 1..Len(copies) : \E i \in 1..n : Sends(acts, i, copies[x])
  /\ \A x, y \in 1..Len(copies) :
       x < y => \E i, j \in 1..n :
                  i < j /\ Sends(acts, i, copies[x]) /\ Sends(acts, j, copies[y])

\* The frames that are aired are those of the actions, in order.
LEMMA AiredInOrder ==
  ASSUME NEW acts \in Seq(Action)
  PROVE  InActionOrder(acts, Len(acts), Aired(acts))
<1> DEFINE n == Len(acts)
           aired == CHOOSE aired : AiredBy(acts, aired, n)
<1>1. n \in Nat
  BY LenProperties
<1>2. Aired(acts) = aired[n]
  BY DEF Aired, AiredBy
<1>3. AiredBy(acts, aired, n)
  BY <1>1, AiredExists
<1> HIDE DEF aired
<1> DEFINE P == {m \in Nat : m <= n => InActionOrder(acts, m, aired[m])}
<1>4. 0 \in P
  <2>1. aired[0] = <<>>
    BY <1>1, <1>3 DEF AiredBy
  <2>2. InActionOrder(acts, 0, <<>>)
    BY EmptySeq DEF InActionOrder
  <2> QED
    BY <2>1, <2>2
<1>5. ASSUME NEW m \in Nat, m \in P
      PROVE  m + 1 \in P
  <2> SUFFICES ASSUME m + 1 <= n
               PROVE  InActionOrder(acts, m + 1, aired[m + 1])
    OBVIOUS
  <2> DEFINE before == aired[m]
             a == acts[m + 1]
             c == [frame |-> a.frame, direct |-> TRUE]
  <2>1. InActionOrder(acts, m, before)
    BY <1>1, <1>5
  <2>2. aired[m + 1] = IF a.act = "Transmit" THEN Append(before, c) ELSE before
    <3>1. m + 1 \in 0..n /\ m + 1 # 0 /\ (m + 1) - 1 = m
      BY <1>1
    <3>2. aired[m + 1] = IF m + 1 = 0 THEN <<>>
            ELSE IF a.act = "Transmit" THEN Append(aired[(m + 1) - 1], c)
            ELSE aired[(m + 1) - 1]
      BY <1>3, <3>1 DEF AiredBy
    <3> QED
      BY <3>1, <3>2
  <2>3. a \in Action
    BY <1>1, ElementOfSeq
  <2> HIDE DEF before, c, a
  <2>4. before \in Seq(Copy) /\ Len(before) \in Nat
    BY <2>1, LenProperties DEF InActionOrder
  <2>5. /\ \A x \in 1..Len(before) : \E i \in 1..m : Sends(acts, i, before[x])
        /\ \A x, y \in 1..Len(before) :
             x < y => \E i, j \in 1..m :
                        i < j /\ Sends(acts, i, before[x]) /\ Sends(acts, j, before[y])
    BY <2>1 DEF InActionOrder
  <2>6. 1..m \subseteq 1..(m + 1) /\ m + 1 \in 1..(m + 1) /\ \A i \in 1..m : i < m + 1
    OBVIOUS
  <2>7. CASE a.act # "Transmit"
    BY <2>2, <2>4, <2>5, <2>6, <2>7 DEF InActionOrder
  <2>8. CASE a.act = "Transmit"
    <3> DEFINE after == Append(before, c)
    <3>1. c \in Copy /\ Sends(acts, m + 1, c)
      <4>1. a.frame \in Frame
        BY <2>3, <2>8 DEF Action
      <4> QED
        BY <4>1, <2>8 DEF c, Copy, Sends, a
    <3>2. /\ after \in Seq(Copy) /\ Len(after) = Len(before) + 1
          /\ \A x \in 1..Len(before) : after[x] = before[x]
          /\ after[Len(before) + 1] = c
      BY <2>4, <3>1, AppendProperties
    <3> HIDE DEF after
    <3>3. \A x \in 1..Len(after) : x \in 1..Len(before) \/ x = Len(before) + 1
      BY <2>4, <3>2
    <3>4. \A x \in 1..Len(after) : \E i \in 1..(m + 1) : Sends(acts, i, after[x])
      BY <2>5, <2>6, <3>1, <3>2, <3>3
    <3>5. ASSUME NEW x \in 1..Len(after), NEW y \in 1..Len(after), x < y
          PROVE  \E i, j \in 1..(m + 1) :
                   i < j /\ Sends(acts, i, after[x]) /\ Sends(acts, j, after[y])
      <4>1. x \in 1..Len(before)
        BY <2>4, <3>2, <3>5
      <4>2. CASE y \in 1..Len(before)
        BY <2>5, <2>6, <3>2, <3>5, <4>1, <4>2
      <4>3. CASE y = Len(before) + 1
        BY <2>5, <2>6, <3>1, <3>2, <4>1, <4>3
      <4> QED
        BY <3>3, <4>2, <4>3
    <3>6. aired[m + 1] = after
      BY <2>2, <2>8 DEF after
    <3> QED
      BY <3>2, <3>4, <3>5, <3>6 DEF InActionOrder
  <2> QED
    BY <2>7, <2>8
<1> HIDE DEF P
<1>6. n \in P
  BY <1>1, <1>4, <1>5, SetInduction
<1> QED
  BY <1>1, <1>2, <1>6 DEF P

\* What is carried is the front of the queue with the copies behind it.
LEMMA CarryIsPrefix ==
  ASSUME NEW queue \in Seq(Copy), NEW copies \in Seq(Copy), MaxAir \in Nat
  PROVE  LET all == queue \o copies
             carried == Carry(queue, copies)
         IN  /\ carried \in Seq(Copy) /\ Len(carried) <= Len(all)
             /\ \A i \in 1..Len(carried) : carried[i] = all[i]
<1> DEFINE all == queue \o copies
<1>1. all \in Seq(Copy) /\ Len(all) \in Nat
  BY ConcatProperties, LenProperties
<1>2. Carry(queue, copies) = IF Len(all) <= MaxAir THEN all ELSE SubSeq(all, 1, MaxAir)
  BY DEF Carry
<1> HIDE DEF all
<1>3. CASE Len(all) <= MaxAir
  BY <1>1, <1>2, <1>3 DEF all
<1>4. CASE ~(Len(all) <= MaxAir)
  <2> DEFINE front == SubSeq(all, 1, MaxAir)
  <2>1. \A i \in 1..MaxAir : all[i] \in Copy
    BY <1>1, <1>4, ElementOfSeq
  <2>2. 1 \in Int /\ MaxAir \in Int /\ MaxAir - 1 + 1 = MaxAir
    OBVIOUS
  <2>3. /\ front \in Seq(Copy)
        /\ Len(front) = IF 1 <= MaxAir THEN MaxAir - 1 + 1 ELSE 0
        /\ \A i \in 1..(MaxAir - 1 + 1) : front[i] = all[1 + i - 1]
    BY <2>1, <2>2, SubSeqProperties
  <2> HIDE DEF front
  <2>4. Len(front) = MaxAir /\ \A i \in 1..MaxAir : front[i] = all[i]
    BY <2>2, <2>3
  <2> QED
    BY <1>1, <1>2, <1>4, <2>3, <2>4 DEF all, front
<1> QED
  BY <1>3, <1>4

-----------------------------------------------------------------------------
(* A session that carries the bytes 1..n.                                  *)

\* The chunks accepted on a link whose numbers start at FirstSeq, as if that
\* many had gone before.
BytesTo(n) ==
  [i \in 1..(FirstSeq + n) |-> IF i <= FirstSeq THEN <<>> ELSE <<i - FirstSeq>>]

\* Of n accepted bytes, those that were sent, and those that were acknowledged.
SentOf(s, n)  == n - Len(s.backlog)
AckedOf(s, n) == n - Len(s.backlog) - Len(s.outstanding)

\* A connected session whose link has accepted n bytes.
Holds(s, n) ==
  /\ Consistent(s) /\ s.state = "Connected"
  /\ n \in 0..MaxBytes
  /\ InOrder(s, BytesTo(n))
  /\ AckedOf(s, n) >= 0

\* They are chunks of a byte each.
LEMMA BytesToIs ==
  ASSUME NEW n \in 0..MaxBytes
  PROVE  /\ FirstSeq \in 0..7 /\ MaxBytes \in Nat
         /\ BytesTo(n) \in Accepted /\ Len(BytesTo(n)) = FirstSeq + n
         /\ \A b \in 1..n : BytesTo(n)[FirstSeq + b] = <<b>> /\ <<b>> \in Seq(Byte)
<1>1. FirstSeq \in 0..7 /\ MaxBytes \in Nat /\ Byte = 1..MaxBytes
  BY ArqLinkAssumption DEF SeqNum
<1>2. \A b \in 1..n : b \in Byte
  BY <1>1
<1>3. \A b \in 1..n : <<b>> \in Seq(Byte)
  BY <1>2
<1>4. \A i \in 1..(FirstSeq + n) : i <= FirstSeq \/ i - FirstSeq \in 1..n
  BY <1>1
<1>5. <<>> \in Seq(Byte)
  BY EmptySeq
<1>6. BytesTo(n) \in [1..(FirstSeq + n) -> Seq(Byte)]
  BY <1>3, <1>4, <1>5 DEF BytesTo
<1>7. FirstSeq + n \in Nat
  BY <1>1
<1>8. BytesTo(n) \in Accepted /\ Len(BytesTo(n)) = FirstSeq + n
  BY <1>6, <1>7, FunctionIsSeq DEF Accepted
<1>9. ASSUME NEW b \in 1..n PROVE BytesTo(n)[FirstSeq + b] = <<b>>
  <2>1. /\ FirstSeq + b \in 1..(FirstSeq + n) /\ ~(FirstSeq + b <= FirstSeq)
        /\ (FirstSeq + b) - FirstSeq = b
    BY <1>1
  <2> QED
    BY <2>1 DEF BytesTo
<1> QED
  BY <1>1, <1>3, <1>8, <1>9

\* Its window holds the bytes sent and not acknowledged, each numbered by its
\* place on the link.
LEMMA HeldFrames ==
  ASSUME NEW s, NEW n, Holds(s, n)
  PROVE  LET a == AckedOf(s, n)
             c == SentOf(s, n)
         IN  /\ n \in 0..MaxBytes /\ a \in Nat /\ c \in a..(a + 7) /\ c <= n
             /\ Len(s.outstanding) = c - a /\ Len(s.backlog) = n - c
             /\ s.vs = (FirstSeq + c) % 8
             /\ \A i \in 1..(c - a) :
                  /\ s.outstanding[i].info = <<a + i>>
                  /\ s.outstanding[i].seq = (FirstSeq + a + i - 1) % 8
<1> DEFINE out == s.outstanding
           o == Len(out)
           b == Len(s.backlog)
           a == AckedOf(s, n)
           c == SentOf(s, n)
           acc == BytesTo(n)
<1>1. /\ out \in Seq(PendingIFrame) /\ o \in Nat /\ b \in Nat
  BY SessionParts DEF Holds, Consistent
<1>2. /\ FirstSeq \in 0..7 /\ n \in 0..MaxBytes /\ MaxBytes \in Nat /\ n \in Nat
      /\ Len(acc) = FirstSeq + n
      /\ \A x \in 1..n : acc[FirstSeq + x] = <<x>>
  BY BytesToIs DEF Holds
<1>3. o <= 7
  BY <1>1, ArqConfigAssumption DEF Holds, Consistent, WindowConsistent
<1>4. c = n - b /\ a = c - o /\ a >= 0
  BY DEF Holds, SentOf, AckedOf
<1>5. /\ s.vs = (Len(acc) - b) % 8
      /\ \A i \in 1..o : out[i].info = acc[Len(acc) - b - o + i]
  BY DEF Holds, InOrder, Newest, Counted
<1>6. \A i \in 1..o : SeqAdd(out[i].seq, o - i + 1) = s.vs
  BY DEF Holds, Consistent, WindowConsistent
<1> HIDE DEF out, o, b, a, c, acc
<1>7. a \in Nat /\ c \in a..(a + 7) /\ c <= n /\ o = c - a /\ b = n - c
  BY <1>1, <1>2, <1>3, <1>4
<1>8. s.vs = (FirstSeq + c) % 8
  <2>1. Len(acc) - b = FirstSeq + c
    BY <1>1, <1>2, <1>4
  <2> QED
    BY <1>5, <2>1
<1>9. ASSUME NEW i \in 1..(c - a)
      PROVE  out[i].info = <<a + i>> /\ out[i].seq = (FirstSeq + a + i - 1) % 8
  <2>1. i \in 1..o /\ a + i \in 1..n /\ Len(acc) - b - o + i = FirstSeq + (a + i)
    BY <1>1, <1>2, <1>4, <1>7
  <2>2. out[i].info = <<a + i>>
    BY <1>2, <1>5, <2>1
  <2>3. out[i].seq \in SeqNum
    <3>1. out[i] \in PendingIFrame
      BY <1>1, <2>1, ElementOfSeq DEF o
    <3> QED
      BY <3>1 DEF PendingIFrame
  <2>4. /\ o - i + 1 \in 1..7 /\ FirstSeq + a + i - 1 \in Nat
        /\ (FirstSeq + a + i - 1) + (o - i + 1) = FirstSeq + c
    BY <1>2, <1>3, <1>7, <2>1
  <2>5. (out[i].seq + (o - i + 1)) % 8 = ((FirstSeq + a + i - 1) + (o - i + 1)) % 8
    BY <1>6, <1>8, <2>1, <2>4 DEF SeqAdd
  <2>6. out[i].seq = (FirstSeq + a + i - 1) % 8
    BY <2>3, <2>4, <2>5, SameNumber
  <2> QED
    BY <2>2, <2>6
<1> QED
  BY <1>2, <1>7, <1>8, <1>9 DEF out, o, b, a, c

\* Eight consecutive numbers differ modulo 8.
LEMMA EightDiffer ==
  ASSUME NEW x \in Nat, NEW y \in Nat, x - y \in (-7)..7, x % 8 = y % 8
  PROVE  x = y
OBVIOUS

\* An acknowledgement up to byte e leaves the frames behind it in the window.
LEMMA UnackedPast ==
  ASSUME NEW s, NEW n, Holds(s, n), NEW e \in AckedOf(s, n)..SentOf(s, n)
  PROVE  Len(StillUnacked(s.outstanding, (FirstSeq + e) % 8)) = SentOf(s, n) - e
<1> DEFINE out == s.outstanding
           a == AckedOf(s, n)
           c == SentOf(s, n)
           nr == (FirstSeq + e) % 8
           hits == {i \in 1..Len(out) : out[i].seq = nr}
           first == CHOOSE i \in hits : \A j \in hits : i <= j
<1>1. /\ a \in Nat /\ c \in a..(a + 7) /\ Len(out) = c - a
      /\ \A i \in 1..(c - a) : out[i].seq = (FirstSeq + a + i - 1) % 8
  BY HeldFrames
<1>2. out \in Seq(PendingIFrame)
  BY SessionParts DEF Holds, Consistent
<1>3. FirstSeq \in 0..7
  BY ArqLinkAssumption DEF SeqNum
<1>4. e \in a..c
  OBVIOUS
<1>5. StillUnacked(out, nr) = IF hits = {} THEN <<>> ELSE SubSeq(out, first, Len(out))
  BY DEF StillUnacked
<1> HIDE DEF out, a, c
<1>6. \A i \in hits : i = e - a + 1
  <2> SUFFICES ASSUME NEW i \in 1..(c - a), out[i].seq = nr
               PROVE  i = e - a + 1
    BY <1>1
  <2>1. (FirstSeq + a + i - 1) % 8 = (FirstSeq + e) % 8
    BY <1>1
  <2>2. /\ FirstSeq + a + i - 1 \in Nat /\ FirstSeq + e \in Nat
        /\ (FirstSeq + a + i - 1) - (FirstSeq + e) \in (-7)..7
    BY <1>1, <1>3, <1>4
  <2>3. FirstSeq + a + i - 1 = FirstSeq + e
    BY <2>1, <2>2, EightDiffer
  <2> QED
    BY <1>1, <1>3, <1>4, <2>3
<1>7. CASE e = c
  <2>1. hits = {}
    BY <1>1, <1>6, <1>7
  <2> QED
    BY <1>1, <1>5, <1>7, <2>1, EmptySeq DEF c, out
<1>8. CASE e # c
  <2>1. e - a + 1 \in 1..(c - a) /\ FirstSeq + a + (e - a + 1) - 1 = FirstSeq + e
    BY <1>1, <1>3, <1>4, <1>8
  <2>2. e - a + 1 \in hits
    BY <1>1, <2>1
  <2>3. hits = {e - a + 1}
    BY <1>6, <2>2
  <2>4. e - a + 1 <= e - a + 1
    BY <2>1
  <2>5. first = e - a + 1
    BY <2>3, <2>4
  <2> HIDE DEF hits, first, nr
  <2>6. \A i \in (e - a + 1)..Len(out) : out[i] \in PendingIFrame
    <3> SUFFICES ASSUME NEW i \in (e - a + 1)..Len(out) PROVE out[i] \in PendingIFrame
      OBVIOUS
    <3>1. i \in 1..Len(out)
      BY <1>1, <2>1
    <3> QED
      BY <1>2, <3>1, ElementOfSeq
  <2>7. e - a + 1 \in Int /\ Len(out) \in Int
    BY <1>1, <2>1
  <2>8. Len(SubSeq(out, e - a + 1, Len(out)))
          = IF e - a + 1 <= Len(out) THEN Len(out) - (e - a + 1) + 1 ELSE 0
    BY <2>6, <2>7, SubSeqProperties
  <2>9. Len(SubSeq(out, e - a + 1, Len(out))) = c - e
    BY <1>1, <2>1, <2>8
  <2> QED
    BY <1>5, <2>2, <2>5, <2>9 DEF c, out, nr
<1> QED
  BY <1>7, <1>8

-----------------------------------------------------------------------------
(* What a session says.                                                    *)

\* A frame that acknowledges.
Numbered(f) == f.type \in {"I", "RR", "RNR", "REJ"}

\* An action whose frame, if any, sends one of the frames of the window or
\* none, and acknowledges with this number.
Utterance(a, window, nr) ==
  /\ a \in Action
  /\ a.act = "Transmit" =>
       /\ a.frame.type # "SABM"
       /\ a.frame.type = "I" => \E j \in 1..Len(window) :
            a.frame.info = window[j].info /\ a.frame.ns = window[j].seq
       /\ Numbered(a.frame) => a.frame.nr = nr

\* Such actions, of which only the last may acknowledge with the later number.
Utters(acts, window, nr, later) ==
  /\ acts \in Seq(Action)
  /\ \A k \in 1..Len(acts) :
       Utterance(acts[k], window, nr) \/ (k = Len(acts) /\ Utterance(acts[k], window, later))

NoData(acts) == \A k \in 1..Len(acts) : acts[k].act # "Data"

\* Neither data nor a frame that concerns the numbers.
Mute(acts) ==
  /\ acts \in Seq(Action) /\ NoData(acts)
  /\ \A k \in 1..Len(acts) : acts[k].act = "Transmit" =>
       ~Numbered(acts[k].frame) /\ acts[k].frame.type # "SABM"

\* To say nothing.
LEMMA SayingNothing ==
  /\ Mute(<<>>) /\ NoData(<<>>)
  /\ \A window, nr, later : Utters(<<>>, window, nr, later)
BY EmptySeq DEF Mute, NoData, Utters

\* One utterance.
LEMMA OneUtterance ==
  ASSUME NEW a, NEW window, NEW nr, NEW later,
         Utterance(a, window, nr) \/ Utterance(a, window, later)
  PROVE  /\ Utters(<<a>>, window, nr, later)
         /\ a.act # "Data" => NoData(<<a>>)
<1>1. a \in Action
  BY DEF Utterance
<1>2. <<a>> \in Seq(Action) /\ Len(<<a>>) = 1 /\ <<a>>[1] = a
  BY <1>1
<1> QED
  BY <1>2 DEF Utters, NoData

\* Two, the first of which carries the earlier number.
LEMMA UtterMore ==
  ASSUME NEW before, NEW after, NEW window, NEW nr, NEW later,
         Utters(before, window, nr, nr), Utters(after, window, nr, later)
  PROVE  /\ Utters(before \o after, window, nr, later)
         /\ NoData(before) /\ NoData(after) => NoData(before \o after)
<1> DEFINE all == before \o after
           m == Len(before)
           n == Len(after)
<1>1. /\ before \in Seq(Action) /\ after \in Seq(Action) /\ m \in Nat /\ n \in Nat
  BY LenProperties DEF Utters
<1>2. /\ all \in Seq(Action) /\ Len(all) = m + n
      /\ \A k \in 1..(m + n) : all[k] = IF k <= m THEN before[k] ELSE after[k - m]
  BY <1>1, ConcatProperties
<1>3. /\ \A k \in 1..m : Utterance(before[k], window, nr)
      /\ \A k \in 1..n : \/ Utterance(after[k], window, nr)
                         \/ k = n /\ Utterance(after[k], window, later)
  BY DEF Utters
<1> HIDE DEF all, m, n
<1>4. \A k \in 1..(m + n) : \/ k \in 1..m /\ all[k] = before[k]
                            \/ k - m \in 1..n /\ all[k] = after[k - m]
  BY <1>1, <1>2
<1>5. ASSUME NEW k \in 1..(m + n)
      PROVE  Utterance(all[k], window, nr) \/ (k = m + n /\ Utterance(all[k], window, later))
  <2>1. CASE k \in 1..m /\ all[k] = before[k]
    BY <1>3, <2>1
  <2>2. CASE k - m \in 1..n /\ all[k] = after[k - m]
    <3>1. k - m = n => k = m + n
      BY <1>1
    <3> QED
      BY <1>3, <2>2, <3>1
  <2> QED
    BY <1>4, <2>1, <2>2
<1>6. ASSUME NoData(before), NoData(after) PROVE NoData(all)
  BY <1>2, <1>4, <1>6 DEF NoData, m, n
<1> QED
  BY <1>2, <1>5, <1>6 DEF Utters, all

\* What follows when only the last one may be late: none is.
LEMMA UtterSame ==
  ASSUME NEW acts, NEW window, NEW nr, NEW later, Utters(acts, window, nr, nr)
  PROVE  Utters(acts, window, nr, later)
BY DEF Utters

\* The answers of a session, and a chunk for the user.
LEMMA Answers ==
  ASSUME NEW s \in Session, NEW final \in BOOLEAN, NEW window
  PROVE  /\ Utterance(RR(s, final), window, s.vr) /\ RR(s, final).act = "Transmit"
         /\ Utterance(REJ(s), window, s.vr) /\ REJ(s).act = "Transmit"
         /\ \A info \in Seq(Byte) : \A nr : Utterance(Data(info), window, nr)
<1>1. RR(s, final) \in QuietAction /\ REJ(s) \in QuietAction
  BY OtherFrameTypes
<1>2. RR(s, final) \in Action /\ REJ(s) \in Action
  BY <1>1 DEF QuietAction
<1>3. /\ RR(s, final).act = "Transmit" /\ RR(s, final).frame.type = "RR"
      /\ RR(s, final).frame.nr = s.vr
      /\ REJ(s).act = "Transmit" /\ REJ(s).frame.type = "REJ" /\ REJ(s).frame.nr = s.vr
  BY DEF RR, REJ, Transmit, SFrame
<1>4. \A info \in Seq(Byte) : Data(info) \in Action /\ Data(info).act = "Data"
  BY DEF Data, Action
<1> QED
  BY <1>2, <1>3, <1>4 DEF Utterance

\* A frame of the window that is built.
LEMMA BuildUtters ==
  ASSUME NEW s \in Session, NEW window \in Seq(PendingIFrame), NEW j \in 1..Len(window),
         NEW poll \in BOOLEAN
  PROVE  /\ Utterance(BuildIFrame(s, window[j], poll), window, s.vr)
         /\ BuildIFrame(s, window[j], poll).act = "Transmit"
<1> DEFINE a == BuildIFrame(s, window[j], poll)
<1>1. a \in QuietAction
  BY BuildIFrameType, ElementOfSeq
<1>2. /\ a.act = "Transmit" /\ a.frame.type = "I" /\ a.frame.nr = s.vr
      /\ a.frame.info = window[j].info /\ a.frame.ns = window[j].seq
  BY DEF BuildIFrame, Transmit, IFrame
<1>3. a \in Action
  BY <1>1 DEF QuietAction
<1> HIDE DEF a
<1> QED
  BY <1>2, <1>3 DEF Utterance, a

\* The whole window is sent again.
LEMMA RetransmitUtters ==
  ASSUME NEW s \in Session, NEW pollLast \in BOOLEAN
  PROVE  /\ Utters(RetransmitOutstanding(s, pollLast), s.outstanding, s.vr, s.vr)
         /\ NoData(RetransmitOutstanding(s, pollLast))
<1> DEFINE out == s.outstanding
           n == Len(out)
           acts == RetransmitOutstanding(s, pollLast)
<1>1. out \in Seq(PendingIFrame) /\ n \in Nat
  BY SessionParts
<1>2. acts = [i \in 1..n |-> BuildIFrame(s, out[i], pollLast /\ i = n)]
  BY DEF RetransmitOutstanding
<1> HIDE DEF out, n, acts
<1>3. ASSUME NEW i \in 1..n
      PROVE  /\ Utterance(BuildIFrame(s, out[i], pollLast /\ i = n), out, s.vr)
             /\ BuildIFrame(s, out[i], pollLast /\ i = n).act = "Transmit"
  <2>1. (pollLast /\ i = n) \in BOOLEAN /\ i \in 1..Len(out)
    BY DEF n
  <2> QED
    BY <1>1, <2>1, BuildUtters
<1>4. \A i \in 1..n : Utterance(acts[i], out, s.vr) /\ acts[i].act = "Transmit"
  BY <1>2, <1>3
<1>5. acts \in Seq(Action) /\ Len(acts) = n
  <2>1. \A i \in 1..n : acts[i] \in Action
    BY <1>4 DEF Utterance
  <2>2. acts \in [1..n -> Action]
    BY <1>2, <2>1
  <2> QED
    BY <1>1, <2>2, FunctionIsSeq
<1> QED
  BY <1>4, <1>5 DEF Utters, NoData, out, acts

-----------------------------------------------------------------------------
(* What an operation does to a session that stays connected.               *)

\* The session of r goes on from s, has accepted n2 bytes after n, knows those
\* up to e acknowledged, and has N(R) later.
GoesOn(s, r, n, n2, e, later) ==
  /\ Holds(r.session, n2) /\ AckedOf(r.session, n2) = e
  /\ SentOf(s, n) <= SentOf(r.session, n2)
  /\ r.session.vr = later
  /\ Utters(r.actions, r.session.outstanding, s.vr, later)

\* push_backlog_into_window moves the front of the backlog and sends it.
LEMMA PushMoves ==
  ASSUME NEW s \in Session, Len(s.outstanding) <= Window
  PROVE  LET r == PushBacklogIntoWindow(s)
             t == r.session
         IN  /\ t.vr = s.vr /\ t.state = s.state
             /\ \E m \in 0..Len(s.backlog) :
                  /\ Len(t.outstanding) = Len(s.outstanding) + m
                  /\ Len(t.backlog) = Len(s.backlog) - m
             /\ Utters(r.actions, t.outstanding, s.vr, s.vr) /\ NoData(r.actions)
<1> DEFINE o == Len(s.outstanding)
           b == Len(s.backlog)
           n == Room(s)
           new == Pushed(s)
           out == s.outstanding \o new
           left == SubSeq(s.backlog, n + 1, b)
           r == PushBacklogIntoWindow(s)
           t == r.session
           acts == r.actions
<1>1. /\ s.outstanding \in Seq(PendingIFrame) /\ s.backlog \in Seq(Seq(Byte))
      /\ o \in Nat /\ b \in Nat
  BY SessionParts
<1>2. n \in 0..b /\ new \in Seq(PendingIFrame) /\ Len(new) = n
  BY RoomProperties, PushedType
<1>3. /\ t = [ s EXCEPT !.vs = SeqAdd(s.vs, n), !.outstanding = out,
                        !.backlog = left, !.t1 = s.t1 \/ n > 0 ]
      /\ acts = [i \in 1..n |-> BuildIFrame(s, new[i], FALSE)]
  BY DEF PushBacklogIntoWindow, Pushed, Result
<1> HIDE DEF new, n, r
<1>4. /\ out \in Seq(PendingIFrame) /\ Len(out) = o + n
      /\ \A i \in 1..(o + n) : out[i] = IF i <= o THEN s.outstanding[i] ELSE new[i - o]
  BY <1>1, <1>2, ConcatProperties
<1>5. Len(left) = b - n
  <2>1. \A i \in (n + 1)..b : s.backlog[i] \in Seq(Byte)
    BY <1>1, <1>2, ElementOfSeq
  <2>2. n + 1 \in Int /\ b \in Int
    BY <1>1, <1>2
  <2>3. Len(left) = IF n + 1 <= b THEN b - (n + 1) + 1 ELSE 0
    BY <2>1, <2>2, SubSeqProperties
  <2> HIDE DEF left, b
  <2> QED
    BY <1>1, <1>2, <2>3
<1> HIDE DEF out, left, o, b
<1>6. t.vr = s.vr /\ t.state = s.state /\ t.outstanding = out /\ t.backlog = left
  BY <1>3 DEF Session
<1>7. ASSUME NEW i \in 1..n
      PROVE  /\ Utterance(BuildIFrame(s, new[i], FALSE), out, s.vr)
             /\ BuildIFrame(s, new[i], FALSE).act = "Transmit"
  <2>1. o + i \in 1..Len(out) /\ out[o + i] = new[i]
    <3>1. o + i \in 1..(o + n) /\ ~(o + i <= o) /\ (o + i) - o = i
      BY <1>1, <1>2
    <3> QED
      BY <1>4, <3>1
  <2>2. FALSE \in BOOLEAN
    OBVIOUS
  <2>3. /\ Utterance(BuildIFrame(s, out[o + i], FALSE), out, s.vr)
        /\ BuildIFrame(s, out[o + i], FALSE).act = "Transmit"
    BY <1>4, <2>1, <2>2, BuildUtters
  <2> QED
    BY <2>1, <2>3
<1>8. \A i \in 1..n : Utterance(acts[i], out, s.vr) /\ acts[i].act = "Transmit"
  BY <1>3, <1>7
<1>9. acts \in Seq(Action) /\ Len(acts) = n
  <2>1. \A i \in 1..n : acts[i] \in Action
    BY <1>8 DEF Utterance
  <2>2. acts \in [1..n -> Action]
    BY <1>3, <2>1
  <2>3. n \in Nat
    BY <1>1, <1>2
  <2> QED
    BY <2>2, <2>3, FunctionIsSeq
<1>10. Utters(acts, out, s.vr, s.vr) /\ NoData(acts)
  BY <1>8, <1>9 DEF Utters, NoData
<1> QED
  BY <1>2, <1>4, <1>5, <1>6, <1>10 DEF o, b, r

\* A session that is filled up goes on.
LEMMA PushGoesOn ==
  ASSUME NEW s, Unfilled(s), NEW n \in 0..MaxBytes, InOrder(s, BytesTo(n)),
         AckedOf(s, n) >= 0
  PROVE  LET r == PushBacklogIntoWindow(s)
         IN  GoesOn(s, r, n, n, AckedOf(s, n), s.vr) /\ NoData(r.actions)
<1> DEFINE r == PushBacklogIntoWindow(s)
           t == r.session
<1>1. s \in Session /\ s.state = "Connected" /\ Len(s.outstanding) <= Window
  BY DEF Unfilled, WindowConsistent
<1>2. BytesTo(n) \in Accepted /\ n \in Nat
  BY BytesToIs
<1>3. Consistent(t) /\ t.state = "Connected"
  BY PushKeepsConsistent
<1>4. InOrder(t, BytesTo(n))
  BY <1>1, <1>2, PushInOrder
<1>5. /\ t.vr = s.vr
      /\ \E m \in 0..Len(s.backlog) :
           /\ Len(t.outstanding) = Len(s.outstanding) + m
           /\ Len(t.backlog) = Len(s.backlog) - m
      /\ Utters(r.actions, t.outstanding, s.vr, s.vr) /\ NoData(r.actions)
  BY <1>1, PushMoves
<1>6. Len(s.outstanding) \in Nat /\ Len(s.backlog) \in Nat
  BY <1>1, SessionParts
<1> HIDE DEF r
<1>7. AckedOf(t, n) = AckedOf(s, n) /\ SentOf(s, n) <= SentOf(t, n)
  <2>1. PICK m \in 0..Len(s.backlog) :
           /\ Len(t.outstanding) = Len(s.outstanding) + m
           /\ Len(t.backlog) = Len(s.backlog) - m
    BY <1>5
  <2> QED
    BY <1>2, <1>6, <2>1 DEF AckedOf, SentOf
<1> QED
  BY <1>3, <1>4, <1>5, <1>7 DEF GoesOn, Holds, r

\* An acknowledgement of byte e, whatever the peer says of its readiness.
LEMMA AckUpToGoesOn ==
  ASSUME NEW s, NEW n, Holds(s, n), NEW e \in AckedOf(s, n)..SentOf(s, n),
         NEW t, t \in Session, t.state = "Connected", t.vr = s.vr, t.vs = s.vs,
         t.outstanding = s.outstanding, t.backlog = s.backlog
  PROVE  LET r == AckUpTo(t, (FirstSeq + e) % 8)
         IN  GoesOn(s, r, n, n, e, s.vr) /\ NoData(r.actions)
<1> DEFINE nr == (FirstSeq + e) % 8
           left == StillUnacked(t.outstanding, nr)
           u == [ t EXCEPT !.outstanding = left, !.retry_count = 0, !.t1 = left # <<>> ]
<1>1. s \in Session /\ s.state = "Connected" /\ WindowConsistent(s) /\ InOrder(s, BytesTo(n))
  BY DEF Holds, Consistent
<1>2. /\ n \in 0..MaxBytes /\ AckedOf(s, n) \in Nat /\ SentOf(s, n) <= n
      /\ SentOf(s, n) \in Nat /\ Len(s.backlog) = n - SentOf(s, n)
      /\ BytesTo(n) \in Accepted
  BY HeldFrames, BytesToIs
<1>3. WindowConsistent(t)
  BY <1>1 DEF WindowConsistent
<1>4. /\ left \in Seq(PendingIFrame) /\ Len(left) <= Window
      /\ \A i \in 1..Len(left) : SeqAdd(left[i].seq, Len(left) - i + 1) = t.vs
  BY <1>3, StillUnackedKeepsWindow
<1>5. Len(left) = SentOf(s, n) - e
  BY UnackedPast
<1>6. left = StillUnacked(s.outstanding, nr)
  OBVIOUS
<1>7. AckUpTo(t, nr) = PushBacklogIntoWindow(u)
  BY DEF AckUpTo
<1> HIDE DEF left, nr
<1>8. u \in Session
  BY <1>4 DEF Session
<1>9. /\ u.state = "Connected" /\ u.outstanding = left /\ u.vs = s.vs
      /\ u.retry_count = 0 /\ u.vr = s.vr /\ u.backlog = s.backlog
  BY DEF Session
<1>10. u.t1 = (left # <<>>)
  BY DEF Session
<1> HIDE DEF u
<1>11. WindowConsistent(u)
  BY <1>4, <1>9 DEF WindowConsistent
<1>12. Unfilled(u)
  <2>1. u.retry_count <= N2
    BY <1>9, ArqConfigAssumption
  <2> QED
    BY <2>1, <1>8, <1>9, <1>10, <1>11 DEF Unfilled
<1>13. InOrder(u, BytesTo(n))
  <2>1. u.state = s.state
    BY <1>1, <1>9
  <2> QED
    BY <1>1, <1>2, <1>6, <1>9, <2>1, ShorterInOrder
<1>14. AckedOf(u, n) = e /\ SentOf(u, n) = SentOf(s, n) /\ e >= 0
  <2>1. SentOf(u, n) = SentOf(s, n)
    BY <1>9 DEF SentOf
  <2>2. AckedOf(u, n) = SentOf(u, n) - Len(left)
    BY <1>9 DEF AckedOf, SentOf
  <2>3. e \in Nat /\ e >= 0
    BY <1>2
  <2> QED
    BY <1>2, <1>5, <2>1, <2>2, <2>3
<1>15. LET r == PushBacklogIntoWindow(u)
       IN  GoesOn(u, r, n, n, AckedOf(u, n), u.vr) /\ NoData(r.actions)
  BY <1>2, <1>12, <1>13, <1>14, PushGoesOn
<1> QED
  BY <1>7, <1>9, <1>14, <1>15 DEF GoesOn, nr

\* Without data the user is given nothing; with one chunk, that chunk.
LEMMA PayloadOf ==
  ASSUME NEW acts \in Seq(Action), NoData(acts)
  PROVE  /\ Payload(acts) = <<>>
         /\ \A info \in Seq(Byte), last \in Action : last.act # "Data" =>
              Payload(acts \o <<Data(info), last>>) = info
<1> DEFINE m == Len(acts)
<1>1. m \in Nat
  BY LenProperties
<1>2. Payload(acts) = <<>>
  <2>1. {i \in 1..m : acts[i].act = "Data"} = {}
    BY DEF NoData
  <2> QED
    BY <2>1 DEF Payload
<1>3. ASSUME NEW info \in Seq(Byte), NEW last \in Action, last.act # "Data"
      PROVE  Payload(acts \o <<Data(info), last>>) = info
  <2> DEFINE d == Data(info)
             both == <<d, last>>
             all == acts \o both
             data == {i \in 1..Len(all) : all[i].act = "Data"}
  <2>1. d \in Action /\ d.act = "Data" /\ d.info = info
    BY DEF Data, Action
  <2> HIDE DEF d
  <2>2. both \in Seq(Action) /\ Len(both) = 2 /\ both[1] = d /\ both[2] = last
    BY <2>1
  <2> HIDE DEF both
  <2>3. /\ Len(all) = m + 2
        /\ \A i \in 1..(m + 2) : all[i] = IF i <= m THEN acts[i] ELSE both[i - m]
    <3>1. /\ Len(all) = Len(acts) + Len(both)
          /\ \A i \in 1..(Len(acts) + Len(both)) :
               all[i] = IF i <= Len(acts) THEN acts[i] ELSE both[i - Len(acts)]
      BY <2>2, ConcatProperties
    <3> HIDE DEF all
    <3> QED
      BY <2>2, <3>1
  <2> HIDE DEF all, m
  <2>4. \A i \in 1..(m + 2) : \/ i \in 1..m /\ all[i] = acts[i]
                              \/ i = m + 1 /\ all[i] = d
                              \/ i = m + 2 /\ all[i] = last
    BY <1>1, <2>2, <2>3
  <2>5. m + 1 \in 1..(m + 2) /\ all[m + 1] = d
    <3>1. m + 1 \in 1..(m + 2) /\ ~(m + 1 <= m) /\ (m + 1) - m = 1
      BY <1>1
    <3> QED
      BY <2>2, <2>3, <3>1
  <2>6. \A i \in 1..m : acts[i].act # "Data"
    BY DEF NoData, m
  <2>7. \A i \in 1..(m + 2) : all[i].act = "Data" <=> i = m + 1
    BY <1>1, <1>3, <2>1, <2>4, <2>5, <2>6
  <2>8. data = {m + 1}
    BY <2>3, <2>5, <2>7
  <2>9. Payload(all) = all[CHOOSE i \in data : TRUE].info
    BY <2>8 DEF Payload
  <2> HIDE DEF data
  <2>10. (CHOOSE i \in data : TRUE) = m + 1
    BY <2>8
  <2> QED
    BY <2>1, <2>5, <2>9, <2>10 DEF all, both, d
<1> QED
  BY <1>2, <1>3

\* A session with the same queues and numbers goes on.
LEMMA SameHolds ==
  ASSUME NEW s, NEW n, Holds(s, n), NEW t, Consistent(t), t.state = "Connected",
         t.outstanding = s.outstanding, t.backlog = s.backlog, t.vs = s.vs
  PROVE  /\ Holds(t, n) /\ AckedOf(t, n) = AckedOf(s, n) /\ SentOf(t, n) = SentOf(s, n)
         /\ AckedOf(s, n) \in AckedOf(s, n)..SentOf(s, n) /\ SentOf(s, n) <= SentOf(s, n)
<1>1. AckedOf(t, n) = AckedOf(s, n) /\ SentOf(t, n) = SentOf(s, n)
  BY DEF AckedOf, SentOf
<1>2. /\ s.state = "Connected" /\ n \in 0..MaxBytes /\ AckedOf(s, n) >= 0
      /\ InOrder(s, BytesTo(n))
  BY DEF Holds
<1>3. InOrder(t, BytesTo(n))
  BY <1>2, SameQueuesInOrder
<1>4. AckedOf(s, n) \in AckedOf(s, n)..SentOf(s, n) /\ SentOf(s, n) <= SentOf(s, n)
  BY HeldFrames
<1> QED
  BY <1>1, <1>2, <1>3, <1>4 DEF Holds

\* Nothing happens.
LEMMA IgnoredGoesOn ==
  ASSUME NEW s, NEW n, Holds(s, n)
  PROVE  GoesOn(s, Ignored(s), n, n, AckedOf(s, n), s.vr) /\ NoData(Ignored(s).actions)
<1>1. Ignored(s).session = s /\ Ignored(s).actions = <<>>
  BY DEF Ignored, Result
<1>2. Consistent(s) /\ s.state = "Connected"
  BY DEF Holds
<1>3. SentOf(s, n) <= SentOf(s, n)
  BY <1>2, SameHolds
<1> HIDE DEF Ignored
<1> QED
  BY <1>1, <1>3, SayingNothing DEF GoesOn

\* What it says more, saying its V(R).
LEMMA SayingMoreGoesOn ==
  ASSUME NEW s, NEW n, NEW n2, NEW e, NEW r, GoesOn(s, r, n, n2, e, s.vr), NoData(r.actions),
         NEW more, Utters(more, r.session.outstanding, s.vr, s.vr), NoData(more)
  PROVE  /\ GoesOn(s, Result(r.session, r.actions \o more), n, n2, e, s.vr)
         /\ NoData(r.actions \o more)
<1> DEFINE acts == r.actions \o more
           u == Result(r.session, acts)
<1>1. Utters(acts, r.session.outstanding, s.vr, s.vr) /\ NoData(acts)
  BY UtterMore DEF GoesOn
<1>2. u.session = r.session /\ u.actions = acts
  BY DEF Result
<1> HIDE DEF u, acts
<1> QED
  BY <1>1, <1>2 DEF GoesOn, u, acts

\* One more answer, appended.
LEMMA AnsweringGoesOn ==
  ASSUME NEW s, NEW n, NEW n2, NEW e, NEW r, GoesOn(s, r, n, n2, e, s.vr), NoData(r.actions),
         NEW a \in {RR(r.session, TRUE), REJ(r.session)}
  PROVE  /\ GoesOn(s, Result(r.session, Append(r.actions, a)), n, n2, e, s.vr)
         /\ NoData(Append(r.actions, a))
<1> DEFINE window == r.session.outstanding
<1>1. r.session \in Session /\ r.session.vr = s.vr /\ r.actions \in Seq(Action)
  BY DEF GoesOn, Holds, Consistent, Utters
<1>2. Utterance(a, window, s.vr) /\ a.act # "Data"
  BY <1>1, Answers
<1>3. Utters(<<a>>, window, s.vr, s.vr) /\ NoData(<<a>>)
  BY <1>2, OneUtterance
<1>4. Append(r.actions, a) = r.actions \o <<a>>
  <2>1. a \in Action
    BY <1>2 DEF Utterance
  <2> QED
    BY <1>1, <2>1, AppendIsConcat
<1> QED
  BY <1>3, <1>4, SayingMoreGoesOn

\* A supervisory frame, and its poll.
LEMMA FinalGoesOn ==
  ASSUME NEW s, NEW n, NEW e, NEW r, GoesOn(s, r, n, n, e, s.vr), NoData(r.actions), NEW f
  PROVE  /\ GoesOn(s, FinalIfPolled(r, f), n, n, e, s.vr)
         /\ NoData(FinalIfPolled(r, f).actions)
<1>1. CASE f.pf
  <2> DEFINE acts == Append(r.actions, RR(r.session, TRUE))
  <2>1. FinalIfPolled(r, f) = Result(r.session, acts)
    BY <1>1 DEF FinalIfPolled
  <2>2. Result(r.session, acts).actions = acts
    BY DEF Result
  <2>3. GoesOn(s, Result(r.session, acts), n, n, e, s.vr) /\ NoData(acts)
    BY AnsweringGoesOn
  <2> HIDE DEF acts
  <2> QED
    BY <2>1, <2>2, <2>3
<1>2. CASE ~f.pf
  BY <1>2 DEF FinalIfPolled
<1> QED
  BY <1>1, <1>2

\* RR, RNR and REJ acknowledge, and REJ has the window sent again.
LEMMA SupervisoryGoesOn ==
  ASSUME NEW s, NEW n, Holds(s, n), NEW e \in AckedOf(s, n)..SentOf(s, n),
         NEW f, f.nr = (FirstSeq + e) % 8, NEW r \in {OnRr(s, f), OnRnr(s, f), OnReject(s, f)}
  PROVE  GoesOn(s, r, n, n, e, s.vr) /\ NoData(r.actions)
<1>1. s \in Session /\ s.state = "Connected"
  BY DEF Holds, Consistent
<1>2. ASSUME NEW busy \in BOOLEAN
      PROVE  LET u == AckUpTo([s EXCEPT !.peer_busy = busy], f.nr)
             IN  GoesOn(s, u, n, n, e, s.vr) /\ NoData(u.actions)
  <2> DEFINE t == [s EXCEPT !.peer_busy = busy]
  <2>1. /\ t \in Session /\ t.state = "Connected" /\ t.vr = s.vr /\ t.vs = s.vs
        /\ t.outstanding = s.outstanding /\ t.backlog = s.backlog
    BY <1>1 DEF Session
  <2> HIDE DEF t
  <2>2. LET u == AckUpTo(t, (FirstSeq + e) % 8)
        IN  GoesOn(s, u, n, n, e, s.vr) /\ NoData(u.actions)
    BY <2>1, AckUpToGoesOn
  <2> QED
    BY <2>2 DEF t
<1> DEFINE free == AckUpTo([s EXCEPT !.peer_busy = FALSE], f.nr)
           busy == AckUpTo([s EXCEPT !.peer_busy = TRUE], f.nr)
           again == RetransmitOutstanding(free.session, FALSE)
           resent == Result(free.session, free.actions \o again)
<1>3. /\ OnRr(s, f) = FinalIfPolled(free, f) /\ OnRnr(s, f) = FinalIfPolled(busy, f)
      /\ OnReject(s, f) = FinalIfPolled(resent, f)
  BY <1>1 DEF OnRr, OnRnr, OnReject
<1>4. /\ GoesOn(s, free, n, n, e, s.vr) /\ NoData(free.actions)
      /\ GoesOn(s, busy, n, n, e, s.vr) /\ NoData(busy.actions)
  BY <1>2
<1> HIDE DEF free, busy
<1>5. GoesOn(s, resent, n, n, e, s.vr) /\ NoData(resent.actions)
  <2>1. free.session \in Session /\ free.session.vr = s.vr
    BY <1>4 DEF GoesOn, Holds, Consistent
  <2>2. Utters(again, free.session.outstanding, s.vr, s.vr) /\ NoData(again)
    BY <2>1, RetransmitUtters
  <2> HIDE DEF again
  <2>3. resent.actions = free.actions \o again
    BY DEF Result
  <2> QED
    BY <1>4, <2>2, <2>3, SayingMoreGoesOn
<1> HIDE DEF resent
<1>6. \A u \in {free, busy, resent} :
        GoesOn(s, FinalIfPolled(u, f), n, n, e, s.vr) /\ NoData(FinalIfPolled(u, f).actions)
  BY <1>4, <1>5, FinalGoesOn
<1> QED
  BY <1>3, <1>6

\* An I frame acknowledges too.  In sequence its chunk goes to the user and
\* V(R) advances, which only the RR that comes last says.
LEMMA InformationGoesOn ==
  ASSUME NEW s, NEW n, Holds(s, n), NEW e \in AckedOf(s, n)..SentOf(s, n),
         NEW f, f.nr = (FirstSeq + e) % 8, f.info \in Seq(Byte)
  PROVE  LET r == OnInformation(s, f)
         IN  /\ f.ns = s.vr => /\ GoesOn(s, r, n, n, e, SeqAdd(s.vr, 1))
                               /\ Payload(r.actions) = f.info
             /\ f.ns # s.vr => GoesOn(s, r, n, n, e, s.vr) /\ NoData(r.actions)
<1> DEFINE r == AckUpTo(s, f.nr)
           v == SeqAdd(s.vr, 1)
           t == [r.session EXCEPT !.vr = SeqAdd(r.session.vr, 1)]
           more == <<Data(f.info), RR(t, FALSE)>>
           u == Result(t, r.actions \o more)
           w == Result(r.session, Append(r.actions, REJ(r.session)))
<1>1. s \in Session /\ s.state = "Connected"
  BY DEF Holds, Consistent
<1>2. GoesOn(s, r, n, n, e, s.vr) /\ NoData(r.actions)
  BY <1>1, AckUpToGoesOn
<1>3. OnInformation(s, f) = IF f.ns = s.vr THEN u ELSE w
  BY <1>1 DEF OnInformation, InSequence
<1> HIDE DEF r
<1>4. GoesOn(s, w, n, n, e, s.vr) /\ NoData(w.actions)
  <2> DEFINE acts == Append(r.actions, REJ(r.session))
  <2>1. GoesOn(s, Result(r.session, acts), n, n, e, s.vr) /\ NoData(acts)
    BY <1>2, AnsweringGoesOn
  <2> HIDE DEF acts
  <2>2. Result(r.session, acts).actions = acts
    BY DEF Result
  <2> QED
    BY <2>1, <2>2 DEF acts
<1>5. /\ Holds(r.session, n) /\ AckedOf(r.session, n) = e
      /\ SentOf(s, n) <= SentOf(r.session, n) /\ r.session.vr = s.vr
      /\ Utters(r.actions, r.session.outstanding, s.vr, s.vr)
  BY <1>2 DEF GoesOn
<1>6. v \in SeqNum
  <2>1. s.vr \in Nat
    BY <1>1 DEF Session, SeqNum
  <2> QED
    BY <2>1, SeqAddProperties
<1>7. /\ t = [r.session EXCEPT !.vr = v]
      /\ Consistent(r.session) /\ r.session.state = "Connected"
      /\ r.session \in Session
  BY <1>5 DEF Holds, Consistent
<1>8. /\ Consistent(t) /\ t.state = "Connected" /\ t.vr = v
      /\ t.outstanding = r.session.outstanding /\ t.backlog = r.session.backlog
      /\ t.vs = r.session.vs
  <2>1. Consistent([r.session EXCEPT !.vr = v]) /\ [r.session EXCEPT !.vr = v].state = r.session.state
    BY <1>6, <1>7, ReceivingWorks
  <2>2. /\ t.vr = v /\ t.outstanding = r.session.outstanding
        /\ t.backlog = r.session.backlog /\ t.vs = r.session.vs
    BY <1>7 DEF Session
  <2> QED
    BY <1>7, <2>1, <2>2
<1> HIDE DEF t, v
<1>9. Holds(t, n) /\ AckedOf(t, n) = e /\ SentOf(s, n) <= SentOf(t, n)
  <2>1. /\ Holds(t, n) /\ AckedOf(t, n) = AckedOf(r.session, n)
        /\ SentOf(t, n) = SentOf(r.session, n)
    BY <1>5, <1>8, SameHolds
  <2> QED
    BY <1>5, <2>1
<1>10. RR(t, FALSE) \in Action /\ RR(t, FALSE).act # "Data"
  <2>1. t \in Session /\ FALSE \in BOOLEAN
    BY <1>8 DEF Consistent
  <2>2. Utterance(RR(t, FALSE), <<>>, t.vr) /\ RR(t, FALSE).act = "Transmit"
    BY <2>1, Answers
  <2> QED
    BY <2>2 DEF Utterance
<1>11. Utters(more, t.outstanding, s.vr, v)
  <2> DEFINE d == Data(f.info)
             a == RR(t, FALSE)
  <2>1. t \in Session /\ FALSE \in BOOLEAN
    BY <1>8 DEF Consistent
  <2>2. Utterance(d, t.outstanding, s.vr) /\ Utterance(a, t.outstanding, v)
    BY <1>8, <2>1, Answers
  <2>3. d \in Action /\ a \in Action
    BY <2>2 DEF Utterance
  <2> HIDE DEF d, a
  <2>4. <<d, a>> \in Seq(Action) /\ Len(<<d, a>>) = 2 /\ <<d, a>>[1] = d /\ <<d, a>>[2] = a
    BY <2>3
  <2>5. Utters(<<d, a>>, t.outstanding, s.vr, v)
    BY <2>2, <2>4 DEF Utters
  <2> QED
    BY <2>5 DEF d, a
<1>12. Utters(r.actions \o more, t.outstanding, s.vr, v)
  BY <1>5, <1>8, <1>11, UtterMore
<1>13. Payload(r.actions \o more) = f.info
  <2>1. r.actions \in Seq(Action)
    BY <1>5 DEF Utters
  <2> QED
    BY <1>2, <1>10, <2>1, PayloadOf
<1> HIDE DEF more
<1>14. GoesOn(s, u, n, n, e, v) /\ Payload(u.actions) = f.info
  <2>1. u.session = t /\ u.actions = r.actions \o more
    BY DEF Result
  <2> HIDE DEF u
  <2> QED
    BY <1>8, <1>9, <1>12, <1>13, <2>1 DEF GoesOn
<1> HIDE DEF u, w
<1> QED
  BY <1>3, <1>4, <1>14 DEF v

\* Nothing is left to send of the one byte but its frame.
LEMMA FragmentOfOne ==
  ASSUME NEW b \in Byte
  PROVE  Fragment(<<b>>) = <<<<b>>>>
<1> DEFINE bytes == <<b>>
<1>1. bytes \in Seq(Byte) /\ Len(bytes) = 1 /\ bytes[1] = b
  OBVIOUS
<1> HIDE DEF bytes
<1>2. N1 \in Nat /\ N1 >= 1
  BY ArqConfigAssumption
<1>3. (1 + N1 - 1) \div N1 = 1
  BY <1>2
<1>4. ~(1 * N1 <= 1) \/ N1 = 1
  BY <1>2
<1>5. (1 - 1) * N1 + 1 = 1 /\ (IF 1 * N1 <= 1 THEN 1 * N1 ELSE 1) = 1
  BY <1>2, <1>4
<1>6. SubSeq(bytes, 1, 1) = <<b>>
  <2>1. SubSeq(bytes, 1, Len(bytes)) = bytes
    BY <1>1, SubSeqFull
  <2> QED
    BY <1>1, <2>1 DEF bytes
<1>7. Fragment(bytes) = [i \in 1..1 |-> SubSeq(bytes, (i - 1) * N1 + 1,
                                         IF i * N1 <= 1 THEN i * N1 ELSE 1)]
  BY <1>1, <1>3 DEF Fragment
<1>8. \A i \in 1..1 : SubSeq(bytes, (i - 1) * N1 + 1, IF i * N1 <= 1 THEN i * N1 ELSE 1) = <<b>>
  BY <1>5, <1>6
<1>9. Fragment(bytes) = [i \in 1..1 |-> <<b>>]
  BY <1>7, <1>8
<1>10. Fragment(bytes) = <<<<b>>>>
  BY <1>9
<1> QED
  BY <1>10 DEF bytes

\* Accepting one byte makes the accepted chunks one longer.
LEMMA OneByteMore ==
  ASSUME NEW n \in Nat, n + 1 <= MaxBytes
  PROVE  BytesTo(n) \o Fragment(<<n + 1>>) = BytesTo(n + 1)
<1> DEFINE one == <<<<n + 1>>>>
           before == BytesTo(n)
           after == BytesTo(n + 1)
<1>1. n \in 0..MaxBytes /\ n + 1 \in 0..MaxBytes /\ n + 1 \in Byte
  BY ArqLinkAssumption
<1>2. Fragment(<<n + 1>>) = one
  BY <1>1, FragmentOfOne
<1>3. /\ FirstSeq \in Nat /\ before \in Accepted /\ after \in Accepted
      /\ Len(before) = FirstSeq + n /\ Len(after) = FirstSeq + (n + 1)
  BY <1>1, BytesToIs
<1>4. one \in Accepted /\ Len(one) = 1 /\ one[1] = <<n + 1>>
  <2>1. <<n + 1>> \in Seq(Byte)
    BY <1>1
  <2> QED
    BY <2>1 DEF Accepted
<1> HIDE DEF one
<1>5. /\ before \o one \in Accepted /\ Len(before \o one) = FirstSeq + n + 1
      /\ \A i \in 1..(FirstSeq + n + 1) :
           (before \o one)[i] = IF i <= FirstSeq + n THEN before[i] ELSE one[i - (FirstSeq + n)]
  <2> HIDE DEF before, after
  <2>1. /\ before \o one \in Accepted /\ Len(before \o one) = Len(before) + Len(one)
        /\ \A i \in 1..(Len(before) + Len(one)) :
             (before \o one)[i] = IF i <= Len(before) THEN before[i] ELSE one[i - Len(before)]
    BY <1>3, <1>4, ConcatProperties DEF Accepted
  <2> QED
    BY <1>3, <1>4, <2>1
<1>6. ASSUME NEW i \in 1..(FirstSeq + n + 1)
      PROVE  (before \o one)[i] = after[i]
  <2>1. CASE i <= FirstSeq + n
    <3>1. i \in 1..(FirstSeq + n) /\ i \in 1..(FirstSeq + (n + 1))
      BY <1>3, <2>1
    <3>2. before[i] = after[i]
      BY <3>1 DEF BytesTo
    <3> QED
      BY <1>5, <2>1, <3>2
  <2>2. CASE ~(i <= FirstSeq + n)
    <3>1. /\ i = FirstSeq + (n + 1) /\ i - (FirstSeq + n) = 1 /\ i - FirstSeq = n + 1
          /\ ~(i <= FirstSeq) /\ i \in 1..(FirstSeq + (n + 1))
      BY <1>3, <2>2
    <3>2. after[i] = <<n + 1>>
      BY <3>1 DEF BytesTo
    <3> QED
      BY <1>4, <1>5, <2>2, <3>1, <3>2
  <2> QED
    BY <2>1, <2>2
<1>7. Len(before \o one) = Len(after) /\ Len(after) = FirstSeq + n + 1
  BY <1>3, <1>5
<1> HIDE DEF before, after
<1>8. before \o one = after
  BY <1>3, <1>5, <1>6, <1>7, SeqEqual DEF Accepted
<1> QED
  BY <1>2, <1>8 DEF before, after

\* Accepting byte n + 1.
LEMMA SendGoesOn ==
  ASSUME NEW s, NEW n, Holds(s, n), n + 1 <= MaxBytes
  PROVE  LET r == Send(s, <<n + 1>>)
         IN  GoesOn(s, r, n, n + 1, AckedOf(s, n), s.vr) /\ NoData(r.actions)
<1> DEFINE bytes == <<n + 1>>
           more == Fragment(bytes)
           longer == s.backlog \o more
           t == [s EXCEPT !.backlog = longer]
           r == Send(s, bytes)
           u == r.session
<1>1. Consistent(s) /\ s.state = "Connected" /\ InOrder(s, BytesTo(n))
  BY DEF Holds
<1>2. /\ n \in Nat /\ n \in 0..MaxBytes /\ n + 1 \in 0..MaxBytes /\ n + 1 \in Byte
      /\ AckedOf(s, n) \in Nat
  <2>1. n \in 0..MaxBytes /\ AckedOf(s, n) \in Nat
    BY HeldFrames
  <2> QED
    BY <2>1, ArqLinkAssumption
<1>3. bytes \in Seq(Byte)
  BY <1>2
<1>4. more = <<<<n + 1>>>>
  BY <1>2, FragmentOfOne
<1>5. more \in Seq(Seq(Byte)) /\ Len(more) = 1
  <2>1. <<<<n + 1>>>> \in Seq(Seq(Byte)) /\ Len(<<<<n + 1>>>>) = 1
    BY <1>3
  <2> HIDE DEF more
  <2> QED
    BY <1>4, <2>1
<1>6. BytesTo(n) \in Accepted
  BY <1>2, BytesToIs
<1>7. InOrder(u, BytesTo(n + 1))
  <2>1. InOrder(Send(s, bytes).session, BytesTo(n) \o Fragment(bytes))
    BY <1>1, <1>3, <1>6, SendInOrder
  <2>2. BytesTo(n) \o Fragment(bytes) = BytesTo(n + 1)
    BY <1>2, OneByteMore
  <2> QED
    BY <2>1, <2>2
<1>9. r = PushBacklogIntoWindow(t)
  BY <1>1 DEF Send
<1>10. /\ s.backlog \in Seq(Seq(Byte)) /\ Len(s.backlog) \in Nat
       /\ Len(s.outstanding) \in Nat /\ Len(s.outstanding) <= Window /\ s \in Session
  BY <1>1, SessionParts DEF Consistent, WindowConsistent
<1> HIDE DEF more, r
<1>11. longer \in Seq(Seq(Byte)) /\ Len(longer) = Len(s.backlog) + 1
  <2>1. longer \in Seq(Seq(Byte)) /\ Len(longer) = Len(s.backlog) + Len(more)
    BY <1>5, <1>10, ConcatProperties
  <2> QED
    BY <1>5, <2>1
<1> HIDE DEF longer
<1>12. /\ t \in Session /\ t.outstanding = s.outstanding /\ t.backlog = longer
       /\ t.vr = s.vr /\ t.state = s.state
  BY <1>10, <1>11 DEF Session
<1> HIDE DEF t
<1>13. /\ u.vr = s.vr /\ u.state = s.state
       /\ \E m \in 0..Len(longer) :
            /\ Len(u.outstanding) = Len(s.outstanding) + m
            /\ Len(u.backlog) = Len(longer) - m
       /\ Utters(r.actions, u.outstanding, s.vr, s.vr) /\ NoData(r.actions)
  BY <1>9, <1>10, <1>12, PushMoves
<1>8. Consistent(u) /\ u.state = "Connected"
  <2>1. Sound(Send(s, bytes), s.state)
    BY <1>1, <1>3, SendIsSound
  <2> QED
    BY <1>1, <1>13, <2>1 DEF Sound, r
<1>14. AckedOf(u, n + 1) = AckedOf(s, n) /\ SentOf(s, n) <= SentOf(u, n + 1)
  <2>1. PICK m \in 0..Len(longer) : /\ Len(u.outstanding) = Len(s.outstanding) + m
                                    /\ Len(u.backlog) = Len(longer) - m
    BY <1>13
  <2> QED
    BY <1>2, <1>10, <1>11, <2>1 DEF AckedOf, SentOf
<1>15. AckedOf(u, n + 1) >= 0
  BY <1>2, <1>14
<1>16. Holds(u, n + 1)
  BY <1>2, <1>7, <1>8, <1>15 DEF Holds
<1> QED
  BY <1>13, <1>14, <1>16 DEF GoesOn, r

-----------------------------------------------------------------------------
(* What an operation does to a session that ends its link, or is not on one. *)

\* The session of r is on no link and has nothing to say of numbers.
Rests(r) ==
  /\ Consistent(r.session)
  /\ r.session.state \in {"Disconnecting", "Disconnected"}
  /\ Mute(r.actions)

\* The actions of operations that only concern the link itself.
LinkAction ==
  {a \in Action : /\ a.act # "Data"
                  /\ a.act = "Transmit" => a.frame.type \in {"DISC", "UA", "DM", "FRMR"}}

\* They are mute.
LEMMA LinkActionsAreMute ==
  ASSUME NEW acts \in Seq(LinkAction)
  PROVE  Mute(acts)
<1>1. LinkAction \subseteq Action
  BY DEF LinkAction
<1>2. acts \in Seq(Action)
  BY <1>1, SeqMonotonic
<1>3. \A k \in 1..Len(acts) : acts[k] \in LinkAction
  BY ElementOfSeq
<1> QED
  BY <1>2, <1>3 DEF Mute, NoData, LinkAction, Numbered

\* What they are.
LEMMA LinkActionsAre ==
  /\ \A kind \in {"DISC", "UA", "DM", "FRMR"}, pf \in BOOLEAN :
       Transmit(UFrame(kind, pf)) \in LinkAction
  /\ \A st \in ConnState : StateChanged(st) \in LinkAction
  /\ Closed \in LinkAction /\ Monitor \in LinkAction
  /\ Teardown \in Seq(LinkAction) /\ <<Monitor>> \o Teardown \in Seq(LinkAction)
<1>1. ASSUME NEW kind \in {"DISC", "UA", "DM", "FRMR"}, NEW pf \in BOOLEAN
      PROVE  Transmit(UFrame(kind, pf)) \in LinkAction
  <2>1. Transmit(UFrame(kind, pf)) \in SilentAction
    BY OtherFrameTypes, NewSessionFields
  <2> QED
    BY <2>1 DEF SilentAction, LinkAction, Transmit, UFrame
<1>2. \A st \in ConnState : StateChanged(st) \in LinkAction
  BY DEF StateChanged, LinkAction, Action
<1>3. Closed \in LinkAction /\ Monitor \in LinkAction
  BY DEF Closed, Monitor, LinkAction, Action
<1>4. StateChanged("Disconnected") \in LinkAction
  BY <1>2 DEF ConnState
<1>5. Teardown \in Seq(LinkAction)
  BY <1>3, <1>4 DEF Teardown
<1>6. <<Monitor>> \in Seq(LinkAction)
  BY <1>3
<1>7. <<Monitor>> \o Teardown \in Seq(LinkAction)
  BY <1>5, <1>6, ConcatProperties
<1> QED
  BY <1>1, <1>2, <1>3, <1>5, <1>7

\* A request to disconnect.
LEMMA CloseRests ==
  ASSUME NEW s, Consistent(s), s.state # "Disconnected"
  PROVE  Rests(Close(s))
<1> DEFINE r == Close(s)
           disc == Transmit(UFrame("DISC", TRUE))
           said == StateChanged("Disconnecting")
<1>1. r.actions = <<disc, said>> /\ r.session.state = "Disconnecting"
  BY DEF Close, Result, Consistent, Session
<1>2. Consistent(r.session)
  BY CloseIsSound DEF Sound
<1>3. disc \in LinkAction /\ said \in LinkAction
  BY LinkActionsAre DEF ConnState
<1> HIDE DEF disc, said
<1>4. <<disc, said>> \in Seq(LinkAction)
  BY <1>3
<1> QED
  BY <1>1, <1>2, <1>4, LinkActionsAreMute DEF Rests

\* A session on no link stays as it is, answering at most with one frame.
LEMMA StaysAtRest ==
  ASSUME NEW s, Consistent(s), s.state \in {"Disconnecting", "Disconnected"},
         NEW a \in LinkAction
  PROVE  Rests(Ignored(s)) /\ Rests(Result(s, <<a>>))
<1>1. /\ Ignored(s).session = s /\ Ignored(s).actions = <<>>
      /\ Result(s, <<a>>).session = s /\ Result(s, <<a>>).actions = <<a>>
  BY DEF Ignored, Result
<1>2. <<a>> \in Seq(LinkAction)
  OBVIOUS
<1>3. Mute(<<a>>) /\ Mute(<<>>)
  BY <1>2, LinkActionsAreMute, SayingNothing
<1> HIDE DEF Ignored, Result
<1> QED
  BY <1>1, <1>3 DEF Rests

\* DISC, DM and FRMR end whatever link there is.
LEMMA EndingRests ==
  ASSUME NEW s, Consistent(s), NEW f \in Frame, f.type \in {"DISC", "DM", "FRMR"}
  PROVE  Rests(OnFrame(s, f))
<1>1. s \in Session
  BY DEF Consistent
<1>2. f.pf \in BOOLEAN
  BY DEF Frame, FrameCarrying
<1> DEFINE ua == Transmit(UFrame("UA", f.pf))
           rest == IF s.state = "Disconnected" THEN <<>> ELSE Teardown
<1>3. ua \in LinkAction
  BY <1>2, LinkActionsAre
<1>4. rest \in Seq(LinkAction) /\ <<Monitor>> \o Teardown \in Seq(LinkAction)
  BY EmptySeq, LinkActionsAre
<1>5. /\ OnDisc(s, f).actions = <<ua>> \o rest
      /\ OnDm(s).actions \in {<<>>, <<Monitor>> \o Teardown}
      /\ OnFrmr(s).actions \in {<<>>, <<Monitor>> \o Teardown}
  BY DEF OnDisc, OnDm, OnFrmr, Result
<1> HIDE DEF ua, rest
<1>6. <<ua>> \o rest \in Seq(LinkAction)
  <2>1. <<ua>> \in Seq(LinkAction)
    BY <1>3
  <2> QED
    BY <1>4, <2>1, ConcatProperties
<1>7. <<>> \in Seq(LinkAction)
  BY EmptySeq
<1>8. /\ OnDisc(s, f).actions \in Seq(LinkAction) /\ OnDm(s).actions \in Seq(LinkAction)
      /\ OnFrmr(s).actions \in Seq(LinkAction)
  BY <1>4, <1>5, <1>6, <1>7
<1>9. /\ OnDisc(s, f).session.state = "Disconnected"
      /\ OnDm(s).session.state = "Disconnected"
      /\ OnFrmr(s).session.state = "Disconnected"
  BY <1>1, EndingFrames
<1>10. OnFrame(s, f) \in {OnDisc(s, f), OnDm(s), OnFrmr(s)}
  BY DEF OnFrame
<1>11. Consistent(OnFrame(s, f).session)
  BY OnFrameIsSound DEF Sound
<1>12. Mute(OnFrame(s, f).actions) /\ OnFrame(s, f).session.state = "Disconnected"
  BY <1>8, <1>9, <1>10, LinkActionsAreMute
<1> QED
  BY <1>11, <1>12 DEF Rests

\* Nor does any other frame bring a session that is on no link back, but SABM.
LEMMA HearingRests ==
  ASSUME NEW s, Consistent(s), s.state \in {"Disconnecting", "Disconnected"},
         NEW f \in Frame, f.type # "SABM"
  PROVE  Rests(Handle(s, f))
<1>1. f.type \in {"I", "RR", "RNR", "REJ", "DISC", "UA", "DM", "FRMR"}
  BY DEF Frame, FrameCarrying
<1>2. CASE s.state = "Disconnected"
  <2> DEFINE dm == Transmit(UFrame("DM", TRUE))
  <2>1. Handle(s, f) = Ignored(s) \/ Handle(s, f) = Result(s, <<dm>>)
    BY <1>1, <1>2 DEF Handle
  <2>2. dm \in LinkAction
    BY LinkActionsAre
  <2> HIDE DEF dm
  <2> QED
    BY <2>1, <2>2, StaysAtRest
<1>3. CASE s.state = "Disconnecting"
  <2> DEFINE frmr == Transmit(UFrame("FRMR", FALSE))
  <2>1. Handle(s, f) = OnFrame(s, f)
    BY <1>3 DEF Handle
  <2>2. frmr \in LinkAction
    BY LinkActionsAre
  <2>3. CASE f.type \in {"I", "RR", "RNR", "REJ"}
    <3>1. OnFrame(s, f) = Ignored(s) \/ OnFrame(s, f) = Result(s, <<frmr>>)
      BY <1>3, <2>3 DEF OnFrame, OnInformation, OnRr, OnRnr, OnReject
    <3> HIDE DEF frmr
    <3> QED
      BY <2>1, <2>2, <3>1, StaysAtRest
  <2>4. CASE f.type = "UA"
    <3>1. /\ OnFrame(s, f).actions = Teardown
          /\ OnFrame(s, f).session.state = "Disconnected"
      BY <1>3, <2>4 DEF OnFrame, OnUa, Result, Consistent, Session
    <3>2. Consistent(OnFrame(s, f).session)
      BY OnFrameIsSound DEF Sound
    <3>3. Mute(Teardown)
      BY LinkActionsAre, LinkActionsAreMute
    <3> QED
      BY <2>1, <3>1, <3>2, <3>3 DEF Rests
  <2>5. CASE f.type \in {"DISC", "DM", "FRMR"}
    BY <2>1, <2>5, EndingRests
  <2> QED
    BY <1>1, <2>3, <2>4, <2>5
<1> QED
  BY <1>2, <1>3

\* What a connected session makes of a frame of its peer.
LEMMA HearingGoesOn ==
  ASSUME NEW s, NEW n, Holds(s, n), NEW f \in Frame, f.type # "SABM",
         NEW e, Numbered(f) => e \in AckedOf(s, n)..SentOf(s, n) /\ f.nr = (FirstSeq + e) % 8
  PROVE  LET r == Handle(s, f)
             a == IF Numbered(f) THEN e ELSE AckedOf(s, n)
         IN  \/ Rests(r) /\ ~Numbered(f)
             \/ GoesOn(s, r, n, n, a, s.vr) /\ NoData(r.actions)
             \/ /\ f.type = "I" /\ f.ns = s.vr
                /\ GoesOn(s, r, n, n, a, SeqAdd(s.vr, 1))
                /\ Payload(r.actions) = f.info
<1>1. Consistent(s) /\ s.state = "Connected"
  BY DEF Holds
<1>2. Handle(s, f) = OnFrame(s, f)
  BY <1>1 DEF Handle
<1>3. f.type \in {"I", "RR", "RNR", "REJ", "DISC", "UA", "DM", "FRMR"}
  BY DEF Frame, FrameCarrying
<1>4. CASE f.type = "I"
  <2>1. Numbered(f) /\ f.info \in Seq(Byte)
    BY <1>4 DEF Numbered, Frame, FrameCarrying
  <2>2. OnFrame(s, f) = OnInformation(s, f)
    BY <1>4 DEF OnFrame
  <2> QED
    BY <1>2, <1>4, <2>1, <2>2, InformationGoesOn
<1>5. CASE f.type \in {"RR", "RNR", "REJ"}
  <2>1. Numbered(f)
    BY <1>5 DEF Numbered
  <2>2. OnFrame(s, f) \in {OnRr(s, f), OnRnr(s, f), OnReject(s, f)}
    BY <1>5 DEF OnFrame
  <2> QED
    BY <1>2, <2>1, <2>2, SupervisoryGoesOn
<1>6. CASE f.type = "UA"
  <2>1. ~Numbered(f)
    BY <1>6 DEF Numbered
  <2>2. OnFrame(s, f) = Ignored(s)
    BY <1>1, <1>6 DEF OnFrame, OnUa
  <2> QED
    BY <1>2, <2>1, <2>2, IgnoredGoesOn
<1>7. CASE f.type \in {"DISC", "DM", "FRMR"}
  <2>1. ~Numbered(f)
    BY <1>7 DEF Numbered
  <2> QED
    BY <1>1, <1>2, <1>7, <2>1, EndingRests
<1> QED
  BY <1>3, <1>4, <1>5, <1>6, <1>7

\* T1: the window is sent again, or the link is given up.
LEMMA ExpiryGoesOn ==
  ASSUME NEW s, Consistent(s)
  PROVE  LET r == T1Expires(s)
         IN  /\ s.state \in {"Disconnecting", "Disconnected"} => Rests(r)
             /\ \A n : Holds(s, n) =>
                  \/ Rests(r)
                  \/ GoesOn(s, r, n, n, AckedOf(s, n), s.vr) /\ NoData(r.actions)
<1> DEFINE t == [s EXCEPT !.retry_count = s.retry_count + 1]
           r == T1Expires(s)
           disc == Transmit(UFrame("DISC", TRUE))
           again == RetransmitOutstanding(t, TRUE)
<1>1. s \in Session /\ TimerConsistent(s) /\ QueuesOnlyWhileConnected(s)
  BY DEF Consistent
<1>2. Consistent(r.session)
  BY T1ExpiresIsSound DEF Sound
<1>3. /\ t \in Session /\ t.state = s.state /\ t.vs = s.vs /\ t.vr = s.vr
      /\ t.outstanding = s.outstanding /\ t.backlog = s.backlog
      /\ t.retry_count = s.retry_count + 1
  BY <1>1 DEF Session
<1>4. /\ s.t1 => s.state \in {"Connecting", "Disconnecting"} \/ s.outstanding # <<>>
      /\ s.state # "Connected" => s.outstanding = <<>>
  BY <1>1 DEF TimerConsistent, QueuesOnlyWhileConnected
<1>5. \/ r = Ignored(s) /\ ~s.t1
      \/ s.t1 /\ r = GiveUp(t)
      \/ s.t1 /\ s.state = "Disconnecting" /\ r = Result(t, <<disc>>)
      \/ s.t1 /\ s.state = "Connected" /\ r = Result(t, again)
      \/ s.state = "Connecting"
  <2>1. CASE ~s.t1
    BY <2>1 DEF T1Expires
  <2>2. CASE s.t1 /\ t.retry_count > N2
    BY <2>2 DEF T1Expires
  <2>3. CASE s.t1 /\ ~(t.retry_count > N2) /\ s.state = "Disconnecting"
    BY <2>3 DEF T1Expires, disc
  <2>4. CASE s.t1 /\ ~(t.retry_count > N2) /\ s.state = "Connected"
    BY <1>4, <2>4 DEF T1Expires, again
  <2>5. s.state \in {"Disconnecting", "Connected", "Connecting", "Disconnected"}
    BY <1>1 DEF Session, ConnState
  <2> QED
    BY <1>4, <2>1, <2>2, <2>3, <2>4, <2>5
<1> HIDE DEF r, t
<1>6. disc \in LinkAction
  BY LinkActionsAre
<1> HIDE DEF disc, again
<1>7. ASSUME r = GiveUp(t) PROVE Rests(r)
  <2>1. GiveUp(t).session.state = "Disconnected" /\ Mute(GiveUp(t).actions)
    <3> DEFINE rest == IF t.state = "Disconnected" THEN <<>> ELSE Teardown
    <3>1. GiveUp(t).actions = <<Monitor>> \o rest
      BY DEF GiveUp, Result
    <3>2. rest \in Seq(LinkAction) /\ Monitor \in LinkAction
      BY EmptySeq, LinkActionsAre
    <3> HIDE DEF rest
    <3>3. <<Monitor>> \in Seq(LinkAction)
      BY <3>2
    <3>4. <<Monitor>> \o rest \in Seq(LinkAction)
      BY <3>2, <3>3, ConcatProperties
    <3> QED
      BY <1>3, <3>1, <3>4, EndingFrames, LinkActionsAreMute
  <2> QED
    BY <1>2, <1>7, <2>1 DEF Rests
<1>8. ASSUME s.state \in {"Disconnecting", "Disconnected"} PROVE Rests(r)
  <2>1. CASE r = Ignored(s)
    BY <1>6, <1>8, <2>1, StaysAtRest
  <2>2. CASE r = Result(t, <<disc>>)
    <3>1. r.session = t /\ r.actions = <<disc>>
      BY <2>2 DEF Result
    <3>2. <<disc>> \in Seq(LinkAction)
      BY <1>6
    <3> QED
      BY <1>2, <1>3, <1>8, <3>1, <3>2, LinkActionsAreMute DEF Rests
  <2> QED
    BY <1>5, <1>7, <1>8, <2>1, <2>2
<1>9. ASSUME NEW n, Holds(s, n)
      PROVE  \/ Rests(r)
             \/ GoesOn(s, r, n, n, AckedOf(s, n), s.vr) /\ NoData(r.actions)
  <2>1. s.state = "Connected"
    BY <1>9 DEF Holds
  <2>2. CASE r = Ignored(s)
    BY <1>9, <2>2, IgnoredGoesOn
  <2>3. CASE r = Result(t, again)
    <3>1. r.session = t /\ r.actions = again
      BY <2>3 DEF Result
    <3>2. Utters(again, t.outstanding, s.vr, s.vr) /\ NoData(again)
      BY <1>3, RetransmitUtters DEF again
    <3>3. Consistent(t)
      BY <1>2, <3>1
    <3>4. /\ Holds(t, n) /\ AckedOf(t, n) = AckedOf(s, n)
          /\ SentOf(s, n) <= SentOf(t, n)
      BY <1>3, <1>9, <2>1, <3>3, SameHolds
    <3> QED
      BY <1>3, <3>1, <3>2, <3>4 DEF GoesOn
  <2> QED
    BY <1>5, <1>7, <2>1, <2>2, <2>3
<1> QED
  BY <1>8, <1>9 DEF r

-----------------------------------------------------------------------------
(* The frames under way from one side to the other.                        *)

\* What there is to know of a station: how many bytes it accepted, whether it
\* is connected, how many it sent and knows acknowledged, how many it was given.
SideOf(s, n, got) ==
  [n |-> n, on |-> s.state = "Connected", sent |-> SentOf(s, n),
   acked |-> AckedOf(s, n), got |-> got]

\* The byte that an I frame carries, and the one that N(R) = nr acknowledges to
\* a station that knows the bytes up to a acknowledged.
Carried(f)   == f.info[1]
Meant(nr, a) == a + ((nr - FirstSeq - a) % 8)

\* The receiver R was given no byte that P did not send, P dropped none that R
\* was not given, and no more than a window lies between.
SidesFit(P, R) ==
  /\ P.n \in Nat /\ P.got \in Nat /\ R.got <= P.n
  /\ P.on => /\ P.acked \in Nat /\ P.sent \in P.acked..(P.acked + 7)
             /\ P.sent <= P.n /\ P.acked <= R.got /\ R.got <= P.sent

\* A frame from P to R: an I frame carries a byte P sent, close to the last one
\* that R was given; what a frame acknowledges, P was given.
FrameFits(f, P, R) ==
  /\ f.type # "SABM"
  /\ f.type = "I" =>
       /\ f.info = <<Carried(f)>> /\ Carried(f) \in 1..P.n
       /\ f.ns = (FirstSeq + Carried(f) - 1) % 8
       /\ R.got - 6 <= Carried(f) /\ Carried(f) <= R.got + 7
       /\ P.on => Carried(f) <= P.sent
  /\ Numbered(f) /\ R.on => Meant(f.nr, R.acked) \in R.acked..P.got

\* A frame f ahead of a frame g to R: resends go back less than a window, and
\* acknowledgements never go back.
OrderFits(f, g, R) ==
  /\ f.type = "I" /\ g.type = "I" => Carried(f) <= Carried(g) + 6
  /\ Numbered(f) /\ Numbered(g) /\ R.on => Meant(f.nr, R.acked) <= Meant(g.nr, R.acked)

\* The frames under way from P to R.
Traffic(queue, P, R) ==
  /\ queue \in Seq(Copy)
  /\ \A x \in 1..Len(queue) : FrameFits(queue[x].frame, P, R)
  /\ \A x, y \in 1..Len(queue) :
       x < y => OrderFits(queue[x].frame, queue[y].frame, R)

\* The number of a byte among eight is that byte's.
LEMMA MeantIs ==
  ASSUME NEW a \in Nat
  PROVE  /\ \A e \in a..(a + 7) : Meant((FirstSeq + e) % 8, a) = e
         /\ \A nr \in 0..7 : /\ Meant(nr, a) \in a..(a + 7)
                             /\ (FirstSeq + Meant(nr, a)) % 8 = nr
         /\ \A nr \in 0..7 : \A b \in a..Meant(nr, a) : Meant(nr, b) = Meant(nr, a)
<1>1. FirstSeq \in 0..7
  BY ArqLinkAssumption DEF SeqNum
<1>2. ASSUME NEW b \in Nat, NEW e \in b..(b + 7)
      PROVE  Meant((FirstSeq + e) % 8, b) = e
  BY <1>1 DEF Meant
<1>3. ASSUME NEW nr \in 0..7
      PROVE  Meant(nr, a) \in a..(a + 7) /\ (FirstSeq + Meant(nr, a)) % 8 = nr
  BY <1>1 DEF Meant
<1>4. ASSUME NEW nr \in 0..7, NEW b \in a..Meant(nr, a)
      PROVE  Meant(nr, b) = Meant(nr, a)
  <2> DEFINE e == Meant(nr, a)
  <2>1. e \in a..(a + 7) /\ (FirstSeq + e) % 8 = nr
    BY <1>3
  <2> HIDE DEF e
  <2>2. b \in Nat /\ e \in b..(b + 7)
    BY <1>4, <2>1 DEF e
  <2> QED
    BY <1>2, <2>1, <2>2 DEF e
<1> QED
  BY <1>2, <1>3, <1>4

\* The number of a frame.
LEMMA FrameNumber ==
  ASSUME NEW f \in Frame, Numbered(f)
  PROVE  f.nr \in 0..7
BY DEF Frame, FrameCarrying, Numbered, SeqNum

\* A frame that P2 sends now acknowledges what was given up to got, and carries
\* one of the bytes of the window.
NewFrame(f, P2, got) ==
  /\ f.type # "SABM"
  /\ f.type = "I" =>
       /\ f.info = <<Carried(f)>> /\ Carried(f) \in (P2.acked + 1)..P2.sent
       /\ f.ns = (FirstSeq + Carried(f) - 1) % 8
  /\ Numbered(f) => f.nr = (FirstSeq + got) % 8

\* It fits, and is understood as it was meant.
LEMMA NewFrameFits ==
  ASSUME NEW P, NEW P2, NEW R, SidesFit(P2, R), SidesFit(R, P), SidesFit(R, P2),
         P2.on, NEW f, NEW got \in {P.got, P2.got}, NewFrame(f, P2, got), P.got <= P2.got,
         P.got \in Nat
  PROVE  /\ FrameFits(f, P2, R)
         /\ Numbered(f) /\ R.on => Meant(f.nr, R.acked) = got
<1>1. /\ P2.n \in Nat /\ P2.got \in Nat /\ R.got <= P2.n /\ P2.acked \in Nat
      /\ P2.sent \in P2.acked..(P2.acked + 7) /\ P2.sent <= P2.n
      /\ P2.acked <= R.got /\ R.got <= P2.sent /\ R.got \in Nat
  BY DEF SidesFit
<1>2. ASSUME f.type = "I"
      PROVE  /\ f.info = <<Carried(f)>> /\ Carried(f) \in 1..P2.n
             /\ f.ns = (FirstSeq + Carried(f) - 1) % 8
             /\ R.got - 6 <= Carried(f) /\ Carried(f) <= R.got + 7
             /\ Carried(f) <= P2.sent
  BY <1>1, <1>2 DEF NewFrame
<1>3. ASSUME Numbered(f), R.on
      PROVE  Meant(f.nr, R.acked) = got /\ got \in R.acked..P2.got
  <2>1. /\ R.acked \in Nat /\ R.sent \in R.acked..(R.acked + 7)
        /\ R.acked <= P.got /\ P.got <= R.sent /\ R.acked <= P2.got /\ P2.got <= R.sent
    BY <1>3 DEF SidesFit
  <2>2. got \in R.acked..(R.acked + 7) /\ got \in R.acked..P2.got
    BY <1>1, <2>1
  <2>3. f.nr = (FirstSeq + got) % 8
    BY <1>3 DEF NewFrame
  <2> QED
    BY <2>1, <2>2, <2>3, MeantIs
<1>4. f.type # "SABM"
  BY DEF NewFrame
<1> QED
  BY <1>2, <1>3, <1>4 DEF FrameFits

\* Behind what is under way, and behind each other, new frames keep the order.
LEMMA NewFrameIsInOrder ==
  ASSUME NEW P, NEW P2, NEW R, SidesFit(P, R), SidesFit(P2, R),
         SidesFit(R, P), SidesFit(R, P2),
         P.on, P2.on, P.sent <= P2.sent, P.got <= P2.got,
         NEW g, NEW got \in {P.got, P2.got}, NewFrame(g, P2, got), NEW f
  PROVE  /\ FrameFits(f, P, R) => OrderFits(f, g, R)
         /\ NewFrame(f, P2, P.got) => OrderFits(f, g, R)
<1>1. /\ P.got \in Nat /\ P2.got \in Nat /\ P2.acked \in Nat /\ R.got \in Nat
      /\ P2.sent \in P2.acked..(P2.acked + 7) /\ P.n \in Nat /\ P.sent \in Nat
  BY DEF SidesFit
<1>2. Numbered(g) /\ R.on => Meant(g.nr, R.acked) = got
  BY <1>1, NewFrameFits
<1>3. g.type = "I" => Carried(g) \in (P2.acked + 1)..P2.sent
  BY DEF NewFrame
<1>4. ASSUME FrameFits(f, P, R) PROVE OrderFits(f, g, R)
  <2>1. f.type = "I" => Carried(f) \in 1..P.n /\ Carried(f) <= P.sent
    BY <1>4 DEF FrameFits
  <2>2. f.type = "I" /\ g.type = "I" => Carried(f) <= Carried(g) + 6
    BY <1>1, <1>3, <2>1
  <2>3. Numbered(f) /\ R.on => Meant(f.nr, R.acked) \in R.acked..P.got
    BY <1>4 DEF FrameFits
  <2>4. ASSUME Numbered(f), Numbered(g), R.on
        PROVE  Meant(f.nr, R.acked) <= Meant(g.nr, R.acked)
    <3>1. Meant(f.nr, R.acked) \in R.acked..P.got /\ Meant(g.nr, R.acked) = got
      BY <1>2, <2>3, <2>4
    <3>3. R.acked \in Nat
      BY <2>4 DEF SidesFit
    <3>2. got \in Nat /\ P.got <= got
      BY <1>1
    <3> QED
      BY <1>1, <3>1, <3>2, <3>3
  <2> QED
    BY <2>2, <2>4 DEF OrderFits
<1>5. ASSUME NewFrame(f, P2, P.got) PROVE OrderFits(f, g, R)
  <2>1. f.type = "I" => Carried(f) \in (P2.acked + 1)..P2.sent
    BY <1>5 DEF NewFrame
  <2>2. f.type = "I" /\ g.type = "I" => Carried(f) <= Carried(g) + 6
    BY <1>1, <1>3, <2>1
  <2>3. Numbered(f) /\ R.on => Meant(f.nr, R.acked) = P.got
    BY <1>1, <1>5, NewFrameFits
  <2>4. P.got <= got
    BY <1>1
  <2>5. Numbered(f) /\ Numbered(g) /\ R.on => Meant(f.nr, R.acked) <= Meant(g.nr, R.acked)
    BY <1>2, <2>3, <2>4
  <2> QED
    BY <2>2, <2>5 DEF OrderFits
<1> QED
  BY <1>4, <1>5

\* What is under way fits all the more when its sender moves on.
LEMMA OldFrameFits ==
  ASSUME NEW P, NEW P2, NEW R, NEW f, FrameFits(f, P, R),
         P.n \in Nat, P2.n \in Nat, P.n <= P2.n, P.got \in Nat, P2.got \in Nat,
         P.got <= P2.got, R.on => R.acked \in Nat,
         P2.on => /\ P.on /\ P.sent <= P2.sent
                  /\ P.sent \in Nat /\ P2.sent \in Nat
  PROVE  FrameFits(f, P2, R)
<1>1. ASSUME f.type = "I"
      PROVE  /\ f.info = <<Carried(f)>> /\ Carried(f) \in 1..P2.n
             /\ f.ns = (FirstSeq + Carried(f) - 1) % 8
             /\ R.got - 6 <= Carried(f) /\ Carried(f) <= R.got + 7
             /\ P2.on => Carried(f) <= P2.sent
  <2>1. /\ f.info = <<Carried(f)>> /\ Carried(f) \in 1..P.n
        /\ f.ns = (FirstSeq + Carried(f) - 1) % 8
        /\ R.got - 6 <= Carried(f) /\ Carried(f) <= R.got + 7
        /\ P.on => Carried(f) <= P.sent
    BY <1>1 DEF FrameFits
  <2>2. Carried(f) \in 1..P2.n
    BY <2>1
  <2>3. P2.on => Carried(f) <= P2.sent
    BY <2>1
  <2> QED
    BY <2>1, <2>2, <2>3
<1>2. ASSUME Numbered(f), R.on PROVE Meant(f.nr, R.acked) \in R.acked..P2.got
  BY <1>2 DEF FrameFits
<1>3. f.type # "SABM"
  BY DEF FrameFits
<1> QED
  BY <1>1, <1>2, <1>3 DEF FrameFits

\* The queue with new copies behind it, as far as it is carried, in terms of
\* its pairs: what holds of old frames, of new ones, and between them, holds.
LEMMA CarriedPairs ==
  ASSUME NEW queue \in Seq(Copy), NEW copies \in Seq(Copy), MaxAir \in Nat
  PROVE  LET all == Carry(queue, copies)
         IN  /\ all \in Seq(Copy)
             /\ \A x \in 1..Len(all) :
                  \/ x \in 1..Len(queue) /\ all[x] = queue[x]
                  \/ \E i \in 1..Len(copies) : all[x] = copies[i]
             /\ \A x, y \in 1..Len(all) : x < y =>
                  \/ /\ x \in 1..Len(queue) /\ all[x] = queue[x]
                     /\ y \in 1..Len(queue) /\ all[y] = queue[y]
                  \/ /\ x \in 1..Len(queue) /\ all[x] = queue[x]
                     /\ \E j \in 1..Len(copies) : all[y] = copies[j]
                  \/ \E i, j \in 1..Len(copies) :
                       i < j /\ all[x] = copies[i] /\ all[y] = copies[j]
<1> DEFINE all == Carry(queue, copies)
           both == queue \o copies
           m == Len(queue)
           n == Len(copies)
<1>1. m \in Nat /\ n \in Nat
  BY LenProperties
<1>2. /\ Len(both) = m + n
      /\ \A x \in 1..(m + n) : both[x] = IF x <= m THEN queue[x] ELSE copies[x - m]
  BY ConcatProperties
<1>3. /\ all \in Seq(Copy) /\ Len(all) <= Len(both)
      /\ \A x \in 1..Len(all) : all[x] = both[x]
  BY CarryIsPrefix
<1>4. Len(all) \in Nat
  BY <1>3, LenProperties
<1> HIDE DEF all, both, m, n
<1>5. \A x \in 1..Len(all) : \/ x \in 1..m /\ all[x] = queue[x]
                             \/ x - m \in 1..n /\ all[x] = copies[x - m] /\ ~(x <= m)
  BY <1>1, <1>2, <1>3, <1>4
<1>6. ASSUME NEW x \in 1..Len(all), NEW y \in 1..Len(all), x < y
      PROVE  \/ x \in 1..m /\ all[x] = queue[x] /\ y \in 1..m /\ all[y] = queue[y]
             \/ x \in 1..m /\ all[x] = queue[x] /\ \E j \in 1..n : all[y] = copies[j]
             \/ \E i, j \in 1..n : i < j /\ all[x] = copies[i] /\ all[y] = copies[j]
  <2>1. CASE x \in 1..m /\ all[x] = queue[x]
    BY <1>5, <2>1
  <2>2. CASE x - m \in 1..n /\ all[x] = copies[x - m] /\ ~(x <= m)
    <3>1. ~(y <= m) /\ x - m < y - m
      BY <1>1, <1>4, <1>6, <2>2
    <3>2. y - m \in 1..n /\ all[y] = copies[y - m]
      BY <1>5, <3>1
    <3> QED
      BY <2>2, <3>1, <3>2
  <2> QED
    BY <1>5, <2>1, <2>2
<1>7. \A x \in 1..Len(all) : \/ x \in 1..m /\ all[x] = queue[x]
                             \/ \E i \in 1..n : all[x] = copies[i]
  BY <1>5
<1> QED
  BY <1>3, <1>6, <1>7 DEF all, m, n

\* What a connected session says are new frames.
LEMMA SaidFramesAreNew ==
  ASSUME NEW t, NEW n, Holds(t, n), NEW got, NEW got2, NEW acts,
         Utters(acts, t.outstanding, (FirstSeq + got) % 8, (FirstSeq + got2) % 8)
  PROVE  LET P2 == SideOf(t, n, got2)
         IN  \A k \in 1..Len(acts) : acts[k].act = "Transmit" =>
               \/ NewFrame(acts[k].frame, P2, got)
               \/ k = Len(acts) /\ NewFrame(acts[k].frame, P2, got2)
<1> DEFINE P2 == SideOf(t, n, got2)
           a == AckedOf(t, n)
           c == SentOf(t, n)
           out == t.outstanding
<1>1. /\ a \in Nat /\ c \in a..(a + 7) /\ Len(out) = c - a
      /\ \A j \in 1..(c - a) : /\ out[j].info = <<a + j>>
                               /\ out[j].seq = (FirstSeq + a + j - 1) % 8
  BY HeldFrames
<1>2. P2.acked = a /\ P2.sent = c
  BY DEF SideOf
<1>3. FirstSeq \in 0..7
  BY ArqLinkAssumption DEF SeqNum
<1> HIDE DEF P2, a, c, out
<1>4. ASSUME NEW x, NEW u, x.act = "Transmit", Utterance(x, out, (FirstSeq + u) % 8)
      PROVE  NewFrame(x.frame, P2, u)
  <2> DEFINE f == x.frame
  <2>1. /\ f.type # "SABM"
        /\ Numbered(f) => f.nr = (FirstSeq + u) % 8
        /\ f.type = "I" => \E j \in 1..(c - a) : f.info = out[j].info /\ f.ns = out[j].seq
    BY <1>1, <1>4 DEF Utterance
  <2> HIDE DEF f
  <2>2. ASSUME f.type = "I"
        PROVE  /\ f.info = <<Carried(f)>> /\ Carried(f) \in (P2.acked + 1)..P2.sent
               /\ f.ns = (FirstSeq + Carried(f) - 1) % 8
    <3>1. PICK j \in 1..(c - a) : f.info = out[j].info /\ f.ns = out[j].seq
      BY <2>1, <2>2
    <3>2. f.info = <<a + j>> /\ f.ns = (FirstSeq + a + j - 1) % 8
      BY <1>1, <3>1
    <3>3. Carried(f) = a + j
      BY <3>2 DEF Carried
    <3>4. FirstSeq + a + j - 1 = FirstSeq + (a + j) - 1 /\ a + j \in (a + 1)..c
      BY <1>1, <1>3
    <3> QED
      BY <1>2, <3>2, <3>3, <3>4
  <2> QED
    BY <2>1, <2>2 DEF NewFrame, f
<1>5. \A k \in 1..Len(acts) :
        \/ Utterance(acts[k], out, (FirstSeq + got) % 8)
        \/ k = Len(acts) /\ Utterance(acts[k], out, (FirstSeq + got2) % 8)
  BY DEF Utters, out
<1> QED
  BY <1>4, <1>5 DEF P2

\* A connected station that goes on sends nothing amiss.
LEMMA SenderWorks ==
  ASSUME NEW P, NEW P2, NEW R, SidesFit(P, R), SidesFit(P2, R),
         SidesFit(R, P), SidesFit(R, P2), P.on, P2.on,
         P.n <= P2.n, P.sent <= P2.sent, P.got <= P2.got,
         NEW acts \in Seq(Action),
         \A k \in 1..Len(acts) : acts[k].act = "Transmit" =>
           \/ NewFrame(acts[k].frame, P2, P.got)
           \/ k = Len(acts) /\ NewFrame(acts[k].frame, P2, P2.got),
         NEW queue, Traffic(queue, P, R), MaxAir \in Nat
  PROVE  Traffic(Carry(queue, Aired(acts)), P2, R)
<1> DEFINE copies == Aired(acts)
           all == Carry(queue, copies)
           Early(f) == NewFrame(f, P2, P.got)
           New(f) == Early(f) \/ NewFrame(f, P2, P2.got)
<1>1. InActionOrder(acts, Len(acts), copies)
  BY AiredInOrder
<1>2. Len(acts) \in Nat
  BY LenProperties
<1>3. \A k \in 1..Len(acts) : acts[k].act = "Transmit" =>
        New(acts[k].frame) /\ (k # Len(acts) => Early(acts[k].frame))
  OBVIOUS
<1>4. copies \in Seq(Copy) /\ queue \in Seq(Copy)
  BY <1>1 DEF InActionOrder, Traffic
<1> HIDE DEF copies, all, Early, New
<1>5. \A i \in 1..Len(copies) : New(copies[i].frame)
  BY <1>1, <1>3 DEF InActionOrder, Sends
<1>6. ASSUME NEW i \in 1..Len(copies), NEW j \in 1..Len(copies), i < j
      PROVE  Early(copies[i].frame)
  <2>1. PICK k \in 1..Len(acts), l \in 1..Len(acts) : k < l /\ Sends(acts, k, copies[i])
    BY <1>1, <1>6 DEF InActionOrder
  <2>2. k # Len(acts)
    BY <1>2, <2>1
  <2> QED
    BY <1>3, <2>1, <2>2 DEF Sends
<1>7. /\ all \in Seq(Copy)
      /\ \A x \in 1..Len(all) :
           \/ x \in 1..Len(queue) /\ all[x] = queue[x]
           \/ \E i \in 1..Len(copies) : all[x] = copies[i]
      /\ \A x, y \in 1..Len(all) : x < y =>
           \/ /\ x \in 1..Len(queue) /\ all[x] = queue[x]
              /\ y \in 1..Len(queue) /\ all[y] = queue[y]
           \/ /\ x \in 1..Len(queue) /\ all[x] = queue[x]
              /\ \E j \in 1..Len(copies) : all[y] = copies[j]
           \/ \E i, j \in 1..Len(copies) : i < j /\ all[x] = copies[i] /\ all[y] = copies[j]
  BY <1>4, CarriedPairs DEF all
<1>8. /\ \A x \in 1..Len(queue) : FrameFits(queue[x].frame, P, R)
      /\ \A x, y \in 1..Len(queue) : x < y => OrderFits(queue[x].frame, queue[y].frame, R)
  BY DEF Traffic
<1>9. /\ P.n \in Nat /\ P2.n \in Nat /\ P.got \in Nat /\ P2.got \in Nat
      /\ P.sent \in Nat /\ P2.sent \in Nat
      /\ R.on => R.acked \in Nat
  BY DEF SidesFit
<1>10. \A f : FrameFits(f, P, R) => FrameFits(f, P2, R)
  BY <1>9, OldFrameFits
<1>11. \A f : New(f) => FrameFits(f, P2, R)
  BY <1>9, NewFrameFits DEF New, Early
<1>12. \A f, g : New(g) /\ (FrameFits(f, P, R) \/ Early(f)) => OrderFits(f, g, R)
  BY NewFrameIsInOrder DEF New, Early
<1>13. \A x \in 1..Len(all) : FrameFits(all[x].frame, P2, R)
  BY <1>5, <1>7, <1>8, <1>10, <1>11
<1>14. ASSUME NEW x \in 1..Len(all), NEW y \in 1..Len(all), x < y
       PROVE  OrderFits(all[x].frame, all[y].frame, R)
  <2>1. CASE /\ x \in 1..Len(queue) /\ all[x] = queue[x]
             /\ y \in 1..Len(queue) /\ all[y] = queue[y]
    BY <1>8, <1>14, <2>1
  <2>2. CASE /\ x \in 1..Len(queue) /\ all[x] = queue[x]
             /\ \E j \in 1..Len(copies) : all[y] = copies[j]
    BY <1>5, <1>8, <1>12, <2>2
  <2>3. CASE \E i, j \in 1..Len(copies) : i < j /\ all[x] = copies[i] /\ all[y] = copies[j]
    BY <1>5, <1>6, <1>12, <2>3
  <2> QED
    BY <1>7, <1>14, <2>1, <2>2, <2>3
<1>15. Traffic(all, P2, R)
  BY <1>7, <1>13, <1>14 DEF Traffic
<1> QED
  BY <1>15 DEF all, copies

\* Nor does one that ends its link, or is on none.
LEMMA SenderRests ==
  ASSUME NEW P, NEW P2, NEW R, ~P2.on, P2.n = P.n, P2.got = P.got,
         P.n \in Nat, P.got \in Nat, R.on => R.acked \in Nat,
         NEW acts, Mute(acts),
         NEW queue, Traffic(queue, P, R), MaxAir \in Nat
  PROVE  Traffic(Carry(queue, Aired(acts)), P2, R)
<1> DEFINE copies == Aired(acts)
           all == Carry(queue, copies)
           Silent(f) == ~Numbered(f) /\ f.type # "SABM"
<1>1. InActionOrder(acts, Len(acts), copies)
  BY AiredInOrder DEF Mute
<1>2. copies \in Seq(Copy) /\ queue \in Seq(Copy)
  BY <1>1 DEF InActionOrder, Traffic
<1> HIDE DEF copies, all
<1>3. \A i \in 1..Len(copies) : Silent(copies[i].frame)
  BY <1>1 DEF InActionOrder, Sends, Mute
<1>4. \A f : Silent(f) => /\ FrameFits(f, P2, R)
                          /\ \A g : OrderFits(g, f, R)
  BY DEF FrameFits, OrderFits, Numbered
<1>5. \A f : FrameFits(f, P, R) => FrameFits(f, P2, R)
  BY OldFrameFits
<1> HIDE DEF Silent
<1>6. /\ all \in Seq(Copy)
      /\ \A x \in 1..Len(all) :
           \/ x \in 1..Len(queue) /\ all[x] = queue[x]
           \/ \E i \in 1..Len(copies) : all[x] = copies[i]
      /\ \A x, y \in 1..Len(all) : x < y =>
           \/ /\ x \in 1..Len(queue) /\ all[x] = queue[x]
              /\ y \in 1..Len(queue) /\ all[y] = queue[y]
           \/ /\ x \in 1..Len(queue) /\ all[x] = queue[x]
              /\ \E j \in 1..Len(copies) : all[y] = copies[j]
           \/ \E i, j \in 1..Len(copies) : i < j /\ all[x] = copies[i] /\ all[y] = copies[j]
  BY <1>2, CarriedPairs DEF all
<1>7. /\ \A x \in 1..Len(queue) : FrameFits(queue[x].frame, P, R)
      /\ \A x, y \in 1..Len(queue) : x < y => OrderFits(queue[x].frame, queue[y].frame, R)
  BY DEF Traffic
<1>8. \A x \in 1..Len(all) : FrameFits(all[x].frame, P2, R)
  BY <1>3, <1>4, <1>5, <1>6, <1>7
<1>9. ASSUME NEW x \in 1..Len(all), NEW y \in 1..Len(all), x < y
      PROVE  OrderFits(all[x].frame, all[y].frame, R)
  BY <1>3, <1>4, <1>6, <1>7, <1>9
<1> QED
  BY <1>6, <1>8, <1>9 DEF Traffic, all, copies

\* A frame less under way.
LEMMA TailFits ==
  ASSUME NEW P, NEW R, NEW queue, Traffic(queue, P, R), queue # <<>>
  PROVE  Traffic(Tail(queue), P, R)
<1> DEFINE rest == Tail(queue)
           m == Len(queue)
<1>1. queue \in Seq(Copy) /\ m \in Nat /\ m > 0
  BY EmptySeq, LenProperties DEF Traffic
<1>2. rest \in Seq(Copy) /\ Len(rest) = m - 1 /\ \A i \in 1..(m - 1) : rest[i] = queue[i + 1]
  BY <1>1, HeadTailProperties
<1> HIDE DEF rest
<1>3. \A i \in 1..(m - 1) : i + 1 \in 1..m
  BY <1>1
<1>4. \A x, y \in 1..(m - 1) : x < y => x + 1 < y + 1
  BY <1>1
<1>5. /\ \A x \in 1..m : FrameFits(queue[x].frame, P, R)
      /\ \A x, y \in 1..m : x < y => OrderFits(queue[x].frame, queue[y].frame, R)
  BY DEF Traffic
<1> HIDE DEF m
<1> QED
  BY <1>2, <1>3, <1>4, <1>5 DEF Traffic, rest

\* The same queue, when the receiver goes off, or only sends on.
LEMMA ReceiverMoves ==
  ASSUME NEW P, NEW R, NEW R2, NEW queue, Traffic(queue, P, R),
         R2.got = R.got, R2.on => R.on /\ R2.acked = R.acked
  PROVE  Traffic(queue, P, R2)
<1>1. \A f : FrameFits(f, P, R) => FrameFits(f, P, R2)
  BY DEF FrameFits
<1>2. \A f, g : OrderFits(f, g, R) => OrderFits(f, g, R2)
  BY DEF OrderFits
<1> QED
  BY <1>1, <1>2 DEF Traffic

\* The receiver takes the oldest frame: the byte it is given, if any, is the
\* next one, and it learns what the frame acknowledges.
LEMMA ReceiverTakes ==
  ASSUME NEW P, NEW R, NEW R2, NEW queue, Traffic(queue, P, R), queue # <<>>,
         SidesFit(P, R), SidesFit(R, P), R.got \in Nat,
         R2.got = R.got \/ ( /\ Head(queue).frame.type = "I"
                             /\ Carried(Head(queue).frame) = R.got + 1
                             /\ R2.got = R.got + 1 ),
         R2.on => R.on /\ R2.acked = IF Numbered(Head(queue).frame)
                                     THEN Meant(Head(queue).frame.nr, R.acked) ELSE R.acked
  PROVE  Traffic(Tail(queue), P, R2)
<1> DEFINE rest == Tail(queue)
           m == Len(queue)
           h == Head(queue).frame
<1>1. queue \in Seq(Copy) /\ m \in Nat /\ m > 0
  BY EmptySeq, LenProperties DEF Traffic
<1>2. /\ rest \in Seq(Copy) /\ Len(rest) = m - 1 /\ \A i \in 1..(m - 1) : rest[i] = queue[i + 1]
      /\ Head(queue) = queue[1]
  BY <1>1, HeadTailProperties
<1> HIDE DEF rest
<1>3. \A i \in 1..(m - 1) : i + 1 \in 1..m /\ 1 \in 1..m /\ 1 < i + 1
  BY <1>1
<1>4. \A x, y \in 1..(m - 1) : x < y => x + 1 < y + 1
  BY <1>1
<1>5. /\ \A x \in 1..m : FrameFits(queue[x].frame, P, R) /\ queue[x].frame \in Frame
      /\ \A x, y \in 1..m : x < y => OrderFits(queue[x].frame, queue[y].frame, R)
  <2>1. \A x \in 1..m : queue[x] \in Copy
    BY <1>1, ElementOfSeq
  <2>2. \A x \in 1..m : queue[x].frame \in Frame
    BY <2>1 DEF Copy
  <2> QED
    BY <2>2 DEF Traffic
<1>6. h = queue[1].frame
  BY <1>2
<1> HIDE DEF m, h
<1>7. /\ FrameFits(h, P, R) /\ h \in Frame
      /\ \A i \in 1..(m - 1) : /\ FrameFits(rest[i].frame, P, R) /\ rest[i].frame \in Frame
                               /\ OrderFits(h, rest[i].frame, R)
      /\ \A x, y \in 1..(m - 1) : x < y => OrderFits(rest[x].frame, rest[y].frame, R)
  <2>1. 1 \in 1..m
    BY <1>1 DEF m
  <2> QED
    BY <1>2, <1>3, <1>4, <1>5, <1>6, <2>1
<1>8. R2.got \in {R.got, R.got + 1}
  BY DEF h
<1>9. R2.got = R.got + 1 => R2.got = R.got \/ (h.type = "I" /\ Carried(h) = R2.got)
  BY DEF h
<1>10. ASSUME R2.on
       PROVE  /\ R.on /\ R.acked \in Nat /\ R2.acked \in R.acked..P.got
              /\ ~Numbered(h) => R2.acked = R.acked
              /\ Numbered(h) => R2.acked = Meant(h.nr, R.acked)
              /\ P.got \in Nat /\ P.got <= R.acked + 7
  <2>1. /\ R.on
        /\ ~Numbered(h) => R2.acked = R.acked
        /\ Numbered(h) => R2.acked = Meant(h.nr, R.acked)
    BY <1>10 DEF h
  <2>2. R.acked \in Nat /\ R.acked <= P.got /\ P.got \in Nat /\ P.got <= R.acked + 7
    BY <2>1 DEF SidesFit
  <2>3. Numbered(h) => Meant(h.nr, R.acked) \in R.acked..P.got
    BY <1>7, <2>1 DEF FrameFits
  <2> QED
    BY <2>1, <2>2, <2>3
<1>11. ASSUME NEW g \in Frame, FrameFits(g, P, R), OrderFits(h, g, R), Numbered(g), R2.on
       PROVE  /\ Meant(g.nr, R2.acked) = Meant(g.nr, R.acked)
              /\ Meant(g.nr, R2.acked) \in R2.acked..P.got
  <2>1. Meant(g.nr, R.acked) \in R.acked..P.got /\ g.nr \in 0..7
    BY <1>10, <1>11, FrameNumber DEF FrameFits
  <2>2. R2.acked \in R.acked..Meant(g.nr, R.acked)
    BY <1>10, <1>11, <2>1 DEF OrderFits
  <2>3. \A b \in R.acked..Meant(g.nr, R.acked) : Meant(g.nr, b) = Meant(g.nr, R.acked)
    BY <1>10, <1>11, <2>1, MeantIs
  <2>4. Meant(g.nr, R2.acked) = Meant(g.nr, R.acked)
    BY <2>2, <2>3
  <2> QED
    BY <1>10, <1>11, <2>1, <2>2, <2>4
<1>12. ASSUME NEW g \in Frame, FrameFits(g, P, R), OrderFits(h, g, R)
       PROVE  FrameFits(g, P, R2)
  <2>1. ASSUME g.type = "I"
        PROVE  /\ g.info = <<Carried(g)>> /\ Carried(g) \in 1..P.n
               /\ g.ns = (FirstSeq + Carried(g) - 1) % 8
               /\ R2.got - 6 <= Carried(g) /\ Carried(g) <= R2.got + 7
               /\ P.on => Carried(g) <= P.sent
    <3>1. /\ g.info = <<Carried(g)>> /\ Carried(g) \in 1..P.n
          /\ g.ns = (FirstSeq + Carried(g) - 1) % 8
          /\ R.got - 6 <= Carried(g) /\ Carried(g) <= R.got + 7
          /\ P.on => Carried(g) <= P.sent
      BY <1>12, <2>1 DEF FrameFits
    <3>2. h.type = "I" => Carried(h) <= Carried(g) + 6
      BY <1>12, <2>1 DEF OrderFits
    <3>3. P.n \in Nat
      BY DEF SidesFit
    <3>4. R2.got - 6 <= Carried(g) /\ Carried(g) <= R2.got + 7
      BY <1>8, <1>9, <3>1, <3>2, <3>3
    <3> QED
      BY <3>1, <3>4
  <2>2. g.type # "SABM"
    BY <1>12 DEF FrameFits
  <2> QED
    BY <1>11, <1>12, <2>1, <2>2 DEF FrameFits
<1>13. ASSUME NEW f \in Frame, NEW g \in Frame, FrameFits(f, P, R), FrameFits(g, P, R),
              OrderFits(h, f, R), OrderFits(h, g, R), OrderFits(f, g, R)
       PROVE  OrderFits(f, g, R2)
  <2>1. R2.on => R.on
    BY <1>10
  <2> QED
    BY <1>11, <1>13, <2>1 DEF OrderFits
<1>14. /\ \A x \in 1..(m - 1) : FrameFits(rest[x].frame, P, R2)
       /\ \A x, y \in 1..(m - 1) : x < y => OrderFits(rest[x].frame, rest[y].frame, R2)
  BY <1>7, <1>12, <1>13
<1> QED
  BY <1>2, <1>14 DEF Traffic, rest

\* An I frame that is in sequence carries the next byte.
LEMMA InSequenceIsNext ==
  ASSUME NEW P, NEW R, NEW f, FrameFits(f, P, R), f.type = "I", R.got \in Nat,
         P.n \in Nat, f.ns = (FirstSeq + R.got) % 8
  PROVE  Carried(f) = R.got + 1
<1>1. /\ Carried(f) \in 1..P.n /\ R.got - 6 <= Carried(f) /\ Carried(f) <= R.got + 7
      /\ f.ns = (FirstSeq + Carried(f) - 1) % 8
  BY DEF FrameFits
<1>2. FirstSeq \in 0..7
  BY ArqLinkAssumption DEF SeqNum
<1> DEFINE x == FirstSeq + Carried(f) - 1
           y == FirstSeq + R.got
<1>3. x \in Nat /\ y \in Nat /\ x - y \in (-7)..6 /\ x % 8 = y % 8
  BY <1>1, <1>2
<1>4. x = y
  BY <1>3, EightDiffer
<1> QED
  BY <1>1, <1>2, <1>4

-----------------------------------------------------------------------------
(* The two stations: the inductive invariant of an established link.       *)

\* The bytes up to g.
UpTo(g) == [i \in 1..g |-> i]

Side(p) == SideOf(sess[p], offered[p], Len(delivered[p]))

\* A session that accepted n bytes, and whose user was given got.
StationHolds(s, n, got) ==
  /\ Consistent(s) /\ s.state \in {"Connected", "Disconnecting", "Disconnected"}
  /\ n \in 0..MaxBytes /\ got \in Nat
  /\ s.state = "Connected" => Holds(s, n) /\ s.vr = (FirstSeq + got) % 8

LinkTypes ==
  /\ sess \in [Station -> Session]
  /\ air \in [Station -> Seq(Copy)]
  /\ opens = [p \in Station |-> 0]
  /\ offered \in [Station -> Nat]
  /\ starts \in [Station -> SUBSET Nat]
  /\ acked \in [Station -> SUBSET Nat]
  /\ delivered \in [Station -> Seq(Nat)]

\* The inductive invariant.
LinkInv ==
  /\ LinkTypes
  /\ \A p \in Station :
       /\ StationHolds(sess[p], offered[p], Len(delivered[p]))
       /\ delivered[p] = UpTo(Len(delivered[p]))
       /\ SidesFit(Side(p), Side(Peer(p)))
       /\ Traffic(air[Peer(p)], Side(p), Side(Peer(p)))
       /\ acked[p] \subseteq 1..Len(delivered[Peer(p)])

\* Each of the two stations is the other one's peer.
LEMMA Peers ==
  ASSUME NEW p \in Station
  PROVE  /\ Peer(p) \in Station /\ Peer(p) # p /\ Peer(Peer(p)) = p
         /\ Station = {p, Peer(p)}
<1>1. PICK x, y \in Station : x # y /\ Station = {x, y}
  BY ArqLinkAssumption
<1>2. \E z \in Station : z # p
  BY <1>1
<1>3. Peer(p) \in Station /\ Peer(p) # p
  BY <1>2 DEF Peer
<1>4. \E z \in Station : z # Peer(p)
  BY <1>3
<1>5. Peer(Peer(p)) \in Station /\ Peer(Peer(p)) # Peer(p)
  BY <1>4 DEF Peer
<1> QED
  BY <1>1, <1>3, <1>5

\* What a step of one station has to show.
LEMMA Assembles ==
  ASSUME LinkInv, LinkTypes', NEW p \in Station, NEW q, q = Peer(p),
         sess'[q] = sess[q], offered'[q] = offered[q], delivered'[q] = delivered[q],
         acked'[q] = acked[q],
         StationHolds(sess'[p], offered'[p], Len(delivered'[p])),
         delivered'[p] = UpTo(Len(delivered'[p])), Len(delivered[p]) <= Len(delivered'[p]),
         SidesFit(Side(p)', Side(q)), SidesFit(Side(q), Side(p)'),
         Traffic(air'[q], Side(p)', Side(q)), Traffic(air'[p], Side(q), Side(p)'),
         acked'[p] \subseteq 1..Len(delivered[q])
  PROVE  LinkInv'
<1>1. q \in Station /\ q # p /\ Peer(q) = p /\ Station = {p, q}
  BY Peers
<1>2. Side(q)' = Side(q)
  BY DEF Side
<1>3. acked'[q] \subseteq 1..Len(delivered'[p])
  <2>1. acked[q] \subseteq 1..Len(delivered[p])
    BY <1>1 DEF LinkInv
  <2>2. Len(delivered[p]) \in Nat /\ Len(delivered'[p]) \in Nat
    BY LenProperties DEF LinkInv, LinkTypes
  <2> QED
    BY <2>1, <2>2
<1>4. /\ StationHolds(sess'[q], offered'[q], Len(delivered'[q]))
      /\ delivered'[q] = UpTo(Len(delivered'[q]))
  BY <1>1 DEF LinkInv
<1>5. Side(Peer(p))' = Side(q) /\ Side(Peer(q))' = Side(p)'
  BY <1>1, <1>2
<1>6. ASSUME NEW x \in Station
      PROVE  /\ StationHolds(sess'[x], offered'[x], Len(delivered'[x]))
             /\ delivered'[x] = UpTo(Len(delivered'[x]))
             /\ SidesFit(Side(x)', Side(Peer(x))')
             /\ Traffic(air'[Peer(x)], Side(x)', Side(Peer(x))')
             /\ acked'[x] \subseteq 1..Len(delivered'[Peer(x)])
  <2>1. CASE x = p
    BY <1>2, <2>1
  <2>2. CASE x = q
    BY <1>1, <1>2, <1>3, <1>4, <2>2
  <2> QED
    BY <1>1, <2>1, <2>2
<1> QED
  BY <1>6 DEF LinkInv

\* What the invariant says of a station and its peer.
LEMMA StationFacts ==
  ASSUME LinkInv, NEW p \in Station, NEW q, q = Peer(p)
  PROVE  /\ StationHolds(sess[p], offered[p], Len(delivered[p]))
         /\ SidesFit(Side(p), Side(q)) /\ SidesFit(Side(q), Side(p))
         /\ Traffic(air[q], Side(p), Side(q)) /\ Traffic(air[p], Side(q), Side(p))
         /\ Side(p).n = offered[p] /\ Side(p).got = Len(delivered[p])
         /\ Side(p).on <=> sess[p].state = "Connected"
         /\ Side(p).sent = SentOf(sess[p], offered[p])
         /\ Side(p).acked = AckedOf(sess[p], offered[p])
<1>1. q \in Station /\ Peer(q) = p
  BY Peers
<1> QED
  BY <1>1 DEF LinkInv, Side, SideOf

\* A session that is dropped is as good as a new one.
LEMMA KeptIs ==
  ASSUME NEW s, Consistent(s)
  PROVE  /\ Consistent(Kept(s)) /\ Kept(s).state = s.state
         /\ s.state = "Connected" => Kept(s) = s
BY NewSessionIsConsistent, NewSessionFields DEF Kept

\* With r, n2 bytes accepted and got2 given, p's side fits the other one's.
Moves(p, r, n2, got2) ==
  LET P2 == SideOf(Kept(r.session), n2, got2)
      Q  == Side(Peer(p))
  IN  /\ StationHolds(Kept(r.session), n2, got2)
      /\ SidesFit(P2, Q) /\ SidesFit(Q, P2)
      /\ Traffic(Carry(air[Peer(p)], Aired(r.actions)), P2, Q)

\* The side of a station that goes on, and of one at rest.
LEMMA SideAfter ==
  ASSUME NEW r, NEW n2, NEW got2
  PROVE  LET P2 == SideOf(Kept(r.session), n2, got2)
         IN  /\ P2.got = got2
             /\ Rests(r) => ~P2.on
             /\ Holds(r.session, n2) => P2.on /\ P2.acked = AckedOf(r.session, n2)
<1> DEFINE t == Kept(r.session)
           P2 == SideOf(t, n2, got2)
<1>1. /\ P2.got = got2 /\ P2.acked = AckedOf(t, n2)
      /\ t.state = "Connected" => P2.on
      /\ t.state # "Connected" => ~P2.on
  BY DEF SideOf
<1>2. ASSUME Rests(r) PROVE t.state # "Connected"
  BY <1>2, KeptIs DEF Rests
<1>3. ASSUME Holds(r.session, n2) PROVE t.state = "Connected" /\ t = r.session
  <2>1. Consistent(r.session) /\ r.session.state = "Connected"
    BY <1>3 DEF Holds
  <2> QED
    BY <2>1, KeptIs
<1> HIDE DEF t, P2
<1>4. Holds(r.session, n2) => P2.on /\ P2.acked = AckedOf(r.session, n2)
  BY <1>1, <1>3
<1>5. Rests(r) => ~P2.on
  BY <1>1, <1>2
<1> QED
  BY <1>1, <1>4, <1>5 DEF t, P2

\* A station that goes on.
LEMMA GoesOnFits ==
  ASSUME NEW p \in Station, LinkInv, NEW q, q = Peer(p), MaxAir \in Nat,
         NEW r, NEW n2, NEW e, NEW got2, sess[p].state = "Connected",
         GoesOn(sess[p], r, offered[p], n2, e, (FirstSeq + got2) % 8),
         n2 \in {offered[p], offered[p] + 1},
         got2 \in {Side(p).got, Side(p).got + 1},
         e \in Side(p).acked..Side(q).got, got2 <= Side(q).n,
         Side(q).on => got2 <= Side(q).sent
  PROVE  Moves(p, r, n2, got2)
<1> DEFINE s == sess[p]
           n == offered[p]
           t == r.session
           P == Side(p)
           Q == Side(q)
           P2 == SideOf(t, n2, got2)
<1>1. /\ StationHolds(s, n, P.got) /\ SidesFit(P, Q) /\ SidesFit(Q, P)
      /\ Traffic(air[q], P, Q) /\ P.n = n /\ P.on
      /\ P.sent = SentOf(s, n) /\ P.acked = AckedOf(s, n)
  BY StationFacts
<1>2. /\ Holds(t, n2) /\ AckedOf(t, n2) = e /\ SentOf(s, n) <= SentOf(t, n2)
      /\ t.vr = (FirstSeq + got2) % 8
      /\ Utters(r.actions, t.outstanding, s.vr, t.vr)
  BY DEF GoesOn
<1>3. s.vr = (FirstSeq + P.got) % 8
  BY <1>1 DEF StationHolds
<1>4. Consistent(t) /\ t.state = "Connected"
  BY <1>2 DEF Holds
<1>5. Kept(t) = t
  BY <1>4, KeptIs
<1>6. P2.n = n2 /\ P2.on /\ P2.got = got2 /\ P2.acked = e /\ P2.sent = SentOf(t, n2)
  BY <1>2, <1>4 DEF SideOf
<1>7. /\ n2 \in 0..MaxBytes /\ e \in Nat /\ SentOf(t, n2) \in e..(e + 7)
      /\ SentOf(t, n2) <= n2 /\ MaxBytes \in Nat
  BY <1>2, HeldFrames, BytesToIs
<1> HIDE DEF P, Q, P2, s, n, t
<1>8. /\ P.n \in Nat /\ P.got \in Nat /\ Q.n \in Nat /\ Q.got \in Nat
      /\ Q.got <= P.n /\ P.got <= Q.n
      /\ P.acked \in Nat /\ P.sent \in P.acked..(P.acked + 7) /\ P.sent <= P.n
      /\ P.acked <= Q.got /\ Q.got <= P.sent
      /\ Q.on => /\ Q.acked \in Nat /\ Q.sent \in Q.acked..(Q.acked + 7) /\ Q.sent <= Q.n
                 /\ Q.acked <= P.got /\ P.got <= Q.sent
  BY <1>1 DEF SidesFit
<1>9. got2 \in Nat /\ P.got <= got2 /\ n <= n2 /\ n2 \in Nat
  BY <1>1, <1>7, <1>8 DEF P, n
<1>10. StationHolds(t, n2, got2)
  BY <1>2, <1>4, <1>7, <1>9 DEF StationHolds
<1>11. P.sent <= P2.sent /\ P2.sent \in e..(e + 7) /\ P2.sent <= n2
  BY <1>1, <1>2, <1>6, <1>7
<1>12. e \in P.acked..Q.got /\ (Q.on => got2 <= Q.sent)
  BY DEF P, Q
<1>13. SidesFit(P2, Q)
  BY <1>1, <1>6, <1>7, <1>8, <1>9, <1>11, <1>12 DEF SidesFit
<1>14. got2 <= Q.n
  BY DEF Q
<1>15. SidesFit(Q, P2)
  BY <1>6, <1>8, <1>9, <1>12, <1>14 DEF SidesFit
<1>16. r.actions \in Seq(Action)
  BY <1>2 DEF Utters
<1>17. \A k \in 1..Len(r.actions) : r.actions[k].act = "Transmit" =>
         \/ NewFrame(r.actions[k].frame, P2, P.got)
         \/ k = Len(r.actions) /\ NewFrame(r.actions[k].frame, P2, got2)
  BY <1>2, <1>3, SaidFramesAreNew DEF P2
<1>18. P.n <= P2.n /\ P.got <= P2.got /\ P.on /\ P2.on
  BY <1>1, <1>6, <1>9
<1>19. Traffic(Carry(air[q], Aired(r.actions)), P2, Q)
  BY <1>1, <1>6, <1>11, <1>13, <1>15, <1>16, <1>17, <1>18, SenderWorks
<1> QED
  BY <1>5, <1>10, <1>13, <1>15, <1>19 DEF P2, Q, t, Moves

\* A station that ends its link, or is on none.
LEMMA RestsFits ==
  ASSUME NEW p \in Station, LinkInv, NEW q, q = Peer(p), MaxAir \in Nat, NEW r, Rests(r)
  PROVE  Moves(p, r, offered[p], Side(p).got)
<1> DEFINE n == offered[p]
           t == Kept(r.session)
           P == Side(p)
           Q == Side(q)
           P2 == SideOf(t, n, P.got)
<1>1. /\ StationHolds(sess[p], n, P.got) /\ SidesFit(P, Q) /\ SidesFit(Q, P)
      /\ Traffic(air[q], P, Q) /\ P.n = n
  BY StationFacts
<1>2. Consistent(t) /\ t.state \in {"Disconnecting", "Disconnected"}
  BY KeptIs DEF Rests
<1>3. P2.n = n /\ ~P2.on /\ P2.got = P.got
  BY <1>2 DEF SideOf
<1> HIDE DEF P, Q, P2, n, t
<1>4. StationHolds(t, n, P.got)
  BY <1>1, <1>2 DEF StationHolds
<1>5. SidesFit(P2, Q)
  BY <1>1, <1>3 DEF SidesFit
<1>6. SidesFit(Q, P2)
  BY <1>1, <1>3 DEF SidesFit
<1>7. P.n \in Nat /\ P.got \in Nat /\ (Q.on => Q.acked \in Nat)
  BY <1>1 DEF SidesFit
<1>8. Traffic(Carry(air[q], Aired(r.actions)), P2, Q)
  BY <1>1, <1>3, <1>7, SenderRests DEF Rests
<1> QED
  BY <1>4, <1>5, <1>6, <1>8 DEF P, Q, P2, n, t, Moves

\* The bytes in flight are those sent and not acknowledged.
LEMMA InFlightIs ==
  ASSUME NEW s, Consistent(s)
  PROVE  /\ s.state # "Connected" => InFlight(s) = {}
         /\ \A n : Holds(s, n) => InFlight(s) = (AckedOf(s, n) + 1)..SentOf(s, n)
<1>1. ASSUME s.state # "Connected" PROVE InFlight(s) = {}
  <2>1. s.outstanding = <<>>
    BY <1>1 DEF Consistent, QueuesOnlyWhileConnected
  <2>2. 1..Len(s.outstanding) = {}
    BY <2>1, EmptySeq
  <2> QED
    BY <2>2 DEF InFlight
<1>2. ASSUME NEW n, Holds(s, n)
      PROVE  InFlight(s) = (AckedOf(s, n) + 1)..SentOf(s, n)
  <2> DEFINE a == AckedOf(s, n)
             c == SentOf(s, n)
             out == s.outstanding
  <2>1. /\ a \in Nat /\ c \in a..(a + 7) /\ Len(out) = c - a
        /\ \A i \in 1..(c - a) : out[i].info = <<a + i>>
    BY <1>2, HeldFrames
  <2> HIDE DEF a, c
  <2>2. \A b : Range(<<b>>) = {b}
    BY DEF Range
  <2>3. \A i \in 1..(c - a) : Range(out[i].info) = {a + i}
    BY <2>1, <2>2
  <2>4. InFlight(s) = UNION {Range(out[i].info) : i \in 1..(c - a)}
    BY <2>1 DEF InFlight
  <2> HIDE DEF out
  <2>5. {Range(out[i].info) : i \in 1..(c - a)} = {{a + i} : i \in 1..(c - a)}
    BY <2>3
  <2>6. \A b \in (a + 1)..c : b - a \in 1..(c - a) /\ a + (b - a) = b
    BY <2>1
  <2>7. \A i \in 1..(c - a) : a + i \in (a + 1)..c
    BY <2>1
  <2>8. UNION {{a + i} : i \in 1..(c - a)} = (a + 1)..c
    BY <2>6, <2>7
  <2> QED
    BY <2>4, <2>5, <2>8 DEF a, c
<1> QED
  BY <1>1, <1>2

-----------------------------------------------------------------------------
(* Every step keeps the invariant.                                         *)

\* Delivering nothing, or the next byte.
LEMMA UpToNext ==
  ASSUME NEW g \in Nat
  PROVE  /\ UpTo(g) \in Seq(Nat) /\ Len(UpTo(g)) = g
         /\ UpTo(g) \o <<>> = UpTo(g)
         /\ UpTo(g) \o <<g + 1>> = UpTo(g + 1)
<1>1. \A k \in Nat : UpTo(k) \in Seq(Nat) /\ Len(UpTo(k)) = k
  <2> TAKE k \in Nat
  <2>1. UpTo(k) \in [1..k -> Nat]
    BY DEF UpTo
  <2> QED
    BY <2>1, FunctionIsSeq
<1>2. UpTo(g) \o <<>> = UpTo(g)
  BY <1>1, ConcatEmptySeq
<1>3. UpTo(g) \o <<g + 1>> = UpTo(g + 1)
  <2> DEFINE both == UpTo(g) \o <<g + 1>>
  <2>1. <<g + 1>> \in Seq(Nat) /\ Len(<<g + 1>>) = 1 /\ <<g + 1>>[1] = g + 1
    OBVIOUS
  <2>2. /\ both \in Seq(Nat) /\ Len(both) = Len(UpTo(g)) + Len(<<g + 1>>)
        /\ \A i \in 1..(Len(UpTo(g)) + Len(<<g + 1>>)) :
             both[i] = IF i <= Len(UpTo(g)) THEN UpTo(g)[i] ELSE <<g + 1>>[i - Len(UpTo(g))]
    BY <1>1, <2>1, ConcatProperties
  <2> HIDE DEF both
  <2>3. /\ Len(both) = g + 1
        /\ \A i \in 1..(g + 1) : both[i] = IF i <= g THEN UpTo(g)[i] ELSE <<g + 1>>[i - g]
    BY <1>1, <2>1, <2>2
  <2>4. \A i \in 1..(g + 1) : both[i] = i
    <3> TAKE i \in 1..(g + 1)
    <3>1. CASE i <= g
      BY <2>3, <3>1 DEF UpTo
    <3>2. CASE ~(i <= g)
      <4>1. i = g + 1 /\ i - g = 1
        BY <3>2
      <4> QED
        BY <2>1, <2>3, <3>2, <4>1
    <3> QED
      BY <3>1, <3>2
  <2>5. \A i \in 1..(g + 1) : UpTo(g + 1)[i] = i
    BY DEF UpTo
  <2>6. UpTo(g + 1) \in Seq(Nat) /\ Len(UpTo(g + 1)) = g + 1
    BY <1>1
  <2>7. both = UpTo(g + 1)
    BY <2>2, <2>3, <2>4, <2>5, <2>6, SeqEqual
  <2> QED
    BY <2>7 DEF both
<1> QED
  BY <1>1, <1>2, <1>3

\* What Do does to the variables.
Done(p, q, r, queue) ==
  /\ sess' \in [Station -> Session] /\ air' \in [Station -> Seq(Copy)]
  /\ delivered' \in [Station -> Seq(Nat)]
  /\ sess'[p] = Kept(r.session) /\ sess'[q] = sess[q]
  /\ air'[p] = queue /\ air'[q] = Carry(air[q], Aired(r.actions))
  /\ delivered'[p] = delivered[p] \o Payload(r.actions)
  /\ delivered'[q] = delivered[q]

\* It does, from the invariant.
LEMMA DoGives ==
  ASSUME LinkInv, NEW p \in Station, NEW q, q = Peer(p), MaxAir \in Nat,
         NEW r, NEW queue \in Seq(Copy), Do(p, r, queue),
         Consistent(Kept(r.session)), r.actions \in Seq(Action),
         delivered[p] \o Payload(r.actions) \in Seq(Nat)
  PROVE  Done(p, q, r, queue)
<1> DEFINE t == Kept(r.session)
           given == delivered[p] \o Payload(r.actions)
           sent == Carry(air[q], Aired(r.actions))
<1>1. q \in Station /\ q # p /\ Station = {p, q}
  BY Peers
<1>2. /\ sess \in [Station -> Session] /\ air \in [Station -> Seq(Copy)]
      /\ delivered \in [Station -> Seq(Nat)]
  BY DEF LinkInv, LinkTypes
<1>3. /\ sess' = [sess EXCEPT ![p] = t]
      /\ air' = [air EXCEPT ![p] = queue, ![q] = Carry(@, Aired(r.actions))]
      /\ delivered' = [delivered EXCEPT ![p] = given]
  BY DEF Do
<1>4. t \in Session
  BY DEF Consistent
<1>5. sent \in Seq(Copy)
  <2>1. Aired(r.actions) \in Seq(Copy)
    BY AiredInOrder DEF InActionOrder
  <2> QED
    BY <1>1, <1>2, <2>1, CarryIsPrefix
<1>6. [air EXCEPT ![p] = queue, ![q] = Carry(@, Aired(r.actions))]
        = [[air EXCEPT ![p] = queue] EXCEPT ![q] = sent]
  BY <1>1, <1>2
<1> HIDE DEF t, given, sent
<1>7. sess' \in [Station -> Session] /\ sess'[p] = t /\ sess'[q] = sess[q]
  BY <1>1, <1>2, <1>3, <1>4
<1>8. air' \in [Station -> Seq(Copy)] /\ air'[p] = queue /\ air'[q] = sent
  BY <1>1, <1>2, <1>3, <1>5, <1>6
<1>9. /\ delivered' \in [Station -> Seq(Nat)]
      /\ delivered'[p] = given /\ delivered'[q] = delivered[q]
  BY <1>1, <1>2, <1>3 DEF given
<1> QED
  BY <1>7, <1>8, <1>9 DEF t, given, sent, Done

\* A step of one station, in terms of what its side becomes.
LEMMA StationMoves ==
  ASSUME LinkInv, NEW p \in Station, NEW q, q = Peer(p), MaxAir \in Nat,
         NEW r, NEW queue, NEW n2, NEW got2, NEW acks, Do(p, r, queue),
         opens' = opens, starts' \in [Station -> SUBSET Nat],
         offered' = [offered EXCEPT ![p] = n2], acked' = [acked EXCEPT ![p] = acks],
         r.actions \in Seq(Action), Moves(p, r, n2, got2), Side(p).got <= got2,
         delivered[p] \o Payload(r.actions) = UpTo(got2),
         Traffic(queue, Side(q), SideOf(Kept(r.session), n2, got2)),
         acks \subseteq 1..Side(q).got
  PROVE  LinkInv'
<1> DEFINE t == Kept(r.session)
           P2 == SideOf(t, n2, got2)
<1>1. q \in Station /\ q # p /\ Station = {p, q}
  BY Peers
<1>19. /\ StationHolds(t, n2, got2) /\ SidesFit(P2, Side(q)) /\ SidesFit(Side(q), P2)
       /\ Traffic(Carry(air[q], Aired(r.actions)), P2, Side(q))
  BY DEF Moves
<1>2. got2 \in Nat /\ n2 \in Nat /\ Consistent(t)
  <2>1. n2 \in 0..MaxBytes /\ MaxBytes \in Nat
    BY <1>19, ArqLinkAssumption DEF StationHolds
  <2> QED
    BY <1>19, <2>1 DEF StationHolds
<1>3. UpTo(got2) \in Seq(Nat) /\ Len(UpTo(got2)) = got2
  BY <1>2, UpToNext
<1>4. queue \in Seq(Copy)
  BY DEF Traffic
<1>5. /\ sess' \in [Station -> Session] /\ air' \in [Station -> Seq(Copy)]
      /\ delivered' \in [Station -> Seq(Nat)]
      /\ sess'[p] = t /\ sess'[q] = sess[q]
      /\ air'[p] = queue /\ air'[q] = Carry(air[q], Aired(r.actions))
      /\ delivered'[p] = UpTo(got2) /\ delivered'[q] = delivered[q]
  <2>1. delivered[p] \o Payload(r.actions) \in Seq(Nat)
    BY <1>3
  <2>2. Consistent(Kept(r.session))
    BY <1>2
  <2> HIDE DEF t
  <2> HIDE DEF P2
  <2>3. Done(p, q, r, queue)
    BY <1>4, <2>1, <2>2, DoGives, Zenon
  <2> QED
    BY <2>3 DEF t, Done
<1>6. Side(q).got = Len(delivered[q]) /\ Side(p).got = Len(delivered[p])
  BY DEF Side, SideOf
<1>7. LinkTypes
  BY DEF LinkInv
<1> HIDE DEF t
<1>8. /\ offered' \in [Station -> Nat] /\ offered'[p] = n2 /\ offered'[q] = offered[q]
  BY <1>1, <1>2, <1>7 DEF LinkTypes
<1>9. acks \in SUBSET Nat
  <2>1. Len(delivered[q]) \in Nat
    BY <1>1, <1>7, LenProperties DEF LinkTypes
  <2> QED
    BY <1>6, <2>1
<1>10. /\ acked' \in [Station -> SUBSET Nat] /\ acked'[p] = acks /\ acked'[q] = acked[q]
  BY <1>1, <1>7, <1>9 DEF LinkTypes
<1>11. LinkTypes'
  BY <1>5, <1>7, <1>8, <1>10 DEF LinkTypes
<1>12. Side(p)' = P2
  BY <1>3, <1>5, <1>8 DEF Side
<1> HIDE DEF P2
<1>13. Len(delivered'[p]) = got2
  BY <1>3, <1>5
<1>14. StationHolds(sess'[p], offered'[p], Len(delivered'[p]))
  BY <1>5, <1>8, <1>13, <1>19
<1>15. delivered'[p] = UpTo(Len(delivered'[p])) /\ Len(delivered[p]) <= Len(delivered'[p])
  BY <1>5, <1>6, <1>13
<1>16. SidesFit(Side(p)', Side(q)) /\ SidesFit(Side(q), Side(p)')
  BY <1>12, <1>19
<1>17. Traffic(air'[q], Side(p)', Side(q)) /\ Traffic(air'[p], Side(q), Side(p)')
  BY <1>5, <1>12, <1>19 DEF P2, t
<1>18. acked'[p] \subseteq 1..Len(delivered[q])
  BY <1>6, <1>10
<1> QED
  BY <1>5, <1>8, <1>10, <1>11, <1>14, <1>15, <1>16, <1>17, <1>18, Assembles

\* A step on the station's own account: what is under way to it stays.
LEMMA OwnStep ==
  ASSUME LinkInv, NEW p \in Station, MaxAir \in Nat,
         NEW r, NEW n2 \in {offered[p], offered[p] + 1}, Do(p, r, air[p]),
         opens' = opens, starts' \in [Station -> SUBSET Nat],
         offered' = [offered EXCEPT ![p] = n2], acked' = acked,
         \/ Rests(r) /\ n2 = offered[p]
         \/ /\ GoesOn(sess[p], r, offered[p], n2, AckedOf(sess[p], offered[p]), sess[p].vr)
            /\ sess[p].state = "Connected" /\ NoData(r.actions)
  PROVE  LinkInv'
<1> DEFINE q == Peer(p)
           P == Side(p)
           Q == Side(q)
           P2 == SideOf(Kept(r.session), n2, P.got)
<1>1. /\ StationHolds(sess[p], offered[p], P.got)
      /\ SidesFit(P, Q) /\ SidesFit(Q, P) /\ Traffic(air[p], Q, P)
      /\ P.n = offered[p] /\ P.got = Len(delivered[p])
      /\ P.on <=> sess[p].state = "Connected"
      /\ P.acked = AckedOf(sess[p], offered[p])
  BY StationFacts
<1>2. acked[p] \subseteq 1..Q.got /\ delivered[p] = UpTo(P.got) /\ P.got \in Nat
  <2>1. delivered[p] \in Seq(Nat)
    BY DEF LinkInv, LinkTypes
  <2>2. Len(delivered[p]) \in Nat
    BY <2>1, LenProperties
  <2>3. Q.got = Len(delivered[q])
    BY DEF Side, SideOf
  <2> QED
    BY <1>1, <2>2, <2>3 DEF LinkInv
<1>3. acked' = [acked EXCEPT ![p] = acked[p]]
  BY DEF LinkInv, LinkTypes
<1> HIDE DEF q, P, Q, P2
<1>4. /\ Moves(p, r, n2, P.got)
      /\ P2.got = P.got
      /\ P2.on => P.on /\ P2.acked = P.acked
      /\ r.actions \in Seq(Action) /\ NoData(r.actions)
  <2>1. CASE Rests(r) /\ n2 = offered[p]
    <3>1. Moves(p, r, n2, P.got)
      BY <2>1, RestsFits DEF P
    <3>2. r.actions \in Seq(Action) /\ NoData(r.actions)
      BY <2>1 DEF Rests, Mute
    <3>3. P2.got = P.got /\ ~P2.on
      BY <2>1, SideAfter DEF P2
    <3> QED
      BY <3>1, <3>2, <3>3
  <2>2. CASE /\ GoesOn(sess[p], r, offered[p], n2, AckedOf(sess[p], offered[p]), sess[p].vr)
             /\ sess[p].state = "Connected" /\ NoData(r.actions)
    <3>1. sess[p].vr = (FirstSeq + P.got) % 8
      BY <1>1, <2>2 DEF StationHolds
    <3>2. P.on
      BY <1>1, <2>2
    <3>3. /\ P.acked \in Nat /\ P.acked <= Q.got /\ P.got \in Nat /\ P.got <= Q.n
          /\ Q.on => P.got <= Q.sent
          /\ Q.got \in Nat
      BY <1>1, <3>2 DEF SidesFit
    <3>4. P.acked \in P.acked..Q.got /\ P.got \in {P.got, P.got + 1}
      BY <3>3
    <3>5. GoesOn(sess[p], r, offered[p], n2, P.acked, (FirstSeq + P.got) % 8)
      BY <1>1, <2>2, <3>1
    <3>6. Moves(p, r, n2, P.got)
      BY <2>2, <3>3, <3>4, <3>5, GoesOnFits, Zenon DEF q, P, Q
    <3>7. P2.got = P.got /\ P2.on /\ P2.acked = P.acked
      <4>1. Holds(r.session, n2) /\ AckedOf(r.session, n2) = P.acked
        BY <3>5 DEF GoesOn
      <4> QED
        BY <4>1, SideAfter DEF P2
    <3>8. r.actions \in Seq(Action)
      BY <2>2 DEF GoesOn, Utters
    <3> QED
      BY <2>2, <3>2, <3>6, <3>7, <3>8
  <2> QED
    BY <2>1, <2>2
<1>5. Traffic(air[p], Q, P2)
  BY <1>1, <1>4, ReceiverMoves
<1>6. delivered[p] \o Payload(r.actions) = UpTo(P.got)
  BY <1>2, <1>4, PayloadOf, UpToNext
<1>7. P.got <= P.got
  BY <1>2
<1> QED
  BY <1>2, <1>3, <1>4, <1>5, <1>6, <1>7, StationMoves DEF q, P, Q, P2

\* The frame that a station hears next.
LEMMA OldestFrame ==
  ASSUME LinkInv, NEW p \in Station, air[p] # <<>>
  PROVE  /\ Head(air[p]).frame \in Frame
         /\ FrameFits(Head(air[p]).frame, Side(Peer(p)), Side(p))
<1>1. Traffic(air[p], Side(Peer(p)), Side(p)) /\ air[p] \in Seq(Copy)
  BY StationFacts DEF Traffic
<1>2. Len(air[p]) \in Nat /\ Len(air[p]) > 0
  BY <1>1, EmptySeq, LenProperties
<1>3. 1 \in 1..Len(air[p]) /\ Head(air[p]) = air[p][1]
  BY <1>1, <1>2, HeadTailProperties
<1>4. air[p][1] \in Copy
  BY <1>1, <1>3, ElementOfSeq
<1> QED
  BY <1>1, <1>3, <1>4 DEF Traffic, Copy

\* What an acknowledgement takes out of the window, the peer was given.
LEMMA AcknowledgedIsGiven ==
  ASSUME NEW s, NEW n, Holds(s, n), NEW t, NEW e, Holds(t, n), AckedOf(t, n) = e,
         SentOf(s, n) <= SentOf(t, n), NEW got \in Nat, e \in AckedOf(s, n)..got
  PROVE  InFlight(s) \ InFlight(t) \subseteq 1..got
<1>1. Consistent(s) /\ Consistent(t)
  BY DEF Holds
<1>2. /\ InFlight(s) = (AckedOf(s, n) + 1)..SentOf(s, n)
      /\ InFlight(t) = (e + 1)..SentOf(t, n)
  BY <1>1, InFlightIs
<1>3. AckedOf(s, n) \in Nat /\ SentOf(s, n) \in Nat /\ SentOf(t, n) \in Nat
  <2>1. \A u : Holds(u, n) => /\ AckedOf(u, n) \in Nat
                              /\ SentOf(u, n) \in AckedOf(u, n)..(AckedOf(u, n) + 7)
    BY HeldFrames
  <2>2. /\ AckedOf(s, n) \in Nat /\ SentOf(s, n) \in AckedOf(s, n)..(AckedOf(s, n) + 7)
        /\ AckedOf(t, n) \in Nat /\ SentOf(t, n) \in AckedOf(t, n)..(AckedOf(t, n) + 7)
    BY <2>1
  <2> QED
    BY <2>2
<1> QED
  BY <1>2, <1>3

\* Hearing a frame that ends the link, or off the link.
LEMMA HearingAtRest ==
  ASSUME LinkInv, NEW p \in Station, MaxAir \in Nat, air[p] # <<>>,
         NEW r, Rests(r), Do(p, r, Tail(air[p])),
         opens' = opens, starts' = starts, offered' = offered, acked' = acked
  PROVE  LinkInv'
<1> DEFINE q == Peer(p)
           P == Side(p)
           Q == Side(q)
           P2 == SideOf(Kept(r.session), offered[p], P.got)
<1>1. /\ SidesFit(P, Q) /\ SidesFit(Q, P) /\ Traffic(air[p], Q, P)
      /\ P.got = Len(delivered[p]) /\ Q.got = Len(delivered[q])
  BY StationFacts DEF Side, SideOf
<1>2. /\ acked[p] \subseteq 1..Q.got /\ delivered[p] = UpTo(P.got)
  BY <1>1 DEF LinkInv
<1>3. /\ acked' = [acked EXCEPT ![p] = acked[p]]
      /\ offered' = [offered EXCEPT ![p] = offered[p]]
      /\ starts' \in [Station -> SUBSET Nat]
  BY DEF LinkInv, LinkTypes
<1>4. Moves(p, r, offered[p], P.got) /\ ~P2.on /\ P2.got = P.got
  <2>1. Moves(p, r, offered[p], P.got)
    BY RestsFits
  <2>2. ~P2.on /\ P2.got = P.got
    BY SideAfter
  <2> QED
    BY <2>1, <2>2
<1> HIDE DEF q, P, Q, P2
<1>5. P.got \in Nat
  BY <1>1 DEF SidesFit
<1>6. r.actions \in Seq(Action) /\ NoData(r.actions)
  BY DEF Rests, Mute
<1>7. Traffic(Tail(air[p]), Q, P)
  BY <1>1, TailFits
<1>8. Traffic(Tail(air[p]), Q, P2)
  BY <1>4, <1>7, ReceiverMoves
<1>9. delivered[p] \o Payload(r.actions) = UpTo(P.got)
  BY <1>2, <1>5, <1>6, PayloadOf, UpToNext
<1>10. P.got <= P.got
  BY <1>5
<1> DEFINE n == offered[p]
           queue == Tail(air[p])
<1>11. /\ Do(p, r, queue) /\ Moves(p, r, n, P.got) /\ offered' = [offered EXCEPT ![p] = n]
       /\ Traffic(queue, Q, SideOf(Kept(r.session), n, P.got))
  BY <1>3, <1>4, <1>8 DEF P2
<1> HIDE DEF n, queue
<1> QED
  BY <1>2, <1>3, <1>6, <1>9, <1>10, <1>11, StationMoves DEF q, P, Q

\* Hearing one on the link.
LEMMA HearingAtWork ==
  ASSUME LinkInv, NEW p \in Station, MaxAir \in Nat, air[p] # <<>>,
         NEW r, Do(p, r, Tail(air[p])), sess[p].state = "Connected",
         NEW e, NEW f, f = Head(air[p]).frame,
         e = IF Numbered(f) THEN Meant(f.nr, Side(p).acked) ELSE Side(p).acked,
         NEW got2, GoesOn(sess[p], r, offered[p], offered[p], e, (FirstSeq + got2) % 8),
         \/ got2 = Side(p).got /\ Payload(r.actions) = <<>>
         \/ /\ f.type = "I" /\ Carried(f) = Side(p).got + 1 /\ got2 = Side(p).got + 1
            /\ Payload(r.actions) = <<Side(p).got + 1>>,
         opens' = opens, starts' = starts, offered' = offered,
         acked' = [acked EXCEPT ![p] = IF Numbered(f)
                     THEN @ \cup (InFlight(sess[p]) \ InFlight(r.session)) ELSE @]
  PROVE  LinkInv'
<1> DEFINE q == Peer(p)
           P == Side(p)
           Q == Side(q)
           n == offered[p]
           P2 == SideOf(Kept(r.session), n, got2)
           acks == IF Numbered(f)
                   THEN acked[p] \cup (InFlight(sess[p]) \ InFlight(r.session)) ELSE acked[p]
<1>1. /\ StationHolds(sess[p], n, P.got)
      /\ SidesFit(P, Q) /\ SidesFit(Q, P) /\ Traffic(air[p], Q, P)
      /\ P.on /\ P.acked = AckedOf(sess[p], n)
      /\ P.got = Len(delivered[p]) /\ Q.got = Len(delivered[q])
  BY StationFacts DEF Side, SideOf
<1>2. /\ acked[p] \subseteq 1..Q.got /\ delivered[p] = UpTo(P.got)
  BY <1>1 DEF LinkInv
<1>3. /\ acked' = [acked EXCEPT ![p] = acks]
      /\ offered' = [offered EXCEPT ![p] = n]
      /\ starts' \in [Station -> SUBSET Nat]
  <2>1. acked \in [Station -> SUBSET Nat] /\ offered \in [Station -> Nat]
    BY DEF LinkInv, LinkTypes
  <2> QED
    BY <2>1 DEF LinkInv, LinkTypes
<1>4. f \in Frame /\ FrameFits(f, Q, P)
  BY OldestFrame
<1>5. e = IF Numbered(f) THEN Meant(f.nr, P.acked) ELSE P.acked
  OBVIOUS
<1>6. GoesOn(sess[p], r, n, n, e, (FirstSeq + got2) % 8)
  OBVIOUS
<1>7. \/ got2 = P.got /\ Payload(r.actions) = <<>>
      \/ /\ f.type = "I" /\ Carried(f) = P.got + 1 /\ got2 = P.got + 1
         /\ Payload(r.actions) = <<P.got + 1>>
  OBVIOUS
<1> HIDE DEF q, P, Q, P2, n, acks
<1>8. /\ P.got \in Nat /\ Q.got \in Nat /\ Q.n \in Nat /\ P.acked \in Nat
      /\ P.acked <= Q.got /\ P.got <= Q.n
      /\ Q.on => P.got <= Q.sent
  BY <1>1 DEF SidesFit
<1>9. e \in P.acked..Q.got
  BY <1>1, <1>4, <1>5, <1>8 DEF FrameFits
<1>10. f.type = "I" => Carried(f) \in 1..Q.n /\ (Q.on => Carried(f) <= Q.sent)
  BY <1>4 DEF FrameFits
<1>11. /\ got2 \in {P.got, P.got + 1} /\ got2 \in Nat /\ P.got <= got2
       /\ got2 <= Q.n
       /\ Q.on => got2 <= Q.sent
  BY <1>7, <1>8, <1>10
<1>12. n \in {n, n + 1}
  OBVIOUS
<1>13. /\ Moves(p, r, n, got2)
       /\ P2.on /\ P2.acked = e /\ P2.got = got2
  <2>1. Moves(p, r, n, got2)
    BY <1>6, <1>9, <1>11, <1>12, GoesOnFits, Zenon DEF q, P, Q, n
  <2>2. P2.on /\ P2.acked = e /\ P2.got = got2
    <3>1. Holds(r.session, n) /\ AckedOf(r.session, n) = e
      BY <1>6 DEF GoesOn
    <3> QED
      BY <3>1, SideAfter DEF P2
  <2> QED
    BY <2>1, <2>2
<1>14. Holds(sess[p], n)
  BY <1>1 DEF StationHolds
<1>15. acks \subseteq 1..Q.got
  <2>1. /\ Holds(r.session, n) /\ AckedOf(r.session, n) = e
        /\ SentOf(sess[p], n) <= SentOf(r.session, n)
    BY <1>6 DEF GoesOn
  <2>2. InFlight(sess[p]) \ InFlight(r.session) \subseteq 1..Q.got
    BY <1>1, <1>8, <1>9, <1>14, <2>1, AcknowledgedIsGiven
  <2> QED
    BY <1>2, <2>2 DEF acks
<1>16. r.actions \in Seq(Action)
  BY <1>6 DEF GoesOn, Utters
<1>17. delivered[p] \o Payload(r.actions) = UpTo(got2)
  BY <1>2, <1>7, <1>8, UpToNext
<1>18. Traffic(Tail(air[p]), Q, P2)
  <2>1. P2.got = P.got \/ ( /\ Head(air[p]).frame.type = "I"
                            /\ Carried(Head(air[p]).frame) = P.got + 1
                            /\ P2.got = P.got + 1 )
    BY <1>7, <1>13
  <2>2. P2.on => P.on /\ P2.acked = IF Numbered(Head(air[p]).frame)
                                    THEN Meant(Head(air[p]).frame.nr, P.acked) ELSE P.acked
    BY <1>1, <1>5, <1>13
  <2> QED
    BY <1>1, <1>8, <2>1, <2>2, ReceiverTakes
<1> QED
  BY <1>3, <1>11, <1>13, <1>15, <1>16, <1>17, <1>18, StationMoves DEF q, P, Q, P2, n

\* A frame is heard, and the user is given nothing or the next byte.
LEMMA HearKeepsLinkInv ==
  ASSUME LinkInv, ~Digipeated, MaxAir \in Nat, NEW p \in Station, Hear(p)
  PROVE  /\ LinkInv'
         /\ LET given == Payload(Handle(sess[p], Head(air[p]).frame).actions)
            IN  given = <<>> \/ given = <<Len(delivered[p]) + 1>>
<1> DEFINE q == Peer(p)
           P == Side(p)
           Q == Side(q)
           s == sess[p]
           n == offered[p]
           f == Head(air[p]).frame
           r == Handle(s, f)
           e == IF Numbered(f) THEN Meant(f.nr, P.acked) ELSE P.acked
<1>1. /\ air[p] # <<>> /\ Do(p, r, Tail(air[p]))
      /\ opens' = opens /\ starts' = starts /\ offered' = offered
      /\ acked' = [acked EXCEPT ![p] = IF Numbered(f)
                     THEN @ \cup (InFlight(s) \ InFlight(r.session)) ELSE @]
  BY DEF Hear, Numbered
<1>2. f \in Frame /\ FrameFits(f, Q, P)
  BY <1>1, OldestFrame
<1>3. /\ StationHolds(s, n, P.got) /\ SidesFit(P, Q) /\ SidesFit(Q, P)
      /\ P.acked = AckedOf(s, n) /\ P.sent = SentOf(s, n)
      /\ P.on <=> s.state = "Connected"
  BY StationFacts
<1>4. acked \in [Station -> SUBSET Nat]
  BY DEF LinkInv, LinkTypes
<1>5. f.type # "SABM"
  BY <1>2 DEF FrameFits
<1> HIDE DEF q, P, Q, s, n, f, r
<1>6. CASE s.state # "Connected"
  <2>1. Consistent(s) /\ s.state \in {"Disconnecting", "Disconnected"}
    BY <1>3, <1>6 DEF StationHolds
  <2>2. Rests(r)
    BY <1>2, <1>5, <2>1, HearingRests DEF r
  <2>3. InFlight(s) = {}
    BY <1>6, <2>1, InFlightIs
  <2>4. acked' = acked
    BY <1>1, <1>4, <2>3
  <2>5. LinkInv'
    BY <1>1, <2>2, <2>4, HearingAtRest
  <2>6. Payload(r.actions) = <<>>
    BY <2>2, PayloadOf DEF Rests, Mute
  <2> QED
    BY <2>5, <2>6 DEF r, s, f
<1>7. CASE s.state = "Connected"
  <2>1. Holds(s, n) /\ s.vr = (FirstSeq + P.got) % 8 /\ P.on
    BY <1>3, <1>7 DEF StationHolds
  <2>2. /\ P.acked \in Nat /\ Q.got <= P.sent /\ P.got \in Nat /\ Q.n \in Nat
        /\ Q.got \in Nat /\ P.sent \in P.acked..(P.acked + 7)
    BY <1>3, <2>1 DEF SidesFit
  <2>3. Numbered(f) => e \in AckedOf(s, n)..SentOf(s, n) /\ f.nr = (FirstSeq + e) % 8
    <3>1. ASSUME Numbered(f)
          PROVE  e \in P.acked..P.sent /\ f.nr = (FirstSeq + e) % 8
      <4>1. f.nr \in 0..7
        BY <1>2, <3>1, FrameNumber
      <4>2. Meant(f.nr, P.acked) \in P.acked..Q.got
        BY <1>2, <2>1, <3>1 DEF FrameFits
      <4>3. (FirstSeq + Meant(f.nr, P.acked)) % 8 = f.nr
        BY <2>2, <4>1, MeantIs
      <4> QED
        BY <2>2, <3>1, <4>2, <4>3
    <3> QED
      BY <1>3, <3>1
  <2>4. e = IF Numbered(f) THEN e ELSE AckedOf(s, n)
    BY <1>3
  <2> HIDE DEF e
  <2>5. \/ Rests(r) /\ ~Numbered(f)
        \/ GoesOn(s, r, n, n, e, s.vr) /\ NoData(r.actions)
        \/ /\ f.type = "I" /\ f.ns = s.vr
           /\ GoesOn(s, r, n, n, e, SeqAdd(s.vr, 1))
           /\ Payload(r.actions) = f.info
    BY <1>2, <1>5, <2>1, <2>3, <2>4, HearingGoesOn DEF r
  <2>6. CASE Rests(r) /\ ~Numbered(f)
    <3>1. acked' = acked
      BY <1>1, <1>4, <2>6
    <3>2. LinkInv'
      BY <1>1, <2>6, <3>1, HearingAtRest
    <3>3. Payload(r.actions) = <<>>
      BY <2>6, PayloadOf DEF Rests, Mute
    <3> QED
      BY <3>2, <3>3 DEF r, s, f
  <2>7. CASE GoesOn(s, r, n, n, e, s.vr) /\ NoData(r.actions)
    <3>1. Payload(r.actions) = <<>>
      BY <2>7, PayloadOf DEF GoesOn, Utters
    <3>2. GoesOn(s, r, n, n, e, (FirstSeq + P.got) % 8)
      BY <2>1, <2>7
    <3>3. LinkInv'
      BY <1>1, <1>7, <3>1, <3>2, HearingAtWork DEF P, s, n, f, e
    <3> QED
      BY <3>1, <3>3 DEF r, s, f
  <2>8. CASE /\ f.type = "I" /\ f.ns = s.vr
             /\ GoesOn(s, r, n, n, e, SeqAdd(s.vr, 1))
             /\ Payload(r.actions) = f.info
    <3>1. Carried(f) = P.got + 1
      BY <1>2, <2>1, <2>2, <2>8, InSequenceIsNext
    <3>2. f.info = <<P.got + 1>>
      BY <1>2, <2>8, <3>1 DEF FrameFits
    <3>3. SeqAdd(s.vr, 1) = (FirstSeq + (P.got + 1)) % 8
      <4>1. FirstSeq \in 0..7
        BY ArqLinkAssumption DEF SeqNum
      <4> QED
        BY <2>1, <2>2, <4>1 DEF SeqAdd
    <3>4. GoesOn(s, r, n, n, e, (FirstSeq + (P.got + 1)) % 8)
      BY <2>8, <3>3
    <3> DEFINE got2 == P.got + 1
    <3>5. /\ GoesOn(s, r, n, n, e, (FirstSeq + got2) % 8)
          /\ f.type = "I" /\ Carried(f) = P.got + 1 /\ got2 = P.got + 1
          /\ Payload(r.actions) = <<P.got + 1>>
      BY <2>8, <3>1, <3>2, <3>4
    <3> HIDE DEF got2
    <3>6. LinkInv'
      BY <1>1, <1>7, <3>5, HearingAtWork DEF P, s, n, f, e
    <3>7. P.got = Len(delivered[p])
      BY DEF P, Side, SideOf
    <3> QED
      BY <3>5, <3>6, <3>7 DEF r, s, f
  <2> QED
    BY <2>5, <2>6, <2>7, <2>8
<1> QED
  BY <1>6, <1>7

\* A byte is accepted.
LEMMA SendByteKeepsLinkInv ==
  ASSUME LinkInv, MaxAir \in Nat, NEW p \in Station, SendByte(p)
  PROVE  LinkInv' /\ Payload(Send(sess[p], <<offered[p] + 1>>).actions) = <<>>
<1> DEFINE s == sess[p]
           n == offered[p]
           n2 == n + 1
           r == Send(s, <<n + 1>>)
<1>1. /\ s.state = "Connected" /\ n < MaxBytes /\ Do(p, r, air[p])
      /\ offered' = [offered EXCEPT ![p] = @ + 1] /\ opens' = opens /\ acked' = acked
      /\ starts' = [starts EXCEPT ![p] = IF fresh[p] THEN @ \cup {n + 1} ELSE @]
  BY DEF SendByte
<1>2. StationHolds(s, n, Len(delivered[p]))
  BY DEF LinkInv
<1>3. MaxBytes \in Nat
  BY ArqLinkAssumption
<1>4. /\ offered \in [Station -> Nat] /\ starts \in [Station -> SUBSET Nat]
  BY DEF LinkInv, LinkTypes
<1>5. starts' \in [Station -> SUBSET Nat]
  <2>1. n + 1 \in Nat /\ starts[p] \in SUBSET Nat
    BY <1>4
  <2> DEFINE new == IF fresh[p] THEN starts[p] \cup {n + 1} ELSE starts[p]
  <2>2. new \in SUBSET Nat
    BY <2>1
  <2>3. starts' = [starts EXCEPT ![p] = new]
    BY <1>1
  <2> HIDE DEF new
  <2> QED
    BY <1>4, <2>2, <2>3
<1> HIDE DEF s, n, r
<1>6. Holds(s, n) /\ n \in 0..MaxBytes
  BY <1>1, <1>2 DEF StationHolds
<1>7. n + 1 <= MaxBytes
  BY <1>1, <1>3, <1>6
<1>8. GoesOn(s, r, n, n + 1, AckedOf(s, n), s.vr) /\ NoData(r.actions)
  BY <1>6, <1>7, SendGoesOn DEF r
<1>9. offered' = [offered EXCEPT ![p] = n2] /\ n2 \in {offered[p], offered[p] + 1}
  BY <1>1 DEF n
<1>10. GoesOn(s, r, n, n2, AckedOf(s, n), s.vr)
  BY <1>8
<1> HIDE DEF n2
<1>11. LinkInv'
  BY <1>1, <1>5, <1>8, <1>9, <1>10, OwnStep DEF s, n
<1>12. Payload(r.actions) = <<>>
  BY <1>8, PayloadOf DEF GoesOn, Utters
<1> QED
  BY <1>11, <1>12 DEF r, s, n

\* A disconnect is asked for.
LEMMA DisconnectKeepsLinkInv ==
  ASSUME LinkInv, MaxAir \in Nat, MaxOpens = 0, NEW p \in Station, Disconnect(p)
  PROVE  LinkInv' /\ Payload(Close(sess[p]).actions) = <<>>
<1> DEFINE n2 == offered[p]
           r == Close(sess[p])
<1>1. /\ sess[p].state \in {"Connecting", "Connected"} /\ Do(p, r, air[p])
      /\ opens' = opens /\ offered' = offered /\ starts' = starts /\ acked' = acked
  BY DEF Disconnect, LinkInv, LinkTypes
<1>2. Consistent(sess[p])
  BY DEF LinkInv, StationHolds
<1>3. Rests(r)
  BY <1>1, <1>2, CloseRests
<1>4. /\ n2 \in {offered[p], offered[p] + 1} /\ n2 = offered[p]
      /\ offered' = [offered EXCEPT ![p] = n2]
      /\ starts' \in [Station -> SUBSET Nat]
  BY <1>1 DEF LinkInv, LinkTypes
<1> HIDE DEF n2, r
<1>5. LinkInv'
  BY <1>1, <1>3, <1>4, OwnStep
<1>6. Payload(r.actions) = <<>>
  BY <1>3, PayloadOf DEF Rests, Mute
<1> QED
  BY <1>5, <1>6 DEF r

\* T1 expires.
LEMMA TimeoutKeepsLinkInv ==
  ASSUME LinkInv, MaxAir \in Nat, NEW p \in Station, Timeout(p)
  PROVE  LinkInv' /\ Payload(T1Expires(sess[p]).actions) = <<>>
<1> DEFINE s == sess[p]
           n == offered[p]
           n2 == offered[p]
           r == T1Expires(s)
<1>1. /\ Do(p, r, air[p])
      /\ opens' = opens /\ offered' = offered /\ starts' = starts /\ acked' = acked
  BY DEF Timeout
<1>2. StationHolds(s, n, Len(delivered[p]))
  BY DEF LinkInv
<1>3. Consistent(s)
  BY <1>2 DEF StationHolds
<1>4. /\ n2 \in {offered[p], offered[p] + 1} /\ n2 = offered[p] /\ n2 = n
      /\ offered' = [offered EXCEPT ![p] = n2]
      /\ starts' \in [Station -> SUBSET Nat]
  BY <1>1 DEF LinkInv, LinkTypes
<1> HIDE DEF s, n, n2, r
<1>5. \/ Rests(r)
      \/ /\ GoesOn(s, r, n, n, AckedOf(s, n), s.vr) /\ NoData(r.actions)
         /\ s.state = "Connected"
  <2>1. /\ s.state \in {"Disconnecting", "Disconnected"} => Rests(r)
        /\ Holds(s, n) => \/ Rests(r)
                          \/ GoesOn(s, r, n, n, AckedOf(s, n), s.vr) /\ NoData(r.actions)
    BY <1>3, ExpiryGoesOn DEF r
  <2>2. /\ s.state = "Connected" => Holds(s, n)
        /\ s.state \in {"Connected", "Disconnecting", "Disconnected"}
    BY <1>2 DEF StationHolds
  <2> QED
    BY <2>1, <2>2
<1>6. \/ Rests(r) /\ n2 = offered[p]
      \/ /\ GoesOn(sess[p], r, offered[p], n2, AckedOf(sess[p], offered[p]), sess[p].vr)
         /\ sess[p].state = "Connected" /\ NoData(r.actions)
  BY <1>4, <1>5 DEF s
<1>7. LinkInv'
  BY <1>1, <1>4, <1>6, OwnStep
<1>8. Payload(r.actions) = <<>>
  <2>1. CASE Rests(r)
    BY <2>1, PayloadOf DEF Rests, Mute
  <2>2. CASE GoesOn(s, r, n, n, AckedOf(s, n), s.vr) /\ NoData(r.actions)
    BY <2>2, PayloadOf DEF GoesOn, Utters
  <2> QED
    BY <1>5, <2>1, <2>2
<1> QED
  BY <1>7, <1>8 DEF r, s

\* A frame is lost.
LEMMA LoseKeepsLinkInv ==
  ASSUME LinkInv, NEW p \in Station, Lose(p)
  PROVE  LinkInv'
<1> DEFINE q == Peer(p)
           rest == Tail(air[p])
<1>1. /\ air[p] # <<>> /\ air' = [air EXCEPT ![p] = rest]
      /\ sess' = sess /\ opens' = opens /\ offered' = offered /\ starts' = starts
      /\ acked' = acked /\ delivered' = delivered
  BY DEF Lose
<1>2. q \in Station /\ q # p
  BY Peers
<1>3. Side(p)' = Side(p)
  BY <1>1 DEF Side
<1>4. /\ StationHolds(sess[p], offered[p], Len(delivered[p]))
      /\ SidesFit(Side(p), Side(q)) /\ SidesFit(Side(q), Side(p))
      /\ Traffic(air[q], Side(p), Side(q)) /\ Traffic(air[p], Side(q), Side(p))
  BY StationFacts
<1>5. Traffic(rest, Side(q), Side(p))
  BY <1>1, <1>4, TailFits
<1>6. rest \in Seq(Copy)
  BY <1>5 DEF Traffic
<1>7. LinkTypes
  BY DEF LinkInv
<1> HIDE DEF rest
<1>8. /\ air' \in [Station -> Seq(Copy)] /\ air'[p] = rest /\ air'[q] = air[q]
  BY <1>1, <1>2, <1>6, <1>7 DEF LinkTypes
<1>9. LinkTypes'
  BY <1>1, <1>7, <1>8 DEF LinkTypes
<1>10. /\ delivered[p] = UpTo(Len(delivered[p])) /\ acked[p] \subseteq 1..Len(delivered[q])
  BY DEF LinkInv
<1>11. Len(delivered[p]) <= Len(delivered[p])
  <2>1. Len(delivered[p]) \in Nat
    BY <1>4 DEF StationHolds
  <2> QED
    BY <2>1
<1> HIDE DEF q
<1>12. /\ Traffic(air'[q], Side(p)', Side(q)) /\ Traffic(air'[p], Side(q), Side(p)')
       /\ SidesFit(Side(p)', Side(q)) /\ SidesFit(Side(q), Side(p)')
  BY <1>3, <1>4, <1>5, <1>8
<1>13. /\ StationHolds(sess'[p], offered'[p], Len(delivered'[p]))
       /\ delivered'[p] = UpTo(Len(delivered'[p])) /\ Len(delivered[p]) <= Len(delivered'[p])
       /\ acked'[p] \subseteq 1..Len(delivered[q])
  BY <1>1, <1>4, <1>10, <1>11
<1>14. /\ sess'[q] = sess[q] /\ offered'[q] = offered[q] /\ delivered'[q] = delivered[q]
       /\ acked'[q] = acked[q]
  BY <1>1
<1> QED
  BY <1>9, <1>12, <1>13, <1>14, Assembles DEF q

\* A link that is up and has carried nothing.
LEMMA InitHasLinkInv ==
  ASSUME LinkUp, Init
  PROVE  LinkInv
<1>1. FirstSeq \in 0..7 /\ MaxBytes \in Nat /\ SeqNum = 0..7
  BY ArqLinkAssumption DEF SeqNum
<1>2. /\ Up \in Session /\ Up.state = "Connected" /\ Up.vs = FirstSeq /\ Up.vr = FirstSeq
      /\ Up.outstanding = <<>> /\ Up.backlog = <<>> /\ Up.retry_count = 0 /\ Up.t1 = FALSE
  BY <1>1, NewSessionFields DEF Up, Session, ConnState
<1>3. Consistent(Up)
  <2>1. Up.retry_count <= N2
    BY <1>2, ArqConfigAssumption
  <2> QED
    BY <1>2, <2>1, EmptyIsConsistent
<1>4. SentOf(Up, 0) = 0 /\ AckedOf(Up, 0) = 0
  <2>1. Len(Up.outstanding) = 0 /\ Len(Up.backlog) = 0
    BY <1>2, EmptySeq
  <2> QED
    BY <2>1 DEF SentOf, AckedOf
<1>5. Holds(Up, 0)
  <2>1. 0 \in 0..MaxBytes
    BY <1>1
  <2>2. Len(BytesTo(0)) = FirstSeq
    BY <1>1, <2>1, BytesToIs
  <2>3. Newest(Up, BytesTo(0))
    BY <1>1, <1>2, <2>2, EmptySeq DEF Newest
  <2>4. Counted(Up, BytesTo(0))
    BY <1>1, <1>2, <2>2, EmptySeq DEF Counted
  <2> QED
    BY <1>2, <1>3, <1>4, <2>1, <2>3, <2>4 DEF Holds, InOrder
<1>6. \A p \in Station : /\ sess[p] = Up /\ air[p] = <<>> /\ offered[p] = 0
                         /\ delivered[p] = <<>> /\ acked[p] = {}
  BY DEF Init
<1>7. StationHolds(Up, 0, 0)
  BY <1>1, <1>2, <1>3, <1>5 DEF StationHolds
<1>8. UpTo(0) = <<>> /\ Len(<<>>) = 0
  <2>1. UpTo(0) \in Seq(Nat) /\ Len(UpTo(0)) = 0
    BY UpToNext
  <2> QED
    BY <2>1, EmptySeq
<1> DEFINE start == SideOf(Up, 0, 0)
<1>9. /\ start.n = 0 /\ start.on /\ start.sent = 0 /\ start.acked = 0 /\ start.got = 0
  BY <1>2, <1>4 DEF SideOf
<1>10. \A p \in Station : Side(p) = start
  BY <1>6, <1>8 DEF Side
<1> HIDE DEF start
<1>11. SidesFit(start, start)
  BY <1>9 DEF SidesFit
<1>12. Traffic(<<>>, start, start)
  BY EmptySeq DEF Traffic
<1>13. LinkTypes
  <2>1. <<>> \in Seq(Copy) /\ <<>> \in Seq(Nat)
    BY EmptySeq
  <2>2. sess \in [Station -> Session] /\ air \in [Station -> Seq(Copy)]
    BY <1>2, <2>1 DEF Init
  <2> QED
    BY <2>1, <2>2 DEF Init, LinkTypes
<1>14. ASSUME NEW p \in Station
       PROVE  /\ StationHolds(sess[p], offered[p], Len(delivered[p]))
              /\ delivered[p] = UpTo(Len(delivered[p]))
              /\ SidesFit(Side(p), Side(Peer(p)))
              /\ Traffic(air[Peer(p)], Side(p), Side(Peer(p)))
              /\ acked[p] \subseteq 1..Len(delivered[Peer(p)])
  <2>1. Peer(p) \in Station
    BY Peers
  <2> QED
    BY <1>6, <1>7, <1>8, <1>10, <1>11, <1>12, <2>1
<1> QED
  BY <1>13, <1>14 DEF LinkInv

\* A step of the link, and what it gives to which user.
LEMMA StepKeepsLinkInv ==
  ASSUME LinkInv, MaxOpens = 0, ~Digipeated, [Next]_vars
  PROVE  LinkInv'
<1>1. MaxAir \in Nat
  BY ArqLinkAssumption
<1>2. CASE UNCHANGED vars
  BY <1>2 DEF vars, LinkInv, LinkTypes, Side
<1>3. ASSUME NEW p \in Station, Connect(p)
      PROVE  FALSE
  BY <1>3 DEF Connect, LinkInv, LinkTypes
<1>4. ASSUME NEW p \in Station, Disconnect(p)
      PROVE  LinkInv'
  BY <1>1, <1>4, DisconnectKeepsLinkInv
<1>5. ASSUME NEW p \in Station, SendByte(p)
      PROVE  LinkInv'
  BY <1>1, <1>5, SendByteKeepsLinkInv
<1>6. ASSUME NEW p \in Station, Hear(p)
      PROVE  LinkInv'
  BY <1>1, <1>6, HearKeepsLinkInv
<1>7. ASSUME NEW p \in Station, Lose(p)
      PROVE  LinkInv'
  BY <1>7, LoseKeepsLinkInv
<1>8. ASSUME NEW p \in Station, Timeout(p)
      PROVE  LinkInv'
  BY <1>1, <1>8, TimeoutKeepsLinkInv
<1> QED
  BY <1>2, <1>3, <1>4, <1>5, <1>6, <1>7, <1>8 DEF Next

\* What the invariant says of acknowledged bytes.
LEMMA LinkInvAcked ==
  ASSUME LinkInv
  PROVE  AckedWasReceived
<1> SUFFICES ASSUME NEW p \in Station
             PROVE  acked[p] \subseteq Range(delivered[Peer(p)])
  BY DEF AckedWasReceived
<1>1. /\ acked[p] \subseteq 1..Len(delivered[Peer(p)])
      /\ delivered[Peer(p)] = UpTo(Len(delivered[Peer(p)]))
  BY Peers DEF LinkInv
<1>2. \A g : 1..g \subseteq Range(UpTo(g))
  BY DEF Range, UpTo
<1> QED
  BY <1>1, <1>2

\* What it says of two ends that are connected.
LEMMA LinkInvAgree ==
  ASSUME LinkInv
  PROVE  EndsAgreeWhenQuiet
<1> SUFFICES ASSUME NEW p \in Station,
                    \A x \in Station : sess[x].state = "Connected"
             PROVE  sess[Peer(p)].vr \in NextFrom(p)
  BY DEF EndsAgreeWhenQuiet, BothUpAndQuiet
<1> DEFINE q == Peer(p)
           s == sess[p]
           n == offered[p]
           a == AckedOf(s, n)
           c == SentOf(s, n)
           got == Len(delivered[q])
           out == s.outstanding
<1>1. q \in Station
  BY Peers
<1>2. Holds(s, n) /\ sess[q].vr = (FirstSeq + got) % 8
  BY <1>1 DEF LinkInv, StationHolds
<1>3. /\ a \in Nat /\ c \in a..(a + 7) /\ Len(out) = c - a
      /\ s.vs = (FirstSeq + c) % 8
      /\ \A i \in 1..(c - a) : out[i].seq = (FirstSeq + a + i - 1) % 8
  <2> HIDE DEF s, n
  <2> QED
    BY <1>2, HeldFrames
<1>4. got \in a..c
  <2>1. /\ SidesFit(Side(p), Side(q)) /\ Side(p).on
        /\ Side(p).acked = a /\ Side(p).sent = c /\ Side(q).got = got
        /\ SidesFit(Side(q), Side(p))
    BY <1>1, StationFacts DEF Side, SideOf
  <2> HIDE DEF q, a, c, got
  <2> QED
    BY <2>1 DEF SidesFit
<1>5. NextFrom(p) = {s.vs} \cup {f.seq : f \in Range(out)}
  BY DEF NextFrom
<1>6. FirstSeq \in 0..7
  BY ArqLinkAssumption DEF SeqNum
<1>7. \A i \in 1..Len(out) : out[i] \in Range(out)
  <2>1. s \in Session
    BY <1>2 DEF Holds, Consistent
  <2>2. out \in Seq(PendingIFrame)
    BY <2>1 DEF Session
  <2> QED
    BY <2>2 DEF Range
<1> HIDE DEF q, s, n, a, c, got, out
<1>8. CASE got = c
  BY <1>2, <1>3, <1>5, <1>8 DEF q
<1>9. CASE got # c
  <2> DEFINE i == got - a + 1
  <2>1. i \in 1..(c - a) /\ FirstSeq + a + i - 1 = FirstSeq + got
    BY <1>3, <1>4, <1>6, <1>9
  <2> HIDE DEF i
  <2>2. out[i].seq = (FirstSeq + got) % 8 /\ out[i] \in Range(out)
    BY <1>3, <1>7, <2>1
  <2> QED
    BY <1>2, <1>5, <2>2 DEF q
<1> QED
  BY <1>8, <1>9

\* The link has accepted nothing and delivered nothing at the start.
LEMMA InitIsServiceInit ==
  ASSUME Init
  PROVE  Service!Init
BY DEF Init, Service!Init

\* A step gives the user of one station nothing, or the next byte of the other.
LEMMA StepIsServiceStep ==
  ASSUME LinkInv, MaxOpens = 0, ~Digipeated, [Next]_vars
  PROVE  [Service!Next]_Service!vars
<1>1. MaxAir \in Nat
  BY ArqLinkAssumption
<1>2. LinkTypes
  BY DEF LinkInv
<1>3. ASSUME NEW p \in Station, NEW r, NEW queue, Do(p, r, queue), Payload(r.actions) = <<>>
      PROVE  delivered' = delivered
  <2>1. delivered[p] \in Seq(Nat)
    BY <1>2 DEF LinkTypes
  <2>2. delivered[p] \o Payload(r.actions) = delivered[p]
    BY <1>3, <2>1, ConcatEmptySeq
  <2> QED
    BY <1>2, <1>3, <2>2 DEF Do, LinkTypes
<1>4. CASE UNCHANGED vars
  BY <1>4 DEF vars, Service!vars
<1>5. ASSUME NEW p \in Station, Connect(p)
      PROVE  FALSE
  BY <1>5 DEF Connect, LinkInv, LinkTypes
<1>6. ASSUME NEW p \in Station, Disconnect(p)
      PROVE  UNCHANGED Service!vars
  <2>1. Payload(Close(sess[p]).actions) = <<>>
    BY <1>1, <1>6, DisconnectKeepsLinkInv
  <2>2. Do(p, Close(sess[p]), air[p]) /\ offered' = offered /\ starts' = starts
    BY <1>6 DEF Disconnect
  <2> QED
    BY <1>3, <2>1, <2>2 DEF Service!vars
<1>7. ASSUME NEW p \in Station, Timeout(p)
      PROVE  UNCHANGED Service!vars
  <2>1. Payload(T1Expires(sess[p]).actions) = <<>>
    BY <1>1, <1>7, TimeoutKeepsLinkInv
  <2>2. Do(p, T1Expires(sess[p]), air[p]) /\ offered' = offered /\ starts' = starts
    BY <1>7 DEF Timeout
  <2> QED
    BY <1>3, <2>1, <2>2 DEF Service!vars
<1>8. ASSUME NEW p \in Station, Lose(p)
      PROVE  UNCHANGED Service!vars
  BY <1>8 DEF Lose, Service!vars
<1>9. ASSUME NEW p \in Station, SendByte(p)
      PROVE  Service!Accept(p)
  <2> DEFINE r == Send(sess[p], <<offered[p] + 1>>)
  <2>1. Payload(r.actions) = <<>>
    BY <1>1, <1>9, SendByteKeepsLinkInv
  <2>2. /\ Do(p, r, air[p]) /\ offered[p] < MaxBytes
        /\ offered' = [offered EXCEPT ![p] = @ + 1]
        /\ starts' = [starts EXCEPT ![p] = IF fresh[p] THEN @ \cup {offered[p] + 1} ELSE @]
    BY <1>9 DEF SendByte
  <2> HIDE DEF r
  <2>3. delivered' = delivered
    BY <1>3, <2>1, <2>2
  <2>4. \/ starts' = [starts EXCEPT ![p] = @ \cup {offered[p] + 1}]
        \/ starts' = starts
    <3>1. CASE fresh[p]
      BY <2>2, <3>1
    <3>2. CASE ~fresh[p]
      BY <1>2, <2>2, <3>2 DEF LinkTypes
    <3> QED
      BY <3>1, <3>2
  <2> QED
    BY <2>2, <2>3, <2>4 DEF Service!Accept
<1>10. ASSUME NEW p \in Station, Hear(p)
       PROVE  UNCHANGED Service!vars \/ Service!Deliver(Peer(p), p)
  <2> DEFINE r == Handle(sess[p], Head(air[p]).frame)
             g == Len(delivered[p])
  <2>1. LinkInv' /\ (Payload(r.actions) = <<>> \/ Payload(r.actions) = <<g + 1>>)
    BY <1>1, <1>10, HearKeepsLinkInv
  <2>2. Do(p, r, Tail(air[p])) /\ offered' = offered /\ starts' = starts
    BY <1>10 DEF Hear
  <2> HIDE DEF r
  <2>3. CASE Payload(r.actions) = <<>>
    BY <1>3, <2>2, <2>3 DEF Service!vars
  <2>4. CASE Payload(r.actions) = <<g + 1>>
    <3> DEFINE q == Peer(p)
    <3>1. q \in Station /\ q # p /\ Peer(q) = p
      BY Peers
    <3>2. delivered[p] = UpTo(g) /\ g \in Nat /\ delivered[p] \in Seq(Nat)
      BY DEF LinkInv, LinkTypes, StationHolds
    <3>3. delivered' = [delivered EXCEPT ![p] = Append(@, g + 1)]
      <4>1. delivered[p] \o <<g + 1>> = Append(delivered[p], g + 1)
        BY <3>2, AppendIsConcat
      <4> QED
        BY <2>2, <2>4, <4>1 DEF Do
    <3>4. Service!LastOf(delivered[p]) = g
      <4>1. CASE g = 0
        BY <3>2, <4>1, EmptySeq DEF Service!LastOf
      <4>2. CASE g # 0
        <5>1. g \in 1..g /\ UpTo(g)[g] = g
          BY <3>2, <4>2 DEF UpTo
        <5>2. delivered[p] # <<>>
          BY <4>2, EmptySeq
        <5> QED
          BY <3>2, <5>1, <5>2 DEF Service!LastOf
      <4> QED
        BY <4>1, <4>2
    <3>5. g + 1 <= offered[q] /\ offered[q] \in Nat
      <4>1. SidesFit(Side(q)', Side(p)')
        BY <2>1, <3>1 DEF LinkInv
      <4>2. Side(p)'.got = Len(delivered'[p]) /\ Side(q)'.n = offered'[q]
        BY DEF Side, SideOf
      <4>3. Len(delivered'[p]) = g + 1
        <5>1. delivered'[p] = Append(delivered[p], g + 1)
          BY <1>2, <3>3 DEF LinkTypes
        <5> QED
          BY <3>2, <5>1, AppendProperties
      <4>4. Len(delivered'[p]) <= offered'[q]
        BY <4>1, <4>2 DEF SidesFit
      <4>5. offered[q] \in Nat
        BY <1>2, <3>1 DEF LinkTypes
      <4> QED
        BY <2>2, <4>3, <4>4, <4>5
    <3>6. g + 1 \in (g + 1)..offered[q]
      BY <3>2, <3>5
    <3> HIDE DEF g, q
    <3>7. Service!Deliver(q, p)
      BY <2>2, <3>3, <3>4, <3>6 DEF Service!Deliver
    <3> QED
      BY <3>7 DEF q
  <2> QED
    BY <2>1, <2>3, <2>4
<1>11. \A p \in Station : Peer(p) \in Station /\ p \in Station \ {Peer(p)}
  BY Peers
<1>12. ASSUME NEW p \in Station, Service!Deliver(Peer(p), p)
       PROVE  Service!Next
  BY <1>11, <1>12 DEF Service!Next
<1>13. ASSUME NEW p \in Station, Service!Accept(p)
       PROVE  Service!Next
  BY <1>13 DEF Service!Next
<1>14. CASE Next
  BY <1>5, <1>6, <1>7, <1>8, <1>9, <1>10, <1>12, <1>13, <1>14 DEF Next
<1> QED
  BY <1>4, <1>14

-----------------------------------------------------------------------------

\* A link that is up, whose users disconnect but do not connect again, over a
\* radio on which a frame is heard at most once.
Established == LinkUp /\ MaxOpens = 0 /\ ~Digipeated

\* The invariant holds of it, whenever T1 expires.
LEMMA LinkInvariance ==
  Established => (Spec => []LinkInv)
<1> SUFFICES ASSUME Established PROVE Spec => []LinkInv
  OBVIOUS
<1>1. Init => LinkInv
  BY InitHasLinkInv DEF Established
<1>2. LinkInv /\ [Next]_vars => LinkInv'
  BY StepKeepsLinkInv DEF Established
<1> QED
  BY <1>1, <1>2, PTL DEF Spec

\* ack_up_to (arq.rs:423-424): on such a link, however late the frames and
\* whichever are lost, a byte that is dropped as acknowledged was delivered.
THEOREM AcknowledgedIsReceived ==
  Established => (Spec => []AckedWasReceived)
<1> SUFFICES ASSUME Established PROVE Spec => []AckedWasReceived
  OBVIOUS
<1>1. Spec => []LinkInv
  BY LinkInvariance
<1>2. LinkInv => AckedWasReceived
  BY LinkInvAcked
<1> QED
  BY <1>1, <1>2, PTL

\* What one end expects next is a frame the other holds or would number next,
\* while both are connected over a quiet channel (on_sabm, arq.rs:314).
THEOREM ConnectedEndsAgree ==
  Established => (Spec => []EndsAgreeWhenQuiet)
<1> SUFFICES ASSUME Established PROVE Spec => []EndsAgreeWhenQuiet
  OBVIOUS
<1>1. Spec => []LinkInv
  BY LinkInvariance
<1>2. LinkInv => EndsAgreeWhenQuiet
  BY LinkInvAgree
<1> QED
  BY <1>1, <1>2, PTL

\* Two sessions of arq.rs over a radio that loses frames are a link service:
\* each user is given the bytes of the other, in order, once, without a gap.
THEOREM LinkImplementsService ==
  Established => (Spec => ImplementsLinkService)
<1> SUFFICES ASSUME Established PROVE Spec => ImplementsLinkService
  OBVIOUS
<1>1. Spec => []LinkInv
  BY LinkInvariance
<1>2. Init => Service!Init
  BY InitIsServiceInit
<1>3. LinkInv /\ [Next]_vars => [Service!Next]_Service!vars
  BY StepIsServiceStep DEF Established
<1> QED
  BY <1>1, <1>2, <1>3, PTL DEF Spec, ImplementsLinkService, Service!Spec
=============================================================================

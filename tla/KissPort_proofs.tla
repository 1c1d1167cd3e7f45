--------------------------- MODULE KissPort_proofs ---------------------------
(***************************************************************************)
(* Proofs about KissPort, for any number of stations, spellings and        *)
(* connections, any frames and any ARQ parameters: the UI believes open    *)
(* exactly the connections that have a session, in the state they have;    *)
(* the call map leads to sessions of the right station; and the loop       *)
(* implements PortService.                                                 *)
(*                                                                         *)
(* Three parts make the invariant: what the UI was told, the call map, and *)
(* a part for the sessions themselves, which says that each is consistent  *)
(* and not Disconnected.  The last lets the lemmas of Arq_proofs be cited, *)
(* whose Truthful ties what an operation reports to the state it leaves.   *)
(***************************************************************************)
EXTENDS KissPort, Arq_proofs

\* What the UI knows of a connection whose session was left in this state.
Heard(state) == IF state = "Disconnected" THEN "closed" ELSE state

-----------------------------------------------------------------------------
(* What the UI makes of the actions of one operation.                      *)

\* The largest of one number, and of two neighbours.
LEMMA MaxOfOneOrTwo ==
  ASSUME NEW c \in Nat
  PROVE  Max({c}) = c /\ Max({c, c + 1}) = c + 1
<1>1. \E x \in {c} : \A y \in {c} : x >= y
  OBVIOUS
<1>2. Max({c}) = c
  BY <1>1 DEF Max
<1>3. \A x \in {c, c + 1} : (\A y \in {c, c + 1} : x >= y) <=> x = c + 1
  OBVIOUS
<1>4. \E x \in {c, c + 1} : \A y \in {c, c + 1} : x >= y
  BY <1>3
<1>5. Max({c, c + 1}) = c + 1
  BY <1>3, <1>4 DEF Max
<1> QED
  BY <1>2, <1>5

News(acts, i) == {j \in 1..(i - 1) : acts[j].act \in {"StateChanged", "Closed"}}

\* As long as there is no news the UI knows what it knew; a change of state is
\* news until the connection closes.
LEMMA BeforeOf ==
  ASSUME NEW known, NEW acts, NEW i
  PROVE  /\ News(acts, i) = {} => Before(known, acts, i) = known
         /\ \A c \in Nat :
              /\ News(acts, i) = {c} /\ acts[c].act = "StateChanged" =>
                   Before(known, acts, i) = acts[c].state
              /\ News(acts, i) = {c, c + 1} /\ acts[c + 1].act = "Closed" =>
                   Before(known, acts, i) = "closed"
<1>1. Before(known, acts, i)
        = IF News(acts, i) = {} THEN known
          ELSE IF acts[Max(News(acts, i))].act = "Closed" THEN "closed"
          ELSE acts[Max(News(acts, i))].state
  BY DEF Before, News
<1> HIDE DEF News
<1>2. ASSUME NEW c \in Nat, News(acts, i) = {c}, acts[c].act = "StateChanged"
      PROVE  Before(known, acts, i) = acts[c].state
  BY <1>1, <1>2, MaxOfOneOrTwo
<1>3. ASSUME NEW c \in Nat, News(acts, i) = {c, c + 1}, acts[c + 1].act = "Closed"
      PROVE  Before(known, acts, i) = "closed"
  BY <1>1, <1>3, MaxOfOneOrTwo
<1> QED
  BY <1>1, <1>2, <1>3

\* The UI hears of an operation that reports truthfully exactly the state it
\* leaves the session in: of a session it knows, or of a new one.
LEMMA ToldTheState ==
  ASSUME NEW r, NEW before, Truthful(r, before), NEW known,
         known \notin {"none", "closed", "broken"},
         \/ known = before /\ before # "Disconnected"
         \/ before = "Disconnected" /\ r.session.state # "Disconnected"
  PROVE  Told(known, r.actions) = Heard(r.session.state)
<1> DEFINE acts == r.actions
           n == Len(acts)
<1>1. acts \in Seq(Action) /\ n \in Nat /\ DOMAIN acts = 1..n
  BY LenProperties DEF Truthful
<1>2. SUFFICES /\ \A i \in 1..n : Belongs(Before(known, acts, i), acts[i])
               /\ Before(known, acts, n + 1) = Heard(r.session.state)
  BY DEF Told
<1>3. CASE Changes(acts) = {}
  <2>1. r.session.state = before /\ known = before /\ before # "Disconnected"
    BY <1>3 DEF Truthful
  <2>2. \A i \in 1..n : acts[i].act \notin {"StateChanged", "Closed"}
    BY <1>1, <1>3, <2>1 DEF Truthful, Changes, SaysClosed
  <2>3. \A i \in 1..(n + 1) : News(acts, i) = {}
    BY <1>1, <2>2 DEF News
  <2>4. \A i \in 1..(n + 1) : Before(known, acts, i) = known
    BY <2>3, BeforeOf
  <2>5. \A i \in 1..n : acts[i].act = "Data" => known = "Connected"
    BY <1>1, <2>1 DEF Truthful
  <2>6. \A i \in 1..n : i \in 1..(n + 1)
    BY <1>1
  <2>7. ASSUME NEW i \in 1..n PROVE Belongs(Before(known, acts, i), acts[i])
    BY <2>2, <2>4, <2>5, <2>6 DEF Belongs
  <2> QED
    BY <1>1, <2>1, <2>4, <2>7 DEF Heard
<1>4. CASE Changes(acts) # {}
  <2>1. PICK c \in 1..n : Changes(acts) = {c} /\ acts[c].state = r.session.state
    BY <1>1, <1>4 DEF Truthful
  <2>2. /\ c \in Nat
        /\ \A i \in 1..n : acts[i].act = "StateChanged" <=> i = c
        /\ \A i \in 1..n : acts[i].act # "Data"
        /\ \A i \in 1..n : acts[i].act = "Closed" => i = n /\ i - 1 = c
    <3>1. \A i \in 1..n : acts[i].act = "StateChanged" <=> i \in Changes(acts)
      BY <1>1 DEF Changes
    <3>2. \A i \in 1..n : acts[i].act = "Closed" => i = n /\ i - 1 \in Changes(acts)
      BY <1>1 DEF Truthful
    <3>3. \A i \in 1..n : acts[i].act = "Data" => Changes(acts) = {}
      BY <1>1 DEF Truthful
    <3> HIDE DEF acts, n
    <3> QED
      BY <1>1, <1>4, <2>1, <3>1, <3>2, <3>3
  <2>3. News(acts, c) = {} /\ Before(known, acts, c) = known
    <3>1. News(acts, c) = {}
      BY <1>1, <2>2 DEF News
    <3> QED
      BY <3>1, BeforeOf
  <2>4. Belongs(Before(known, acts, c), acts[c])
    BY <2>2, <2>3 DEF Belongs
  <2>5. CASE SaysClosed(acts)
    <3>1. r.session.state = "Disconnected"
      BY <2>5 DEF Truthful
    <3>2. n = c + 1 /\ acts[n].act = "Closed"
      BY <1>1, <2>2, <2>5 DEF SaysClosed
    <3>3. News(acts, n) = {c} /\ News(acts, n + 1) = {c, c + 1}
      BY <1>1, <2>2, <3>2 DEF News
    <3>4. /\ Before(known, acts, n) = "Disconnected"
          /\ Before(known, acts, n + 1) = "closed"
      BY <2>1, <2>2, <3>1, <3>2, <3>3, BeforeOf
    <3>5. Belongs(Before(known, acts, n), acts[n])
      BY <3>2, <3>4 DEF Belongs
    <3>6. \A i \in 1..n : i = c \/ i = n \/
            acts[i].act \notin {"StateChanged", "Closed", "Data"}
      BY <2>2
    <3> QED
      BY <2>4, <3>1, <3>4, <3>5, <3>6 DEF Belongs, Heard
  <2>6. CASE ~SaysClosed(acts)
    <3>1. r.session.state # "Disconnected"
      BY <2>6 DEF Truthful
    <3>2. \A i \in 1..n : acts[i].act # "Closed"
      BY <1>1, <2>6 DEF SaysClosed
    <3>3. News(acts, n + 1) = {c}
      BY <1>1, <2>2, <3>2 DEF News
    <3>4. Before(known, acts, n + 1) = r.session.state
      BY <2>1, <2>2, <3>3, BeforeOf
    <3>5. \A i \in 1..n : i = c \/ acts[i].act \notin {"StateChanged", "Closed", "Data"}
      BY <2>2, <3>2
    <3> QED
      BY <2>4, <3>1, <3>4, <3>5 DEF Belongs, Heard
  <2> QED
    BY <2>5, <2>6
<1> QED
  BY <1>3, <1>4

-----------------------------------------------------------------------------
(* Where the operations may take a session.                                *)

\* No frame takes a session back to Connecting or to Disconnecting.
LEMMA OnFrameMoves ==
  ASSUME NEW s, Consistent(s), NEW f \in Frame
  PROVE  OnFrame(s, f).session.state \in {s.state, "Connected", "Disconnected"}
<1>1. s \in Session /\ s.state \in ConnState
  BY SessionParts DEF Consistent
<1>2. CASE f.type \in {"I", "RR", "RNR", "REJ"}
  <2>1. CASE s.state # "Connected"
    BY <1>2, <2>1 DEF OnFrame, OnInformation, OnRr, OnRnr, OnReject, Ignored, Result
  <2>2. CASE s.state = "Connected"
    <3> DEFINE r == AckUpTo(s, f.nr).session
               t == [r EXCEPT !.vr = SeqAdd(r.vr, 1)]
               free == AckUpTo([s EXCEPT !.peer_busy = FALSE], f.nr).session
               busy == AckUpTo([s EXCEPT !.peer_busy = TRUE], f.nr).session
    <3>1. OnFrame(s, f).session \in {t, r, free, busy}
      BY <1>2, <2>2
      DEF OnFrame, OnInformation, OnRr, OnRnr, OnReject, FinalIfPolled, Result
    <3>2. /\ r \in Session /\ r.state = "Connected"
          /\ free.state = "Connected" /\ busy.state = "Connected"
      BY <2>2, AckUpToWorks DEF Working, Consistent
    <3> HIDE DEF r, free, busy
    <3>3. t.state = "Connected"
      BY <3>2 DEF Session
    <3> QED
      BY <3>1, <3>2, <3>3
  <2> QED
    BY <2>1, <2>2
<1>3. CASE f.type = "SABM"
  <2>1. ResetSequenceState(s) \in Session
    BY <1>1, ResetFields
  <2>2. OnFrame(s, f).session = [ResetSequenceState(s) EXCEPT !.state = "Connected"]
    BY <1>3 DEF OnFrame, OnSabm, Result
  <2> QED
    BY <2>1, <2>2 DEF Session
<1>4. CASE f.type \in {"DISC", "DM", "FRMR"}
  <2>1. OnFrame(s, f) \in {OnDisc(s, f), OnDm(s), OnFrmr(s)}
    BY <1>4 DEF OnFrame
  <2> QED
    BY <1>1, <2>1, EndingFrames
<1>5. CASE f.type = "UA"
  <2>1. OnFrame(s, f) = OnUa(s)
    BY <1>5 DEF OnFrame
  <2>2. CASE s.state = "Connecting"
    <3> DEFINE t == [s EXCEPT !.state = "Connected", !.retry_count = 0, !.t1 = FALSE]
    <3>1. OnUa(s).session = PushBacklogIntoWindow(t).session
      BY <2>2 DEF OnUa, Result
    <3>2. t \in Session /\ t.state = "Connected"
      BY <1>1 DEF Session, ConnState
    <3> HIDE DEF t
    <3>3. PushBacklogIntoWindow(t).session.state = t.state
      BY <3>2 DEF PushBacklogIntoWindow, Result, Session
    <3> QED
      BY <2>1, <3>1, <3>2, <3>3
  <2>3. CASE s.state = "Disconnecting"
    <3> DEFINE t == [s EXCEPT !.state = "Disconnected", !.t1 = FALSE, !.retry_count = 0]
    <3>1. OnUa(s).session = t
      BY <2>3 DEF OnUa, Result
    <3>2. t.state = "Disconnected"
      BY <1>1 DEF Session
    <3> QED
      BY <2>1, <3>1, <3>2
  <2>4. CASE s.state \notin {"Connecting", "Disconnecting"}
    BY <2>1, <2>4 DEF OnUa, Ignored, Result
  <2> QED
    BY <2>2, <2>3, <2>4
<1>6. f.type \in {"I", "RR", "RNR", "REJ", "SABM", "UA", "DISC", "DM", "FRMR"}
  BY DEF Frame, FrameCarrying
<1> QED
  BY <1>2, <1>3, <1>4, <1>5, <1>6

\* An expiry of T1 ends a session or leaves it in its state.
LEMMA T1Moves ==
  ASSUME NEW s, Consistent(s)
  PROVE  T1Expires(s).session.state \in {s.state, "Disconnected"}
<1> DEFINE t == [s EXCEPT !.retry_count = s.retry_count + 1]
           idle == [s EXCEPT !.t1 = FALSE, !.retry_count = 0]
<1>1. s \in Session /\ s.state \in ConnState /\ s.retry_count + 1 \in Nat
  BY SessionParts DEF Consistent
<1>2. T1Expires(s).session \in {s, t, idle} \/ T1Expires(s) = GiveUp(t)
  BY <1>1 DEF T1Expires, Ignored, Result, ConnState
<1>3. t \in Session /\ t.state = s.state /\ idle.state = s.state
  BY <1>1 DEF Session
<1> HIDE DEF t, idle
<1>4. GiveUp(t).session.state = "Disconnected"
  BY <1>3, EndingFrames
<1> QED
  BY <1>2, <1>3, <1>4

\* A request to close disconnects what is not disconnected.
LEMMA CloseMoves ==
  ASSUME NEW s \in Session, s.state # "Disconnected"
  PROVE  Close(s).session.state = "Disconnecting"
<1> DEFINE v == [ s EXCEPT !.state = "Disconnecting", !.outstanding = <<>>,
                           !.backlog = <<>>, !.t1 = TRUE ]
           t == [v EXCEPT !.retry_count = 0]
<1>1. Close(s).session = t
  BY DEF Close, Result
<1>2. t.state = "Disconnecting"
  BY ClearedFields DEF ConnState
<1> QED
  BY <1>1, <1>2

\* Sending leaves the state alone.
LEMMA SendMoves ==
  ASSUME NEW s \in Session, NEW bytes \in Seq(Byte)
  PROVE  Send(s, bytes).session.state = s.state
<1>1. CASE s.state # "Connected"
  BY <1>1 DEF Send, Ignored, Result
<1>2. CASE s.state = "Connected"
  <2> DEFINE longer == s.backlog \o Fragment(bytes)
             t == [s EXCEPT !.backlog = longer]
  <2>1. longer \in Seq(Seq(Byte))
    BY SessionParts, FragmentType, ConcatProperties
  <2>2. Send(s, bytes).session = PushBacklogIntoWindow(t).session
    BY <1>2 DEF Send
  <2> HIDE DEF longer
  <2>3. t \in Session /\ t.state = s.state
    BY <2>1 DEF Session
  <2> HIDE DEF t
  <2>4. PushBacklogIntoWindow(t).session.state = t.state
    BY <2>3 DEF PushBacklogIntoWindow, Result, Session
  <2> QED
    BY <2>2, <2>3, <2>4
<1> QED
  BY <1>1, <1>2

-----------------------------------------------------------------------------
(* The invariant.                                                          *)

Entry == [arq : Session, remote : Call]

Belief == ConnState \cup {"none", "opened", "closed", "broken"}

\* The ids given out so far, and what the maps hold.
MapsAreTyped ==
  /\ next_id \in 1..(MaxIds + 1)
  /\ told \in [Id -> Belief]
  /\ sessions \in [DOMAIN sessions -> Entry]
  /\ DOMAIN sessions \subseteq Ids
  /\ DOMAIN call_to_id \subseteq DOMAIN AddressOf

\* remove_if_disconnected leaves no session behind that is over.
SessionsAreAlive ==
  \A id \in DOMAIN sessions :
    Consistent(sessions[id].arq) /\ sessions[id].arq.state # "Disconnected"

\* The UI was told nothing of an id that was not given out yet.
UntakenAreUnknown == \A id \in Id : id >= next_id => told[id] = "none"

MapsInv ==
  /\ MapsAreTyped
  /\ SessionsAreAlive
  /\ UntakenAreUnknown
  /\ UiMatchesSessions
  /\ CallsLeadToTheirSession

\* The timer pass visits sessions that exist, and is over when frames are heard.
DueExist ==
  /\ phase \in {"frames", "command", "timers", "closing", "stopped"}
  /\ due \subseteq DOMAIN sessions
  /\ phase = "frames" => due = {}

IInv == MapsInv /\ DueExist

-----------------------------------------------------------------------------
(* The maps.                                                               *)

\* Removing keys leaves the others as they were.
LEMMA WithoutIsRestricted ==
  ASSUME NEW f, NEW keys
  PROVE  /\ DOMAIN Without(f, keys) = DOMAIN f \ keys
         /\ \A x \in DOMAIN f \ keys : Without(f, keys)[x] = f[x]
         /\ Without(f, keys) = [x \in DOMAIN f \ keys |-> f[x]]
BY DEF Without, Restrict

\* Replacing the session of one entry.
LEMMA ArqReplaced ==
  ASSUME NEW f, f \in [DOMAIN f -> Entry], NEW id \in DOMAIN f, NEW s \in Session,
         NEW g, g = [f EXCEPT ![id].arq = s]
  PROVE  /\ DOMAIN g = DOMAIN f
         /\ g \in [DOMAIN g -> Entry]
         /\ g[id].arq = s /\ g[id].remote = f[id].remote
         /\ \A x \in DOMAIN f : x # id => g[x] = f[x]
<1> DEFINE e == [f[id] EXCEPT !.arq = s]
<1>1. g = [f EXCEPT ![id] = e]
  OBVIOUS
<1>2. f[id] \in Entry
  OBVIOUS
<1>3. e \in Entry /\ e.arq = s /\ e.remote = f[id].remote
  BY <1>2 DEF Entry
<1> HIDE DEF e
<1> QED
  BY <1>1, <1>3

\* What the UI is told of an operation on an open session.
LEMMA ApplyTells ==
  ASSUME MapsInv, phase # "stopped", NEW id \in DOMAIN sessions, NEW r,
         Sound(r, sessions[id].arq.state)
  PROVE  /\ id \in Ids /\ id \in Id
         /\ told[id] = sessions[id].arq.state
         /\ Told(told[id], r.actions) = Heard(r.session.state)
         /\ r.session \in Session /\ r.session.state \in ConnState
         /\ Heard(r.session.state) \in Belief
<1>1. id \in Ids /\ id \in Id
  <2>1. MaxIds \in Nat
    BY KissPortAssumption
  <2> QED
    BY <2>1 DEF MapsInv, MapsAreTyped, Ids, Id
<1>2. told[id] = sessions[id].arq.state
  BY <1>1 DEF MapsInv, UiMatchesSessions
<1>3. sessions[id].arq \in Session /\ sessions[id].arq.state # "Disconnected"
  BY DEF MapsInv, SessionsAreAlive, Consistent
<1>4. sessions[id].arq.state \in ConnState
  BY <1>3, SessionParts
<1>5. Told(told[id], r.actions) = Heard(r.session.state)
  BY <1>2, <1>3, <1>4, ToldTheState DEF Sound, ConnState
<1>6. r.session \in Session /\ r.session.state \in ConnState
  BY SessionParts DEF Sound, Consistent
<1>7. Heard(r.session.state) \in Belief
  BY <1>6 DEF Heard, Belief
<1> QED
  BY <1>1, <1>2, <1>5, <1>6, <1>7

\* The loop applies a sound result to a session that is still there.
LEMMA ApplyKeepsMaps ==
  ASSUME MapsInv, phase # "stopped", NEW id \in DOMAIN sessions, NEW r,
         Sound(r, sessions[id].arq.state),
         NEW next \in {"frames", "timers"}, Apply(id, r, next)
  PROVE  /\ MapsInv'
         /\ phase' \in {next, "closing"}
         /\ DOMAIN sessions \ {id} \subseteq DOMAIN sessions'
         /\ told' = [told EXCEPT ![id] = Heard(r.session.state)]
<1> DEFINE st == r.session.state
<1>1. /\ id \in Ids /\ id \in Id
      /\ told[id] = sessions[id].arq.state
      /\ Told(told[id], r.actions) = Heard(st)
      /\ r.session \in Session
      /\ Heard(st) \in Belief
  BY ApplyTells
<1>2. told' = [told EXCEPT ![id] = Heard(st)]
  BY <1>1 DEF Apply
<1>3. next_id' = next_id /\ phase' \in {next, "closing"}
  BY DEF Apply, Proceed
<1>4. /\ next_id \in 1..(MaxIds + 1) /\ told \in [Id -> Belief]
      /\ sessions \in [DOMAIN sessions -> Entry]
      /\ DOMAIN sessions \subseteq Ids /\ DOMAIN call_to_id \subseteq DOMAIN AddressOf
  BY DEF MapsInv, MapsAreTyped
<1>5. Consistent(r.session)
  BY DEF Sound
<1>6. /\ told' \in [Id -> Belief] /\ told'[id] = Heard(st)
      /\ \A x \in Id : x # id => told'[x] = told[x]
  BY <1>1, <1>2, <1>4
<1>7. UntakenAreUnknown'
  BY <1>1, <1>3, <1>4, <1>6 DEF MapsInv, UntakenAreUnknown, Ids, Id
<1>8. /\ \A x \in Ids : told[x] = IF x \in DOMAIN sessions THEN sessions[x].arq.state
                                  ELSE "closed"
      /\ Ids' = Ids /\ Ids \subseteq Id
  <2>1. MaxIds \in Nat
    BY KissPortAssumption
  <2> QED
    BY <1>3, <1>4, <2>1 DEF MapsInv, UiMatchesSessions, Ids, Id
<1>9. CASE st = "Disconnected"
  <2> DEFINE gone == {k \in DOMAIN call_to_id : call_to_id[k] = id}
  <2>1. sessions' = Without(sessions, {id}) /\ call_to_id' = Without(call_to_id, gone)
    BY <1>9 DEF Apply
  <2>2. /\ DOMAIN sessions' = DOMAIN sessions \ {id}
        /\ \A x \in DOMAIN sessions \ {id} : sessions'[x] = sessions[x]
        /\ sessions' = [x \in DOMAIN sessions \ {id} |-> sessions[x]]
    BY <2>1, WithoutIsRestricted
  <2>3. /\ DOMAIN call_to_id' = DOMAIN call_to_id \ gone
        /\ \A k \in DOMAIN call_to_id \ gone : call_to_id'[k] = call_to_id[k]
    BY <2>1, WithoutIsRestricted
  <2>4. \A k \in DOMAIN call_to_id' :
          k \in DOMAIN call_to_id /\ call_to_id'[k] = call_to_id[k] /\ call_to_id[k] # id
    BY <2>3
  <2> HIDE DEF gone
  <2>5. sessions' \in [DOMAIN sessions' -> Entry]
    BY <1>4, <2>2
  <2>6. MapsAreTyped'
    BY <1>3, <1>4, <1>6, <1>8, <2>2, <2>4, <2>5 DEF MapsAreTyped, Id
  <2>7. SessionsAreAlive'
    BY <2>2 DEF MapsInv, SessionsAreAlive
  <2>8. UiMatchesSessions'
    BY <1>6, <1>8, <1>9, <2>2 DEF UiMatchesSessions, Heard
  <2>9. CallsLeadToTheirSession'
    BY <2>2, <2>4 DEF MapsInv, CallsLeadToTheirSession
  <2> QED
    BY <1>2, <1>3, <1>7, <2>2, <2>6, <2>7, <2>8, <2>9 DEF MapsInv
<1>10. CASE st # "Disconnected"
  <2>1. /\ sessions' = [sessions EXCEPT ![id].arq = r.session]
        /\ call_to_id' = call_to_id
    BY <1>10 DEF Apply
  <2>2. /\ DOMAIN sessions' = DOMAIN sessions
        /\ sessions' \in [DOMAIN sessions' -> Entry]
        /\ sessions'[id].arq = r.session /\ sessions'[id].remote = sessions[id].remote
        /\ \A x \in DOMAIN sessions : x # id => sessions'[x] = sessions[x]
    BY <1>1, <1>4, <2>1, ArqReplaced
  <2>3. MapsAreTyped'
    BY <1>3, <1>4, <1>6, <1>8, <2>1, <2>2 DEF MapsAreTyped, Id
  <2>4. SessionsAreAlive'
    BY <1>5, <1>10, <2>2 DEF MapsInv, SessionsAreAlive
  <2>5. UiMatchesSessions'
    BY <1>6, <1>8, <1>10, <2>2 DEF UiMatchesSessions, Heard
  <2>6. CallsLeadToTheirSession'
    BY <2>1, <2>2 DEF MapsInv, CallsLeadToTheirSession
  <2> QED
    BY <1>2, <1>3, <1>7, <2>2, <2>3, <2>4, <2>5, <2>6 DEF MapsInv
<1> QED
  BY <1>9, <1>10

\* The loop mints a session that is connecting or connected.
LEMMA MintKeepsMaps ==
  ASSUME MapsInv, phase # "stopped", NEW spelling \in DOMAIN AddressOf,
         NEW r, Sound(r, "Disconnected"), r.session.state # "Disconnected",
         NEW next \in {"frames", "timers"},
         Mint(spelling, AddressOf[spelling], r, next)
  PROVE  /\ MapsInv'
         /\ phase' \in {next, "closing"}
         /\ DOMAIN sessions \subseteq DOMAIN sessions'
         /\ next_id \in Id /\ told[next_id] = "none"
         /\ told' = [told EXCEPT ![next_id] = r.session.state]
<1> DEFINE st == r.session.state
           e == [arq |-> r.session, remote |-> AddressOf[spelling]]
<1>1. /\ next_id \in 1..(MaxIds + 1) /\ told \in [Id -> Belief]
      /\ sessions \in [DOMAIN sessions -> Entry]
      /\ DOMAIN sessions \subseteq Ids /\ DOMAIN call_to_id \subseteq DOMAIN AddressOf
  BY DEF MapsInv, MapsAreTyped
<1>2. MaxIds \in Nat
  BY KissPortAssumption
<1>3. /\ next_id \in Id /\ next_id' = next_id + 1
      /\ phase' \in {next, "closing"}
      /\ sessions' = With(sessions, next_id, e)
      /\ call_to_id' = With(call_to_id, spelling, next_id)
      /\ told' = [told EXCEPT ![next_id] = Told(Opened(told[next_id]), r.actions)]
  BY DEF Mint, Proceed
<1>4. told[next_id] = "none"
  BY <1>1, <1>3 DEF MapsInv, UntakenAreUnknown, Id
<1>5. /\ Consistent(r.session) /\ r.session \in Session /\ st \in ConnState
  BY SessionParts DEF Sound, Consistent
<1>6. Told("opened", r.actions) = st
  BY ToldTheState DEF Sound, Heard
<1>7. told' = [told EXCEPT ![next_id] = st]
  BY <1>3, <1>4, <1>6 DEF Opened
<1>8. /\ told' \in [Id -> Belief] /\ told'[next_id] = st
      /\ \A x \in Id : x # next_id => told'[x] = told[x]
  BY <1>1, <1>3, <1>5, <1>7 DEF Belief
<1>9. e \in Entry /\ e.arq = r.session /\ e.remote = AddressOf[spelling]
  BY <1>5, KissPortAssumption DEF Entry
<1>10. next_id \notin DOMAIN sessions
  BY <1>1 DEF Ids
<1> HIDE DEF e, st
<1>11. /\ DOMAIN sessions' = DOMAIN sessions \cup {next_id}
       /\ sessions'[next_id] = e
       /\ \A x \in DOMAIN sessions : x # next_id => sessions'[x] = sessions[x]
       /\ sessions' = [x \in DOMAIN sessions \cup {next_id} |->
                         IF x = next_id THEN e ELSE sessions[x]]
  BY <1>3 DEF With
<1>12. /\ DOMAIN call_to_id' = DOMAIN call_to_id \cup {spelling}
       /\ call_to_id'[spelling] = next_id
       /\ \A k \in DOMAIN call_to_id : k # spelling => call_to_id'[k] = call_to_id[k]
  BY <1>3 DEF With
<1>13. Ids' = Ids \cup {next_id} /\ Ids' \subseteq Id
  BY <1>1, <1>2, <1>3 DEF Ids, Id
<1>14. MapsAreTyped'
  <2>1. sessions' \in [DOMAIN sessions' -> Entry]
    BY <1>1, <1>9, <1>11
  <2>2. next_id' \in 1..(MaxIds + 1)
    BY <1>2, <1>3 DEF Id
  <2>3. DOMAIN sessions' \subseteq Ids' /\ DOMAIN call_to_id' \subseteq DOMAIN AddressOf
    BY <1>1, <1>11, <1>12, <1>13
  <2> QED
    BY <1>8, <2>1, <2>2, <2>3 DEF MapsAreTyped, Id
<1>15. SessionsAreAlive'
  <2>1. \A x \in DOMAIN sessions : sessions'[x] = sessions[x]
    BY <1>10, <1>11
  <2>2. Consistent(sessions'[next_id].arq) /\ sessions'[next_id].arq.state # "Disconnected"
    BY <1>5, <1>9, <1>11
  <2> QED
    BY <1>11, <2>1, <2>2 DEF MapsInv, SessionsAreAlive
<1>16. UntakenAreUnknown'
  BY <1>1, <1>3, <1>8 DEF MapsInv, UntakenAreUnknown, Id
<1>17. UiMatchesSessions'
  <2>1. \A x \in Ids : /\ x \in Id /\ x # next_id
                        /\ told[x] = IF x \in DOMAIN sessions THEN sessions[x].arq.state
                                     ELSE "closed"
    BY <1>1, <1>13 DEF MapsInv, UiMatchesSessions, Ids
  <2>2. \A x \in Ids : told'[x] = IF x \in DOMAIN sessions' THEN sessions'[x].arq.state
                                   ELSE "closed"
    BY <1>8, <1>11, <2>1
  <2>3. told'[next_id] = sessions'[next_id].arq.state
    BY <1>8, <1>9, <1>11 DEF st
  <2> QED
    BY <1>11, <1>13, <2>2, <2>3 DEF UiMatchesSessions
<1>18. CallsLeadToTheirSession'
  <2>1. ASSUME NEW k \in DOMAIN call_to_id, k # spelling
        PROVE  /\ call_to_id'[k] \in DOMAIN sessions'
               /\ AddressOf[k] = sessions'[call_to_id'[k]].remote
    BY <1>10, <1>11, <1>12, <2>1 DEF MapsInv, CallsLeadToTheirSession
  <2>2. /\ call_to_id'[spelling] \in DOMAIN sessions'
        /\ AddressOf[spelling] = sessions'[call_to_id'[spelling]].remote
    BY <1>9, <1>11, <1>12
  <2> QED
    BY <1>12, <2>1, <2>2 DEF CallsLeadToTheirSession
<1> QED
  BY <1>3, <1>4, <1>7, <1>11, <1>14, <1>15, <1>16, <1>17, <1>18 DEF MapsInv, st

\* Nothing about the maps changes.
LEMMA UnmovedKeepsMaps ==
  ASSUME MapsInv, phase # "stopped" \/ phase' = "stopped", Unmoved
  PROVE  MapsInv'
<1>1. /\ sessions' = sessions /\ call_to_id' = call_to_id
      /\ next_id' = next_id /\ told' = told
  BY DEF Unmoved
<1>2. MapsAreTyped' /\ SessionsAreAlive' /\ UntakenAreUnknown' /\ CallsLeadToTheirSession'
  BY <1>1 DEF MapsInv, MapsAreTyped, SessionsAreAlive, UntakenAreUnknown,
              CallsLeadToTheirSession, Ids, Id
<1>3. UiMatchesSessions'
  BY <1>1 DEF MapsInv, UiMatchesSessions, Ids
<1> QED
  BY <1>2, <1>3 DEF MapsInv

-----------------------------------------------------------------------------
(* The steps.  Each is one of four kinds, which the refinement needs too.  *)

\* The maps stay.
Idles == Unmoved /\ phase # "stopped" /\ phase' # "stopped"

\* One open session is operated on, and what the UI is told follows it.
Operates(id) ==
  /\ id \in DOMAIN sessions /\ id \in Id
  /\ phase # "stopped" /\ phase' # "stopped"
  /\ told[id] = sessions[id].arq.state
  /\ told[id] \in {"Connecting", "Connected", "Disconnecting"}
  /\ \E st \in {told[id], "Connected", "Disconnecting", "Disconnected"} :
       /\ st # "Disconnected" => st # "Connecting" \/ told[id] = "Connecting"
       /\ told' = [told EXCEPT ![id] = Heard(st)]

\* One is opened.
Opens ==
  /\ next_id \in Id /\ told[next_id] = "none"
  /\ phase # "stopped" /\ phase' # "stopped"
  /\ \E st \in {"Connecting", "Connected"} : told' = [told EXCEPT ![next_id] = st]

\* What a step does to the invariant and to the UI.
Proper ==
  /\ MapsInv'
  /\ Idles \/ Opens \/ \E id \in Id : Operates(id)

\* A sound operation that moves a session where it may go is a proper step.
LEMMA ApplyIsProper ==
  ASSUME MapsInv, phase # "stopped", NEW id \in DOMAIN sessions, NEW r,
         Sound(r, sessions[id].arq.state),
         r.session.state \in {sessions[id].arq.state, "Connected", "Disconnecting",
                              "Disconnected"},
         NEW next \in {"frames", "timers"}, Apply(id, r, next)
  PROVE  /\ Proper
         /\ phase' \in {next, "closing"}
         /\ DOMAIN sessions \ {id} \subseteq DOMAIN sessions'
<1>1. /\ MapsInv'
      /\ phase' \in {next, "closing"}
      /\ DOMAIN sessions \ {id} \subseteq DOMAIN sessions'
      /\ told' = [told EXCEPT ![id] = Heard(r.session.state)]
  BY ApplyKeepsMaps
<1>2. id \in Id /\ told[id] = sessions[id].arq.state
  BY ApplyTells
<1>3. sessions[id].arq.state \in {"Connecting", "Connected", "Disconnecting"}
  BY SessionParts DEF MapsInv, SessionsAreAlive, Consistent, ConnState
<1>4. Operates(id)
  BY <1>1, <1>2, <1>3 DEF Operates
<1> QED
  BY <1>1, <1>2, <1>4 DEF Proper

\* So is minting one.
LEMMA MintIsProper ==
  ASSUME MapsInv, phase # "stopped", NEW spelling \in DOMAIN AddressOf,
         NEW r, Sound(r, "Disconnected"),
         r.session.state \in {"Connecting", "Connected"},
         NEW next \in {"frames", "timers"},
         Mint(spelling, AddressOf[spelling], r, next)
  PROVE  /\ Proper
         /\ phase' \in {next, "closing"}
         /\ DOMAIN sessions \subseteq DOMAIN sessions'
<1>1. /\ MapsInv'
      /\ phase' \in {next, "closing"}
      /\ DOMAIN sessions \subseteq DOMAIN sessions'
      /\ next_id \in Id /\ told[next_id] = "none"
      /\ told' = [told EXCEPT ![next_id] = r.session.state]
  BY MintKeepsMaps
<1>2. Opens
  BY <1>1 DEF Opens
<1> QED
  BY <1>1, <1>2 DEF Proper

\* So is leaving the maps alone.
LEMMA IdleIsProper ==
  ASSUME MapsInv, Idles
  PROVE  Proper
BY UnmovedKeepsMaps DEF Idles, Proper

\* Hearing a frame, whoever sent it.
LEMMA HearingIsProper ==
  ASSUME IInv, HearAny
  PROVE  Proper /\ DueExist'
<1>1. MapsInv /\ phase = "frames" /\ due = {}
  BY DEF IInv, DueExist, HearAny, HearKnown, HearNewSabm, HearStray, HearExtended,
         TransportLost
<1>2. SUFFICES Proper /\ phase' \in {"frames", "closing"} /\ due' = due
  BY <1>1 DEF DueExist
<1>3. ASSUME NEW station \in Call, NEW f \in HeardFrame, HearKnown(station, f)
      PROVE  Proper /\ phase' \in {"frames", "closing"} /\ due' = due
  <2> DEFINE id == call_to_id[station]
  <2>1. CASE id \in DOMAIN sessions
    <3>1. Consistent(sessions[id].arq) /\ f \in Frame
      BY <1>1, <2>1, KissPortAssumption DEF MapsInv, SessionsAreAlive
    <3>2. Sound(OnFrame(sessions[id].arq, f), sessions[id].arq.state)
      BY <3>1, OnFrameIsSound
    <3>3. OnFrame(sessions[id].arq, f).session.state
            \in {sessions[id].arq.state, "Connected", "Disconnecting", "Disconnected"}
      BY <3>1, OnFrameMoves
    <3>4. Apply(id, OnFrame(sessions[id].arq, f), "frames") /\ due' = due
      BY <1>3, <2>1 DEF HearKnown
    <3> QED
      BY <1>1, <2>1, <3>2, <3>3, <3>4, ApplyIsProper
  <2>2. CASE id \notin DOMAIN sessions
    <3>1. Unmoved /\ phase' = phase /\ due' = due
      BY <1>3, <2>2 DEF HearKnown
    <3> QED
      BY <1>1, <3>1, IdleIsProper DEF Idles
  <2> QED
    BY <2>1, <2>2
<1>4. ASSUME NEW station \in Call, NEW f \in HeardFrame, HearNewSabm(station, f)
      PROVE  Proper /\ phase' \in {"frames", "closing"} /\ due' = due
  <2> DEFINE r == AcceptIncoming(NewSession, f.pf)
  <2>1. f \in Frame /\ f.type = "SABM"
    BY <1>4, KissPortAssumption DEF HearNewSabm
  <2>2. f.pf \in BOOLEAN
    BY <2>1 DEF Frame, FrameCarrying
  <2>3. Sound(r, "Disconnected")
    BY <2>2, NewSessionFields, AcceptIncomingIsSound
  <2>4. r.session.state = "Connected"
    <3>1. ResetSequenceState(NewSession) \in Session
      BY NewSessionFields, ResetFields
    <3> QED
      BY <3>1 DEF AcceptIncoming, Result, Session
  <2>5. station \in DOMAIN AddressOf /\ AddressOf[station] = station
    BY KissPortAssumption
  <2>6. Mint(station, AddressOf[station], r, "frames") /\ due' = due
    BY <1>4, <2>5 DEF HearNewSabm
  <2> HIDE DEF r
  <2> QED
    BY <1>1, <2>3, <2>4, <2>5, <2>6, MintIsProper
<1>5. ASSUME \/ \E station \in Call, f \in HeardFrame : HearStray(station, f)
             \/ HearExtended
             \/ TransportLost
      PROVE  Proper /\ phase' \in {"frames", "closing"} /\ due' = due
  <2>1. Unmoved /\ phase' \in {"frames", "closing"} /\ due' = due
    BY <1>5 DEF HearStray, HearExtended, TransportLost, Proceed
  <2> QED
    BY <1>1, <2>1, IdleIsProper DEF Idles
<1> QED
  BY <1>3, <1>4, <1>5 DEF HearAny

\* A command of the UI, for whatever connection.
LEMMA CommandIsProper ==
  ASSUME IInv, Command
  PROVE  Proper /\ DueExist'
<1>1. MapsInv /\ phase = "command" /\ due \subseteq DOMAIN sessions
  BY DEF IInv, DueExist, Command, OpenConnection, SendUnproto, CloseConnection, SendBytes,
         NoCommand, Disconnect
<1>2. ASSUME NEW id \in DOMAIN sessions
      PROVE  /\ Consistent(sessions[id].arq) /\ sessions[id].arq \in Session
             /\ sessions[id].arq.state # "Disconnected"
  BY <1>1 DEF MapsInv, SessionsAreAlive, Consistent
<1>3. ASSUME NEW spelling \in Spelling, OpenConnection(spelling)
      PROVE  Proper /\ phase' \in {"timers", "closing"} /\ due' = DOMAIN sessions'
  <2>1. CASE spelling \in DOMAIN AddressOf
    <3> DEFINE r == Open(NewSession)
    <3>1. Sound(r, "Disconnected")
      BY NewSessionIsConsistent, NewSessionFields, OpenIsSound
    <3>2. r.session.state = "Connecting"
      <4>1. ResetSequenceState(NewSession) \in Session
        BY NewSessionFields, ResetFields
      <4>2. r.session = [ResetSequenceState(NewSession) EXCEPT !.state = "Connecting", !.t1 = TRUE]
        BY NewSessionFields DEF Open, Result
      <4> QED
        BY <4>1, <4>2 DEF Session
    <3>3. Mint(spelling, AddressOf[spelling], r, "timers") /\ due' = DOMAIN sessions'
      BY <1>3, <2>1 DEF OpenConnection, ThenTimers
    <3> HIDE DEF r
    <3> QED
      BY <1>1, <2>1, <3>1, <3>2, <3>3, MintIsProper
  <2>2. CASE spelling \notin DOMAIN AddressOf
    <3>1. Unmoved /\ phase' = "timers" /\ due' = DOMAIN sessions'
      BY <1>3, <2>2 DEF OpenConnection, ThenTimers
    <3> QED
      BY <1>1, <3>1, IdleIsProper DEF Idles
  <2> QED
    BY <2>1, <2>2
<1>4. ASSUME NEW id, NEW bytes \in Message, SendBytes(id, bytes)
      PROVE  Proper /\ phase' \in {"timers", "closing"} /\ due' = DOMAIN sessions'
  <2>1. CASE id \in DOMAIN sessions
    <3> DEFINE s == sessions[id].arq
    <3>1. bytes \in Seq(Byte)
      BY KissPortAssumption
    <3>2. Consistent(s) /\ s \in Session
      BY <1>2, <2>1
    <3>3. Sound(Send(s, bytes), s.state) /\ Send(s, bytes).session.state = s.state
      BY <3>1, <3>2, SendIsSound, SendMoves
    <3>4. Apply(id, Send(s, bytes), "timers") /\ due' = DOMAIN sessions'
      BY <1>4, <2>1 DEF SendBytes, ThenTimers
    <3> QED
      BY <1>1, <2>1, <3>3, <3>4, ApplyIsProper
  <2>2. CASE id \notin DOMAIN sessions
    <3>1. Unmoved /\ phase' = "timers" /\ due' = DOMAIN sessions'
      BY <1>4, <2>2 DEF SendBytes, ThenTimers
    <3> QED
      BY <1>1, <3>1, IdleIsProper DEF Idles
  <2> QED
    BY <2>1, <2>2
<1>5. ASSUME NEW id, CloseConnection(id)
      PROVE  Proper /\ phase' \in {"timers", "closing"} /\ due' = DOMAIN sessions'
  <2>1. CASE id \in DOMAIN sessions
    <3> DEFINE s == sessions[id].arq
    <3>1. Consistent(s) /\ s \in Session /\ s.state # "Disconnected"
      BY <1>2, <2>1
    <3>2. Sound(Close(s), s.state) /\ Close(s).session.state = "Disconnecting"
      BY <3>1, CloseIsSound, CloseMoves
    <3>3. Apply(id, Close(s), "timers") /\ due' = DOMAIN sessions'
      BY <1>5, <2>1 DEF CloseConnection, ThenTimers
    <3> QED
      BY <1>1, <2>1, <3>2, <3>3, ApplyIsProper
  <2>2. CASE id \notin DOMAIN sessions
    <3>1. Unmoved /\ phase' = "timers" /\ due' = DOMAIN sessions'
      BY <1>5, <2>2 DEF CloseConnection, ThenTimers
    <3> QED
      BY <1>1, <3>1, IdleIsProper DEF Idles
  <2> QED
    BY <2>1, <2>2
<1>6. ASSUME (\E spelling \in Spelling : SendUnproto(spelling)) \/ NoCommand
      PROVE  Proper /\ phase' \in {"timers", "closing"} /\ due' = DOMAIN sessions'
  <2>1. Unmoved /\ phase' \in {"timers", "closing"} /\ due' = DOMAIN sessions'
    BY <1>6 DEF SendUnproto, NoCommand, Proceed, ThenTimers
  <2> QED
    BY <1>1, <2>1, IdleIsProper DEF Idles
<1>7. CASE Disconnect
  <2>1. Unmoved /\ phase' = "closing" /\ due' = due
    BY <1>7 DEF Disconnect
  <2>2. Proper
    BY <1>1, <2>1, IdleIsProper DEF Idles
  <2> QED
    BY <1>1, <2>1, <2>2 DEF DueExist, Unmoved
<1>8. ASSUME Proper, phase' \in {"timers", "closing"}, due' = DOMAIN sessions'
      PROVE  DueExist'
  BY <1>8 DEF DueExist
<1> QED
  BY <1>3, <1>4, <1>5, <1>6, <1>7, <1>8 DEF Command

\* The timer of one session.
LEMMA TimerIsProper ==
  ASSUME IInv, NEW id \in Id, TimerRuns(id) \/ TimerExpires(id)
  PROVE  Proper /\ DueExist'
<1>1. /\ MapsInv /\ phase = "timers" /\ due \subseteq DOMAIN sessions
      /\ id \in due /\ due' = due \ {id}
  BY DEF IInv, DueExist, TimerRuns, TimerExpires, Visit
<1>2. CASE TimerRuns(id)
  <2>1. Unmoved /\ phase' = phase
    BY <1>2 DEF TimerRuns
  <2>2. Proper
    BY <1>1, <2>1, IdleIsProper DEF Idles
  <2> QED
    BY <1>1, <2>1, <2>2 DEF DueExist, Unmoved
<1>3. CASE TimerExpires(id)
  <2> DEFINE s == sessions[id].arq
  <2>1. id \in DOMAIN sessions /\ Consistent(s)
    BY <1>1 DEF MapsInv, SessionsAreAlive
  <2>2. /\ Sound(T1Expires(s), s.state)
        /\ T1Expires(s).session.state \in {s.state, "Disconnected"}
    BY <2>1, T1ExpiresIsSound, T1Moves
  <2>3. Apply(id, T1Expires(s), "timers")
    BY <1>3 DEF TimerExpires
  <2>4. /\ Proper /\ phase' \in {"timers", "closing"}
        /\ DOMAIN sessions \ {id} \subseteq DOMAIN sessions'
    BY <1>1, <2>1, <2>2, <2>3, ApplyIsProper
  <2> QED
    BY <1>1, <2>4 DEF DueExist
<1> QED
  BY <1>2, <1>3

\* Shutting down tells the open connections, and only them, that they disconnect.
LEMMA ShutdownLeaves ==
  ASSUME IInv, Shutdown
  PROVE  /\ IInv'
         /\ phase # "stopped" /\ phase' = "stopped"
         /\ \A id \in DOMAIN sessions :
              told[id] \in {"Connecting", "Connected", "Disconnecting"}
         /\ DOMAIN sessions \subseteq Id
         /\ told' = [id \in Id |-> IF id \in DOMAIN sessions THEN "Disconnecting" ELSE told[id]]
<1>1. /\ MapsInv /\ phase = "closing" /\ phase' = "stopped"
      /\ sessions' = <<>> /\ call_to_id' = <<>> /\ due' = {} /\ next_id' = next_id
      /\ told' = [id \in Id |-> IF id \in DOMAIN sessions
                                THEN Told(told[id], Close(sessions[id].arq).actions)
                                ELSE told[id]]
  BY DEF IInv, Shutdown
<1>2. DOMAIN sessions' = {} /\ DOMAIN call_to_id' = {}
  BY <1>1
<1>3. ASSUME NEW id \in DOMAIN sessions
      PROVE  /\ told[id] \in {"Connecting", "Connected", "Disconnecting"}
             /\ id \in Id /\ id \in Ids
             /\ Told(told[id], Close(sessions[id].arq).actions) = "Disconnecting"
  <2>1. /\ Consistent(sessions[id].arq) /\ sessions[id].arq \in Session
        /\ sessions[id].arq.state # "Disconnected"
    BY <1>1 DEF MapsInv, SessionsAreAlive, Consistent
  <2>2. /\ Sound(Close(sessions[id].arq), sessions[id].arq.state)
        /\ Close(sessions[id].arq).session.state = "Disconnecting"
    BY <2>1, CloseIsSound, CloseMoves
  <2>3. /\ id \in Ids /\ id \in Id /\ told[id] = sessions[id].arq.state
        /\ Told(told[id], Close(sessions[id].arq).actions) = "Disconnecting"
    BY <1>1, <2>2, ApplyTells DEF Heard
  <2> QED
    BY <2>1, <2>3, SessionParts DEF ConnState
<1>4. told' = [id \in Id |-> IF id \in DOMAIN sessions THEN "Disconnecting" ELSE told[id]]
  BY <1>1, <1>3
<1>5. /\ next_id \in 1..(MaxIds + 1) /\ told \in [Id -> Belief]
      /\ \A id \in Id : id >= next_id => told[id] = "none"
  BY <1>1 DEF MapsInv, MapsAreTyped, UntakenAreUnknown
<1>6. told' \in [Id -> Belief]
  BY <1>4, <1>5 DEF Belief, ConnState
<1>7. UntakenAreUnknown'
  BY <1>1, <1>3, <1>4, <1>5 DEF UntakenAreUnknown, Id, Ids
<1>8. sessions' \in [DOMAIN sessions' -> Entry]
  BY <1>1
<1>9. MapsAreTyped'
  BY <1>1, <1>2, <1>5, <1>6, <1>8 DEF MapsAreTyped, Id
<1>10. SessionsAreAlive' /\ CallsLeadToTheirSession' /\ UiMatchesSessions'
  BY <1>1, <1>2 DEF SessionsAreAlive, CallsLeadToTheirSession, UiMatchesSessions
<1>11. DueExist'
  BY <1>1 DEF DueExist
<1> QED
  BY <1>1, <1>3, <1>4, <1>7, <1>9, <1>10, <1>11 DEF IInv, MapsInv

\* Every step is of one of the four kinds.
LEMMA NextIsProper ==
  ASSUME IInv, Next
  PROVE  IInv' /\ (Proper \/ Shutdown)
<1>1. ASSUME FramesDone \/ TurnOver
      PROVE  Proper /\ DueExist'
  <2>1. /\ MapsInv /\ Unmoved /\ due' = due /\ due \subseteq DOMAIN sessions
        /\ phase # "stopped" /\ phase' \in {"command", "frames"}
        /\ phase' = "frames" => due = {}
    BY <1>1 DEF IInv, DueExist, FramesDone, TurnOver
  <2>2. Proper
    BY <2>1, IdleIsProper DEF Idles
  <2> QED
    BY <2>1, <2>2 DEF DueExist, Unmoved
<1>2. ASSUME Proper, DueExist' PROVE IInv'
  BY <1>2 DEF Proper, IInv
<1> QED
  BY <1>1, <1>2, HearingIsProper, CommandIsProper, TimerIsProper, ShutdownLeaves DEF Next

\* Nothing at all changes.
LEMMA StutterKeepsInv ==
  ASSUME IInv, UNCHANGED vars
  PROVE  IInv'
BY DEF vars, IInv, MapsInv, MapsAreTyped, SessionsAreAlive, UntakenAreUnknown,
       UiMatchesSessions, CallsLeadToTheirSession, DueExist, Ids, Id

\* The loop starts without connections.
LEMMA InitInv == Init => IInv
<1> SUFFICES ASSUME Init PROVE IInv
  OBVIOUS
<1>1. /\ phase = "frames" /\ due = {} /\ next_id = 1
      /\ DOMAIN sessions = {} /\ DOMAIN call_to_id = {}
      /\ told = [id \in Id |-> "none"]
  BY DEF Init
<1>2. MaxIds \in Nat
  BY KissPortAssumption
<1>3. sessions \in [DOMAIN sessions -> Entry]
  BY DEF Init
<1>4. MapsAreTyped
  BY <1>1, <1>2, <1>3 DEF MapsAreTyped, Belief, Ids
<1>5. UiMatchesSessions
  BY <1>1 DEF UiMatchesSessions, Ids
<1> QED
  BY <1>1, <1>4, <1>5
  DEF IInv, MapsInv, SessionsAreAlive, UntakenAreUnknown, CallsLeadToTheirSession, DueExist

\* The invariant holds.
LEMMA InvHolds == Spec => []IInv
<1>1. IInv /\ [Next]_vars => IInv'
  BY NextIsProper, StutterKeepsInv
<1> QED
  BY <1>1, InitInv, PTL DEF Spec

-----------------------------------------------------------------------------
(* What the run of KissPort checks.                                        *)

\* While the port runs, the connections the UI believes open are exactly those
\* with a session, in the state they have (kiss_runner.rs:452).
THEOREM UiBelievesTheSessions == Spec => []UiMatchesSessions
<1>1. IInv => UiMatchesSessions
  BY DEF IInv, MapsInv
<1> QED
  BY <1>1, InvHolds, PTL

\* The call map never leads to a session that is gone, nor the frames of a
\* station into the session of another one (kiss_runner.rs:445).
THEOREM CallMapIsSound == Spec => []CallsLeadToTheirSession
<1>1. IInv => CallsLeadToTheirSession
  BY DEF IInv, MapsInv
<1> QED
  BY <1>1, InvHolds, PTL

\* Operating on an open session is a report of its connection, or silence.
LEMMA OperatingReports ==
  ASSUME IInv, NEW id \in Id, Operates(id)
  PROVE  Port!Next \/ UNCHANGED Port!vars
<1>1. told \in [Id -> Belief]
  BY DEF IInv, MapsInv, MapsAreTyped
<1>2. /\ phase # "stopped" /\ phase' # "stopped"
      /\ told[id] \in {"Connecting", "Connected", "Disconnecting"}
  BY DEF Operates
<1>3. PICK st \in {told[id], "Connected", "Disconnecting", "Disconnected"} :
        /\ st # "Disconnected" => st # "Connecting" \/ told[id] = "Connecting"
        /\ told' = [told EXCEPT ![id] = Heard(st)]
  BY DEF Operates
<1>4. CASE Heard(st) = told[id]
  <2>1. told' = told
    BY <1>1, <1>3, <1>4
  <2> QED
    BY <1>2, <2>1 DEF Port!vars
<1>5. CASE Heard(st) # told[id]
  <2>1. Heard(st) \in Port!MayFollow[told[id]]
    BY <1>2, <1>3, <1>5 DEF Heard, Port!MayFollow
  <2>2. Port!Report(id)
    BY <1>2, <1>3, <2>1 DEF Port!Report
  <2> QED
    BY <2>2 DEF Port!Next, Port!Id, Id
<1> QED
  BY <1>4, <1>5

\* So is opening one.
LEMMA OpeningReports ==
  ASSUME Opens
  PROVE  Port!Next
<1>1. PICK st \in {"Connecting", "Connected"} : told' = [told EXCEPT ![next_id] = st]
  BY DEF Opens
<1>2. st \in Port!MayFollow[told[next_id]] /\ phase # "stopped" /\ phase' # "stopped"
  BY DEF Opens, Port!MayFollow
<1>3. Port!Report(next_id)
  BY <1>1, <1>2 DEF Port!Report
<1> QED
  BY <1>3 DEF Opens, Port!Next, Port!Id, Id

\* Every step of the loop is a step of the service, or none.
LEMMA StepRefines ==
  ASSUME IInv, [Next]_vars
  PROVE  [Port!Next]_(Port!vars)
<1>1. CASE UNCHANGED vars
  BY <1>1 DEF vars, Port!vars
<1>2. CASE Idles
  BY <1>2 DEF Idles, Unmoved, Port!vars
<1>3. CASE Opens
  BY <1>3, OpeningReports
<1>4. ASSUME NEW id \in Id, Operates(id)
      PROVE  [Port!Next]_(Port!vars)
  BY <1>4, OperatingReports
<1>5. CASE Shutdown
  <2>1. DOMAIN sessions \in SUBSET {id \in Id : told[id] \in Port!Open}
    BY <1>5, ShutdownLeaves DEF Port!Open
  <2>2. /\ phase # "stopped" /\ phase' = "stopped"
        /\ told' = [id \in Id |-> IF id \in DOMAIN sessions THEN "Disconnecting" ELSE told[id]]
    BY <1>5, ShutdownLeaves
  <2>3. Port!GoDown
    BY <2>1, <2>2 DEF Port!GoDown, Port!Id, Port!Open, Id
  <2> QED
    BY <2>3 DEF Port!Next
<1> QED
  BY <1>1, <1>2, <1>3, <1>4, <1>5, NextIsProper DEF Proper

\* Whatever frames, stale commands, timeouts and failed writes come in which
\* order, the loop keeps the promise of PortEvent (pr-core/src/port.rs): each
\* connection is opened once, goes through its states in order, closes once.
THEOREM KissPortImplementsPortService == Spec => ImplementsPortService
<1>1. Init => Port!Init
  BY DEF Init, Port!Init, Port!Id, Id
<1>2. IInv /\ [Next]_vars => [Port!Next]_(Port!vars)
  BY StepRefines
<1> QED
  BY <1>1, <1>2, InvHolds, PTL DEF Spec, ImplementsPortService, Port!Spec
=============================================================================

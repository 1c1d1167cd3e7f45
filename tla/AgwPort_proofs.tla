--------------------------- MODULE AgwPort_proofs ---------------------------
(***************************************************************************)
(* What an AGWPE port knows of the TNC's links is true, for any stations,  *)
(* and any number of connects and of frames under way.                     *)
(*                                                                         *)
(* Three theorems.  The two maps of the ConnMap are each other's inverse:  *)
(* IInv.  Once everything under way has arrived, the map has the links     *)
(* that are up, and the UI shows what the map has: PortInv, which says of  *)
(* each link what the frames, the look-ups and the announcements under way *)
(* will make of it (LinkFits).  The last frame about a station decides     *)
(* (Newest); what a thread took from the map holds as long as nobody has   *)
(* removed it (CommandKnows), and only the reader does (ReaderKnows).      *)
(***************************************************************************)
EXTENDS AgwPort, SequenceTheorems, TLAPS

\* An id that was not given out yet is in neither map.
IdsAreTaken == next_id \in Nat /\ \A id \in DOMAIN id_to_call : id \in Nat /\ id < next_id

\* Every station leads to an id that leads back, and every id is led to.
CallsLeadBack ==
  \A c \in DOMAIN call_to_id :
    call_to_id[c] \in DOMAIN id_to_call /\ id_to_call[call_to_id[c]] = c

IdsAreLedTo ==
  \A id \in DOMAIN id_to_call : \E c \in DOMAIN call_to_id : call_to_id[c] = id

IInv == IdsAreTaken /\ CallsLeadBack /\ IdsAreLedTo

-----------------------------------------------------------------------------
(* The helper on functions.                                                *)

\* Without forgets its keys and nothing else.
LEMMA WithoutIsRestricted ==
  ASSUME NEW f, NEW keys
  PROVE  /\ DOMAIN Without(f, keys) = DOMAIN f \ keys
         /\ \A x \in DOMAIN f \ keys : Without(f, keys)[x] = f[x]
  BY DEF Without, Restrict

-----------------------------------------------------------------------------
(* The steps that change the maps.                                         *)

\* A station that is looked up is found, or entered under an id of its own.
LEMMA FindOrInsertKeeps ==
  ASSUME IInv, NEW c, NEW id, FindOrInsert(c, id)
  PROVE  IInv'
<1>0. IdsAreTaken /\ CallsLeadBack /\ IdsAreLedTo
  BY DEF IInv
<1>1. CASE c \in DOMAIN call_to_id
  <2>1. UNCHANGED connMap
    BY <1>1 DEF FindOrInsert
  <2>2. QED
    BY <1>0, <2>1 DEF connMap, IInv, IdsAreTaken, CallsLeadBack, IdsAreLedTo
<1>2. CASE c \notin DOMAIN call_to_id
  <2>1. /\ id = next_id /\ next_id' = next_id + 1
        /\ id_to_call' = With(id_to_call, id, c)
        /\ call_to_id' = With(call_to_id, c, id)
    BY <1>2 DEF FindOrInsert
  <2>2. id \in Nat /\ id \notin DOMAIN id_to_call
    BY <1>0, <2>1 DEF IdsAreTaken
  <2>3. /\ DOMAIN id_to_call' = DOMAIN id_to_call \cup {id}
        /\ id_to_call'[id] = c
        /\ \A i \in DOMAIN id_to_call : id_to_call'[i] = id_to_call[i]
    BY <2>1, <2>2 DEF With
  <2>4. /\ DOMAIN call_to_id' = DOMAIN call_to_id \cup {c}
        /\ call_to_id'[c] = id
        /\ \A d \in DOMAIN call_to_id : call_to_id'[d] = call_to_id[d]
    BY <1>2, <2>1 DEF With
  <2>5. IdsAreTaken'
    BY <1>0, <2>1, <2>2, <2>3 DEF IdsAreTaken
  <2>6. CallsLeadBack'
    BY <1>0, <2>3, <2>4 DEF CallsLeadBack
  <2>7. IdsAreLedTo'
    BY <1>0, <2>3, <2>4 DEF IdsAreLedTo
  <2>8. QED
    BY <2>5, <2>6, <2>7 DEF IInv
<1>3. QED
  BY <1>1, <1>2

\* What leads to the id is that station alone: nothing else loses its way.
LEMMA RemoveCallKeeps ==
  ASSUME IInv, RemoveCall
  PROVE  IInv'
<1>0. IdsAreTaken /\ CallsLeadBack /\ IdsAreLedTo
  BY DEF IInv
<1>1. CASE reader.call \notin DOMAIN call_to_id
  <2>1. UNCHANGED <<call_to_id, id_to_call, next_id>>
    BY <1>1 DEF RemoveCall
  <2>2. QED
    BY <1>0, <2>1 DEF IInv, IdsAreTaken, CallsLeadBack, IdsAreLedTo
<1>2. CASE reader.call \in DOMAIN call_to_id
  <2> DEFINE c == reader.call
             id == call_to_id[c]
  <2>1. /\ call_to_id' = Without(call_to_id, {c})
        /\ id_to_call' = Without(id_to_call, {id})
        /\ next_id' = next_id
    BY <1>2 DEF RemoveCall
  <2> HIDE DEF c
  <2>2. c \in DOMAIN call_to_id
    BY <1>2 DEF c
  <2> HIDE DEF id
  <2>3. \A d \in DOMAIN call_to_id : d # c => call_to_id[d] # id
    BY <1>0, <2>2 DEF CallsLeadBack, id
  <2>4. /\ DOMAIN call_to_id' = DOMAIN call_to_id \ {c}
        /\ \A d \in DOMAIN call_to_id \ {c} : call_to_id'[d] = call_to_id[d]
    BY <2>1, WithoutIsRestricted
  <2>5. /\ DOMAIN id_to_call' = DOMAIN id_to_call \ {id}
        /\ \A i \in DOMAIN id_to_call \ {id} : id_to_call'[i] = id_to_call[i]
    BY <2>1, WithoutIsRestricted
  <2>6. IdsAreTaken'
    BY <1>0, <2>1, <2>5 DEF IdsAreTaken
  <2>7. CallsLeadBack'
    BY <1>0, <2>3, <2>4, <2>5 DEF CallsLeadBack
  <2>8. IdsAreLedTo'
    BY <1>0, <2>2, <2>4, <2>5 DEF IdsAreLedTo, id
  <2>9. QED
    BY <2>6, <2>7, <2>8 DEF IInv
<1>3. QED
  BY <1>1, <1>2

-----------------------------------------------------------------------------
\* At first both maps are empty.
LEMMA InitEstablishes == Init => IInv
  BY DEF Init, IInv, IdsAreTaken, CallsLeadBack, IdsAreLedTo

\* Any other step leaves the maps alone.
LEMMA StepKeeps == IInv /\ [Next]_vars => IInv'
<1> SUFFICES ASSUME IInv, [Next]_vars PROVE IInv'
  OBVIOUS
<1>1. ASSUME UNCHANGED connMap PROVE IInv'
  BY <1>1 DEF connMap, IInv, IdsAreTaken, CallsLeadBack, IdsAreLedTo
<1>2. CASE OpenConnection
  BY <1>2, FindOrInsertKeeps DEF OpenConnection
<1>3. CASE CloseConnection \/ SendFails \/ Disconnect
  BY <1>1, <1>3 DEF CloseConnection, SendFails, Disconnect
<1>4. CASE CommandRuns
  BY <1>1, <1>4 DEF CommandRuns, AnnounceConnecting, WriteCall, WriteHangUp, ShutStream,
                    ReportPortDisconnected, JoinReader
<1>5. ASSUME NEW c \in Call, ReadConnect(c) PROVE IInv'
  BY <1>5, FindOrInsertKeeps DEF ReadConnect
<1>6. ASSUME NEW c \in Call, ReadDisconnect(c) PROVE IInv'
  BY <1>1, <1>6 DEF ReadDisconnect
<1>7. CASE RemoveCall
  BY <1>7, RemoveCallKeeps
<1>8. CASE AnnounceConnected \/ ReportClosed \/ ReadEnds
  BY <1>1, <1>8 DEF AnnounceConnected, ReportClosed, ReadEnds
<1>9. ASSUME NEW c \in Call, Answers(c) \/ StationConnects(c) \/ LinkLost(c) PROVE IInv'
  BY <1>1, <1>9 DEF Answers, PlaceCall, HangUp, CallAnswered, CallFails, StationConnects,
                    LinkLost, PortUnchanged
<1>10. CASE TncGone
  BY <1>1, <1>10 DEF TncGone, PortUnchanged
<1>11. CASE UNCHANGED vars
  BY <1>1, <1>11 DEF vars
<1>12. QED
  BY <1>2, <1>3, <1>4, <1>5, <1>6, <1>7, <1>8, <1>9, <1>10, <1>11
     DEF Next, Command, ReaderRuns

\* The two halves of the inverse are the property.
LEMMA InvImplies == IInv => MapsAreInverse
<1> SUFFICES ASSUME IInv PROVE MapsAreInverse
  OBVIOUS
<1>1. CallsLeadBack /\ IdsAreLedTo
  BY DEF IInv
<1>2. Range(call_to_id) = DOMAIN id_to_call
  BY <1>1 DEF Range, CallsLeadBack, IdsAreLedTo
<1>3. QED
  BY <1>1, <1>2 DEF MapsAreInverse, CallsLeadBack

\* Whatever the two threads of an AGWPE port do to the ConnMap between each
\* other's look-ups, data and hang-ups find the connection they are meant for
\* (client.rs:268).
THEOREM ConnMapStaysInverse == Spec => []MapsAreInverse
<1>1. IInv /\ [Next]_vars => IInv'
  BY StepKeeps
<1>2. QED
  BY InitEstablishes, <1>1, InvImplies, PTL DEF Spec
-----------------------------------------------------------------------------
(* What is under way, and the invariant that speaks of it.                 *)

Frame == [kind : {"C", "d"}, call : Call]

\* The last frame of q about station c is a k; there is none about c.
Newest(q, k, c) ==
  \E i \in DOMAIN q : /\ q[i] = [kind |-> k, call |-> c]
                      /\ \A j \in DOMAIN q : q[j].call = c => j <= i
Silent(q, c) == \A i \in DOMAIN q : q[i].call # c

\* Who is on the way to connect station c, or to forget it.
Asked(q, c) == \E i \in DOMAIN q : q[i] = [kind |-> "C", call |-> c]
Calling(c) == command.at \in {"announcing", "calling"} /\ command.call = c
Removing(c) == reader.at = "removing" /\ reader.call = c

Typed ==
  /\ DOMAIN id_to_call \subseteq Id /\ DOMAIN call_to_id \subseteq Call
  /\ toTnc \in Seq(Frame) /\ fromTnc \in Seq(Frame)
  /\ told = [id \in Id |-> told[id]]
  /\ link = [c \in Call |-> link[c]]

\* What the command thread took from the map still holds, unless the reader
\* has removed the id since.
CommandKnows ==
  command.at \in {"announcing", "calling", "hanging up"} =>
    /\ command = Busy(command.at, command.id, command.call)
    /\ command.id \in Id /\ command.id < next_id /\ command.call \in Call
    /\ command.id \in DOMAIN id_to_call => id_to_call[command.id] = command.call

\* What the reader took from the map still holds, since it alone removes.
ReaderKnows ==
  /\ reader.at \in {"announcing", "removing", "reporting"} =>
       /\ reader = Busy(reader.at, reader.id, reader.call)
       /\ reader.id \in Id /\ reader.id < next_id
  /\ reader.at \in {"announcing", "removing"} =>
       reader.call \in DOMAIN call_to_id /\ call_to_id[reader.call] = reader.id
  /\ reader.at = "reporting" => reader.id \notin DOMAIN id_to_call

\* The UI is shown what is mapped, or is about to be.
MappedIsOpen ==
  \A id \in DOMAIN id_to_call :
    \/ Open(id)
    \/ command.at = "announcing" /\ command.id = id
    \/ reader.at = "announcing" /\ reader.id = id

\* And nothing else, but for what is about to be closed or was overtaken.
OpenIsMapped ==
  \A id \in Id : Open(id) =>
    \/ id \in DOMAIN id_to_call \cup overtaken
    \/ reader.at = "reporting" /\ reader.id = id

\* A link that is up is mapped once everything is read, and one that is down
\* is not, unless it is about to be called.
UpIsMapped(c) ==
  link[c] = "up" =>
    \/ Newest(fromTnc, "C", c)
    \/ Silent(fromTnc, c) /\ c \in DOMAIN call_to_id /\ ~Removing(c)

DownIsForgotten(c) ==
  link[c] = "down" =>
    \/ Newest(fromTnc, "d", c)
    \/ /\ Silent(fromTnc, c)
       /\ c \in DOMAIN call_to_id => Removing(c) \/ Calling(c) \/ Asked(toTnc, c)

\* And the UI was told of it.
UpIsConnected(c) ==
  link[c] = "up" /\ c \in DOMAIN call_to_id =>
    \/ told[call_to_id[c]] = "Connected"
    \/ reader.at = "announcing" /\ reader.call = c
    \/ Newest(fromTnc, "C", c) \/ Calling(c) \/ Asked(toTnc, c)

LinkFits(c) == UpIsMapped(c) /\ DownIsForgotten(c) /\ UpIsConnected(c)

\* The TNC does nothing more once the stream is gone.
LinksFit == tcp = "up" => \A c \in Call : LinkFits(c)

PortInv ==
  /\ IInv /\ Typed
  /\ CommandKnows /\ ReaderKnows
  /\ MappedIsOpen /\ OpenIsMapped
  /\ LinksFit

-----------------------------------------------------------------------------
(* Queues.                                                                 *)

\* What q says of the stations but c, u says.
SameForOthers(q, u, c) ==
  \A b : b # c => /\ \A h : Newest(q, h, b) => Newest(u, h, b)
                  /\ Silent(q, b) => Silent(u, b)

\* What q asks of the stations but c, u asks.
AskedForOthers(q, u, c) == \A b : b # c => (Asked(q, b) => Asked(u, b))

\* The frame of station c that is in q and not in u is a k.
Taken(q, u, k, c) ==
  \A h : Newest(q, h, c) => Newest(u, h, c) \/ (h = k /\ Silent(u, c))

\* A frame that is appended is the newest of its station, and no other's.
LEMMA FrameAppended ==
  ASSUME NEW q \in Seq(Frame), NEW k \in {"C", "d"}, NEW c \in Call,
         NEW u, u = Append(q, [kind |-> k, call |-> c])
  PROVE  /\ u \in Seq(Frame)
         /\ Newest(u, k, c)
         /\ k = "C" => Asked(u, c)
         /\ AskedForOthers(q, u, c) /\ (Asked(q, c) => Asked(u, c))
         /\ SameForOthers(q, u, c)
<1> DEFINE f == [kind |-> k, call |-> c]
<1>0. f \in Frame /\ f.call = c
  BY DEF Frame
<1> HIDE DEF f
<1>1. /\ u \in Seq(Frame) /\ Len(q) \in Nat
      /\ DOMAIN q = 1..Len(q) /\ DOMAIN u = 1..(Len(q) + 1)
      /\ \A i \in DOMAIN q : u[i] = q[i]
      /\ u[Len(q) + 1] = f
  BY <1>0, AppendProperties, LenProperties DEF f
<1>2. Newest(u, k, c)
  BY <1>1 DEF Newest, f
<1>3. k = "C" => Asked(u, c)
  BY <1>1 DEF Asked, f
<1>4. \A b : Asked(q, b) => Asked(u, b)
  BY <1>1 DEF Asked
<1>5. ASSUME NEW b, b # c, NEW h, Newest(q, h, b)
      PROVE  Newest(u, h, b)
  <2>1. PICK i \in DOMAIN q : /\ q[i] = [kind |-> h, call |-> b]
                              /\ \A j \in DOMAIN q : q[j].call = b => j <= i
    BY <1>5 DEF Newest
  <2>2. i \in DOMAIN u /\ u[i] = [kind |-> h, call |-> b]
    BY <1>1, <2>1
  <2>3. \A j \in DOMAIN u : u[j].call = b => j <= i
    BY <1>0, <1>1, <1>5, <2>1
  <2> QED
    BY <2>2, <2>3 DEF Newest
<1>6. ASSUME NEW b, b # c, Silent(q, b)
      PROVE  Silent(u, b)
  BY <1>0, <1>1, <1>6 DEF Silent
<1>7. SameForOthers(q, u, c)
  BY <1>5, <1>6 DEF SameForOthers
<1>8. AskedForOthers(q, u, c)
  BY <1>4 DEF AskedForOthers
<1> QED
  BY <1>1, <1>2, <1>3, <1>4, <1>7, <1>8

\* A frame that is taken was its station's only one, or not the newest.
LEMMA FrameTaken ==
  ASSUME NEW q \in Seq(Frame), NEW k, NEW c, q # <<>>, Head(q) = [kind |-> k, call |-> c],
         NEW u, u = Tail(q)
  PROVE  /\ u \in Seq(Frame) /\ k \in {"C", "d"} /\ c \in Call
         /\ ~Silent(q, c)
         /\ Taken(q, u, k, c)
         /\ AskedForOthers(q, u, c) /\ (k # "C" /\ Asked(q, c) => Asked(u, c))
         /\ SameForOthers(q, u, c)
<1> DEFINE f == [kind |-> k, call |-> c]
<1>1. /\ u \in Seq(Frame) /\ Len(q) \in Nat /\ Len(q) > 0 /\ q[1] = f
      /\ DOMAIN q = 1..Len(q) /\ DOMAIN u = 1..(Len(q) - 1)
      /\ \A i \in DOMAIN u : u[i] = q[i + 1]
  BY HeadTailProperties, EmptySeq, LenProperties
<1>2. f \in Frame
  BY <1>1, ElementOfSeq
<1>3. k \in {"C", "d"} /\ c \in Call /\ f.kind = k /\ f.call = c
  BY <1>2 DEF Frame
<1> HIDE DEF f
<1>4. \A i \in DOMAIN q : i # 1 => i - 1 \in DOMAIN u /\ u[i - 1] = q[i]
  BY <1>1
<1>5. ~Silent(q, c)
  BY <1>1, <1>3 DEF Silent
<1>6. ASSUME NEW b, NEW h, Newest(q, h, b), b # c \/ h # k
      PROVE  Newest(u, h, b)
  <2>1. PICK i \in DOMAIN q : /\ q[i] = [kind |-> h, call |-> b]
                              /\ \A j \in DOMAIN q : q[j].call = b => j <= i
    BY <1>6 DEF Newest
  <2>2. i # 1
    BY <1>1, <1>3, <1>6, <2>1
  <2>3. i - 1 \in DOMAIN u /\ u[i - 1] = [kind |-> h, call |-> b]
    BY <1>4, <2>1, <2>2
  <2>4. \A j \in DOMAIN u : u[j].call = b => j <= i - 1
    BY <1>1, <2>1
  <2> QED
    BY <2>3, <2>4 DEF Newest
<1>7. ASSUME Newest(q, k, c), ~Newest(u, k, c)
      PROVE  Silent(u, c)
  <2>1. PICK i \in DOMAIN q : /\ q[i] = [kind |-> k, call |-> c]
                              /\ \A j \in DOMAIN q : q[j].call = c => j <= i
    BY <1>7 DEF Newest
  <2>2. CASE i = 1
    BY <1>1, <2>1, <2>2 DEF Silent
  <2>3. CASE i # 1
    <3>1. i - 1 \in DOMAIN u /\ u[i - 1] = [kind |-> k, call |-> c]
      BY <1>4, <2>1, <2>3
    <3>2. \A j \in DOMAIN u : u[j].call = c => j <= i - 1
      BY <1>1, <2>1
    <3> QED
      BY <1>7, <3>1, <3>2 DEF Newest
  <2> QED
    BY <2>2, <2>3
<1>8. ASSUME NEW b, b # c \/ k # "C", Asked(q, b)
      PROVE  Asked(u, b)
  <2>1. PICK i \in DOMAIN q : q[i] = [kind |-> "C", call |-> b]
    BY <1>8 DEF Asked
  <2>2. i # 1
    BY <1>1, <1>3, <1>8, <2>1
  <2> QED
    BY <1>4, <2>1, <2>2 DEF Asked
<1>9. ASSUME NEW b, b # c, Silent(q, b)
      PROVE  Silent(u, b)
  BY <1>1, <1>9 DEF Silent
<1>10. SameForOthers(q, u, c)
  BY <1>6, <1>9 DEF SameForOthers
<1>11. Taken(q, u, k, c)
  BY <1>6, <1>7 DEF Taken
<1>12. AskedForOthers(q, u, c)
  BY <1>8 DEF AskedForOthers
<1> QED
  BY <1>1, <1>3, <1>5, <1>8, <1>10, <1>11, <1>12

-----------------------------------------------------------------------------
(* The map's two operations.                                               *)

\* Station c has number id, which it had or which is new, and whoever has a
\* number keeps it.
Entered(c, id) ==
  /\ DOMAIN id_to_call' = DOMAIN id_to_call \cup {id}
  /\ DOMAIN call_to_id' = DOMAIN call_to_id \cup {c}
  /\ id_to_call'[id] = c /\ call_to_id'[c] = id
  /\ \A i \in DOMAIN id_to_call : id_to_call'[i] = id_to_call[i]
  /\ \A b \in DOMAIN call_to_id : call_to_id'[b] = call_to_id[b]
  /\ id < next_id' /\ next_id <= next_id'
  /\ id < next_id => id \in DOMAIN id_to_call

\* That is what find_or_insert does.
LEMMA FindOrInsertEnters ==
  ASSUME IInv, NEW c, NEW id, FindOrInsert(c, id)
  PROVE  Entered(c, id) /\ next_id \in Nat /\ next_id' \in Nat
<1>0. IdsAreTaken /\ CallsLeadBack
  BY DEF IInv
<1>1. CASE c \in DOMAIN call_to_id
  <2>1. id = call_to_id[c] /\ UNCHANGED connMap
    BY <1>1 DEF FindOrInsert
  <2>2. id \in DOMAIN id_to_call /\ id_to_call[id] = c /\ next_id \in Nat /\ id \in Nat /\ id < next_id
    BY <1>0, <1>1, <2>1 DEF CallsLeadBack, IdsAreTaken
  <2>3. /\ DOMAIN id_to_call' = DOMAIN id_to_call \cup {id}
        /\ DOMAIN call_to_id' = DOMAIN call_to_id \cup {c}
    BY <1>1, <2>1, <2>2 DEF connMap
  <2> QED
    BY <2>1, <2>2, <2>3 DEF Entered, connMap
<1>2. CASE c \notin DOMAIN call_to_id
  <2>1. /\ id = next_id /\ next_id' = next_id + 1
        /\ id_to_call' = With(id_to_call, id, c)
        /\ call_to_id' = With(call_to_id, c, id)
    BY <1>2 DEF FindOrInsert
  <2>2. next_id \in Nat /\ id \notin DOMAIN id_to_call
    BY <1>0, <2>1 DEF IdsAreTaken
  <2> QED
    BY <1>2, <2>1, <2>2 DEF With, Entered
<1> QED
  BY <1>1, <1>2

\* Station c and its number id are forgotten, and nothing else.
Forgotten(c, id) ==
  /\ c \in DOMAIN call_to_id /\ call_to_id[c] = id /\ id \in DOMAIN id_to_call
  /\ DOMAIN id_to_call' = DOMAIN id_to_call \ {id}
  /\ DOMAIN call_to_id' = DOMAIN call_to_id \ {c}
  /\ \A i \in DOMAIN id_to_call' : id_to_call'[i] = id_to_call[i]
  /\ \A b \in DOMAIN call_to_id' : call_to_id'[b] = call_to_id[b]
  /\ next_id' = next_id

\* That is what remove_call does, for what the reader had found.
LEMMA RemoveCallForgets ==
  ASSUME IInv, ReaderKnows, RemoveCall
  PROVE  Forgotten(reader.call, reader.id)
<1>1. reader.call \in DOMAIN call_to_id /\ call_to_id[reader.call] = reader.id
  BY DEF ReaderKnows, RemoveCall
<1>2. reader.id \in DOMAIN id_to_call
  BY <1>1 DEF IInv, CallsLeadBack
<1>3. /\ call_to_id' = Without(call_to_id, {reader.call})
      /\ id_to_call' = Without(id_to_call, {reader.id})
      /\ next_id' = next_id
  BY <1>1 DEF RemoveCall
<1>4. /\ DOMAIN call_to_id' = DOMAIN call_to_id \ {reader.call}
      /\ \A b \in DOMAIN call_to_id \ {reader.call} : call_to_id'[b] = call_to_id[b]
  BY <1>3, WithoutIsRestricted
<1>5. /\ DOMAIN id_to_call' = DOMAIN id_to_call \ {reader.id}
      /\ \A i \in DOMAIN id_to_call \ {reader.id} : id_to_call'[i] = id_to_call[i]
  BY <1>3, WithoutIsRestricted
<1> QED
  BY <1>1, <1>2, <1>3, <1>4, <1>5 DEF Forgotten

-----------------------------------------------------------------------------
(* The TNC's steps: the port's threads, the map and the UI rest.           *)

\* What the links and queues of the other stations have to do with it.
LEMMA RestOfLinks ==
  ASSUME PortUnchanged, NEW c, LinkFits(c), link'[c] = link[c],
         \A h : Newest(fromTnc, h, c) => Newest(fromTnc', h, c),
         Silent(fromTnc, c) => Silent(fromTnc', c),
         Asked(toTnc, c) => Asked(toTnc', c)
  PROVE  LinkFits(c)'
<1>1. UpIsMapped(c)'
  BY DEF LinkFits, UpIsMapped, PortUnchanged, connMap, Removing
<1>2. DownIsForgotten(c)'
  BY DEF LinkFits, DownIsForgotten, PortUnchanged, connMap, Removing, Calling
<1>3. UpIsConnected(c)'
  BY DEF LinkFits, UpIsConnected, PortUnchanged, connMap, Calling
<1> QED
  BY <1>1, <1>2, <1>3 DEF LinkFits

\* A link that is calling says nothing of the map.
LEMMA CallingFits ==
  ASSUME NEW c, link'[c] \notin {"up", "down"}
  PROVE  LinkFits(c)'
  BY DEF LinkFits, UpIsMapped, DownIsForgotten, UpIsConnected

\* Of one that has just come up or gone down, the port is about to hear.
LEMMA ToldFits ==
  ASSUME NEW c, \/ link'[c] = "up" /\ Newest(fromTnc', "C", c)
                \/ link'[c] = "down" /\ Newest(fromTnc', "d", c)
  PROVE  LinkFits(c)'
  BY DEF LinkFits, UpIsMapped, DownIsForgotten, UpIsConnected

\* With the port's threads at rest, only the links matter.
LEMMA RestOfPort ==
  ASSUME PortInv, PortUnchanged, IInv', Typed', LinksFit'
  PROVE  PortInv'
<1>1. CommandKnows' /\ ReaderKnows'
  BY DEF PortInv, PortUnchanged, connMap, CommandKnows, ReaderKnows
<1>2. MappedIsOpen' /\ OpenIsMapped'
  BY DEF PortInv, PortUnchanged, connMap, MappedIsOpen, OpenIsMapped, Open
<1> QED
  BY <1>1, <1>2 DEF PortInv

\* The TNC tells the port what became of a link.
Becomes(c, st, k) ==
  /\ link' = [link EXCEPT ![c] = st]
  /\ Tell(k, c)
  /\ <<st, k>> \in {<<"up", "C">>, <<"down", "d">>}
  /\ PortUnchanged /\ UNCHANGED tcp

\* Nothing else is disturbed, whether or not that was asked for.
LEMMA BecomesFits ==
  ASSUME PortInv, IInv', NEW c \in Call, NEW st, NEW k, Becomes(c, st, k),
         toTnc' \in Seq(Frame), AskedForOthers(toTnc, toTnc', c)
  PROVE  PortInv'
<1>1. /\ k \in {"C", "d"} /\ fromTnc' = Append(fromTnc, [kind |-> k, call |-> c])
      /\ fromTnc \in Seq(Frame)
  BY DEF Becomes, Tell, PortInv, Typed
<1>2. /\ fromTnc' \in Seq(Frame) /\ Newest(fromTnc', k, c)
      /\ SameForOthers(fromTnc, fromTnc', c)
  BY <1>1, FrameAppended
<1>3. link = [b \in Call |-> link[b]]
  BY DEF PortInv, Typed
<1>4. /\ link' = [b \in Call |-> link'[b]] /\ link'[c] = st
      /\ \A b \in Call : b # c => link'[b] = link[b]
  BY <1>3 DEF Becomes
<1>5. Typed'
  BY <1>2, <1>4 DEF PortInv, Typed, Becomes, PortUnchanged, connMap
<1>6. ASSUME tcp' = "up", NEW b \in Call
      PROVE  LinkFits(b)'
  <2>1. CASE b = c
    BY <1>2, <1>4, <2>1, ToldFits DEF Becomes
  <2>2. CASE b # c
    <3>1. LinkFits(b)
      BY <1>6 DEF PortInv, LinksFit, Becomes
    <3> QED
      BY <1>2, <1>4, <2>2, <3>1, RestOfLinks DEF Becomes, SameForOthers, AskedForOthers
  <2> QED
    BY <2>1, <2>2
<1>7. LinksFit'
  BY <1>6 DEF LinksFit
<1> QED
  BY <1>5, <1>7, RestOfPort DEF Becomes

\* A call is placed, whatever the link was.
LEMMA PlaceCallFits ==
  ASSUME PortInv, IInv', NEW c \in Call, PlaceCall(c)
  PROVE  PortInv'
<1>1. /\ toTnc \in Seq(Frame) /\ toTnc # <<>> /\ Head(toTnc) = [kind |-> "C", call |-> c]
      /\ toTnc' = Tail(toTnc)
  BY DEF PortInv, Typed, PlaceCall, Requested
<1>2. /\ toTnc' \in Seq(Frame)
      /\ AskedForOthers(toTnc, toTnc', c)
  BY <1>1, FrameTaken
<1>3. link = [b \in Call |-> link[b]]
  BY DEF PortInv, Typed
<1>4. /\ link' = [b \in Call |-> link'[b]] /\ link'[c] = "calling"
      /\ \A b \in Call : b # c => link'[b] = link[b]
  BY <1>3 DEF PlaceCall
<1>5. PortUnchanged /\ UNCHANGED <<tcp, fromTnc>>
  BY DEF PlaceCall
<1>6. Typed'
  BY <1>2, <1>4, <1>5 DEF PortInv, Typed, PortUnchanged, connMap
<1>7. ASSUME tcp' = "up", NEW b \in Call
      PROVE  LinkFits(b)'
  <2>1. CASE b = c
    BY <1>4, <2>1, CallingFits
  <2>2. CASE b # c
    <3>1. LinkFits(b)
      BY <1>5, <1>7 DEF PortInv, LinksFit
    <3> QED
      BY <1>2, <1>4, <1>5, <2>2, <3>1, RestOfLinks DEF AskedForOthers
  <2> QED
    BY <2>1, <2>2
<1>8. LinksFit'
  BY <1>7 DEF LinksFit
<1> QED
  BY <1>5, <1>6, <1>8, RestOfPort

\* A link is taken down, or was down and stays so.
LEMMA HangUpFits ==
  ASSUME PortInv, IInv', NEW c \in Call, HangUp(c)
  PROVE  PortInv'
<1>1. /\ toTnc \in Seq(Frame) /\ toTnc # <<>> /\ Head(toTnc) = [kind |-> "d", call |-> c]
      /\ toTnc' = Tail(toTnc)
  BY DEF PortInv, Typed, HangUp, Requested
<1>2. /\ toTnc' \in Seq(Frame)
      /\ AskedForOthers(toTnc, toTnc', c) /\ (Asked(toTnc, c) => Asked(toTnc', c))
  BY <1>1, FrameTaken
<1>3. CASE link[c] # "down"
  <2>1. Becomes(c, "down", "d")
    BY <1>3 DEF HangUp, Becomes
  <2> QED
    BY <1>2, <2>1, BecomesFits
<1>4. CASE link[c] = "down"
  <2>1. link = [b \in Call |-> link[b]]
    BY DEF PortInv, Typed
  <2>2. link' = link
    BY <1>4, <2>1 DEF HangUp
  <2>3. PortUnchanged /\ UNCHANGED <<tcp, fromTnc>>
    BY <1>4 DEF HangUp
  <2>4. Typed'
    BY <1>2, <2>2, <2>3 DEF PortInv, Typed, PortUnchanged, connMap
  <2>5. ASSUME tcp' = "up", NEW b \in Call
        PROVE  LinkFits(b)'
    <3>1. LinkFits(b)
      BY <2>3, <2>5 DEF PortInv, LinksFit
    <3> QED
      BY <1>2, <2>2, <2>3, <3>1, RestOfLinks DEF AskedForOthers
  <2>6. LinksFit'
    BY <2>5 DEF LinksFit
  <2> QED
    BY <2>3, <2>4, <2>6, RestOfPort
<1> QED
  BY <1>3, <1>4

\* The other side of the TNC: calls that are answered or fail, stations that
\* connect, links that are lost, and the end of the stream.
LEMMA AirFits ==
  ASSUME PortInv, IInv',
         \/ \E c \in Call : CallAnswered(c) \/ CallFails(c) \/ StationConnects(c) \/ LinkLost(c)
         \/ TncGone
  PROVE  PortInv'
<1>0. toTnc \in Seq(Frame)
  BY DEF PortInv, Typed
<1>1. ASSUME NEW c \in Call, CallAnswered(c) \/ StationConnects(c)
      PROVE  PortInv'
  <2>1. Becomes(c, "up", "C") /\ UNCHANGED toTnc
    BY <1>1 DEF CallAnswered, StationConnects, Becomes
  <2> QED
    BY <1>0, <2>1, BecomesFits DEF AskedForOthers
<1>2. ASSUME NEW c \in Call, CallFails(c) \/ LinkLost(c)
      PROVE  PortInv'
  <2>1. Becomes(c, "down", "d") /\ UNCHANGED toTnc
    BY <1>2 DEF CallFails, LinkLost, Becomes
  <2> QED
    BY <1>0, <2>1, BecomesFits DEF AskedForOthers
<1>3. CASE TncGone
  <2>1. tcp' = "gone" /\ PortUnchanged /\ UNCHANGED <<toTnc, fromTnc, link>>
    BY <1>3 DEF TncGone
  <2>2. Typed' /\ LinksFit'
    BY <2>1 DEF PortInv, Typed, LinksFit, PortUnchanged, connMap
  <2> QED
    BY <2>1, <2>2, RestOfPort
<1> QED
  BY <1>1, <1>2, <1>3

-----------------------------------------------------------------------------
(* The command thread's steps: the reader, the links and what the TNC has  *)
(* said rest.                                                              *)

CommandOnly == UNCHANGED <<reader, tcp, fromTnc, link>>

\* What is left of a link's relation to the map: who calls, and who was told.
LEMMA CommandFits ==
  ASSUME CommandOnly, NEW c, LinkFits(c),
         c \in DOMAIN call_to_id' => c \in DOMAIN call_to_id \/ Calling(c)',
         c \in DOMAIN call_to_id => c \in DOMAIN call_to_id' /\ call_to_id'[c] = call_to_id[c],
         Calling(c) => Calling(c)' \/ Asked(toTnc', c), Asked(toTnc, c) => Asked(toTnc', c),
         c \in DOMAIN call_to_id /\ told[call_to_id[c]] = "Connected" =>
           told'[call_to_id[c]] = "Connected" \/ Calling(c)'
  PROVE  LinkFits(c)'
<1>1. UpIsMapped(c)'
  BY DEF LinkFits, UpIsMapped, CommandOnly, Removing
<1>2. DownIsForgotten(c)'
  BY DEF LinkFits, DownIsForgotten, CommandOnly, Removing
<1>3. UpIsConnected(c)'
  BY DEF LinkFits, UpIsConnected, CommandOnly
<1> QED
  BY <1>1, <1>2, <1>3 DEF LinkFits

\* A connect takes a number for its station, or finds the one it has.
LEMMA OpenConnectionFits ==
  ASSUME PortInv, IInv', OpenConnection
  PROVE  PortInv'
<1>1. PICK c \in Call, id \in Id : FindOrInsert(c, id) /\ command' = Busy("announcing", id, c)
  BY DEF OpenConnection
<1>2. CommandOnly /\ UNCHANGED <<toTnc, told, overtaken>> /\ command.at = "idle"
  BY DEF OpenConnection, CommandOnly, tncVars
<1>3. Entered(c, id) /\ next_id \in Nat /\ next_id' \in Nat
  BY <1>1, FindOrInsertEnters DEF PortInv
<1>4. command'.at = "announcing" /\ command'.id = id /\ command'.call = c
  BY <1>1 DEF Busy
<1>5. Typed'
  BY <1>2, <1>3 DEF PortInv, Typed, Entered, CommandOnly
<1>6. CommandKnows'
  BY <1>1, <1>3, <1>4 DEF CommandKnows, Entered
<1>7. ReaderKnows'
  <2>1. ReaderKnows /\ reader' = reader
    BY <1>2 DEF PortInv, CommandOnly
  <2>2. \A i \in Id : i < next_id => i < next_id' /\ (i \in DOMAIN id_to_call' => i \in DOMAIN id_to_call)
    BY <1>3 DEF Entered, Id
  <2> QED
    BY <1>3, <2>1, <2>2 DEF ReaderKnows, Entered
<1>8. MappedIsOpen'
  BY <1>2, <1>3, <1>4 DEF PortInv, MappedIsOpen, Open, Entered, CommandOnly
<1>9. OpenIsMapped'
  BY <1>2, <1>3 DEF PortInv, OpenIsMapped, Open, Entered, CommandOnly
<1>10. ASSUME tcp' = "up", NEW b \in Call
       PROVE  LinkFits(b)'
  <2>1. LinkFits(b)
    BY <1>2, <1>10 DEF PortInv, LinksFit, CommandOnly
  <2>2. ~Calling(b) /\ (b = c => Calling(b)')
    BY <1>2, <1>4 DEF Calling
  <2>3. b \in DOMAIN call_to_id' => b \in DOMAIN call_to_id \/ b = c
    BY <1>3 DEF Entered
  <2>4. b \in DOMAIN call_to_id => b \in DOMAIN call_to_id' /\ call_to_id'[b] = call_to_id[b]
    BY <1>3 DEF Entered
  <2> QED
    BY <1>2, <2>1, <2>2, <2>3, <2>4, CommandFits
<1>11. LinksFit'
  BY <1>10 DEF LinksFit
<1> QED
  BY <1>5, <1>6, <1>7, <1>8, <1>9, <1>11 DEF PortInv

\* A step that leaves the map alone leaves the reader what it knows.
LEMMA ReaderStillKnows ==
  ASSUME PortInv, UNCHANGED <<reader, connMap>>
  PROVE  ReaderKnows'
  BY DEF PortInv, ReaderKnows, connMap

\* The UI hears that a connection is Connecting, even one that is gone.
LEMMA AnnounceConnectingFits ==
  ASSUME PortInv, IInv', AnnounceConnecting
  PROVE  PortInv'
<1>1. /\ command.at = "announcing" /\ command = Busy("announcing", command.id, command.call)
      /\ command.id \in Id /\ command.id < next_id /\ command.call \in Call
      /\ command.id \in DOMAIN id_to_call => id_to_call[command.id] = command.call
  BY DEF AnnounceConnecting, PortInv, CommandKnows
<1>2. command' = Busy("calling", command.id, command.call)
  BY <1>1 DEF AnnounceConnecting, Busy
<1>3. CommandOnly /\ UNCHANGED <<toTnc, connMap>>
  BY DEF AnnounceConnecting, CommandOnly, tncVars
<1>4. command'.at = "calling" /\ command'.id = command.id /\ command'.call = command.call
  BY <1>2 DEF Busy
<1>5. /\ told' = [id \in Id |-> told'[id]] /\ told'[command.id] = "Connecting"
      /\ \A id \in Id : id # command.id => told'[id] = told[id]
  <2>1. told = [id \in Id |-> told[id]]
    BY DEF PortInv, Typed
  <2> QED
    BY <1>1, <2>1 DEF AnnounceConnecting
<1>6. overtaken' = overtaken \cup ({command.id} \ DOMAIN id_to_call)
  BY DEF AnnounceConnecting
<1>7. Typed'
  BY <1>3, <1>5 DEF PortInv, Typed, CommandOnly, connMap
<1>8. CommandKnows'
  BY <1>1, <1>2, <1>3, <1>4 DEF CommandKnows, connMap
<1>9. ReaderKnows'
  BY <1>3, ReaderStillKnows DEF CommandOnly
<1>10. MappedIsOpen'
  <2>1. \A id \in DOMAIN id_to_call : id \in Id
    BY DEF PortInv, Typed
  <2> QED
    BY <1>1, <1>3, <1>5, <2>1 DEF PortInv, MappedIsOpen, Open, connMap, CommandOnly
<1>11. OpenIsMapped'
  BY <1>3, <1>5, <1>6 DEF PortInv, OpenIsMapped, Open, connMap, CommandOnly
<1>12. ASSUME tcp' = "up", NEW b \in Call
       PROVE  LinkFits(b)'
  <2>1. LinkFits(b) /\ call_to_id' = call_to_id
    BY <1>3, <1>12 DEF PortInv, LinksFit, CommandOnly, connMap
  <2>2. Calling(b) <=> Calling(b)'
    BY <1>1, <1>4 DEF Calling
  <2>3. b \in DOMAIN call_to_id =>
          call_to_id[b] \in Id /\ (call_to_id[b] = command.id => command.call = b)
    BY <1>1 DEF PortInv, IInv, CallsLeadBack, Typed
  <2>4. command.call = b => Calling(b)'
    BY <1>4 DEF Calling
  <2>5. b \in DOMAIN call_to_id /\ told[call_to_id[b]] = "Connected" =>
          told'[call_to_id[b]] = "Connected" \/ Calling(b)'
    BY <1>5, <2>3, <2>4
  <2> QED
    BY <1>3, <2>1, <2>2, <2>5, CommandFits
<1>13. LinksFit'
  BY <1>12 DEF LinksFit
<1> QED
  BY <1>7, <1>8, <1>9, <1>10, <1>11, <1>13 DEF PortInv

\* Any other step of the command thread: the map and the UI rest.
LEMMA CommandRests ==
  ASSUME PortInv, IInv', CommandKnows', toTnc' \in Seq(Frame),
         UNCHANGED <<reader, connMap, fromTnc, link, told, overtaken>>,
         command.at # "announcing", tcp' = "up" => tcp = "up",
         \A b \in Call : Asked(toTnc, b) => Asked(toTnc', b),
         \A b \in Call : tcp' = "up" /\ Calling(b) => Asked(toTnc', b)
  PROVE  PortInv'
<1>1. Typed'
  BY DEF PortInv, Typed, connMap
<1>2. ReaderKnows'
  BY ReaderStillKnows
<1>3. MappedIsOpen' /\ OpenIsMapped'
  BY DEF PortInv, MappedIsOpen, OpenIsMapped, Open, connMap
<1>4. ASSUME tcp' = "up", NEW b \in Call
      PROVE  LinkFits(b)'
  <2>1. LinkFits(b) /\ CommandOnly /\ call_to_id' = call_to_id /\ told' = told
    BY <1>4 DEF PortInv, LinksFit, CommandOnly, connMap
  <2> QED
    BY <1>4, <2>1, CommandFits
<1>5. LinksFit'
  BY <1>4 DEF LinksFit
<1> QED
  BY <1>1, <1>2, <1>3, <1>5 DEF PortInv

\* Writing a request, or losing it on a stream that is gone.
LEMMA WriteAppends ==
  ASSUME PortInv, NEW k \in {"C", "d"}, Write(k), command.call \in Call
  PROVE  /\ toTnc' \in Seq(Frame)
         /\ \A b \in Call : Asked(toTnc, b) => Asked(toTnc', b)
         /\ tcp = "up" /\ k = "C" => Asked(toTnc', command.call)
<1>1. toTnc \in Seq(Frame)
  BY DEF PortInv, Typed
<1>2. CASE tcp = "up"
  <2>1. toTnc' = Append(toTnc, [kind |-> k, call |-> command.call])
    BY <1>2 DEF Write
  <2>2. /\ toTnc' \in Seq(Frame)
        /\ AskedForOthers(toTnc, toTnc', command.call)
        /\ Asked(toTnc, command.call) => Asked(toTnc', command.call)
    BY <1>1, <2>1, FrameAppended
  <2>3. k = "C" => Asked(toTnc', command.call)
    BY <1>1, <2>1, FrameAppended
  <2> QED
    BY <2>2, <2>3 DEF AskedForOthers
<1>3. CASE tcp # "up"
  <2>1. toTnc' = toTnc
    BY <1>3 DEF Write
  <2> QED
    BY <1>1, <1>3, <2>1
<1> QED
  BY <1>2, <1>3

\* All of the command thread.
LEMMA CommandKeeps ==
  ASSUME PortInv, IInv', Command \/ CommandRuns
  PROVE  PortInv'
<1>0. toTnc \in Seq(Frame)
  BY DEF PortInv, Typed
<1>1. CASE OpenConnection
  BY <1>1, OpenConnectionFits
<1>2. CASE AnnounceConnecting
  BY <1>2, AnnounceConnectingFits
<1>3. CASE CloseConnection
  <2>1. PICK id \in DOMAIN id_to_call : command' = Busy("hanging up", id, id_to_call[id])
    BY <1>3 DEF CloseConnection
  <2>2. UNCHANGED <<reader, connMap, tncVars, uiVars>> /\ command.at = "idle"
    BY <1>3 DEF CloseConnection
  <2>3. id \in Id /\ id < next_id /\ id_to_call[id] \in Call
    BY DEF PortInv, Typed, IInv, IdsAreTaken, IdsAreLedTo, CallsLeadBack
  <2>4. CommandKnows'
    BY <2>1, <2>2, <2>3 DEF CommandKnows, Busy, connMap
  <2>5. \A b \in Call : ~Calling(b)
    BY <2>2 DEF Calling
  <2> QED
    BY <1>0, <2>2, <2>4, <2>5, CommandRests DEF tncVars, uiVars
<1>4. CASE WriteCall
  <2>1. /\ command.at = "calling" /\ Write("C")
        /\ command' = At("idle") \/ (tcp # "up" /\ command' = At("closing"))
        /\ UNCHANGED <<reader, connMap, tcp, fromTnc, link, uiVars>>
    BY <1>4 DEF WriteCall
  <2>2. command.call \in Call
    BY <2>1 DEF PortInv, CommandKnows
  <2>3. CommandKnows'
    <3>1. command'.at \in {"idle", "closing"}
      BY <2>1 DEF At
    <3> QED
      BY <3>1 DEF CommandKnows
  <2>4. /\ toTnc' \in Seq(Frame)
        /\ \A b \in Call : Asked(toTnc, b) => Asked(toTnc', b)
        /\ tcp = "up" => Asked(toTnc', command.call)
    BY <2>1, <2>2, WriteAppends
  <2>5. \A b \in Call : tcp' = "up" /\ Calling(b) => Asked(toTnc', b)
    BY <2>1, <2>4 DEF Calling
  <2> QED
    BY <2>1, <2>3, <2>4, <2>5, CommandRests DEF uiVars
<1>5. CASE WriteHangUp
  <2>1. /\ command.at = "hanging up" /\ Write("d") /\ command' = At("idle")
        /\ UNCHANGED <<reader, connMap, tcp, fromTnc, link, uiVars>>
    BY <1>5 DEF WriteHangUp
  <2>2. command.call \in Call
    BY <2>1 DEF PortInv, CommandKnows
  <2>3. CommandKnows'
    <3>1. command'.at \in {"idle", "closing"}
      BY <2>1 DEF At
    <3> QED
      BY <3>1 DEF CommandKnows
  <2>4. /\ toTnc' \in Seq(Frame)
        /\ \A b \in Call : Asked(toTnc, b) => Asked(toTnc', b)
    BY <2>1, <2>2, WriteAppends
  <2>5. \A b \in Call : ~Calling(b)
    BY <2>1 DEF Calling
  <2> QED
    BY <2>1, <2>3, <2>4, <2>5, CommandRests DEF uiVars
<1>6. CASE SendFails \/ Disconnect \/ ShutStream \/ ReportPortDisconnected \/ JoinReader
  <2>1. /\ command.at \in {"idle", "closing", "reporting", "joining"}
        /\ command' \in {At("closing"), At("reporting"), At("joining"), At("stopped")}
        /\ tcp' \in {tcp, "shut"}
        /\ UNCHANGED <<reader, connMap, toTnc, fromTnc, link, uiVars>>
    BY <1>6 DEF SendFails, Disconnect, ShutStream, ReportPortDisconnected, JoinReader, tncVars
  <2>2. CommandKnows'
    <3>1. command'.at \in {"closing", "reporting", "joining", "stopped"}
      BY <2>1 DEF At
    <3> QED
      BY <3>1 DEF CommandKnows
  <2>3. \A b \in Call : ~Calling(b)
    BY <2>1 DEF Calling
  <2> QED
    BY <1>0, <2>1, <2>2, <2>3, CommandRests DEF uiVars
<1> QED
  BY <1>1, <1>2, <1>3, <1>4, <1>5, <1>6 DEF Command, CommandRuns

-----------------------------------------------------------------------------
(* The reader's steps: the command thread, the links and what the TNC is   *)
(* asked rest.                                                             *)

ReaderOnly == UNCHANGED <<command, tcp, toTnc, link, overtaken>>

\* The command thread still knows what it took, or the id is gone.
LEMMA CommandStillKnows ==
  ASSUME PortInv, UNCHANGED command,
         \A i \in Id : i < next_id => i < next_id',
         \A i \in Id : i < next_id /\ i \in DOMAIN id_to_call' =>
           i \in DOMAIN id_to_call /\ id_to_call'[i] = id_to_call[i]
  PROVE  CommandKnows'
<1>1. CommandKnows
  BY DEF PortInv
<1> QED
  BY <1>1 DEF CommandKnows

\* The TNC says that a station is connected, which has a number or is given one.
LEMMA ReadConnectFits ==
  ASSUME PortInv, IInv', NEW c \in Call, ReadConnect(c)
  PROVE  PortInv'
<1>1. PICK id \in Id : FindOrInsert(c, id) /\ reader' = Busy("announcing", id, c)
  BY DEF ReadConnect
<1>2. ReaderOnly /\ UNCHANGED told /\ reader.at = "reading"
  BY DEF ReadConnect, Reads, ReaderOnly, uiVars
<1>3. Entered(c, id) /\ next_id \in Nat /\ next_id' \in Nat
  BY <1>1, FindOrInsertEnters DEF PortInv
<1>4. reader'.at = "announcing" /\ reader'.id = id /\ reader'.call = c
  BY <1>1 DEF Busy
<1>5. /\ fromTnc \in Seq(Frame) /\ fromTnc # <<>> /\ fromTnc' = Tail(fromTnc)
      /\ Head(fromTnc) = [kind |-> "C", call |-> c]
  BY DEF PortInv, Typed, ReadConnect, Reads
<1>6. /\ fromTnc' \in Seq(Frame) /\ ~Silent(fromTnc, c)
      /\ Taken(fromTnc, fromTnc', "C", c) /\ SameForOthers(fromTnc, fromTnc', c)
  BY <1>5, FrameTaken
<1>7. Typed'
  BY <1>2, <1>3, <1>6 DEF PortInv, Typed, Entered, ReaderOnly
<1>8. \A i \in Id : i < next_id => i < next_id' /\ (i \in DOMAIN id_to_call' => i \in DOMAIN id_to_call)
  BY <1>3 DEF Entered, Id
<1>9. CommandKnows'
  <2>1. \A i \in Id : i < next_id /\ i \in DOMAIN id_to_call' =>
          i \in DOMAIN id_to_call /\ id_to_call'[i] = id_to_call[i]
    BY <1>3, <1>8 DEF Entered
  <2> QED
    BY <1>2, <1>8, <2>1, CommandStillKnows DEF ReaderOnly
<1>10. ReaderKnows'
  BY <1>1, <1>3, <1>4 DEF ReaderKnows, Entered
<1>11. MappedIsOpen'
  BY <1>2, <1>3, <1>4 DEF PortInv, MappedIsOpen, Open, Entered, ReaderOnly
<1>12. OpenIsMapped'
  BY <1>2, <1>3 DEF PortInv, OpenIsMapped, Open, Entered, ReaderOnly
<1>13. ASSUME tcp' = "up", NEW b \in Call
       PROVE  LinkFits(b)'
  <2>0. LinkFits(b) /\ link' = link /\ ~Removing(b) /\ ~Removing(b)'
        /\ Calling(b)' = Calling(b) /\ toTnc' = toTnc /\ told' = told
    BY <1>2, <1>4, <1>13 DEF PortInv, LinksFit, ReaderOnly, Removing, Calling
  <2>1. CASE b = c
    <3>1. /\ Newest(fromTnc, "C", c) => Newest(fromTnc', "C", c) \/ Silent(fromTnc', c)
          /\ Newest(fromTnc, "d", c) => Newest(fromTnc', "d", c)
      BY <1>6 DEF Taken
    <3>2. c \in DOMAIN call_to_id'
      BY <1>3 DEF Entered
    <3>3. UpIsMapped(c)'
      BY <1>6, <2>0, <2>1, <3>1, <3>2 DEF LinkFits, UpIsMapped
    <3>4. DownIsForgotten(c)'
      BY <1>6, <2>0, <2>1, <3>1 DEF LinkFits, DownIsForgotten
    <3>5. UpIsConnected(c)'
      BY <1>4 DEF UpIsConnected
    <3> QED
      BY <2>1, <3>3, <3>4, <3>5 DEF LinkFits
  <2>2. CASE b # c
    <3>1. /\ \A h : Newest(fromTnc, h, b) => Newest(fromTnc', h, b)
          /\ Silent(fromTnc, b) => Silent(fromTnc', b)
      BY <1>6, <2>2 DEF SameForOthers
    <3>2. /\ b \in DOMAIN call_to_id' <=> b \in DOMAIN call_to_id
          /\ b \in DOMAIN call_to_id => call_to_id'[b] = call_to_id[b]
      BY <1>3, <2>2 DEF Entered
    <3>3. UpIsMapped(b)'
      BY <2>0, <3>1, <3>2 DEF LinkFits, UpIsMapped
    <3>4. DownIsForgotten(b)'
      BY <2>0, <3>1, <3>2 DEF LinkFits, DownIsForgotten
    <3>5. UpIsConnected(b)'
      BY <1>2, <2>0, <3>1, <3>2 DEF LinkFits, UpIsConnected
    <3> QED
      BY <3>3, <3>4, <3>5 DEF LinkFits
  <2> QED
    BY <2>1, <2>2
<1>14. LinksFit'
  BY <1>13 DEF LinksFit
<1> QED
  BY <1>7, <1>9, <1>10, <1>11, <1>12, <1>14 DEF PortInv

\* The TNC says that a link is down.
LEMMA ReadDisconnectFits ==
  ASSUME PortInv, IInv', NEW c \in Call, ReadDisconnect(c)
  PROVE  PortInv'
<1>1. /\ ReaderOnly /\ UNCHANGED <<connMap, told>> /\ reader.at = "reading"
      /\ reader' = IF c \in DOMAIN call_to_id THEN Busy("removing", call_to_id[c], c) ELSE reader
  BY DEF ReadDisconnect, Reads, ReaderOnly, uiVars
<1>2. /\ fromTnc \in Seq(Frame) /\ fromTnc # <<>> /\ fromTnc' = Tail(fromTnc)
      /\ Head(fromTnc) = [kind |-> "d", call |-> c]
  BY DEF PortInv, Typed, ReadDisconnect, Reads
<1>3. /\ fromTnc' \in Seq(Frame) /\ ~Silent(fromTnc, c)
      /\ Taken(fromTnc, fromTnc', "d", c) /\ SameForOthers(fromTnc, fromTnc', c)
  BY <1>2, FrameTaken
<1>4. Typed'
  BY <1>1, <1>3 DEF PortInv, Typed, connMap, ReaderOnly
<1>5. CommandKnows'
  BY <1>1, CommandStillKnows DEF connMap, ReaderOnly
<1>6. /\ c \in DOMAIN call_to_id => Removing(c)'
      /\ \A b : b # c => ~Removing(b)'
      /\ reader'.at \in {"reading", "removing"}
  BY <1>1 DEF Removing, Busy
<1>7. ReaderKnows'
  <2>1. CASE c \in DOMAIN call_to_id
    <3>1. reader' = Busy("removing", call_to_id[c], c)
      BY <1>1, <2>1
    <3>2. reader'.at = "removing" /\ reader'.id = call_to_id[c] /\ reader'.call = c
      BY <3>1 DEF Busy
    <3>3. call_to_id[c] \in Id /\ call_to_id[c] < next_id
      BY <2>1 DEF PortInv, Typed, IInv, CallsLeadBack, IdsAreTaken
    <3> QED
      BY <1>1, <2>1, <3>1, <3>2, <3>3 DEF ReaderKnows, connMap
  <2>2. CASE c \notin DOMAIN call_to_id
    BY <1>1, <2>2 DEF ReaderKnows
  <2> QED
    BY <2>1, <2>2
<1>8. MappedIsOpen' /\ OpenIsMapped'
  BY <1>1 DEF PortInv, MappedIsOpen, OpenIsMapped, Open, connMap, ReaderOnly
<1>9. ASSUME tcp' = "up", NEW b \in Call
      PROVE  LinkFits(b)'
  <2>0. LinkFits(b) /\ link' = link /\ ~Removing(b)
        /\ Calling(b)' = Calling(b) /\ UNCHANGED <<toTnc, told, call_to_id>>
    BY <1>1, <1>9 DEF PortInv, LinksFit, ReaderOnly, Removing, Calling, connMap
  <2>1. CASE b = c
    <3>1. /\ Newest(fromTnc, "C", c) => Newest(fromTnc', "C", c)
          /\ Newest(fromTnc, "d", c) => Newest(fromTnc', "d", c) \/ Silent(fromTnc', c)
      BY <1>3 DEF Taken
    <3>2. UpIsMapped(c)'
      BY <1>3, <2>0, <2>1, <3>1 DEF LinkFits, UpIsMapped
    <3>3. DownIsForgotten(c)'
      BY <1>3, <1>6, <2>0, <2>1, <3>1 DEF LinkFits, DownIsForgotten
    <3>4. UpIsConnected(c)'
      BY <1>3, <2>0, <2>1, <3>1 DEF LinkFits, UpIsMapped, UpIsConnected
    <3> QED
      BY <2>1, <3>2, <3>3, <3>4 DEF LinkFits
  <2>2. CASE b # c
    <3>1. /\ \A h : Newest(fromTnc, h, b) => Newest(fromTnc', h, b)
          /\ Silent(fromTnc, b) => Silent(fromTnc', b)
      BY <1>3, <2>2 DEF SameForOthers
    <3>2. ~Removing(b)'
      BY <1>6, <2>2
    <3>3. UpIsMapped(b)'
      BY <2>0, <3>1, <3>2 DEF LinkFits, UpIsMapped
    <3>4. DownIsForgotten(b)'
      BY <2>0, <3>1 DEF LinkFits, DownIsForgotten
    <3>5. UpIsConnected(b)'
      BY <1>1, <2>0, <3>1 DEF LinkFits, UpIsConnected
    <3> QED
      BY <3>3, <3>4, <3>5 DEF LinkFits
  <2> QED
    BY <2>1, <2>2
<1>10. LinksFit'
  BY <1>9 DEF LinksFit
<1> QED
  BY <1>4, <1>5, <1>7, <1>8, <1>10 DEF PortInv

\* The UI is told of a connection that is in the map, since only the reader
\* could have removed it.
LEMMA AnnounceConnectedFits ==
  ASSUME PortInv, IInv', AnnounceConnected
  PROVE  PortInv'
<1>1. /\ reader.at = "announcing" /\ reader.id \in Id
      /\ reader.call \in DOMAIN call_to_id /\ call_to_id[reader.call] = reader.id
  BY DEF AnnounceConnected, PortInv, ReaderKnows
<1>2. reader.id \in DOMAIN id_to_call
  BY <1>1 DEF PortInv, IInv, CallsLeadBack
<1>3. ReaderOnly /\ UNCHANGED <<connMap, fromTnc>> /\ reader'.at = "reading"
  BY DEF AnnounceConnected, ReaderOnly, tncVars, At
<1>4. /\ told' = [id \in Id |-> told'[id]] /\ told'[reader.id] = "Connected"
      /\ \A id \in Id : id # reader.id => told'[id] = told[id]
  <2>1. told = [id \in Id |-> told[id]]
    BY DEF PortInv, Typed
  <2> QED
    BY <1>1, <2>1 DEF AnnounceConnected
<1>5. Typed'
  BY <1>3, <1>4 DEF PortInv, Typed, connMap, ReaderOnly
<1>6. CommandKnows'
  BY <1>3, CommandStillKnows DEF connMap, ReaderOnly
<1>7. ReaderKnows'
  BY <1>3 DEF ReaderKnows
<1>8. MappedIsOpen'
  <2>1. \A id \in DOMAIN id_to_call : id \in Id
    BY DEF PortInv, Typed
  <2> QED
    BY <1>1, <1>3, <1>4, <2>1 DEF PortInv, MappedIsOpen, Open, connMap, ReaderOnly
<1>9. OpenIsMapped'
  BY <1>1, <1>2, <1>3, <1>4 DEF PortInv, OpenIsMapped, Open, connMap, ReaderOnly
<1>10. ASSUME tcp' = "up", NEW b \in Call
       PROVE  LinkFits(b)'
  <2>1. LinkFits(b) /\ ~Removing(b) /\ ~Removing(b)' /\ Calling(b)' = Calling(b)
        /\ UNCHANGED <<fromTnc, toTnc, call_to_id, link>>
    BY <1>1, <1>3, <1>10 DEF PortInv, LinksFit, ReaderOnly, Removing, Calling, connMap
  <2>2. b \in DOMAIN call_to_id /\ told[call_to_id[b]] = "Connected" =>
          told'[call_to_id[b]] = "Connected"
    <3>1. b \in DOMAIN call_to_id => call_to_id[b] \in Id
      BY DEF PortInv, IInv, CallsLeadBack, Typed
    <3> QED
      BY <1>4, <3>1
  <2>3. b = reader.call => told'[call_to_id[b]] = "Connected"
    BY <1>1, <1>4
  <2>4. UpIsMapped(b)' /\ DownIsForgotten(b)'
    BY <2>1 DEF LinkFits, UpIsMapped, DownIsForgotten
  <2>5. UpIsConnected(b)'
    BY <2>1, <2>2, <2>3 DEF LinkFits, UpIsConnected
  <2> QED
    BY <2>4, <2>5 DEF LinkFits
<1>11. LinksFit'
  BY <1>10 DEF LinksFit
<1> QED
  BY <1>5, <1>6, <1>7, <1>8, <1>9, <1>11 DEF PortInv

\* What is removed is what the reader had found, and its link is not up unless
\* the TNC has said so since.
LEMMA RemoveCallFits ==
  ASSUME PortInv, IInv', RemoveCall
  PROVE  PortInv'
<1> DEFINE c  == reader.call
           id == reader.id
<1>1. Forgotten(c, id)
  BY RemoveCallForgets DEF PortInv
<1>2. /\ reader.at = "removing" /\ reader = Busy("removing", id, c)
      /\ id \in Id /\ id < next_id
  BY DEF RemoveCall, PortInv, ReaderKnows
<1>3. reader' = Busy("reporting", id, c)
  <2>1. reader' = [reader EXCEPT !.at = "reporting"]
    BY DEF RemoveCall
  <2> QED
    BY <1>2, <2>1 DEF Busy
<1>4. ReaderOnly /\ UNCHANGED <<fromTnc, told>>
  BY DEF RemoveCall, ReaderOnly, tncVars, uiVars
<1>5. Removing(c) /\ \A b : b # c => ~Removing(b)
  BY <1>2 DEF Removing
<1> HIDE DEF c, id
<1>6. reader'.at = "reporting" /\ reader'.id = id /\ reader'.call = c
  BY <1>3 DEF Busy
<1>7. Typed'
  BY <1>1, <1>4 DEF PortInv, Typed, Forgotten, ReaderOnly
<1>8. CommandKnows'
  BY <1>1, <1>4, CommandStillKnows DEF Forgotten, ReaderOnly
<1>9. ReaderKnows'
  BY <1>1, <1>2, <1>3, <1>6 DEF ReaderKnows, Forgotten
<1>10. MappedIsOpen'
  BY <1>1, <1>2, <1>4 DEF PortInv, MappedIsOpen, Open, Forgotten, ReaderOnly
<1>11. OpenIsMapped'
  BY <1>1, <1>2, <1>4, <1>6 DEF PortInv, OpenIsMapped, Open, Forgotten, ReaderOnly
<1>12. ASSUME tcp' = "up", NEW b \in Call
       PROVE  LinkFits(b)'
  <2>0. LinkFits(b) /\ ~Removing(b)' /\ Calling(b)' = Calling(b)
        /\ UNCHANGED <<fromTnc, toTnc, link, told>>
    BY <1>4, <1>6, <1>12 DEF PortInv, LinksFit, ReaderOnly, Removing, Calling
  <2>1. CASE b = c
    <3>1. b \notin DOMAIN call_to_id'
      BY <1>1, <2>1 DEF Forgotten
    <3>2. UpIsMapped(b)' /\ DownIsForgotten(b)' /\ UpIsConnected(b)'
      BY <1>5, <2>0, <2>1, <3>1 DEF LinkFits, UpIsMapped, DownIsForgotten, UpIsConnected
    <3> QED
      BY <3>2 DEF LinkFits
  <2>2. CASE b # c
    <3>1. /\ b \in DOMAIN call_to_id' <=> b \in DOMAIN call_to_id
          /\ b \in DOMAIN call_to_id => call_to_id'[b] = call_to_id[b]
      BY <1>1, <2>2 DEF Forgotten
    <3>2. ~Removing(b)
      BY <1>5, <2>2
    <3>3. UpIsMapped(b)' /\ DownIsForgotten(b)'
      BY <2>0, <3>1, <3>2 DEF LinkFits, UpIsMapped, DownIsForgotten
    <3>4. UpIsConnected(b)'
      BY <1>2, <2>0, <3>1 DEF LinkFits, UpIsConnected
    <3> QED
      BY <3>3, <3>4 DEF LinkFits
  <2> QED
    BY <2>1, <2>2
<1>13. LinksFit'
  BY <1>12 DEF LinksFit
<1> QED
  BY <1>7, <1>8, <1>9, <1>10, <1>11, <1>13 DEF PortInv

\* Its end is told, of a number that is nobody's any more.
LEMMA ReportClosedFits ==
  ASSUME PortInv, IInv', ReportClosed
  PROVE  PortInv'
<1>1. reader.at = "reporting" /\ reader.id \in Id /\ reader.id \notin DOMAIN id_to_call
  BY DEF ReportClosed, PortInv, ReaderKnows
<1>2. ReaderOnly /\ UNCHANGED <<connMap, fromTnc>> /\ reader'.at = "reading"
  BY DEF ReportClosed, ReaderOnly, tncVars, At
<1>3. /\ told' = [id \in Id |-> told'[id]] /\ told'[reader.id] = "closed"
      /\ \A id \in Id : id # reader.id => told'[id] = told[id]
  <2>1. told = [id \in Id |-> told[id]]
    BY DEF PortInv, Typed
  <2> QED
    BY <1>1, <2>1 DEF ReportClosed
<1>4. Typed'
  BY <1>2, <1>3 DEF PortInv, Typed, connMap, ReaderOnly
<1>5. CommandKnows'
  BY <1>2, CommandStillKnows DEF connMap, ReaderOnly
<1>6. ReaderKnows'
  BY <1>2 DEF ReaderKnows
<1>7. \A id \in DOMAIN id_to_call : id \in Id /\ told'[id] = told[id]
  BY <1>1, <1>3 DEF PortInv, Typed
<1>8. MappedIsOpen'
  BY <1>1, <1>2, <1>7 DEF PortInv, MappedIsOpen, Open, connMap, ReaderOnly
<1>9. OpenIsMapped'
  BY <1>1, <1>2, <1>3 DEF PortInv, OpenIsMapped, Open, connMap, ReaderOnly
<1>10. ASSUME tcp' = "up", NEW b \in Call
       PROVE  LinkFits(b)'
  <2>1. LinkFits(b) /\ ~Removing(b) /\ ~Removing(b)' /\ Calling(b)' = Calling(b)
        /\ UNCHANGED <<fromTnc, toTnc, call_to_id, link>>
    BY <1>1, <1>2, <1>10 DEF PortInv, LinksFit, ReaderOnly, Removing, Calling, connMap
  <2>2. b \in DOMAIN call_to_id => told'[call_to_id[b]] = told[call_to_id[b]]
    BY <1>7 DEF PortInv, IInv, CallsLeadBack
  <2>3. UpIsMapped(b)' /\ DownIsForgotten(b)'
    BY <2>1 DEF LinkFits, UpIsMapped, DownIsForgotten
  <2>4. UpIsConnected(b)'
    BY <1>1, <2>1, <2>2 DEF LinkFits, UpIsConnected
  <2> QED
    BY <2>3, <2>4 DEF LinkFits
<1>11. LinksFit'
  BY <1>10 DEF LinksFit
<1> QED
  BY <1>4, <1>5, <1>6, <1>8, <1>9, <1>11 DEF PortInv

\* The stream is at its end.
LEMMA ReadEndsFits ==
  ASSUME PortInv, IInv', ReadEnds
  PROVE  PortInv'
<1>1. /\ reader.at = "reading" /\ tcp # "up" /\ reader'.at = "done"
      /\ UNCHANGED <<command, connMap, tncVars, uiVars>>
  BY DEF ReadEnds, At
<1>2. Typed' /\ CommandKnows' /\ ReaderKnows' /\ LinksFit'
  BY <1>1 DEF PortInv, Typed, CommandKnows, ReaderKnows, LinksFit, connMap, tncVars, uiVars
<1>3. MappedIsOpen' /\ OpenIsMapped'
  BY <1>1 DEF PortInv, MappedIsOpen, OpenIsMapped, Open, connMap, uiVars
<1> QED
  BY <1>2, <1>3 DEF PortInv

-----------------------------------------------------------------------------
\* At first nothing is mapped, linked or under way.
LEMMA InitHasPortInv == Init => PortInv
<1> SUFFICES ASSUME Init PROVE PortInv
  OBVIOUS
<1>1. IInv
  BY InitEstablishes
<1>2. Typed
  BY DEF Init, Typed
<1>3. CommandKnows /\ ReaderKnows
  BY DEF Init, CommandKnows, ReaderKnows, At
<1>4. MappedIsOpen /\ OpenIsMapped
  BY DEF Init, MappedIsOpen, OpenIsMapped, Open
<1>5. ASSUME NEW c \in Call
      PROVE  LinkFits(c)
  <2>1. link[c] = "down" /\ Silent(fromTnc, c) /\ c \notin DOMAIN call_to_id
    BY DEF Init, Silent
  <2> QED
    BY <2>1 DEF LinkFits, UpIsMapped, DownIsForgotten, UpIsConnected
<1>6. LinksFit
  BY <1>5 DEF LinksFit
<1> QED
  BY <1>1, <1>2, <1>3, <1>4, <1>6 DEF PortInv

\* Every step keeps the invariant.
LEMMA StepKeepsPortInv == PortInv /\ [Next]_vars => PortInv'
<1> SUFFICES ASSUME PortInv, [Next]_vars PROVE PortInv'
  OBVIOUS
<1>1. IInv'
  BY StepKeeps DEF PortInv
<1>2. CASE Command \/ CommandRuns
  BY <1>1, <1>2, CommandKeeps
<1>3. CASE ReaderRuns
  BY <1>1, <1>3, ReadConnectFits, ReadDisconnectFits, AnnounceConnectedFits, RemoveCallFits,
     ReportClosedFits, ReadEndsFits DEF ReaderRuns
<1>4. ASSUME NEW c \in Call, Answers(c) \/ StationConnects(c) \/ LinkLost(c)
      PROVE  PortInv'
  BY <1>1, <1>4, PlaceCallFits, HangUpFits, AirFits DEF Answers
<1>5. CASE TncGone
  BY <1>1, <1>5, AirFits
<1>6. CASE UNCHANGED vars
  <2>1. UNCHANGED <<command, reader, connMap, tncVars, uiVars>>
    BY <1>6 DEF vars
  <2>2. Typed' /\ CommandKnows' /\ ReaderKnows'
    BY <2>1 DEF PortInv, Typed, CommandKnows, ReaderKnows, connMap, tncVars, uiVars
  <2>3. MappedIsOpen' /\ OpenIsMapped'
    BY <2>1 DEF PortInv, MappedIsOpen, OpenIsMapped, Open, connMap, uiVars
  <2>4. LinksFit'
    BY <2>1 DEF PortInv, LinksFit, LinkFits, UpIsMapped, DownIsForgotten, UpIsConnected,
                Removing, Calling, connMap, tncVars, uiVars
  <2> QED
    BY <1>1, <2>2, <2>3, <2>4 DEF PortInv
<1> QED
  BY <1>2, <1>3, <1>4, <1>5, <1>6 DEF Next

\* So it always holds.
LEMMA PortInvariance == Spec => []PortInv
<1>1. PortInv /\ [Next]_vars => PortInv'
  BY StepKeepsPortInv
<1> QED
  BY InitHasPortInv, <1>1, PTL DEF Spec

\* With nothing under way, nothing is newest or asked for.
LEMMA QuietIsSilent ==
  ASSUME Quiet, NEW c
  PROVE  /\ \A h : ~Newest(fromTnc, h, c)
         /\ ~Asked(toTnc, c) /\ ~Calling(c) /\ ~Removing(c)
  BY DEF Quiet, Newest, Asked, Calling, Removing

\* Once everything under way between an AGWPE port and its TNC has arrived, the
\* ConnMap has every link that is up, and none that is down (client.rs:227).
THEOREM MapComesToBeTrue == Spec => []QuietMapIsTrue
<1>1. PortInv => QuietMapIsTrue
  <2> SUFFICES ASSUME PortInv, Quiet, NEW c \in Call
               PROVE  /\ link[c] = "up" => c \in DOMAIN call_to_id
                      /\ c \in DOMAIN call_to_id => link[c] # "down"
    BY DEF QuietMapIsTrue
  <2>1. LinkFits(c)
    BY DEF Quiet, PortInv, LinksFit
  <2> QED
    BY <2>1, QuietIsSilent DEF LinkFits, UpIsMapped, DownIsForgotten
<1> QED
  BY <1>1, PortInvariance, PTL

\* And the UI shows as open what is mapped, as connected what is up, and of the
\* rest only what the command thread announced after the reader had removed it
\* (client.rs:119).
THEOREM UiComesToBeTrue == Spec => []QuietUiIsTrue
<1>1. PortInv => QuietUiIsTrue
  <2> SUFFICES ASSUME PortInv, Quiet
               PROVE  QuietUiIsTrue
    BY DEF QuietUiIsTrue
  <2>1. command.at = "idle" /\ reader.at = "reading" /\ tcp = "up"
    BY DEF Quiet
  <2>2. ASSUME NEW id \in DOMAIN id_to_call
        PROVE  Open(id) /\ (link[id_to_call[id]] = "up" => told[id] = "Connected")
    <3>1. PICK c \in DOMAIN call_to_id : call_to_id[c] = id
      BY DEF PortInv, IInv, IdsAreLedTo
    <3>2. c \in Call /\ id_to_call[id] = c
      BY <3>1 DEF PortInv, IInv, CallsLeadBack, Typed
    <3>3. LinkFits(c)
      BY <2>1, <3>2 DEF PortInv, LinksFit
    <3>4. link[c] = "up" => told[id] = "Connected"
      BY <2>1, <3>1, <3>3, QuietIsSilent DEF LinkFits, UpIsConnected
    <3>5. Open(id)
      BY <2>1 DEF PortInv, MappedIsOpen
    <3> QED
      BY <3>2, <3>4, <3>5
  <2>3. ASSUME NEW id \in Id, Open(id)
        PROVE  id \in DOMAIN id_to_call \cup overtaken
    BY <2>1, <2>3 DEF PortInv, OpenIsMapped
  <2> QED
    BY <2>2, <2>3 DEF QuietUiIsTrue
<1> QED
  BY <1>1, PortInvariance, PTL
=============================================================================

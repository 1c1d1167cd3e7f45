---------------------------- MODULE Ports_proofs ----------------------------
(***************************************************************************)
(* Proofs about KernelPort, for any number of connections: the types, that *)
(* every connection the UI takes for connected is reachable, that every    *)
(* socket in the map has a reader, that a stopped port leaves only late    *)
(* links up, and that the port implements PortService.  In the end, what   *)
(* AgwPort_proofs proves of an AGWPE port alone is carried over to MCSpec, *)
(* which takes one kind of port for each behaviour.                        *)
(*                                                                         *)
(* The invariant says whose the connections are that are neither in the    *)
(* map nor ended: the one the command thread opens, or the one the accept  *)
(* thread takes.  The two are never the same, because the UI was told      *)
(* different things of them.                                               *)
(***************************************************************************)
EXTENDS MCPorts, TLAPS

\* An id that was not taken yet is no connection's.
UntakenAreUnused ==
  \A id \in Id :
    id >= next_id => told[id] = "none" /\ link[id] = "none" /\ reader[id] = "none"

\* What the command thread is busy with.
CommandOpensItsOwn ==
  /\ command \in {"connecting", "inserting", "announcing"} =>
       cid \in Id /\ told[cid] = "Connecting" /\ reader[cid] = "none"
  /\ command = "announcing" => cid \in sockets

\* What the accept thread is busy with.
AcceptTakesItsOwn ==
  /\ accept = "telling" => aid \in Id /\ told[aid] = "none" /\ reader[aid] = "none"
  /\ accept \in {"inserting", "spawning"} =>
       aid \in Id /\ told[aid] = "Connected" /\ reader[aid] = "none"

\* A reader goes through its states with the link and the UI.
ReadersFollowLinks ==
  \A id \in Id :
    /\ reader[id] \in {"reading", "removing", "reporting"} => told[id] = "Connected"
    /\ reader[id] \in {"removing", "reporting", "done"} => link[id] = "down"

\* A link that is up is in the map, or on its way into it.
UpIsKept ==
  \A id \in Id :
    link[id] = "up" =>
      \/ id \in sockets
      \/ command = "inserting" /\ cid = id
      \/ accept \in {"telling", "inserting"} /\ aid = id

\* Once the sockets are shut down, only late links are up, or will be.
UpIsLate ==
  command \in Closing \ {"closing"} =>
    \A id \in Id :
      link[id] = "up" => id \in late \/ (accept \in {"telling", "inserting"} /\ aid = id)

\* The accept thread is joined before the port is reported down.
AcceptIsJoined ==
  command \in {"reporting", "joining readers", "stopped"} => accept = "done"

\* Who has which connection.
Own == UntakenAreUnused /\ CommandOpensItsOwn /\ AcceptTakesItsOwn /\ ReadersFollowLinks

\* What the map has.
Kept == SocketsHaveReaders /\ UpIsKept

\* What a port that goes down leaves.
Ending == UpIsLate /\ AcceptIsJoined

IInv == TypeOK /\ Own /\ Kept /\ Ending

USE KernelPortAssumption
    DEF Id, UntakenAreUnused, CommandOpensItsOwn, AcceptTakesItsOwn, ReadersFollowLinks,
        SocketsHaveReaders, UpIsKept, UpIsLate, AcceptIsJoined

-----------------------------------------------------------------------------
\* At first no id is taken and no thread has anything.
LEMMA InitEstablishes == Init => IInv
  BY DEF Init, IInv, TypeOK, Own, Kept, Ending, Closing

\* Accept, of the connection it takes.
AcceptAs(id) ==
  /\ accept = "listening" /\ Listening /\ TakeId(id)
  /\ link' = [link EXCEPT ![id] = "up"]
  /\ late' = late \/ late' = late \cup {id}
  /\ command \in Closing \ {"closing"} => late' = late \cup {id}
  /\ aid' = id /\ accept' = "telling"
  /\ CommandUnchanged /\ UNCHANGED <<reader, sockets, unread, told>>

\* Every step of every thread keeps the types.
LEMMA TypesAreKept == IInv /\ [Next]_vars => TypeOK'
<1> SUFFICES ASSUME IInv, [Next]_vars PROVE TypeOK'
  OBVIOUS
<1>0. TypeOK /\ Own
  BY DEF IInv
<1> USE DEF TypeOK, AcceptUnchanged, CommandUnchanged, ThreadsUnchanged, TakeId
<1>1. CASE OpenConnection
  BY <1>0, <1>1 DEF OpenConnection
<1>2. ASSUME NEW id \in Id, Send(id) PROVE TypeOK'
  BY <1>0, <1>2 DEF Send
<1>3. ASSUME NEW id \in Id, CloseConnection(id) PROVE TypeOK'
  BY <1>0, <1>3 DEF CloseConnection
<1>4. CASE Disconnect
  BY <1>0, <1>4 DEF Disconnect, Closing
<1>5. CASE ConnectFails
  BY <1>0, <1>5 DEF ConnectFails
<1>6. CASE ConnectsUnread
  BY <1>0, <1>6 DEF ConnectsUnread, Own
<1>7. CASE ConnectSucceeds
  BY <1>0, <1>7 DEF ConnectSucceeds
<1>8. CASE InsertSocket
  BY <1>0, <1>8 DEF InsertSocket, Own
<1>9. CASE AnnounceAndRead
  BY <1>0, <1>9 DEF AnnounceAndRead, Own
<1>10. CASE WriteReturns
  BY <1>0, <1>10 DEF WriteReturns
<1>11. CASE ShutSockets
  BY <1>0, <1>11 DEF ShutSockets, Closing
<1>12. CASE StopListening
  BY <1>0, <1>12 DEF StopListening, Closing
<1>13. CASE JoinAccept
  BY <1>0, <1>13 DEF JoinAccept, Closing
<1>14. CASE ReportPortDisconnected
  BY <1>0, <1>14 DEF ReportPortDisconnected, Closing
<1>15. CASE JoinReaders
  BY <1>0, <1>15 DEF JoinReaders, Closing
<1>16. CASE Accept
  <2>1. PICK id \in Id : AcceptAs(id)
    BY <1>16 DEF Accept, AcceptAs
  <2>2. late \subseteq 1..(next_id' - 1) /\ id \in 1..(next_id' - 1)
    BY <1>0, <2>1 DEF AcceptAs
  <2>3. late' \in SUBSET (1..(next_id' - 1))
    BY <2>1, <2>2 DEF AcceptAs
  <2>4. QED
    BY <1>0, <2>1, <2>3 DEF AcceptAs
<1>17. CASE AcceptEnds
  BY <1>0, <1>17 DEF AcceptEnds
<1>18. CASE TellAccepted
  BY <1>0, <1>18 DEF TellAccepted
<1>19. CASE AcceptsUnread
  <2>1. aid \in 1..(next_id - 1)
    BY <1>0, <1>19 DEF AcceptsUnread, Own
  <2>2. QED
    BY <1>0, <1>19, <2>1 DEF AcceptsUnread
<1>20. CASE InsertAccepted
  <2>1. aid \in 1..(next_id - 1)
    BY <1>0, <1>20 DEF InsertAccepted, Own
  <2>2. late' = late \/ late' = late \cup {aid}
    BY <1>20 DEF InsertAccepted
  <2>3. late' \in SUBSET (1..(next_id - 1)) /\ sockets' \in SUBSET (1..(next_id - 1))
    BY <1>0, <1>20, <2>1, <2>2 DEF InsertAccepted
  <2>4. QED
    BY <1>0, <1>20, <2>3 DEF InsertAccepted
<1>21. CASE ReadAccepted
  BY <1>0, <1>21 DEF ReadAccepted
<1>22. ASSUME NEW id \in Id, HangUp(id) PROVE TypeOK'
  BY <1>0, <1>22 DEF HangUp
<1>23. ASSUME NEW id \in Id, ReadEnds(id) PROVE TypeOK'
  BY <1>0, <1>23 DEF ReadEnds
<1>24. ASSUME NEW id \in Id, RemoveSocket(id) PROVE TypeOK'
  BY <1>0, <1>24 DEF RemoveSocket
<1>25. ASSUME NEW id \in Id, ReportClosed(id) PROVE TypeOK'
  BY <1>0, <1>25 DEF ReportClosed
<1>26. CASE UNCHANGED vars
  BY <1>0, <1>26 DEF vars
<1>27. QED
  BY <1>1, <1>2, <1>3, <1>4, <1>5, <1>6, <1>7, <1>8, <1>9, <1>10, <1>11, <1>12, <1>13,
     <1>14, <1>15, <1>16, <1>17, <1>18, <1>19, <1>20, <1>21, <1>22, <1>23, <1>24, <1>25, <1>26
     DEF Next, Command, CommandRuns, AcceptRuns, ReaderRuns

\* The command thread touches only the connection it opens or closes.
LEMMA CommandKeepsRest ==
  ASSUME IInv, Command \/ CommandRuns
  PROVE  Own' /\ Kept' /\ Ending'
<1>0. /\ reader \in [Id -> {"none", "reading", "removing", "reporting", "done"}]
      /\ link \in [Id -> {"none", "calling", "up", "down"}]
      /\ told \in [Id -> {"none", "Connecting", "Connected", "closed"}]
      /\ next_id \in Nat /\ cid \in 0..(next_id - 1) /\ aid \in 0..(next_id - 1)
      /\ sockets \subseteq 1..(next_id - 1)
      /\ Own /\ Kept /\ Ending
  BY DEF IInv, TypeOK
<1>1. CASE OpenConnection
  <2>1. Own'
    BY <1>0, <1>1 DEF OpenConnection, Own, AcceptUnchanged, TakeId
  <2>2. Kept'
    BY <1>0, <1>1 DEF OpenConnection, Own, Kept, AcceptUnchanged, TakeId
  <2>3. Ending'
    BY <1>0, <1>1 DEF OpenConnection, Ending, Closing, AcceptUnchanged, TakeId
  <2>4. QED
    BY <2>1, <2>2, <2>3
<1>2. ASSUME NEW id \in Id, Send(id) PROVE Own' /\ Kept' /\ Ending'
  <2>1. Own'
    BY <1>0, <1>2 DEF Send, Own, AcceptUnchanged, TakeId
  <2>2. Kept'
    BY <1>0, <1>2 DEF Send, Own, Kept, AcceptUnchanged, TakeId
  <2>3. Ending'
    BY <1>0, <1>2 DEF Send, Ending, Closing, AcceptUnchanged, TakeId
  <2>4. QED
    BY <2>1, <2>2, <2>3
<1>3. ASSUME NEW id \in Id, CloseConnection(id) PROVE Own' /\ Kept' /\ Ending'
  <2>1. Own'
    BY <1>0, <1>3 DEF CloseConnection, Own, AcceptUnchanged, TakeId
  <2>2. Kept'
    BY <1>0, <1>3 DEF CloseConnection, Own, Kept, AcceptUnchanged, TakeId
  <2>3. Ending'
    BY <1>0, <1>3 DEF CloseConnection, Ending, Closing, AcceptUnchanged, TakeId
  <2>4. QED
    BY <2>1, <2>2, <2>3
<1>4. CASE Disconnect
  <2>1. Own'
    BY <1>0, <1>4 DEF Disconnect, Own, AcceptUnchanged, TakeId
  <2>2. Kept'
    BY <1>0, <1>4 DEF Disconnect, Own, Kept, AcceptUnchanged, TakeId
  <2>3. Ending'
    BY <1>0, <1>4 DEF Disconnect, Ending, Closing, AcceptUnchanged, TakeId
  <2>4. QED
    BY <2>1, <2>2, <2>3
<1>5. CASE ConnectFails
  <2>1. Own'
    BY <1>0, <1>5 DEF ConnectFails, Own, AcceptUnchanged, TakeId
  <2>2. Kept'
    BY <1>0, <1>5 DEF ConnectFails, Own, Kept, AcceptUnchanged, TakeId
  <2>3. Ending'
    BY <1>0, <1>5 DEF ConnectFails, Ending, Closing, AcceptUnchanged, TakeId
  <2>4. QED
    BY <2>1, <2>2, <2>3
<1>6. CASE ConnectsUnread
  <2>1. Own'
    BY <1>0, <1>6 DEF ConnectsUnread, Own, AcceptUnchanged, TakeId
  <2>2. Kept'
    BY <1>0, <1>6 DEF ConnectsUnread, Own, Kept, AcceptUnchanged, TakeId
  <2>3. Ending'
    BY <1>0, <1>6 DEF ConnectsUnread, Ending, Closing, AcceptUnchanged, TakeId
  <2>4. QED
    BY <2>1, <2>2, <2>3
<1>7. CASE ConnectSucceeds
  <2>1. Own'
    BY <1>0, <1>7 DEF ConnectSucceeds, Own, AcceptUnchanged, TakeId
  <2>2. Kept'
    BY <1>0, <1>7 DEF ConnectSucceeds, Own, Kept, AcceptUnchanged, TakeId
  <2>3. Ending'
    BY <1>0, <1>7 DEF ConnectSucceeds, Ending, Closing, AcceptUnchanged, TakeId
  <2>4. QED
    BY <2>1, <2>2, <2>3
<1>8. CASE InsertSocket
  <2>1. Own'
    BY <1>0, <1>8 DEF InsertSocket, Own, AcceptUnchanged, TakeId
  <2>2. Kept'
    BY <1>0, <1>8 DEF InsertSocket, Own, Kept, AcceptUnchanged, TakeId
  <2>3. Ending'
    BY <1>0, <1>8 DEF InsertSocket, Ending, Closing, AcceptUnchanged, TakeId
  <2>4. QED
    BY <2>1, <2>2, <2>3
<1>9. CASE AnnounceAndRead
  <2>1. Own'
    BY <1>0, <1>9 DEF AnnounceAndRead, Own, AcceptUnchanged, TakeId
  <2>2. Kept'
    BY <1>0, <1>9 DEF AnnounceAndRead, Own, Kept, AcceptUnchanged, TakeId
  <2>3. Ending'
    BY <1>0, <1>9 DEF AnnounceAndRead, Ending, Closing, AcceptUnchanged, TakeId
  <2>4. QED
    BY <2>1, <2>2, <2>3
<1>10. CASE WriteReturns
  <2>1. Own'
    BY <1>0, <1>10 DEF WriteReturns, Own, AcceptUnchanged, TakeId
  <2>2. Kept'
    BY <1>0, <1>10 DEF WriteReturns, Own, Kept, AcceptUnchanged, TakeId
  <2>3. Ending'
    BY <1>0, <1>10 DEF WriteReturns, Ending, Closing, AcceptUnchanged, TakeId
  <2>4. QED
    BY <2>1, <2>2, <2>3
<1>11. CASE ShutSockets
  <2>1. Own'
    BY <1>0, <1>11 DEF ShutSockets, Own, AcceptUnchanged, TakeId
  <2>2. Kept'
    BY <1>0, <1>11 DEF ShutSockets, Own, Kept, AcceptUnchanged, TakeId
  <2>3. Ending'
    BY <1>0, <1>11 DEF ShutSockets, Kept, Ending, Closing, AcceptUnchanged, TakeId
  <2>4. QED
    BY <2>1, <2>2, <2>3
<1>12. CASE StopListening
  <2>1. Own'
    BY <1>0, <1>12 DEF StopListening, Own, AcceptUnchanged, TakeId
  <2>2. Kept'
    BY <1>0, <1>12 DEF StopListening, Own, Kept, AcceptUnchanged, TakeId
  <2>3. Ending'
    BY <1>0, <1>12 DEF StopListening, Ending, Closing, AcceptUnchanged, TakeId
  <2>4. QED
    BY <2>1, <2>2, <2>3
<1>13. CASE JoinAccept
  <2>1. Own'
    BY <1>0, <1>13 DEF JoinAccept, Own, AcceptUnchanged, TakeId
  <2>2. Kept'
    BY <1>0, <1>13 DEF JoinAccept, Own, Kept, AcceptUnchanged, TakeId
  <2>3. Ending'
    BY <1>0, <1>13 DEF JoinAccept, Ending, Closing, AcceptUnchanged, TakeId
  <2>4. QED
    BY <2>1, <2>2, <2>3
<1>14. CASE ReportPortDisconnected
  <2>1. Own'
    BY <1>0, <1>14 DEF ReportPortDisconnected, Own, AcceptUnchanged, TakeId
  <2>2. Kept'
    BY <1>0, <1>14 DEF ReportPortDisconnected, Own, Kept, AcceptUnchanged, TakeId
  <2>3. Ending'
    BY <1>0, <1>14 DEF ReportPortDisconnected, Ending, Closing, AcceptUnchanged, TakeId
  <2>4. QED
    BY <2>1, <2>2, <2>3
<1>15. CASE JoinReaders
  <2>1. Own'
    BY <1>0, <1>15 DEF JoinReaders, Own, AcceptUnchanged, TakeId
  <2>2. Kept'
    BY <1>0, <1>15 DEF JoinReaders, Own, Kept, AcceptUnchanged, TakeId
  <2>3. Ending'
    BY <1>0, <1>15 DEF JoinReaders, Ending, Closing, AcceptUnchanged, TakeId
  <2>4. QED
    BY <2>1, <2>2, <2>3
<1>16. QED
  BY <1>1, <1>2, <1>3, <1>4, <1>5, <1>6, <1>7, <1>8, <1>9, <1>10, <1>11, <1>12,
     <1>13, <1>14, <1>15 DEF Command, CommandRuns

\* The accept thread touches only the connection it takes.
LEMMA AcceptKeepsRest ==
  ASSUME IInv, Accept \/ AcceptEnds \/ AcceptRuns
  PROVE  Own' /\ Kept' /\ Ending'
<1>0. /\ reader \in [Id -> {"none", "reading", "removing", "reporting", "done"}]
      /\ link \in [Id -> {"none", "calling", "up", "down"}]
      /\ told \in [Id -> {"none", "Connecting", "Connected", "closed"}]
      /\ next_id \in Nat /\ cid \in 0..(next_id - 1) /\ aid \in 0..(next_id - 1)
      /\ sockets \subseteq 1..(next_id - 1)
      /\ Own /\ Kept /\ Ending
  BY DEF IInv, TypeOK
<1>1. CASE Accept
  <2>1. PICK id \in Id : AcceptAs(id)
    BY <1>1 DEF Accept, AcceptAs
  <2>2. Own'
    BY <1>0, <2>1 DEF AcceptAs, Own, CommandUnchanged, TakeId
  <2>3. Kept'
    BY <1>0, <2>1 DEF AcceptAs, Own, Kept, CommandUnchanged, TakeId
  <2>4. Ending'
    BY <1>0, <2>1 DEF AcceptAs, Ending, Closing, CommandUnchanged, TakeId
  <2>5. QED
    BY <2>2, <2>3, <2>4
<1>2. CASE AcceptEnds
  <2>1. Own'
    BY <1>0, <1>2 DEF AcceptEnds, Own, CommandUnchanged, TakeId
  <2>2. Kept'
    BY <1>0, <1>2 DEF AcceptEnds, Own, Kept, CommandUnchanged, TakeId
  <2>3. Ending'
    BY <1>0, <1>2 DEF AcceptEnds, Ending, Closing, CommandUnchanged, TakeId
  <2>4. QED
    BY <2>1, <2>2, <2>3
<1>3. CASE TellAccepted
  <2>1. Own'
    BY <1>0, <1>3 DEF TellAccepted, Own, CommandUnchanged, TakeId
  <2>2. Kept'
    BY <1>0, <1>3 DEF TellAccepted, Own, Kept, CommandUnchanged, TakeId
  <2>3. Ending'
    BY <1>0, <1>3 DEF TellAccepted, Ending, Closing, CommandUnchanged, TakeId
  <2>4. QED
    BY <2>1, <2>2, <2>3
<1>4. CASE AcceptsUnread
  <2>1. Own'
    BY <1>0, <1>4 DEF AcceptsUnread, Own, CommandUnchanged, TakeId
  <2>2. Kept'
    BY <1>0, <1>4 DEF AcceptsUnread, Own, Kept, CommandUnchanged, TakeId
  <2>3. Ending'
    BY <1>0, <1>4 DEF AcceptsUnread, Ending, Closing, CommandUnchanged, TakeId
  <2>4. QED
    BY <2>1, <2>2, <2>3
<1>5. CASE InsertAccepted
  <2>1. Own'
    BY <1>0, <1>5 DEF InsertAccepted, Own, CommandUnchanged, TakeId
  <2>2. Kept'
    BY <1>0, <1>5 DEF InsertAccepted, Own, Kept, CommandUnchanged, TakeId
  <2>3. Ending'
    BY <1>0, <1>5 DEF InsertAccepted, Ending, Closing, CommandUnchanged, TakeId
  <2>4. QED
    BY <2>1, <2>2, <2>3
<1>6. CASE ReadAccepted
  <2>1. Own'
    BY <1>0, <1>6 DEF ReadAccepted, Own, CommandUnchanged, TakeId
  <2>2. Kept'
    BY <1>0, <1>6 DEF ReadAccepted, Own, Kept, CommandUnchanged, TakeId
  <2>3. Ending'
    BY <1>0, <1>6 DEF ReadAccepted, Ending, Closing, CommandUnchanged, TakeId
  <2>4. QED
    BY <2>1, <2>2, <2>3
<1>7. QED
  BY <1>1, <1>2, <1>3, <1>4, <1>5, <1>6 DEF AcceptRuns

\* A link that ends, and its reader, touch only that connection.
LEMMA ReadersKeepRest ==
  ASSUME IInv, \E id \in Id : HangUp(id) \/ ReaderRuns(id)
  PROVE  Own' /\ Kept' /\ Ending'
<1>0. /\ reader \in [Id -> {"none", "reading", "removing", "reporting", "done"}]
      /\ link \in [Id -> {"none", "calling", "up", "down"}]
      /\ told \in [Id -> {"none", "Connecting", "Connected", "closed"}]
      /\ next_id \in Nat /\ cid \in 0..(next_id - 1) /\ aid \in 0..(next_id - 1)
      /\ sockets \subseteq 1..(next_id - 1)
      /\ Own /\ Kept /\ Ending
  BY DEF IInv, TypeOK
<1>1. ASSUME NEW id \in Id, HangUp(id) PROVE Own' /\ Kept' /\ Ending'
  <2>1. Own'
    BY <1>0, <1>1 DEF HangUp, Own, ThreadsUnchanged
  <2>2. Kept'
    BY <1>0, <1>1 DEF HangUp, Own, Kept, ThreadsUnchanged
  <2>3. Ending'
    BY <1>0, <1>1 DEF HangUp, Ending, Closing, ThreadsUnchanged
  <2>4. QED
    BY <2>1, <2>2, <2>3
<1>2. ASSUME NEW id \in Id, ReadEnds(id) PROVE Own' /\ Kept' /\ Ending'
  <2>1. Own'
    BY <1>0, <1>2 DEF ReadEnds, Own, ThreadsUnchanged
  <2>2. Kept'
    BY <1>0, <1>2 DEF ReadEnds, Own, Kept, ThreadsUnchanged
  <2>3. Ending'
    BY <1>0, <1>2 DEF ReadEnds, Ending, Closing, ThreadsUnchanged
  <2>4. QED
    BY <2>1, <2>2, <2>3
<1>3. ASSUME NEW id \in Id, RemoveSocket(id) PROVE Own' /\ Kept' /\ Ending'
  <2>1. Own'
    BY <1>0, <1>3 DEF RemoveSocket, Own, ThreadsUnchanged
  <2>2. Kept'
    BY <1>0, <1>3 DEF RemoveSocket, Own, Kept, ThreadsUnchanged
  <2>3. Ending'
    BY <1>0, <1>3 DEF RemoveSocket, Ending, Closing, ThreadsUnchanged
  <2>4. QED
    BY <2>1, <2>2, <2>3
<1>4. ASSUME NEW id \in Id, ReportClosed(id) PROVE Own' /\ Kept' /\ Ending'
  <2>1. Own'
    BY <1>0, <1>4 DEF ReportClosed, Own, ThreadsUnchanged
  <2>2. Kept'
    BY <1>0, <1>4 DEF ReportClosed, Own, Kept, ThreadsUnchanged
  <2>3. Ending'
    BY <1>0, <1>4 DEF ReportClosed, Ending, Closing, ThreadsUnchanged
  <2>4. QED
    BY <2>1, <2>2, <2>3
<1>5. QED
  BY <1>1, <1>2, <1>3, <1>4 DEF ReaderRuns

\* So every step keeps the invariant.
LEMMA InvIsInductive == IInv /\ [Next]_vars => IInv'
<1> SUFFICES ASSUME IInv, [Next]_vars PROVE IInv'
  OBVIOUS
<1>1. TypeOK'
  BY TypesAreKept
<1>2. CASE Command \/ CommandRuns
  BY <1>1, <1>2, CommandKeepsRest DEF IInv
<1>3. CASE Accept \/ AcceptEnds \/ AcceptRuns
  BY <1>1, <1>3, AcceptKeepsRest DEF IInv
<1>4. CASE \E id \in Id : HangUp(id) \/ ReaderRuns(id)
  BY <1>1, <1>4, ReadersKeepRest DEF IInv
<1>5. CASE UNCHANGED vars
  BY <1>5 DEF vars, IInv, TypeOK, Own, Kept, Ending
<1>6. QED
  BY <1>2, <1>3, <1>4, <1>5 DEF Next

\* It holds of every reachable state.
LEMMA InvHolds == Spec => []IInv
<1>1. Init => IInv
  BY InitEstablishes
<1>2. IInv /\ [Next]_vars => IInv'
  BY InvIsInductive
<1>3. QED
  BY <1>1, <1>2, PTL DEF Spec

-----------------------------------------------------------------------------
(* What follows.                                                           *)

\* Every variable keeps its type (runner.rs:27).
THEOREM TypeCorrect == Spec => []TypeOK
<1>1. IInv => TypeOK
  BY DEF IInv
<1>2. QED
  BY <1>1, InvHolds, PTL

\* Send and CloseConnection find every connection that the UI takes for
\* connected and that is, but for accept_loop's gap (runner.rs:203-208).
THEOREM EveryConnectionIsReachable == Spec => []ConnectedIsReachable
<1>1. IInv => ConnectedIsReachable
  BY DEF IInv, Own, Kept, ConnectedIsReachable
<1>2. QED
  BY <1>1, InvHolds, PTL

\* The socket map leaks nothing (runner.rs:229).
THEOREM EverySocketHasAReader == Spec => []SocketsHaveReaders
<1>1. IInv => SocketsHaveReaders
  BY DEF IInv, Kept
<1>2. QED
  BY <1>1, InvHolds, PTL

\* A port that has stopped leaves no link up but the late ones
\* (runner.rs:157).
THEOREM NoOtherLinkSurvives == Spec => []OnlyLateLinksSurvive
<1>1. IInv => OnlyLateLinksSurvive
  BY DEF IInv, Ending, Closing, OnlyLateLinksSurvive
<1>2. QED
  BY <1>1, InvHolds, PTL

-----------------------------------------------------------------------------
(* The port implements PortService.                                        *)

\* A port that starts has told nothing.
LEMMA InitRefines == Init => Port!Init
  BY DEF Init, Port!Init, Port!Id

\* The port has said that it is down.
Over == command \in {"joining readers", "stopped"}

\* A step that reports no news of a connection, and not the end of the port.
Silent ==
  /\ told' = told
  /\ Over' <=> Over

\* Equivalent is equal, of the one Boolean the refinement maps.
LEMMA SameOver == ASSUME Over' <=> Over PROVE Over' = Over
<1> DEFINE S == {"joining readers", "stopped"}
<1>1. command' \in S <=> command \in S
  BY DEF Over
<1> HIDE DEF S
<1>2. (command' \in S) = (command \in S)
  BY <1>1
<1> USE DEF S
<1>3. QED
  BY <1>2, Zenon DEF Over

\* A step that reports nothing is none of PortService.
LEMMA SilentStepsStutter == Silent => UNCHANGED Port!vars
<1>1. Silent => Over' = Over /\ told' = told
  BY SameOver DEF Silent
<1>2. QED
  BY <1>1, Zenon DEF Over, Port!vars

\* The reports that the threads of this port make, in their order.
LEMMA Follows ==
  /\ "Connecting" \in Port!MayFollow["none"] /\ "Connected" \in Port!MayFollow["none"]
  /\ "Connected" \in Port!MayFollow["Connecting"] /\ "closed" \in Port!MayFollow["Connecting"]
  /\ "closed" \in Port!MayFollow["Connected"]
  BY DEF Port!MayFollow

\* A step that reports what may follow of a connection.
LEMMA ReportsAreAllowed ==
  ASSUME NEW id \in Id, NEW next \in Port!MayFollow[told[id]],
         told' = [told EXCEPT ![id] = next],
         Over => next = "closed",
         Over' <=> Over
  PROVE  Port!Next
<1>1. Over' = Over
  BY SameOver
<1>2. Port!Report(id)
  BY <1>1, Zenon DEF Over, Port!Report
<1>3. QED
  BY <1>2 DEF Port!Next, Port!Id

\* Every step reports what PortService allows, or nothing.
LEMMA StepRefines == IInv /\ [Next]_vars => [Port!Next]_(Port!vars)
<1> SUFFICES ASSUME IInv, [Next]_vars PROVE Port!Next \/ UNCHANGED Port!vars
  OBVIOUS
<1>0. Own /\ AcceptIsJoined
  BY DEF IInv, Ending
<1>t. next_id \in Nat /\ told \in [Id -> {"none", "Connecting", "Connected", "closed"}]
  BY DEF IInv, TypeOK
<1>1. CASE OpenConnection
  <2>1. PICK id \in Id : id = next_id /\ told' = [told EXCEPT ![id] = "Connecting"]
    BY <1>1 DEF OpenConnection, TakeId
  <2>2. told[id] = "none"
    <3>1. id >= next_id
      BY <1>t, <2>1
    <3>2. QED
      BY <1>0, <3>1 DEF Own
  <2>3. ~Over /\ ~Over'
    BY <1>1 DEF OpenConnection, Over
  <2>4. QED
    BY <2>1, <2>2, <2>3, ReportsAreAllowed, Follows
<1>2. CASE ConnectFails
  <2>1. cid \in Id /\ told[cid] = "Connecting" /\ told' = [told EXCEPT ![cid] = "closed"]
    BY <1>0, <1>2 DEF ConnectFails, Own
  <2>2. ~Over /\ ~Over'
    BY <1>2 DEF ConnectFails, Over
  <2>3. QED
    BY <2>1, <2>2, ReportsAreAllowed, Follows
<1>3. CASE AnnounceAndRead
  <2>1. cid \in Id /\ told[cid] = "Connecting" /\ told' = [told EXCEPT ![cid] = "Connected"]
    BY <1>0, <1>3 DEF AnnounceAndRead, Own
  <2>2. ~Over /\ ~Over'
    BY <1>3 DEF AnnounceAndRead, Over
  <2>3. QED
    BY <2>1, <2>2, ReportsAreAllowed, Follows
<1>4. CASE TellAccepted
  <2>1. aid \in Id /\ told[aid] = "none" /\ told' = [told EXCEPT ![aid] = "Connected"]
    BY <1>0, <1>4 DEF TellAccepted, Own
  <2>2. ~Over /\ ~Over'
    BY <1>0, <1>4 DEF TellAccepted, CommandUnchanged, Over
  <2>3. QED
    BY <2>1, <2>2, ReportsAreAllowed, Follows
<1>5. ASSUME NEW id \in Id, ReportClosed(id) PROVE Port!Next
  <2>1. told[id] = "Connected" /\ told' = [told EXCEPT ![id] = "closed"] /\ (Over' <=> Over)
    BY <1>0, <1>5 DEF ReportClosed, ThreadsUnchanged, Own, Over
  <2>2. QED
    BY <2>1, ReportsAreAllowed, Follows
<1>6. CASE ReportPortDisconnected
  <2>1. told' = [id \in Id |-> IF id \in {} THEN "Disconnecting" ELSE told[id]]
    BY <1>t, <1>6 DEF ReportPortDisconnected
  <2>2. {} \in SUBSET {id \in Id : told[id] \in Port!Open}
    OBVIOUS
  <2>3. command = "reporting" /\ command' = "joining readers"
    BY <1>6 DEF ReportPortDisconnected
  <2>4. Port!GoDown
    BY <2>1, <2>2, <2>3 DEF Port!GoDown, Port!Id
  <2>5. QED
    BY <2>4 DEF Port!Next
<1>7. CASE \/ \E id \in Id : Send(id) \/ CloseConnection(id)
           \/ Disconnect \/ ConnectsUnread \/ ConnectSucceeds \/ InsertSocket \/ WriteReturns
           \/ ShutSockets \/ StopListening \/ JoinAccept \/ JoinReaders
  <2>1. told' = told
    BY <1>7 DEF Send, CloseConnection, Disconnect, ConnectsUnread, ConnectSucceeds,
                InsertSocket, WriteReturns, ShutSockets, StopListening, JoinAccept, JoinReaders
  <2>2. Over' <=> Over
    BY <1>7 DEF Send, CloseConnection, Disconnect, ConnectsUnread, ConnectSucceeds,
                InsertSocket, WriteReturns, ShutSockets, StopListening, JoinAccept, JoinReaders,
                Over
  <2>3. QED
    BY <2>1, <2>2, SilentStepsStutter DEF Silent
<1>8. CASE \/ Accept \/ AcceptEnds \/ AcceptsUnread \/ InsertAccepted \/ ReadAccepted
           \/ \E id \in Id : HangUp(id) \/ ReadEnds(id) \/ RemoveSocket(id)
           \/ UNCHANGED vars
  <2>1. told' = told /\ (Over' <=> Over)
    BY <1>8 DEF Over, Accept, AcceptEnds, AcceptsUnread, InsertAccepted, ReadAccepted,
                HangUp, ReadEnds, RemoveSocket, CommandUnchanged, ThreadsUnchanged, vars
  <2>2. QED
    BY <2>1, SilentStepsStutter DEF Silent
<1>9. ASSUME Command \/ CommandRuns PROVE Port!Next \/ UNCHANGED Port!vars
  BY <1>1, <1>2, <1>3, <1>6, <1>7, <1>9 DEF Command, CommandRuns
<1>10. ASSUME Accept \/ AcceptEnds \/ AcceptRuns PROVE Port!Next \/ UNCHANGED Port!vars
  BY <1>4, <1>8, <1>10 DEF AcceptRuns
<1>11. ASSUME NEW id \in Id, HangUp(id) \/ ReaderRuns(id)
       PROVE  Port!Next \/ UNCHANGED Port!vars
  BY <1>5, <1>8, <1>11 DEF ReaderRuns
<1>12. CASE UNCHANGED vars
  BY <1>8, <1>12
<1>13. QED
  BY <1>9, <1>10, <1>11, <1>12 DEF Next

\* Whatever order its threads report in, the port keeps the promise of
\* PortEvent (pr-core/src/port.rs): one id, one connection, closed once.
THEOREM KernelPortImplementsPortService == Spec => ImplementsPortService
<1>1. Init => Port!Init
  BY InitRefines
<1>2. IInv /\ [Next]_vars => [Port!Next]_(Port!vars)
  BY StepRefines
<1>3. QED
  BY <1>1, <1>2, InvHolds, PTL DEF Spec, ImplementsPortService, Port!Spec

-----------------------------------------------------------------------------
(* The AGWPE port beside the others: a behaviour of MCSpec keeps to the        *)
(* specification AgwPort_proofs proves its theorems about.  Agw and AgwP are   *)
(* instances of the same definitions.                                          *)

AgwP == INSTANCE AgwPort_proofs
  WITH command <- a_command, reader <- a_reader, next_id <- a_next_id,
       link <- a_link, told <- a_told

\* A behaviour of one instance begins as one of the other.
LEMMA AgwBegins == Agw!Init => AgwP!Init
  BY DEF Agw!Init, AgwP!Init, Agw!Id, AgwP!Id, Agw!At, AgwP!At

\* A step of one instance is one of the other.
LEMMA AgwSteps == [Agw!Next]_(Agw!vars) => [AgwP!Next]_(AgwP!vars)
<1> USE DEF Agw!connMap, AgwP!connMap, Agw!tncVars, AgwP!tncVars, Agw!uiVars, AgwP!uiVars,
            Agw!Id, AgwP!Id, Agw!At, AgwP!At, Agw!Busy, AgwP!Busy,
            Agw!With, AgwP!With, Agw!Without, AgwP!Without, Agw!Restrict, AgwP!Restrict,
            Agw!FindOrInsert, AgwP!FindOrInsert, Agw!Write, AgwP!Write, Agw!Reads, AgwP!Reads,
            Agw!Requested, AgwP!Requested, Agw!Tell, AgwP!Tell, Agw!PortUnchanged, AgwP!PortUnchanged
<1>1. Agw!OpenConnection => AgwP!OpenConnection
  BY DEF Agw!OpenConnection, AgwP!OpenConnection
<1>2. Agw!CloseConnection => AgwP!CloseConnection
  BY DEF Agw!CloseConnection, AgwP!CloseConnection
<1>3. Agw!SendFails => AgwP!SendFails
  BY DEF Agw!SendFails, AgwP!SendFails
<1>4. Agw!Disconnect => AgwP!Disconnect
  BY DEF Agw!Disconnect, AgwP!Disconnect
<1>5. Agw!AnnounceConnecting => AgwP!AnnounceConnecting
  BY DEF Agw!AnnounceConnecting, AgwP!AnnounceConnecting
<1>6. Agw!WriteCall => AgwP!WriteCall
  BY DEF Agw!WriteCall, AgwP!WriteCall
<1>7. Agw!WriteHangUp => AgwP!WriteHangUp
  BY DEF Agw!WriteHangUp, AgwP!WriteHangUp
<1>8. Agw!ShutStream => AgwP!ShutStream
  BY DEF Agw!ShutStream, AgwP!ShutStream
<1>9. Agw!ReportPortDisconnected => AgwP!ReportPortDisconnected
  BY DEF Agw!ReportPortDisconnected, AgwP!ReportPortDisconnected
<1>10. Agw!JoinReader => AgwP!JoinReader
  BY DEF Agw!JoinReader, AgwP!JoinReader
<1>11. Agw!AnnounceConnected => AgwP!AnnounceConnected
  BY DEF Agw!AnnounceConnected, AgwP!AnnounceConnected
<1>12. Agw!RemoveCall => AgwP!RemoveCall
  BY DEF Agw!RemoveCall, AgwP!RemoveCall
<1>13. Agw!ReportClosed => AgwP!ReportClosed
  BY DEF Agw!ReportClosed, AgwP!ReportClosed
<1>14. Agw!ReadEnds => AgwP!ReadEnds
  BY DEF Agw!ReadEnds, AgwP!ReadEnds
<1>15. Agw!TncGone => AgwP!TncGone
  BY DEF Agw!TncGone, AgwP!TncGone
<1>16. ASSUME NEW c \in Call
       PROVE  /\ Agw!ReadConnect(c) => AgwP!ReadConnect(c)
              /\ Agw!ReadDisconnect(c) => AgwP!ReadDisconnect(c)
              /\ Agw!PlaceCall(c) => AgwP!PlaceCall(c)
              /\ Agw!HangUp(c) => AgwP!HangUp(c)
              /\ Agw!CallAnswered(c) => AgwP!CallAnswered(c)
              /\ Agw!CallFails(c) => AgwP!CallFails(c)
              /\ Agw!StationConnects(c) => AgwP!StationConnects(c)
              /\ Agw!LinkLost(c) => AgwP!LinkLost(c)
  <2>1. Agw!ReadConnect(c) => AgwP!ReadConnect(c)
    BY DEF Agw!ReadConnect, AgwP!ReadConnect
  <2>2. Agw!ReadDisconnect(c) => AgwP!ReadDisconnect(c)
    BY DEF Agw!ReadDisconnect, AgwP!ReadDisconnect
  <2>3. Agw!PlaceCall(c) => AgwP!PlaceCall(c)
    BY DEF Agw!PlaceCall, AgwP!PlaceCall
  <2>4. Agw!HangUp(c) => AgwP!HangUp(c)
    BY DEF Agw!HangUp, AgwP!HangUp
  <2>5. Agw!CallAnswered(c) => AgwP!CallAnswered(c)
    BY DEF Agw!CallAnswered, AgwP!CallAnswered
  <2>6. Agw!CallFails(c) => AgwP!CallFails(c)
    BY DEF Agw!CallFails, AgwP!CallFails
  <2>7. Agw!StationConnects(c) => AgwP!StationConnects(c)
    BY DEF Agw!StationConnects, AgwP!StationConnects
  <2>8. Agw!LinkLost(c) => AgwP!LinkLost(c)
    BY DEF Agw!LinkLost, AgwP!LinkLost
  <2> QED
    BY <2>1, <2>2, <2>3, <2>4, <2>5, <2>6, <2>7, <2>8
<1> QED
  BY <1>1, <1>2, <1>3, <1>4, <1>5, <1>6, <1>7, <1>8,
     <1>9, <1>10, <1>11, <1>12, <1>13, <1>14, <1>15, <1>16
  DEF Agw!vars, AgwP!vars, Agw!Next, AgwP!Next, Agw!Command, AgwP!Command,
      Agw!CommandRuns, AgwP!CommandRuns, Agw!ReaderRuns, AgwP!ReaderRuns,
      Agw!Answers, AgwP!Answers

\* Whichever port moves, an AGWPE port keeps to its specification.
LEMMA AgwKeepsToItsSpec == MCSpec => AgwP!Spec
<1>1. MCInit => AgwP!Init
  BY AgwBegins DEF MCInit
<1>2. [MCNext]_mcvars => [Agw!Next]_(Agw!vars)
  BY DEF MCNext, mcvars, agwvars, Agw!vars, Agw!connMap, Agw!tncVars, Agw!uiVars
<1> QED
  BY <1>1, <1>2, AgwSteps, PTL DEF MCSpec, AgwP!Spec

\* The ConnMap's two maps are each other's inverse, whatever its two threads do
\* between each other's look-ups (client.rs:268).
THEOREM ComposedMapsAreInverse == MCSpec => []MapsAreInverse
<1>1. AgwP!MapsAreInverse => MapsAreInverse
  BY DEF MapsAreInverse, AgwP!MapsAreInverse, Agw!MapsAreInverse, Agw!Range, AgwP!Range
<1> QED
  BY <1>1, AgwKeepsToItsSpec, AgwP!ConnMapStaysInverse, PTL

\* With nothing under way, the ConnMap has the links that are up (client.rs:227).
THEOREM ComposedMapComesToBeTrue == MCSpec => []QuietMapIsTrue
<1>1. AgwP!QuietMapIsTrue => QuietMapIsTrue
  BY DEF QuietMapIsTrue, AgwP!QuietMapIsTrue, Agw!QuietMapIsTrue, Agw!Quiet, AgwP!Quiet
<1> QED
  BY <1>1, AgwKeepsToItsSpec, AgwP!MapComesToBeTrue, PTL

\* And the UI shows what the ConnMap has (client.rs:119).
THEOREM ComposedUiComesToBeTrue == MCSpec => []QuietUiIsTrue
<1>1. AgwP!QuietUiIsTrue => QuietUiIsTrue
  BY DEF QuietUiIsTrue, AgwP!QuietUiIsTrue, Agw!QuietUiIsTrue, Agw!Quiet, AgwP!Quiet,
         Agw!Open, AgwP!Open, Agw!Id, AgwP!Id
<1> QED
  BY <1>1, AgwKeepsToItsSpec, AgwP!UiComesToBeTrue, PTL
=============================================================================

----------------------------- MODULE KernelPort -----------------------------
(***************************************************************************)
(* The port over the kernel's AX.25 sockets, pr-ax25/src/runner.rs: the    *)
(* command thread (run), the accept thread (accept_loop), a reader thread  *)
(* per connection (connection_read_loop), and what they share, the socket  *)
(* map under its mutex, next_id and the events channel.  The kernel does   *)
(* the AX.25 protocol; here it connects, accepts, writes, hangs up, and    *)
(* a socket that is shut down ends the reads and accepts waiting for it.   *)
(* Data and unproto frames touch nothing that is shared.                   *)
(*                                                                         *)
(* A step is one access to what the threads share, or one blocking call.   *)
(* A thread's events about its own connection go with the access before    *)
(* them: no other thread says anything of that connection meanwhile.       *)
(*                                                                         *)
(* A definition marked "Fault" is no part of the model: it is a slip the   *)
(* next definition could contain, which the properties must detect.        *)
(***************************************************************************)
EXTENDS Integers, FiniteSets

CONSTANT MaxIds  \* bound: connections of one port

ASSUME KernelPortAssumption == MaxIds \in Nat

VARIABLES
  command,   \* what the command thread does next
  cid,       \* the connection it is busy with
  accept,    \* what the accept thread does next
  aid,       \* the connection it is busy with
  reader,    \* reader[id]: what the reader thread of id does next
  link,      \* link[id]: the kernel's connection
  sockets,   \* the ids in the socket map
  next_id,   \* the next connection's id
  ours,      \* history: connections the UI asked for, whose readers are joined
  unread,    \* history: connections whose socket could not be cloned
  late,      \* history: connections accepted after the sockets were shut down
  told       \* history: what the UI was told of each connection

vars == <<command, cid, accept, aid, reader, link, sockets, next_id,
          ours, unread, late, told>>

Id == 1..MaxIds

\* The command thread writes with the map locked.
Unlocked == command # "writing"

Closing == {"closing", "unlistening", "joining accept", "reporting",
            "joining readers", "stopped"}

-----------------------------------------------------------------------------

\* The listening socket is best effort.
Init ==
  /\ command = "idle" /\ cid = 0
  /\ accept \in {"listening", "done"} /\ aid = 0
  /\ reader = [id \in Id |-> "none"]
  /\ link = [id \in Id |-> "none"]
  /\ sockets = {}
  /\ next_id = 1
  /\ ours = {} /\ unread = {} /\ late = {}
  /\ told = [id \in Id |-> "none"]

\* Fault: next_id is read and written back, but the other thread's increment
\* is lost.
TakeIdLosingOne(id) ==
  /\ id = next_id /\ id \in Id
  /\ next_id' = IF link[id] = "none" THEN next_id ELSE next_id + 1

\* fetch_add.
TakeId(id) ==
  /\ id = next_id /\ id \in Id
  /\ next_id' = next_id + 1

-----------------------------------------------------------------------------
(* The command thread, blocked in connect, write or join while it is busy. *)

AcceptUnchanged == UNCHANGED <<accept, aid, late>>

OpenConnection ==
  /\ command = "idle"
  /\ \E id \in Id :
       /\ TakeId(id)
       /\ told' = [told EXCEPT ![id] = "Connecting"]
       /\ link' = [link EXCEPT ![id] = "calling"]
       /\ cid' = id
  /\ command' = "connecting"
  /\ AcceptUnchanged /\ UNCHANGED <<reader, sockets, ours, unread>>

ConnectFails ==
  /\ command = "connecting"
  /\ link' = [link EXCEPT ![cid] = "down"]
  /\ told' = [told EXCEPT ![cid] = "closed"]
  /\ command' = "idle"
  /\ AcceptUnchanged /\ UNCHANGED <<cid, reader, sockets, next_id, ours, unread>>

\* The socket cannot be cloned.  The UI is told of the error, as one of the
\* port.
ConnectsUnread ==
  /\ command = "connecting"
  /\ link' = [link EXCEPT ![cid] = "down"]
  /\ unread' = unread \cup {cid}
  /\ command' = "idle"
  /\ AcceptUnchanged /\ UNCHANGED <<cid, reader, sockets, next_id, ours, told>>

\* Fault: the UI is told first, as accept_loop does.
ConnectSucceedsTellingFirst ==
  /\ command = "connecting"
  /\ link' = [link EXCEPT ![cid] = "up"]
  /\ told' = [told EXCEPT ![cid] = "Connected"]
  /\ command' = "inserting"
  /\ AcceptUnchanged /\ UNCHANGED <<cid, reader, sockets, next_id, ours, unread>>

ConnectSucceeds ==
  /\ command = "connecting"
  /\ link' = [link EXCEPT ![cid] = "up"]
  /\ command' = "inserting"
  /\ AcceptUnchanged /\ UNCHANGED <<cid, reader, sockets, next_id, ours, unread, told>>

InsertSocket ==
  /\ command = "inserting"
  /\ sockets' = sockets \cup {cid}
  /\ command' = "announcing"
  /\ AcceptUnchanged /\ UNCHANGED <<cid, reader, link, next_id, ours, unread, told>>

AnnounceAndRead ==
  /\ command = "announcing"
  /\ told' = [told EXCEPT ![cid] = "Connected"]
  /\ reader' = [reader EXCEPT ![cid] = "reading"]
  /\ ours' = ours \cup {cid}
  /\ command' = "idle"
  /\ AcceptUnchanged /\ UNCHANGED <<cid, link, sockets, next_id, unread>>

Send(id) ==
  /\ command = "idle"
  /\ id \in sockets
  /\ cid' = id
  /\ command' = "writing"
  /\ AcceptUnchanged
  /\ UNCHANGED <<reader, link, sockets, next_id, ours, unread, told>>

\* Written, or refused because the link is down.
WriteReturns ==
  /\ command = "writing"
  /\ command' = "idle"
  /\ AcceptUnchanged
  /\ UNCHANGED <<cid, reader, link, sockets, next_id, ours, unread, told>>

\* Fault: the socket is taken out of the map, but the reader's clone keeps the
\* connection open.
CloseConnectionUnshut(id) ==
  /\ command = "idle"
  /\ id \in sockets
  /\ sockets' = sockets \ {id}
  /\ AcceptUnchanged
  /\ UNCHANGED <<command, cid, reader, link, next_id, ours, unread, told>>

CloseConnection(id) ==
  /\ command = "idle"
  /\ id \in sockets
  /\ sockets' = sockets \ {id}
  /\ link' = [link EXCEPT ![id] = "down"]
  /\ AcceptUnchanged
  /\ UNCHANGED <<command, cid, reader, next_id, ours, unread, told>>

\* The user disconnects the port, or the UI is gone.
Disconnect ==
  /\ command = "idle"
  /\ command' = "closing"
  /\ AcceptUnchanged
  /\ UNCHANGED <<cid, reader, link, sockets, next_id, ours, unread, told>>

ShutSockets ==
  /\ command = "closing"
  /\ link' = [id \in Id |-> IF id \in sockets THEN "down" ELSE link[id]]
  /\ command' = "unlistening"
  /\ AcceptUnchanged
  /\ UNCHANGED <<cid, reader, sockets, next_id, ours, unread, told>>

StopListening ==
  /\ command = "unlistening"
  /\ command' = "joining accept"
  /\ AcceptUnchanged
  /\ UNCHANGED <<cid, reader, link, sockets, next_id, ours, unread, told>>

JoinAccept ==
  /\ command = "joining accept"
  /\ accept = "done"
  /\ command' = "reporting"
  /\ AcceptUnchanged
  /\ UNCHANGED <<cid, reader, link, sockets, next_id, ours, unread, told>>

ReportPortDisconnected ==
  /\ command = "reporting"
  /\ command' = "joining readers"
  /\ AcceptUnchanged
  /\ UNCHANGED <<cid, reader, link, sockets, next_id, ours, unread, told>>

JoinReaders ==
  /\ command = "joining readers"
  /\ \A id \in ours : reader[id] = "done"
  /\ command' = "stopped"
  /\ AcceptUnchanged
  /\ UNCHANGED <<cid, reader, link, sockets, next_id, ours, unread, told>>

-----------------------------------------------------------------------------
(* The accept thread.                                                      *)

CommandUnchanged == UNCHANGED <<command, cid, ours>>

Listening == command \notin {"joining accept", "reporting", "joining readers", "stopped"}

\* A station connects.
Accept ==
  /\ accept = "listening" /\ Listening
  /\ \E id \in Id :
       /\ TakeId(id)
       /\ link' = [link EXCEPT ![id] = "up"]
       /\ late' = IF command \in Closing \ {"closing"} THEN late \cup {id} ELSE late
       /\ aid' = id
  /\ accept' = "telling"
  /\ CommandUnchanged /\ UNCHANGED <<reader, sockets, unread, told>>

\* The listening socket is shut down or broken.
AcceptEnds ==
  /\ accept = "listening"
  /\ accept' = "done"
  /\ CommandUnchanged
  /\ UNCHANGED <<aid, reader, link, sockets, next_id, unread, late, told>>

TellAccepted ==
  /\ accept = "telling"
  /\ told' = [told EXCEPT ![aid] = "Connected"]
  /\ accept' = "inserting"
  /\ CommandUnchanged
  /\ UNCHANGED <<aid, reader, link, sockets, next_id, unread, late>>

AcceptsUnread ==
  /\ accept = "inserting"
  /\ link' = [link EXCEPT ![aid] = "down"]
  /\ unread' = unread \cup {aid}
  /\ accept' = "listening"
  /\ CommandUnchanged /\ UNCHANGED <<aid, reader, sockets, next_id, late, told>>

\* Accepted into the map after the sockets in it were shut down, a connection
\* is late too.
InsertAccepted ==
  /\ accept = "inserting" /\ Unlocked
  /\ sockets' = sockets \cup {aid}
  /\ late' = IF command \in Closing \ {"closing"} THEN late \cup {aid} ELSE late
  /\ accept' = "spawning"
  /\ CommandUnchanged /\ UNCHANGED <<aid, reader, link, next_id, unread, told>>

ReadAccepted ==
  /\ accept = "spawning"
  /\ reader' = [reader EXCEPT ![aid] = "reading"]
  /\ accept' = "listening"
  /\ CommandUnchanged
  /\ UNCHANGED <<aid, link, sockets, next_id, unread, late, told>>

-----------------------------------------------------------------------------
(* The reader threads, and the other stations.                             *)

ThreadsUnchanged == UNCHANGED <<command, cid, accept, aid, next_id, ours, unread, late>>

HangUp(id) ==
  /\ link[id] = "up"
  /\ link' = [link EXCEPT ![id] = "down"]
  /\ ThreadsUnchanged /\ UNCHANGED <<reader, sockets, told>>

ReadEnds(id) ==
  /\ reader[id] = "reading"
  /\ link[id] = "down"
  /\ reader' = [reader EXCEPT ![id] = "removing"]
  /\ ThreadsUnchanged /\ UNCHANGED <<link, sockets, told>>

\* Fault: only the thread that finds the socket in the map reports its end.
RemoveSocketOnce(id) ==
  /\ reader[id] = "removing" /\ Unlocked
  /\ sockets' = sockets \ {id}
  /\ reader' = [reader EXCEPT ![id] = IF id \in sockets THEN "reporting" ELSE "done"]
  /\ ThreadsUnchanged /\ UNCHANGED <<link, told>>

RemoveSocket(id) ==
  /\ reader[id] = "removing" /\ Unlocked
  /\ sockets' = sockets \ {id}
  /\ reader' = [reader EXCEPT ![id] = "reporting"]
  /\ ThreadsUnchanged /\ UNCHANGED <<link, told>>

ReportClosed(id) ==
  /\ reader[id] = "reporting"
  /\ told' = [told EXCEPT ![id] = "closed"]
  /\ reader' = [reader EXCEPT ![id] = "done"]
  /\ ThreadsUnchanged /\ UNCHANGED <<link, sockets>>

-----------------------------------------------------------------------------

Command ==
  \/ OpenConnection
  \/ \E id \in Id : Send(id) \/ CloseConnection(id)
  \/ Disconnect

CommandRuns ==
  \/ ConnectFails \/ ConnectsUnread \/ ConnectSucceeds
  \/ InsertSocket \/ AnnounceAndRead \/ WriteReturns
  \/ ShutSockets \/ StopListening \/ JoinAccept
  \/ ReportPortDisconnected \/ JoinReaders

AcceptRuns == TellAccepted \/ AcceptsUnread \/ InsertAccepted \/ ReadAccepted

ReaderRuns(id) == ReadEnds(id) \/ RemoveSocket(id) \/ ReportClosed(id)

Next ==
  \/ Command \/ CommandRuns
  \/ Accept \/ AcceptEnds \/ AcceptRuns
  \/ \E id \in Id : HangUp(id) \/ ReaderRuns(id)

Spec == Init /\ [][Next]_vars

\* Every thread runs, and gets the lock that is free time and again.  The
\* kernel gives up a connect or a write in the end, and a listening socket
\* that is shut down ends accept; nothing obliges another station or the user.
Fairness ==
  /\ WF_vars(CommandRuns)
  /\ WF_vars(AcceptRuns) /\ SF_vars(InsertAccepted)
  /\ WF_vars(AcceptEnds /\ ~Listening)
  /\ \A id \in Id : WF_vars(ReaderRuns(id)) /\ SF_vars(RemoveSocket(id))

FairSpec == Spec /\ Fairness

-----------------------------------------------------------------------------
(* Properties.                                                             *)

\* Every variable has its type, and only ids that were taken are in use.
TypeOK ==
  /\ command \in {"idle", "connecting", "inserting", "announcing", "writing"} \cup Closing
  /\ accept \in {"listening", "telling", "inserting", "spawning", "done"}
  /\ next_id \in 1..(MaxIds + 1)
  /\ cid \in 0..(next_id - 1) /\ aid \in 0..(next_id - 1)
  /\ reader \in [Id -> {"none", "reading", "removing", "reporting", "done"}]
  /\ link \in [Id -> {"none", "calling", "up", "down"}]
  /\ sockets \in SUBSET (1..(next_id - 1)) /\ ours \in SUBSET (1..(next_id - 1))
  /\ unread \in SUBSET (1..(next_id - 1)) /\ late \in SUBSET (1..(next_id - 1))
  /\ told \in [Id -> {"none", "Connecting", "Connected", "closed"}]

\* The UI can reach every connection it takes for connected: as long as its
\* link is up and the port runs, Send and CloseConnection find its socket in
\* the map, except between accept_loop's event and its insert
\* (runner.rs:203-208), and whatever a reader removes is down.
ConnectedIsReachable ==
  \A id \in Id :
    told[id] = "Connected" /\ link[id] = "up" =>
      id \in sockets \/ (accept = "inserting" /\ aid = id)

\* The map leaks nothing: a socket in it has a reader that will remove it, or
\* one about to be started.
SocketsHaveReaders ==
  \A id \in sockets :
    \/ reader[id] \in {"reading", "removing"}
    \/ command = "announcing" /\ cid = id
    \/ accept = "spawning" /\ aid = id

\* A port that has stopped leaves no link up but those the accept thread took
\* after the sockets were shut down (runner.rs:157).
OnlyLateLinksSurvive ==
  command = "stopped" => \A id \in Id : link[id] = "up" => id \in late

Port == INSTANCE PortService
          WITH over <- command \in {"joining readers", "stopped"}, ClosesLate <- TRUE

\* Three kinds of thread report to one channel, and still keep the port's
\* promise: an id names one connection, which is closed once.
ImplementsPortService == Port!Spec

\* A link that ends is reported closed, also after PortDisconnected, unless
\* its socket could not be cloned (runner.rs:80, 206): nobody reads that one.
EndedLinksClose ==
  \A id \in Id : link[id] = "down" ~> (told[id] = "closed" \/ id \in unread)

\* Disconnecting the port ends it, although it joins threads that wait for
\* sockets and for the lock.
DisconnectEnds == command = "closing" ~> command = "stopped"
=============================================================================

----------------------------- MODULE ArqSession -----------------------------
(***************************************************************************)
(* One ARQ session of pr-ax25/src/arq.rs as command_loop                   *)
(* (pr-ax25/src/kiss_runner.rs) drives it: created for an outgoing or an   *)
(* incoming connect, fed frames from a peer that may send anything at any  *)
(* time, requests from the application and T1 expiries, and dropped as     *)
(* soon as it is Disconnected (remove_if_disconnected).                    *)
(***************************************************************************)
EXTENDS Arq, SequencesExt

CONSTANTS
  Message,   \* what the application may send at once: a set of byte sequences
  PeerInfo,  \* payloads of the I frames the peer may send
  MaxChunks  \* bound: chunks accepted from the application per link

ASSUME ArqSessionAssumption ==
  /\ Message \subseteq Seq(Byte)
  /\ PeerInfo \subseteq Seq(Byte)
  /\ MaxChunks \in Nat

VARIABLES
  sess,      \* the session
  actions,   \* what the last operation told command_loop to do
  reported,  \* the state the UI was last told
  accepted   \* history: the chunks accepted since V(S) was last reset

vars == <<sess, actions, reported, accepted>>

PeerFrame == FrameCarrying(PeerInfo)

-----------------------------------------------------------------------------

\* The state the last StateChanged among acts reports.
LastReport(acts, before) ==
  LET changes == {i \in DOMAIN acts : acts[i].act = "StateChanged"}
  IN  IF changes = {} THEN before
      ELSE acts[CHOOSE i \in changes : \A j \in changes : j <= i].state

Apply(r) ==
  /\ sess' = r.session
  /\ actions' = r.actions
  /\ reported' = LastReport(r.actions, reported)

Init ==
  /\ sess = NewSession
  /\ actions = <<>>
  /\ reported = "Disconnected"
  /\ accepted = <<>>

\* Every connect gets a fresh session, and with it a fresh tab.
OpenConnection ==
  /\ sess.state = "Disconnected"
  /\ Apply(Open(NewSession))
  /\ accepted' = <<>>

AcceptConnection(poll) ==
  /\ sess.state = "Disconnected"
  /\ Apply(AcceptIncoming(NewSession, poll))
  /\ accepted' = <<>>

CloseConnection ==
  /\ sess.state # "Disconnected"
  /\ Apply(Close(sess))
  /\ accepted' = <<>>

SendBytes(bytes) ==
  /\ sess.state # "Disconnected"
  /\ Len(accepted) + Len(Fragment(bytes)) <= MaxChunks
  /\ Apply(Send(sess, bytes))
  /\ accepted' = IF sess.state = "Connected" THEN accepted \o Fragment(bytes)
                 ELSE accepted

\* The history restarts with V(S) and ends with the link.
Receive(f) ==
  /\ sess.state # "Disconnected"
  /\ Apply(OnFrame(sess, f))
  /\ accepted' = IF f.type = "SABM" \/ sess'.state = "Disconnected" THEN <<>>
                 ELSE accepted

Tick ==
  /\ sess.state # "Disconnected"
  /\ sess.t1
  /\ Apply(T1Expires(sess))
  /\ accepted' = IF sess'.state = "Disconnected" THEN <<>> ELSE accepted

Next ==
  \/ OpenConnection
  \/ \E poll \in BOOLEAN : AcceptConnection(poll)
  \/ CloseConnection
  \/ \E bytes \in Message : SendBytes(bytes)
  \/ \E f \in PeerFrame : Receive(f)
  \/ Tick

Spec == Init /\ [][Next]_vars

\* command_loop ticks every session at least every TICK_INTERVAL, whatever
\* else happens; nothing obliges the peer or the user to do anything.
FairSpec == Spec /\ WF_vars(Tick)

-----------------------------------------------------------------------------
(* Invariants.                                                             *)

\* Every variable has its type; retry_count never passes N2, since tick gives
\* up instead of storing a larger one.
TypeOK ==
  /\ sess \in Session
  /\ sess.retry_count \in 0..N2
  /\ actions \in Seq(Action)
  /\ reported \in ConnState
  /\ accepted \in Seq(Seq(Byte))

\* The unacknowledged frames are numbered consecutively up to V(S) - 1 and
\* never more than k, so modulo 8 no two of them share a number: what
\* ack_up_to (arq.rs:427) silently relies on to find N(R) in the queue.
WindowIsContiguous == WindowConsistent(sess)

\* T1 runs exactly while an answer is awaited: a SABM, a DISC or an I frame is
\* out.  The branch of tick that arq.rs:223-229 calls "Shouldn't happen" is
\* therefore never taken, and no wait is left without a timer.
TimerRunsWhileWaiting == TimerConsistent(sess)

\* No lost wakeup: whatever order sends, acknowledgements, busy indications
\* and resets come in, a chunk is left in the backlog only because the window
\* is full or the peer is busy, and none outlives its link.
NoStrandedBacklog == BacklogWaitsForRoom(sess) /\ QueuesOnlyWhileConnected(sess)

\* The UI's last ConnState event is the session's state: no handler changes
\* the state without reporting it, nor reports a change it does not make.
ReportedStateIsActual == reported = sess.state

Held(s) == [i \in 1..Len(s.outstanding) |-> s.outstanding[i].info] \o s.backlog

\* The two queues hold, in order, the newest of the accepted chunks: between
\* accepting and acknowledging, none is lost, doubled or reordered.  A frame's
\* number is its chunk's position on this link modulo 8.
QueuesKeepOrder ==
  /\ IsSuffix(Held(sess), accepted)
  /\ \A i \in 1..Len(sess.outstanding) :
       sess.outstanding[i].seq
         = (Len(accepted) - Len(Held(sess)) + i - 1) % 8

\* Every I frame put on the air is still outstanding when the operation ends,
\* under the same number and with the same payload: nothing is transmitted
\* that a later timeout or REJ could not transmit again.
AiredFramesAreRetained ==
  \A a \in Range(actions) :
    a.act = "Transmit" /\ a.frame.type = "I" =>
      \E p \in Range(sess.outstanding) :
        p.seq = a.frame.ns /\ p.info = a.frame.info

-----------------------------------------------------------------------------
(* Action and liveness properties.                                         *)

HasClosed(acts) == \E a \in Range(acts) : a.act = "Closed"

\* ConnectionClosed is reported once per link and only when it ends: the step
\* into Disconnected reports it, and no other step does.
ClosedExactlyAtTheEnd ==
  [][HasClosed(actions') <=> /\ sess.state # "Disconnected"
                             /\ sess'.state = "Disconnected"]_vars

Waiting == \/ sess.state \in {"Connecting", "Disconnecting"}
           \/ sess.outstanding # <<>>

\* From some time on the peer is silent, and the user only connects and sends.
PeerFallsSilent ==
  <>[][OpenConnection \/ (\E bytes \in Message : SendBytes(bytes)) \/ Tick]_vars

\* Every wait for an answer then ends, whatever is sent meanwhile: N2 is
\* reached and the link is torn down.
SilenceEndsWaiting == PeerFallsSilent => (Waiting ~> ~Waiting)

\* arq.rs:15-16, "the hard requirement here is never hang": accepted data of a
\* link eventually leaves the backlog, by transmission or by teardown.
BacklogNeverHangs == sess.backlog # <<>> ~> sess.backlog = <<>>
=============================================================================

------------------------------ MODULE KissPort ------------------------------
(***************************************************************************)
(* command_loop of pr-ax25/src/kiss_runner.rs, from PortConnected to       *)
(* PortDisconnected: one thread that owns every ARQ session of a KISS port *)
(* and takes turns between the frames the reader thread decoded, a command *)
(* of the UI, and the T1 timers.  Its inputs are whatever the reader and   *)
(* the UI may have queued by then: any frame, and commands for connections *)
(* that may have closed since the UI sent them.                            *)
(*                                                                         *)
(* The callsigns a user can type are spellings; AddressOf is what          *)
(* parse_address makes of them, where a Call is spelt as an address is     *)
(* printed.  The ConnMap is keyed by spelling.                             *)
(*                                                                         *)
(* A definition marked "Fault" is no part of the model: it is a slip the   *)
(* next definition could contain, which the properties must detect.        *)
(***************************************************************************)
EXTENDS Arq, SequencesExt

CONSTANTS
  Call,        \* remote stations, each by the callsign its frames print
  Spelling,    \* what the UI may ask to connect or send to
  AddressOf,   \* the station of each spelling that parses
  HeardFrame,  \* frames a station may send
  Message,     \* what the UI may send at once
  MaxIds,      \* bound: connections of one port
  MaxSent      \* bound: V(S) plus backlog of a session when the UI sends

ASSUME KissPortAssumption ==
  /\ Call \subseteq Spelling
  /\ DOMAIN AddressOf \subseteq Spelling
  /\ AddressOf \in [DOMAIN AddressOf -> Call]
  /\ \A c \in Call : c \in DOMAIN AddressOf /\ AddressOf[c] = c
  /\ HeardFrame \subseteq Frame
  /\ Message \subseteq Seq(Byte)
  /\ {MaxIds, MaxSent} \subseteq Nat

VARIABLES
  phase,       \* what command_loop does next
  due,         \* ids the timer pass of this turn has yet to visit
  sessions,    \* id -> its session and the station it talks to
  call_to_id,  \* spelling -> id
  next_id,     \* the next connection's id
  told         \* history: what the UI was told of each connection

vars == <<phase, due, sessions, call_to_id, next_id, told>>

Id == 1..MaxIds

With(f, key, value) ==
  [k \in DOMAIN f \cup {key} |-> IF k = key THEN value ELSE f[k]]
Without(f, keys) == Restrict(f, DOMAIN f \ keys)

-----------------------------------------------------------------------------
(* Applying what a session asks for.                                       *)

\* What the UI knows of a connection when the i-th event of acts comes, given
\* what it knew before the first of them.
Before(known, acts, i) ==
  LET news == {j \in 1..(i - 1) : acts[j].act \in {"StateChanged", "Closed"}}
  IN  IF news = {} THEN known
      ELSE LET last == acts[Max(news)]
           IN  IF last.act = "Closed" THEN "closed" ELSE last.state

\* An event that can come when the UI knows this.
Belongs(known, a) ==
  /\ a.act = "StateChanged" => known \notin {"none", "closed"}
  /\ a.act = "Data" => known = "Connected"
  /\ a.act = "Closed" => known = "Disconnected"

\* What it knows after all of them: "broken" once one of them did not belong.
Told(known, acts) ==
  IF known # "broken" /\ \A i \in 1..Len(acts) : Belongs(Before(known, acts, i), acts[i])
  THEN Before(known, acts, Len(acts) + 1)
  ELSE "broken"

Opened(known) == IF known = "none" THEN "opened" ELSE "broken"

Writes(acts) == \E a \in Range(acts) : a.act = "Transmit"

\* A write fails only where there is one; the loop then ends.  apply_actions
\* still reports every event.
Proceed(acts, next) ==
  phase' = next \/ (Writes(acts) /\ phase' = "closing")

\* Fault: what is Disconnected is not removed, or only from one of the maps.
ApplyWithoutRemoval(id, r, next) ==
  /\ Proceed(r.actions, next)
  /\ told' = [told EXCEPT ![id] = Told(@, r.actions)]
  /\ sessions' = [sessions EXCEPT ![id].arq = r.session]
  /\ UNCHANGED <<call_to_id, next_id>>
ApplyLeavingCall(id, r, next) ==
  /\ Proceed(r.actions, next)
  /\ told' = [told EXCEPT ![id] = Told(@, r.actions)]
  /\ sessions' = IF r.session.state = "Disconnected" THEN Without(sessions, {id})
                 ELSE [sessions EXCEPT ![id].arq = r.session]
  /\ UNCHANGED <<call_to_id, next_id>>

\* apply_actions and remove_if_disconnected.  The timer pass skips the latter
\* after a failed write, but a session that transmits on a timeout stays.
Apply(id, r, next) ==
  /\ Proceed(r.actions, next)
  /\ told' = [told EXCEPT ![id] = Told(@, r.actions)]
  /\ IF r.session.state = "Disconnected"
     THEN /\ sessions' = Without(sessions, {id})
          /\ call_to_id' =
               Without(call_to_id, {k \in DOMAIN call_to_id : call_to_id[k] = id})
     ELSE /\ sessions' = [sessions EXCEPT ![id].arq = r.session]
          /\ UNCHANGED call_to_id
  /\ UNCHANGED next_id

\* A new session under a new id, found from now on by this spelling alone.
Mint(spelling, station, r, next) ==
  /\ next_id \in Id
  /\ next_id' = next_id + 1
  /\ sessions' = With(sessions, next_id, [arq |-> r.session, remote |-> station])
  /\ call_to_id' = With(call_to_id, spelling, next_id)
  /\ told' = [told EXCEPT ![next_id] = Told(Opened(@), r.actions)]
  /\ Proceed(r.actions, next)

Unmoved == UNCHANGED <<sessions, call_to_id, next_id, told>>

-----------------------------------------------------------------------------
(* First, every frame the reader thread has queued.                        *)

Init ==
  /\ phase = "frames"
  /\ due = {}
  /\ sessions = <<>>
  /\ call_to_id = <<>>
  /\ next_id = 1
  /\ told = [id \in Id |-> "none"]

Known(station) == station \in DOMAIN call_to_id

HearKnown(station, f) ==
  /\ phase = "frames"
  /\ Known(station)
  /\ LET id == call_to_id[station]
     IN  IF id \in DOMAIN sessions
         THEN Apply(id, OnFrame(sessions[id].arq, f), "frames")
         ELSE Unmoved /\ UNCHANGED phase
  /\ UNCHANGED due

HearNewSabm(station, f) ==
  /\ phase = "frames"
  /\ ~Known(station) /\ f.type = "SABM"
  /\ Mint(station, station, AcceptIncoming(NewSession, f.pf), "frames")
  /\ UNCHANGED due

\* A DISC of a link nobody knows is answered with a DM, other strays with
\* nothing.
HearStray(station, f) ==
  /\ phase = "frames"
  /\ ~Known(station) /\ f.type # "SABM"
  /\ Proceed(IF f.type = "DISC" THEN <<Transmit(UFrame("DM", TRUE))>> ELSE <<>>,
             "frames")
  /\ Unmoved /\ UNCHANGED due

\* SABME is declined with a DM, XID answered or declined.
HearExtended ==
  /\ phase = "frames"
  /\ Proceed(<<Transmit(UFrame("DM", TRUE))>>, "frames")
  /\ Unmoved /\ UNCHANGED due

\* A BLE peripheral went away.
TransportLost ==
  /\ phase = "frames"
  /\ phase' = "closing"
  /\ Unmoved /\ UNCHANGED due

FramesDone ==
  /\ phase = "frames"
  /\ phase' = "command"
  /\ Unmoved /\ UNCHANGED due

-----------------------------------------------------------------------------
(* Then at most one command.                                               *)

\* Fault: the timer pass visits only what the call map leads to.
ThenTimersOfCalls == due' = Range(call_to_id')

\* The timer pass visits the sessions that exist when the command is done.
ThenTimers == due' = DOMAIN sessions'

OpenConnection(spelling) ==
  /\ phase = "command"
  /\ IF spelling \in DOMAIN AddressOf
     THEN Mint(spelling, AddressOf[spelling], Open(NewSession), "timers")
     ELSE Unmoved /\ phase' = "timers"  \* PortError
  /\ ThenTimers

SendBytes(id, bytes) ==
  /\ phase = "command"
  /\ IF id \in DOMAIN sessions
     THEN LET s == sessions[id].arq IN
          /\ s.vs + Len(s.backlog) + Len(Fragment(bytes)) <= MaxSent
          /\ Apply(id, Send(s, bytes), "timers")
     ELSE Unmoved /\ phase' = "timers"
  /\ ThenTimers

CloseConnection(id) ==
  /\ phase = "command"
  /\ IF id \in DOMAIN sessions
     THEN Apply(id, Close(sessions[id].arq), "timers")
     ELSE Unmoved /\ phase' = "timers"
  /\ ThenTimers

\* A beacon or an unconnected message.
SendUnproto(spelling) ==
  /\ phase = "command"
  /\ Proceed(IF spelling \in DOMAIN AddressOf
             THEN <<Transmit(UFrame("UI", FALSE))>> ELSE <<>>, "timers")
  /\ Unmoved
  /\ ThenTimers

\* TICK_INTERVAL passed without a command.
NoCommand ==
  /\ phase = "command"
  /\ phase' = "timers"
  /\ Unmoved
  /\ ThenTimers

\* The user disconnects the port, or the UI is gone.
Disconnect ==
  /\ phase = "command"
  /\ phase' = "closing"
  /\ Unmoved /\ UNCHANGED due

-----------------------------------------------------------------------------
(* Last, the timer of every session.                                       *)

Visit(id) ==
  /\ phase = "timers"
  /\ id \in due
  /\ due' = due \ {id}

TimerRuns(id) ==
  /\ Visit(id)
  /\ Unmoved /\ UNCHANGED phase

TimerExpires(id) ==
  /\ Visit(id)
  /\ sessions[id].arq.t1
  /\ Apply(id, T1Expires(sessions[id].arq), "timers")

TurnOver ==
  /\ phase = "timers" /\ due = {}
  /\ phase' = "frames"
  /\ Unmoved /\ UNCHANGED due

\* Every peer is sent a DISC, no one waits for its answer, and the runner
\* reports PortDisconnected.
Shutdown ==
  /\ phase = "closing"
  /\ phase' = "stopped"
  /\ told' = [id \in Id |->
       IF id \in DOMAIN sessions
       THEN Told(told[id], Close(sessions[id].arq).actions)
       ELSE told[id]]
  /\ sessions' = <<>>
  /\ call_to_id' = <<>>
  /\ due' = {}
  /\ UNCHANGED next_id

HearAny ==
  \/ \E station \in Call, f \in HeardFrame :
       HearKnown(station, f) \/ HearNewSabm(station, f) \/ HearStray(station, f)
  \/ HearExtended
  \/ TransportLost

\* The UI can name any connection it was told of.
Command ==
  \/ \E spelling \in Spelling : OpenConnection(spelling) \/ SendUnproto(spelling)
  \/ \E id \in 1..(next_id - 1) :
       CloseConnection(id) \/ \E bytes \in Message : SendBytes(id, bytes)
  \/ NoCommand
  \/ Disconnect

Next ==
  \/ HearAny \/ FramesDone
  \/ Command
  \/ \E id \in Id : TimerRuns(id) \/ TimerExpires(id)
  \/ TurnOver
  \/ Shutdown

Spec == Init /\ [][Next]_vars

\* The loop keeps turning: the frames that are queued run out, a command or
\* TICK_INTERVAL ends each wait, and the timer pass ends.  T1 of a session that
\* awaits an answer is restarted by nothing but its own expiry, so some pass
\* finds it expired; peers, the UI and the transport owe nothing.
FairSpec ==
  /\ Spec
  /\ WF_vars(FramesDone) /\ WF_vars(NoCommand) /\ WF_vars(TurnOver)
  /\ WF_vars(Shutdown)
  /\ \A id \in Id :
       /\ WF_vars(TimerRuns(id))
       /\ SF_vars(TimerExpires(id) /\ sessions[id].arq.state = "Connecting")

-----------------------------------------------------------------------------
(* Properties.                                                             *)

Ids == 1..(next_id - 1)

\* While the port runs, the connections the UI believes open are exactly those
\* with a session, and in the state it believes: no tab waits on a session that
\* is gone, and no session outlives its tab, whatever frames, stale commands,
\* timeouts and failed writes came in which order (kiss_runner.rs:452).
UiMatchesSessions ==
  phase # "stopped" =>
    \A id \in Ids :
      told[id] = IF id \in DOMAIN sessions THEN sessions[id].arq.state ELSE "closed"

\* The call map never leads to a session that is gone, nor a station's frames
\* into the session of another station (kiss_runner.rs:445).
CallsLeadToTheirSession ==
  \A k \in DOMAIN call_to_id :
    /\ call_to_id[k] \in DOMAIN sessions
    /\ AddressOf[k] = sessions[call_to_id[k]].remote

\* kiss_runner.rs:419, "One connected-mode session per remote callsign".
OneSessionPerCall ==
  \A i, j \in DOMAIN sessions : sessions[i].remote = sessions[j].remote => i = j

Port == INSTANCE PortService WITH over <- phase = "stopped", ClosesLate <- FALSE

\* The loop implements the port's promise to the UI: each connection is opened
\* once, under an id of its own, goes through its states in a sensible order
\* and closes once; after PortDisconnected nothing is said of any.
ImplementsPortService == Port!Spec

\* Every connect attempt comes to an end, also one whose answers another
\* attempt intercepts (open_connection, kiss_runner.rs:441): it is answered,
\* abandoned or given up.
ConnectAttemptsEnd ==
  \A id \in Id : told[id] = "Connecting" ~> told[id] # "Connecting"
=============================================================================

------------------------------- MODULE Window -------------------------------
(***************************************************************************)
(* pr-app/src/window.rs: what the main window knows of ports, tabs and     *)
(* connections, composed with the runner threads it starts.  The window's  *)
(* handlers run on the GTK thread, one at a time; each runner has a command *)
(* channel from the window and an event channel to it, which a future of   *)
(* its own reads (connect_port).  A port that is connected again has a new *)
(* runner while the old one may still be going down, and every runner      *)
(* counts its connections from 1.                                          *)
(*                                                                         *)
(* A runner is what the modules of the ports show it to be.  The kinds     *)
(* differ where it matters here: "kiss" closes no connection when it ends, *)
(* "kernel" does so late, "agwpe" announces a connection again when it is  *)
(* answered and reads on for a while, "terminal" (Telnet, SSH) is a single *)
(* connection and never notices that the other end hung up.  What typed    *)
(* and received text does is in Responders.                                *)
(*                                                                         *)
(* A definition marked "Fault" is no part of the model: it is a slip the   *)
(* next definition could contain, which the properties must detect.        *)
(***************************************************************************)
EXTENDS Integers, SequencesExt

CONSTANTS
  Port,     \* ids of the configured ports
  Kinds,    \* the kinds of port to explore
  Node,     \* remote stations
  Answer,   \* Answer[p]: who answers an unsolicited connect
  MaxRuns,  \* bound: times one port is started
  MaxMoves  \* bound: dials, tabs closed, calls and sign-offs, together

None == 0
NoNode == ""

ASSUME WindowAssumption ==
  /\ Kinds \subseteq {"kiss", "kernel", "agwpe", "terminal"}
  /\ NoNode \notin Node
  /\ Answer \in [Port -> {"none", "mailbox", "k2k"}]
  /\ {MaxRuns, MaxMoves} \subseteq Nat

VARIABLES
  kind,         \* the kind of each port
  runner,       \* runner[p]: every runner port p has had, oldest first
  active,       \* active[p]: the runner whose handle the window holds
  confirmed,    \* ports that said PortConnected and not yet PortDisconnected
  tabs,         \* tab id -> its port, node, connection id and responder
  next_tab_id,
  pending,      \* <<port, node>> -> the tab that dials it
  bound,        \* <<port, connection id>> -> the tab that shows it
  moves,        \* what is spent of MaxMoves
  overlapped    \* history: ports started while an earlier runner was unheard

tabvars == <<tabs, next_tab_id, pending, bound>>
vars == <<kind, runner, active, confirmed, tabvars, moves, overlapped>>

With(f, key, value) == [x \in DOMAIN f \cup {key} |-> IF x = key THEN value ELSE f[x]]
Without(f, keys) == Restrict(f, DOMAIN f \ keys)

Moves == moves < MaxMoves /\ moves' = moves + 1

port_supports_connect(p) == kind[p] # "terminal"

-----------------------------------------------------------------------------
(* Handles: the window's ends of a runner's channels.                      *)

Running == {"starting", "up"}

Event(name) == [ev |-> name]

Open(node) == [cmd |-> "open", node |-> node]
Close(id) == [cmd |-> "close", id |-> id]
Disconnect == [cmd |-> "disconnect"]

\* A command to runner g of rs, unless it has left its loop or will have.
Command(rs, g, c) ==
  IF g # None /\ rs[g].phase \in Running /\ Disconnect \notin Range(rs[g].cmds)
  THEN [rs EXCEPT ![g].cmds = Append(@, c)]
  ELSE rs

\* Fault: something else still holds the sending end.
DropHandleKept(rs, g) == rs

\* A handle that is dropped takes the only sending end with it: the runner
\* reads what is queued and then an error, on which it ends as on Disconnect.
DropHandle(rs, g) == Command(rs, g, Disconnect)

\* connect_port: an active port has its runner already.
Fresh == [phase |-> "starting", cmds |-> <<>>, events |-> <<>>,
          conns |-> <<>>, broke |-> FALSE]
ActiveAfter(p) == IF active[p] = None THEN Len(runner[p]) + 1 ELSE active[p]
RunnersAfter(p) == IF active[p] = None THEN Append(runner[p], Fresh) ELSE runner[p]
MayStart(p) == active[p] = None => Len(runner[p]) < MaxRuns

\* The window has still to hear that r is disconnected.
Unheard(r) == r.phase \in Running \/ Event("PortDisconnected") \in Range(r.events)

OverlappedAfter(p) ==
  IF active[p] = None /\ \E r \in Range(runner[p]) : Unheard(r)
  THEN overlapped \cup {p} ELSE overlapped

-----------------------------------------------------------------------------
(* The user.                                                               *)

NewTab(p, node) == [port |-> p, node |-> node, conn |-> None, responder |-> "none"]

PendingKey(p, node) == <<p, IF port_supports_connect(p) THEN node ELSE NoNode>>

\* connect_tab: the dial is pending, its port is connected if need be, and is
\* asked for a connection at once, before it can be up.
ConnectTab(t, tab) ==
  /\ Moves /\ MayStart(tab.port)
  /\ pending' = With(pending, PendingKey(tab.port, tab.node), t)
  /\ active' = [active EXCEPT ![tab.port] = ActiveAfter(tab.port)]
  /\ runner' = [runner EXCEPT ![tab.port] =
       IF port_supports_connect(tab.port)
       THEN Command(RunnersAfter(tab.port), ActiveAfter(tab.port), Open(tab.node))
       ELSE RunnersAfter(tab.port)]
  /\ overlapped' = OverlappedAfter(tab.port)
  /\ UNCHANGED <<kind, confirmed, bound>>

\* The dial dialog: a new tab, which connects.
Dial(p, node) ==
  /\ ConnectTab(next_tab_id, NewTab(p, node))
  /\ tabs' = With(tabs, next_tab_id, NewTab(p, node))
  /\ next_tab_id' = next_tab_id + 1

\* The phone button of a tab that shows no connection.
Redial(t) ==
  /\ tabs[t].conn = None
  /\ ConnectTab(t, tabs[t])
  /\ UNCHANGED <<tabs, next_tab_id>>

\* disconnect_tab.
HungUp(t) ==
  LET p == tabs[t].port
  IN  IF tabs[t].conn = None THEN runner
      ELSE [runner EXCEPT ![p] = Command(@, active[p], Close(tabs[t].conn))]

\* The phone button of one that shows a connection; pressed again, it asks for
\* the same.
HangUp(t) ==
  /\ tabs[t].conn # None
  /\ \A r \in Range(runner[tabs[t].port]) : Close(tabs[t].conn) \notin Range(r.cmds)
  /\ runner' = HungUp(t)
  /\ UNCHANGED <<kind, active, confirmed, tabvars, moves, overlapped>>

\* close_tab: also what the tab dials is forgotten, though the runner may have
\* been asked for it already.
CloseTab(t) ==
  /\ Moves
  /\ runner' = HungUp(t)
  /\ tabs' = Without(tabs, {t})
  /\ bound' = Without(bound, {k \in DOMAIN bound : bound[k] = t})
  /\ pending' = Without(pending, {k \in DOMAIN pending : pending[k] = t})
  /\ UNCHANGED <<kind, active, confirmed, next_tab_id, overlapped>>

\* A favorite's button, or the Ports dialog.
ConnectPort(p) ==
  /\ active[p] = None /\ MayStart(p)
  /\ active' = [active EXCEPT ![p] = ActiveAfter(p)]
  /\ runner' = [runner EXCEPT ![p] = RunnersAfter(p)]
  /\ overlapped' = OverlappedAfter(p)
  /\ UNCHANGED <<kind, confirmed, tabvars, moves>>

DisconnectPort(p) ==
  /\ runner' = [runner EXCEPT ![p] = Command(@, active[p], Disconnect)]
  /\ runner' # runner
  /\ UNCHANGED <<kind, active, confirmed, tabvars, moves, overlapped>>

-----------------------------------------------------------------------------
(* The runner threads.                                                     *)

Opened(id, node) == [ev |-> "ConnectionOpened", id |-> id, node |-> node]
Closed(id) == [ev |-> "ConnectionClosed", id |-> id]
SignOff(id) == [ev |-> "SignOff", id |-> id]

\* Runner g of p becomes r and says evs.
Becomes(p, g, r, evs) ==
  /\ runner' = [runner EXCEPT ![p][g] = [r EXCEPT !.events = @ \o evs]]
  /\ UNCHANGED <<kind, active, confirmed, tabvars, overlapped>>

Terminal(p) == kind[p] = "terminal"

StartFails(p, g) ==
  LET r == runner[p][g]
  IN  /\ r.phase = "starting"
      /\ Becomes(p, g, [r EXCEPT !.phase = "down"], <<Event("PortError")>>)
      /\ UNCHANGED moves

\* The transport is there, and one of the clones the threads need may not be.
Starts(p, g, broke) ==
  LET r == runner[p][g]
      only == [node |-> NoNode, by |-> "us", st |-> "up"]
  IN  /\ r.phase = "starting"
      /\ Becomes(p, g,
           [r EXCEPT !.phase = IF broke THEN "down" ELSE "up", !.broke = broke,
                     !.conns = IF Terminal(p) THEN <<only>> ELSE <<>>],
           <<Event("PortConnected")>>
           \o (IF Terminal(p) THEN <<Opened(1, NoNode)>> ELSE <<>>)
           \o (IF broke THEN <<Event("PortError")>> ELSE <<>>))
      /\ UNCHANGED moves

Live == {"calling", "up"}

\* AGWPE maps a callsign to one id.
IdFor(p, r, node) ==
  LET mapped == {id \in DOMAIN r.conns : r.conns[id].node = node /\ r.conns[id].st # "closed"}
  IN  IF kind[p] = "agwpe" /\ mapped # {} THEN CHOOSE id \in mapped : TRUE
      ELSE Len(r.conns) + 1

Entered(r, id, conn) ==
  IF id \in DOMAIN r.conns THEN r ELSE [r EXCEPT !.conns = Append(@, conn)]

\* Fault: Disconnect is taken for a command that needs nothing done.
EndsLoopNot(p, c) == c.cmd = "close" /\ Terminal(p)
EndsLoop(p, c) == c.cmd = "disconnect" \/ (c.cmd = "close" /\ Terminal(p))

\* Leaving the loop: only a terminal port closes its connection first.
Leaves(p, g, r) ==
  Becomes(p, g, [r EXCEPT !.phase = "down", !.cmds = <<>>],
    (IF Terminal(p) THEN <<Closed(1)>> ELSE <<>>) \o <<Event("PortDisconnected")>>)

Serve(p, g) ==
  /\ runner[p][g].phase = "up" /\ runner[p][g].cmds # <<>>
  /\ LET r == [runner[p][g] EXCEPT !.cmds = Tail(@)]
         c == Head(runner[p][g].cmds)
     IN  \/ /\ c.cmd = "open"
            /\ LET id == IdFor(p, r, c.node)
               IN  Becomes(p, g,
                     Entered(r, id, [node |-> c.node, by |-> "us", st |-> "calling"]),
                     <<Opened(id, c.node)>>)
         \/ /\ c.cmd = "close" /\ ~Terminal(p)
            /\ Becomes(p, g,
                 IF c.id \in DOMAIN r.conns /\ r.conns[c.id].st \in Live
                 THEN [r EXCEPT !.conns[c.id].st = "closing"] ELSE r,
                 <<>>)
         \/ EndsLoop(p, c) /\ Leaves(p, g, r)
  /\ UNCHANGED moves

\* The transport fails, or the TNC goes away.
Drops(p, g) ==
  /\ runner[p][g].phase = "up"
  /\ Leaves(p, g, runner[p][g])
  /\ UNCHANGED moves

\* An AGWPE port's reader works until the port has joined it.
Reads(p, r) == r.phase = "up" \/ (r.phase = "down" /\ kind[p] = "agwpe" /\ ~r.broke)

Answered(p, g, id) ==
  LET r == runner[p][g]
  IN  /\ Reads(p, r) /\ r.conns[id].st = "calling"
      /\ Becomes(p, g, [r EXCEPT !.conns[id].st = "up"],
           IF kind[p] = "agwpe" THEN <<Opened(id, r.conns[id].node)>> ELSE <<>>)
      /\ UNCHANGED moves

\* A connection times out, is refused or ends.
Finishes(p, g, id) ==
  LET r == runner[p][g]
  IN  /\ Reads(p, r) \/ (r.phase = "down" /\ kind[p] = "kernel")
      /\ ~Terminal(p) /\ r.conns[id].st # "closed"
      /\ Becomes(p, g, [r EXCEPT !.conns[id].st = "closed"], <<Closed(id)>>)
      /\ UNCHANGED moves

\* The other end of a terminal hangs up: the reader ends and tells nobody.
HangsUpUnnoticed(p, g) ==
  LET r == runner[p][g]
  IN  /\ r.phase = "up" /\ Terminal(p) /\ r.conns[1].st = "up"
      /\ Becomes(p, g, [r EXCEPT !.conns[1].st = "deaf"], <<>>)
      /\ UNCHANGED moves

StationCalls(p, g, node) ==
  LET r == runner[p][g]
      id == IdFor(p, r, node)
  IN  /\ Reads(p, r) /\ ~Terminal(p) /\ Moves
      /\ Becomes(p, g,
           Entered(r, id, [node |-> node, by |-> "them", st |-> "up"]),
           <<Opened(id, node)>>)

StationSignsOff(p, g, id) ==
  LET r == runner[p][g]
  IN  /\ Reads(p, r) /\ ~Terminal(p) /\ r.conns[id].st = "up" /\ Moves
      /\ Becomes(p, g, r, <<SignOff(id)>>)

\* The threads are joined and the last sending end of the event channel goes.
Exits(p, g) ==
  /\ runner[p][g].phase = "down"
  /\ Becomes(p, g, [runner[p][g] EXCEPT !.phase = "gone"], <<>>)
  /\ UNCHANGED moves

-----------------------------------------------------------------------------
(* handle_event, on the oldest event of runner g.                          *)

Reading(p, g, name) ==
  /\ runner[p][g].events # <<>> /\ Head(runner[p][g].events).ev = name
  /\ UNCHANGED <<kind, moves, overlapped>>

Read(p, g) == [runner[p] EXCEPT ![g].events = Tail(@)]

HandlePortConnected(p, g) ==
  /\ Reading(p, g, "PortConnected")
  /\ runner' = [runner EXCEPT ![p] = Read(p, g)]
  /\ confirmed' = confirmed \cup {p}
  /\ UNCHANGED <<active, tabvars>>

\* The window lets go of whatever runner the port has by then.
LetGo(p, rs) ==
  /\ runner' = [runner EXCEPT ![p] = DropHandle(rs, active[p])]
  /\ active' = [active EXCEPT ![p] = None]

\* Faults: the port's tabs are not unbound, or only forgotten.
UnbindNothing(p) == UNCHANGED <<tabs, bound>>
UnbindTabsOnly(p) ==
  /\ bound' = Without(bound, {k \in DOMAIN bound : k[1] = p})
  /\ UNCHANGED tabs

Unbind(p) ==
  LET gone == {k \in DOMAIN bound : k[1] = p}
  IN  /\ tabs' = [t \in DOMAIN tabs |->
                    IF \E k \in gone : bound[k] = t
                    THEN [tabs[t] EXCEPT !.conn = None] ELSE tabs[t]]
      /\ bound' = Without(bound, gone)

\* The responders of the tabs stay as they were.
HandlePortDisconnected(p, g) ==
  /\ Reading(p, g, "PortDisconnected")
  /\ LetGo(p, Read(p, g))
  /\ confirmed' = confirmed \ {p}
  /\ Unbind(p)
  /\ pending' = Without(pending, {k \in DOMAIN pending : k[1] = p})
  /\ UNCHANGED next_tab_id

\* Only an error of a port that was never up ends it; its dials stay pending.
HandlePortError(p, g) ==
  /\ Reading(p, g, "PortError")
  /\ \/ /\ p \in confirmed
        /\ runner' = [runner EXCEPT ![p] = Read(p, g)]
        /\ UNCHANGED active
     \/ p \notin confirmed /\ LetGo(p, Read(p, g))
  /\ UNCHANGED <<confirmed, tabvars>>

\* The tab that dials the station shows the connection.  Where there is none
\* the connect was not asked for: it gets a tab, and may be answered.
HandleConnectionOpened(p, g) ==
  /\ Reading(p, g, "ConnectionOpened")
  /\ LET e == Head(runner[p][g].events)
         key == PendingKey(p, e.node)
         dialed == key \in DOMAIN pending
         t == IF dialed THEN pending[key] ELSE next_tab_id
         tab == IF dialed THEN tabs[t] ELSE NewTab(p, e.node)
         answer == IF port_supports_connect(p) /\ ~dialed THEN Answer[p] ELSE "none"
     IN  /\ tabs' = With(tabs, t, [tab EXCEPT !.conn = e.id,
                       !.responder = IF answer = "none" THEN @ ELSE answer])
         /\ next_tab_id' = IF dialed THEN next_tab_id ELSE next_tab_id + 1
         /\ pending' = Without(pending, {key})
         /\ bound' = With(bound, <<p, e.id>>, t)
  /\ runner' = [runner EXCEPT ![p] = Read(p, g)]
  /\ UNCHANGED <<active, confirmed>>

HandleConnectionClosed(p, g) ==
  /\ Reading(p, g, "ConnectionClosed")
  /\ LET key == <<p, Head(runner[p][g].events).id>>
     IN  /\ bound' = Without(bound, {key})
         /\ tabs' = [t \in DOMAIN tabs |->
                       IF key \in DOMAIN bound /\ bound[key] = t
                       THEN [tabs[t] EXCEPT !.conn = None, !.responder = "none"]
                       ELSE tabs[t]]
  /\ runner' = [runner EXCEPT ![p] = Read(p, g)]
  /\ UNCHANGED <<active, confirmed, next_tab_id, pending>>

\* drive_mailbox and drive_k2k on a line that signs off: the responder hangs up.
HandleSignOff(p, g) ==
  /\ Reading(p, g, "SignOff")
  /\ LET key == <<p, Head(runner[p][g].events).id>>
         driven == {t \in DOMAIN tabs : /\ key \in DOMAIN bound /\ bound[key] = t
                                        /\ tabs[t].responder # "none"}
     IN  /\ tabs' = [t \in DOMAIN tabs |->
                       IF t \in driven THEN [tabs[t] EXCEPT !.responder = "none"] ELSE tabs[t]]
         /\ runner' = [runner EXCEPT ![p] =
              IF driven = {} THEN Read(p, g)
              ELSE Command(Read(p, g), active[p], Close(key[2]))]
  /\ UNCHANGED <<active, confirmed, next_tab_id, pending, bound>>

\* connect_port's future finds the channel closed, and removes whatever handle
\* the port has by then.
LoopEnds(p, g) ==
  /\ runner[p][g].phase = "gone" /\ runner[p][g].events = <<>>
  /\ LetGo(p, [runner[p] EXCEPT ![g].phase = "joined"])
  /\ UNCHANGED <<kind, confirmed, tabvars, moves, overlapped>>

-----------------------------------------------------------------------------

Init ==
  /\ kind \in [Port -> Kinds]
  /\ runner = [p \in Port |-> <<>>]
  /\ active = [p \in Port |-> None]
  /\ confirmed = {}
  /\ tabs = <<>> /\ next_tab_id = 1
  /\ pending = <<>> /\ bound = <<>>
  /\ moves = 0
  /\ overlapped = {}

User ==
  \/ \E p \in Port : (\E n \in Node : Dial(p, n)) \/ ConnectPort(p) \/ DisconnectPort(p)
  \/ \E t \in DOMAIN tabs : Redial(t) \/ HangUp(t) \/ CloseTab(t)

World(p, g) ==
  \/ Drops(p, g) \/ HangsUpUnnoticed(p, g)
  \/ \E n \in Node : StationCalls(p, g, n)
  \/ \E id \in DOMAIN runner[p][g].conns :
       Answered(p, g, id) \/ Finishes(p, g, id) \/ StationSignsOff(p, g, id)

RunnerRuns(p, g) ==
  StartFails(p, g) \/ (\E broke \in BOOLEAN : Starts(p, g, broke)) \/ Serve(p, g) \/ Exits(p, g)

Handle(p, g) ==
  \/ HandlePortConnected(p, g) \/ HandlePortDisconnected(p, g) \/ HandlePortError(p, g)
  \/ HandleConnectionOpened(p, g) \/ HandleConnectionClosed(p, g)
  \/ HandleSignOff(p, g) \/ LoopEnds(p, g)

Next ==
  \/ User
  \/ \E p \in Port : \E g \in DOMAIN runner[p] :
       World(p, g) \/ RunnerRuns(p, g) \/ Handle(p, g)

Spec == Init /\ [][Next]_vars

\* The runner threads and the GTK main loop run; nothing obliges the user, a
\* station or the transport.
FairSpec ==
  /\ Spec
  /\ \A p \in Port : \A g \in 1..MaxRuns :
       /\ WF_vars(g \in DOMAIN runner[p] /\ RunnerRuns(p, g))
       /\ WF_vars(g \in DOMAIN runner[p] /\ Handle(p, g))

-----------------------------------------------------------------------------
(* Properties.                                                             *)

\* Ports whose tabs the properties below are about: not AGWPE, which announces
\* connections twice, nor one whose stream could not be cloned
\* (kiss_runner.rs:124), which never says PortDisconnected.
Regular(p) == kind[p] # "agwpe" /\ \A r \in Range(runner[p]) : ~r.broke

\* The window's two records of a connection agree: bound leads to a tab of the
\* port that shows the connection, and a tab shows a connection only while
\* bound leads its events there, so no tab shows one whose end it will never
\* hear of (window.rs:1374, 1313).  That fails on a port two of whose runners
\* overlapped, which takes a third: the late end of the first removes the
\* handle of the second (window.rs:199), the port counts as inactive and is
\* connected again, and the third's connection 1 is bound where the second's
\* was.
TabsFollowConnections ==
  /\ \A k \in DOMAIN bound :
       /\ bound[k] \in DOMAIN tabs
       /\ tabs[bound[k]].port = k[1] /\ tabs[bound[k]].conn = k[2]
  /\ \A t \in DOMAIN tabs :
       LET k == <<tabs[t].port, tabs[t].conn>>
       IN  k[2] # None /\ Regular(k[1]) /\ k[1] \notin overlapped =>
             k \in DOMAIN bound /\ bound[k] = t

\* A runner the window can no longer reach is on its way down: no order of
\* connects, failures and late ends leaves one that keeps the transport, hears
\* stations and takes no command (connect_port, window.rs:199).
NoRunnerIsOrphaned ==
  \A p \in Port : \A g \in DOMAIN runner[p] :
    runner[p][g].phase \in Running /\ g # active[p] =>
      Disconnect \in Range(runner[p][g].cmds)

\* Nothing is under way between the window and the runners of a port.
Quiet(p) ==
  \A r \in Range(runner[p]) :
    r.phase \in {"up", "joined"} /\ r.events = <<>> /\ r.cmds = <<>>

\* Then the tabs show the connections there are: each that is bound is one the
\* runner has, also if it is hung up unnoticed, and each the runner has is
\* bound, although ids begin at 1 again with each runner and ends of the last
\* one's may be handled late (window.rs:1302).
QuietTabsAreTrue ==
  \A p \in Port : Quiet(p) /\ Regular(p) =>
    LET up == {r \in Range(runner[p]) : r.phase = "up"}
        shown == {k[2] : k \in {b \in DOMAIN bound : b[1] = p}}
    IN  /\ \A id \in shown : \E r \in up :
             id \in DOMAIN r.conns /\ r.conns[id].st # "closed"
        /\ \A r \in up : {id \in DOMAIN r.conns : r.conns[id].st \in Live} \subseteq shown

\* A port the user disconnects is let go of, whatever it was doing: its runner
\* ends and the window hears of it.
DisconnectEnds ==
  \A p \in Port : \A g \in 1..MaxRuns :
    (active[p] = g /\ Disconnect \in Range(runner[p][g].cmds)) ~> active[p] # g

\* window.rs:1380, "An unsolicited connect can be auto-answered": a responder
\* talks only on connections the other station made.
OnlyCallersAreGreeted ==
  \A t \in DOMAIN tabs :
    LET id == tabs[t].conn
    IN  tabs[t].responder # "none" /\ id # None =>
          \E r \in Range(runner[tabs[t].port]) :
            id \in DOMAIN r.conns /\ r.conns[id].by = "them"
=============================================================================

# PacketRC (pgprc): verification project

PacketRC is a packet-radio terminal in Rust: a GTK program (`src/pr-app`) that
opens *ports* (KISS TNCs, the kernel's AX.25 sockets, AGWPE servers, Telnet,
SSH), shows each connection in a tab, and answers incoming connects with a
mailbox or a keyboard-to-keyboard chat.  On a KISS port there is no AX.25 stack
underneath: the program brings its own ARQ state machine.  This directory holds
TLA+ models of the program, the TLC configurations that check them on small
instances, and proofs that hold for every instance.

Every definition that models code is translated from the source named for it in
`PROJECT.json` under `map`.  Line numbers refer to the commit in `src/`.

## 1. Inventory

| Component | Source | State | Operations |
|---|---|---|---|
| ARQ session | `pr-ax25/src/arq.rs` | `state`, V(S), V(R), `outstanding`, `backlog`, `retry_count`, `t1_deadline`, `peer_busy` | `open`, `accept_incoming`, `close`, `send`, `tick`, `on_frame` (SABM, DISC, UA, DM, FRMR, I, RR, RNR, REJ); each returns a list of `Action`s |
| KISS port, command loop | `pr-ax25/src/kiss_runner.rs` | `ConnMap` (sessions, call -> id), `next_id` | `command_loop`, `handle_internal_event`, `open_connection`, `apply_actions`, `shutdown` |
| KISS port, transports | `kiss_runner.rs`, `kiss_tcp.rs`, `kiss_serial.rs`, `kiss_ble.rs` | a socket, serial port or BLE link; the reader thread, its stop flag | open, read, write, end |
| KISS framing | `pr-ax25/src/kiss.rs` | partial frame, escape flag | `encode_frame`, `KissDecoder::feed` |
| AX.25 headers, XID, NODES | `pr-ax25/src/wire.rs`, `xid.rs`, `netrom.rs` | none | encode, decode, reverse a route, negotiate parameters |
| Kernel AX.25 port | `pr-ax25/src/runner.rs` | socket map shared by a command thread, an accept thread and a reader thread per connection | connect, accept, read to EOF, send, close, disconnect |
| AGWPE port | `pr-agwpe/src` | `ConnMap` under a mutex, shared by a command thread and a reader thread | register, connect, data, disconnect frames; the frame codec |
| Telnet, SSH ports | `pr-core/src/transports` | one connection, `TelnetFilter` | connect, read, write, close |
| Port interface | `pr-core/src/port.rs` | none: `PortCommand` down, `PortEvent` up | `ConnState` |
| Window | `pr-app/src/window.rs`, `session_tab.rs` | `active`, `pending`, `bound`, `confirmed_ports`, `established_conns`, the tabs | `connect_port`, `disconnect_port`, `handle_event`, `connect_tab`, `disconnect_tab`, `close_tab` |
| Responders | `mailbox.rs`, `keyboard_mode.rs`, `session_tab.rs` | per-tab mailbox state, active chats, the line buffer | answer an incoming connect, run commands, log contacts |
| Stations, beacons, QSO log | `app_state.rs`, `notify.rs`, `beacon.rs`, `window.rs` | address book, notified packets, incoming beacons, timers, open log entries | hear, notify, beacon, open and close an entry |
| Settings dialogs | `address_book_dialog.rs`, `incoming_beacons_dialog.rs`, `beacons_dialog.rs`, `mailbox_dialog.rs`, `ports_dialog.rs`, ... | clones of what they edit | add, save, remove, switch on and off, reschedule |
| Configuration files | `pr-core/src/config.rs` | one file per part | load, migrate, save |
| Direwolf control | `pr-app/src/direwolf.rs` | a child process, the thread that waits for it | start, stop, hear of its exit |
| Views and formatting | `pr-app/src` | widgets | none that another part depends on |

How they interact.  The window holds one command channel per port and receives
the port's events on another; both are unbounded queues, so a command may name
a connection that has closed since, and an event may come from a runner the
window has already given up.  A KISS port is two threads: a reader that decodes
frames into a channel, and `command_loop`, which owns all sessions and takes
turns between queued frames, at most one command (waiting at most
`TICK_INTERVAL`, 200 ms) and the T1 timer of every session.  A session is pure:
it never does I/O, and `apply_actions` turns its `Action`s into writes and
`PortEvent`s.  The kernel and AGWPE ports share their maps between threads.
Everything of the window runs on the GTK thread, one handler at a time; what
makes it hard is that handlers of several runners of one port interleave, and
that dialogs hold clones of the configuration while frames go on changing it.

What is hard.  Frames are lost, late, heard twice, and answered out of order;
both ends may connect, reset and disconnect at once; N(R) and N(S) wrap at 8; a
timeout races its answer; a write may fail in the middle of a turn; the UI acts
on what it was told, not on what is so; a port is connected again while its last
runner is still going down; a stream is cut into reads anywhere; the program may
stop between two files of a save.

What makes each part correct:

* *session*: window, timer, queues and reports agree with one another after any
  sequence of frames, requests and expiries, and every wait ends;
* *link*: two sessions over such a radio carry a byte stream each way;
* *port*: what the UI was told of each connection is what the port holds, ids
  are never reused, every connect attempt ends;
* *kernel port*: the same promise, with several threads;
* *AGWPE port*: the links of the TNC, the map of connections and the UI agree
  whenever nothing is under way;
* *threads*: every port that is disconnected ends, whatever it is blocked in;
* *window*: the tabs show the connections there are, nothing of a dead
  connection or port stays behind, and no runner escapes;
* *codecs*: decoding inverts encoding however the stream is split; what is
  answered outside a session goes back to who asked, and there ends;
* *responders*: a caller is told what its lines ask for, in whatever pieces;
* *stations and timers*: dialogs with old clones lose nothing that was heard,
  and what goes out by itself is what the settings say;
* *configuration*: what was saved is loaded again, wherever the program stopped;
* *Direwolf*: there is at most one, and it can be stopped.

`PROJECT.json` lists under `hazards` the places where this can go wrong, with
the property that covers each or the reason none does.

## 2. Modules

```
 Arq  (operators: the session)                LinkService   PortService
  |                                               ^  refines     ^  refines
  +-- ArqSession   one session, any peer          |              |
  +-- ArqLink      two sessions and a radio ------+              |
  +-- KissPort     command_loop, many sessions ------------------+
  +-- Arq_proofs   lemmas of the session                         |
  |     +-- ArqSession_proofs                     theorems       |
  |     +-- ArqLink_proofs                        theorems       |
  |     +-- KissPort_proofs                       theorems       |
 KernelPort        threads over the kernel's sockets ------------+
 AgwPort           threads over a TNC and a map of connections
  +-- AgwPort_proofs                              theorems
 StreamPort        threads over one byte stream: KISS TNCs, Telnet, SSH
 Window            the window and the runners it starts
  +-- Window_proofs                               theorems
 Streams  Frames   codecs, and answers outside a session
 Responders  Stations  Beacons  ConfigFiles  Direwolf     the rest of the program
 Lists    what retain and remove leave of a list  (operators of three of them)
 MCArqSession, MCArqLink, MCKissPort, MCWindow    small instances for TLC
 MCLink    ArqLink under two sets of bounds  (variable scenario)
 MCPorts   KernelPort, AgwPort, StreamPort   (variable port)
  +-- Ports_proofs                                theorems
 MCLocal   Streams ... Direwolf              (variable part)
  +-- Local_proofs                                theorems
```

MCLink, MCPorts and MCLocal run small models side by side: the initial state chooses
one, whose variables move while those of the others rest.  Nothing is composed
there.

**Arq** is `arq.rs` as the code has it: pure.  Every method of `ArqSession`
is an operator from a session and an input to `Result(session, actions)`.
`Fragment` is `fragment`; `PushBacklogIntoWindow`, `AckUpTo`, `OnInformation`,
`OnReject`, `OnSabm` and the rest carry the code's names.  A session is a record
with the code's fields; `t1` says whether `t1_deadline` is set, since durations
are never compared with each other.  Addresses and the digipeater route are left
out, because a session never changes them.  Payloads are kept: what is
transmitted, retransmitted and delivered is the point.

**ArqSession** drives one session the way `command_loop` does: created by a
connect or an incoming SABM, then fed *any* frame with any numbers at any time,
requests of the user, and expiries of T1.  `actions` is what the last operation
returned, `reported` the state the UI was last told; `accepted` is a history
variable, the chunks accepted since V(S) was last reset.

**ArqLink** composes two sessions with a radio.  `Handle` is
`handle_internal_event` for one peer: a session is created by a SABM, a DISC
without a session is answered with DM, a Disconnected session is forgotten
(`Kept`).  The radio drops any frame; with `Digipeated` a frame is also heard
again later from its digipeater.  With `PatientT1` T1 expires only when nothing
that could answer is under way.  **LinkService** is the abstract specification:
byte streams, without a frame in it.

**KissPort** is `command_loop` with its `ConnMap`.  `phase` is where the loop
stands: `frames`, `command`, `timers`, then `closing` and `stopped`.  One frame,
one command and one visit of a session's timer are a step each; `Apply` is
`apply_actions` with `remove_if_disconnected`, `Mint` the code that both
`open_connection` and an incoming SABM run.  A step that writes may fail, and
the loop then ends.  Users type *spellings*; `AddressOf` is what `parse_address`
makes of them, so that `CALL-0` and `CALL` are one station under two keys.

**KernelPort** is `runner.rs`: the command thread, the accept thread and one
reader thread per connection, with the socket map under its mutex and the atomic
`next_id`.  `command`, `accept` and `reader[id]` are where each thread stands; a
step is one access to what they share, or one blocking call.  `Send` writes with
the map locked, so it is two steps, and whoever else needs the lock waits
(`Unlocked`); every other holder only looks up, inserts or removes, in one step.
What a thread tells the UI of its own connection goes with the access before it,
except in `accept_loop`, where the event comes before the insert and is a step of
its own.  The kernel is external: `link[id]` is its connection, which comes up
when a connect succeeds or a station is accepted, and goes down when a socket is
shut down or the other station ends it.

**PortService** is the abstract specification, the promise of any
connect-capable port to the UI: each connection has an id of its own, goes
through its states in a sensible order, is closed at most once, and after
`PortDisconnected` nothing is said of it.  The kernel port keeps a weaker form
of the last part (`ClosesLate`): its readers report the end of their connections
after it.  Both ports are shown to implement it.

**AgwPort** is `client.rs`: the command thread and the reader thread over the
`ConnMap` under its mutex, with the TNC as an external party that has the links
(`link[c]`).  `command` and `reader` are records: where the thread stands and the
id and station it took from the map.  A look-up, the events announced from it
and the write to the TNC are a step each, because the lock is given back in
between.  The port does not implement `PortService`, so it is not compared with
it: it reports a connection as opened, and its state, again when the TNC
confirms it or the user calls a connected station; `read_loop` may report a
frame it had already read after `PortDisconnected`; and `OpenConnection` may
announce an id the reader has closed since the look-up (`overtaken`).  Its
properties say what holds all the same.  Stations are named as the TNC names
them; a callsign typed in another spelling would never be matched.

**StreamPort** is how the five kinds of port that are a single byte stream start
and end: TCP, serial and Bluetooth TNCs, Telnet and SSH.  `main` opens, loops,
leaves and joins; `reader` blocks in a read until the stream ends or, for a TNC,
the stop flag is set.  What each kind does to its stream when its loop ends
(`StreamAfter`) is the point: it is what sets the blocked reader free.

**Window** is `window.rs` composed with the runners it starts.  `runner[p]` is a
sequence, because a port that is connected again has a new runner while the last
one is going down: each has its own queue of commands (`cmds`) and of events
(`events`), and a phase.  `active`, `confirmed`, `pending`, `bound` and `tabs`
are the window's maps; one `Handle...` action per `PortEvent` that changes them,
and `LoopEnds` for the end of the future that `connect_port` spawns.  A dropped
handle is a queued `Disconnect`, because the runner then reads an error.  The
four kinds of runner behave as the port modules show: a KISS port closes no
connection when it ends, a kernel port late, an AGWPE port announces twice, a
terminal does not notice that its host has hung up.  `overlapped` is a history
variable, the ports that were started while an earlier runner was `Unheard`, that
is, ran or had its `PortDisconnected` still under way; see 4.

**Streams** has the three decoders, KISS, Telnet and AGWPE, as folds of a step
over classes of bytes, with the encoding each undoes.  Items are encoded, the
bytes arrive in chunks of any size, and noise may come first.

**Frames** is what a KISS port makes of a frame that belongs to no session:
`handle_kiss_payload`, the address fields with their H and end bits, and the
answers of `handle_internal_event` to SABME, XID and DISC.  Two stations run the
code, and the answer of one is heard by the other.  XID parameters are sets of
capabilities.

**Responders** is who answers an unsolicited connect, the mailbox and the chat
over a sequence of words and line ends, and the log of contacts.  **Stations** is
what is kept of stations that are heard, the rules that fill the notification
logs, and the dialogs over both, each of which works on clones made when it was
opened.  **Beacons** is everything that is sent by itself: the beacon list, the
availability beacons, their timers, and the ports they refer to.  **ConfigFiles**
is `load`, `migrate_legacy_config` and `save`, with a program that may stop
before, after or in the middle of any write; the contents of a part is the number
of the edit that made it.  **Lists** says by places what `retain`, `filter` and
`remove` leave of a list, because what is said by recursion cannot be reasoned
about here (5).  **Direwolf** is the child process, the thread that waits
for it, and the task that hears of it.

**Fault definitions.**  The models contain a few operators marked
*Fault*.  They are not part of the models: each is a plausible slip in the
operator that follows it (a dropped reset, an off-by-one, a map not cleaned up).
`PROJECT.json` under `mutants` says which property detects which; replacing the
operator by its Fault makes TLC report that property violated.

## 3. What the runs check

| Run | Expect | Question |
|---|---|---|
| ArqSession | pass | Is one session consistent, and does every wait end, whatever its peer sends? |
| ArqSessionHang | violation | Does accepted data always leave the backlog? |
| Link | pass | Do two stations that connect, reset, transfer both ways, disconnect and give up keep a byte stream's promises, and does an established link keep them across the wrap of the numbers, whatever T1 is? |
| LinkLive | pass | Once the radio stops losing frames, does every wait end? |
| LinkEarlyT1 | violation | Does the answer of Link survive a T1 shorter than the round trip? |
| LinkDigipeated | violation | Does it survive frames heard twice? |
| KissPort | pass | Do the UI, the session map and the call map stay in step, and does every connect attempt end? |
| KissPortTwice | violation | Is there one session per remote station? |
| Ports | pass | Do a kernel port's threads keep every live connection reachable and report every end once?  Do the TNC, the map and the UI of an AGWPE port agree when nothing is under way?  Does every kind of port end when it is disconnected? |
| Window | pass | Do the tabs come to show the connections there are, whatever is dialed, closed, disconnected and connected again, and does no runner escape? |
| WindowAgwpe | violation | Does the mailbox talk only to stations that called? |
| Local | pass | Are streams understood, lines answered, settings followed and files loaded, by the parts that run in one thread? |

The properties, each with a comment at its definition:

* `ArqSession`: `WindowIsContiguous`, `TimerRunsWhileWaiting`,
  `NoStrandedBacklog` (no lost wakeup), `ReportedStateIsActual`,
  `QueuesKeepOrder` (the two queues hold the newest accepted chunks in order,
  each numbered by its position), `AiredFramesAreRetained` (what is on the air
  can be sent again), `ClosedExactlyAtTheEnd`, `SilenceEndsWaiting`.
* `ArqLink`: `AckedWasReceived`, `EndsAgreeWhenQuiet`, `ImplementsLinkService`,
  `WaitsEnd`.
* `KissPort`: `UiMatchesSessions`, `CallsLeadToTheirSession`,
  `ImplementsPortService`, `ConnectAttemptsEnd`.
* `KernelPort`: `ConnectedIsReachable`, `OnlyLateLinksSurvive`,
  `ImplementsPortService`, `EndedLinksClose`.  Three of them name an exception, and
  each is a place where the code gives the UI less than it may expect: a
  connection is announced by `accept_loop` before it is in the map
  (`runner.rs:203`); one whose socket cannot be cloned is never closed (`:80`,
  `:206`); one accepted after the sockets were shut down outlives the port (`:157`).
* `AgwPort`: `MapsAreInverse`, `QuietMapIsTrue`, `QuietUiIsTrue`,
  `ConnectAttemptsEnd`; `QuietUiIsTrue` and `ConnectAttemptsEnd` name the
  overtaken ids as an exception.
* all three kinds of port: `PortsEnd`, that each of their threads ends.
* `Window`: `TabsFollowConnections`, `NoRunnerIsOrphaned`, `QuietTabsAreTrue`,
  `DisconnectEnds`.  The first and third leave out AGWPE ports and ports whose
  stream could not be cloned; see 4 and 7.
* `Streams`: `StreamsAreUnderstood`.  `Frames`: `AnswersGoBack`.
* `Responders`: `LinesAreAnswered` (against the whole transcript),
  `LiveQsosAreOpen`.
* `Stations`: `HeardIsKept`, `RowsDeleteWhatTheyShow`,
  `WatchesFollowTheToggle`.  `Beacons`: `TimersFollowSettings`.
* `ConfigFiles`: `SavedIsLoaded`.  `Direwolf`: `RunningIsHeld`.

### Bounds

* *ArqSession*: `Window = 3`, `N2 = 1`, messages of three bytes cut into two
  frames of unequal length, and at most `MaxChunks = 10` chunks accepted per
  link.  Ten is more than the modulus, so V(S) wraps with the window full and
  data in the backlog; the peer's frames carry every N(S), N(R) and P/F bit.  One
  retry reaches both sides of the N2 boundary.
* *Link*, scenario `connects`: each user connects once, or closes a second time
  while its first DISC is unanswered (`MaxOpens = 1` counts both), and sends two
  bytes; `Window = 2`, three frames under way to each station.  Simultaneous connects,
  connects that cross a disconnect, a window sent twice and an exhausted retry
  count all occur.  What does not fit on the air is lost.  Scenario `transfer`:
  one sender, three bytes, `FirstSeq = 6`: the transfer passes 7 -> 0 with a full
  window and a backlog.
* *KissPort*: two stations, four spellings (two of one station, one that does
  not parse), two ids, `Window = N2 = 1`; the bound `MaxSent` counts V(S) plus the
  backlog of a session when the UI sends.  Two ids suffice for a connection to be
  replaced by another of the same station, or to run beside one of another; the
  numbers within a session are the business of ArqSession, so frames number 0 and
  acknowledge all or nothing.
* *Ports*, kernel: two connections (`MaxIds = 2`), each opened by the UI or
  accepted, so that the command thread and the accept thread race for an id and
  the lock, and a reader of one connection for the lock held by a write to the
  other.  A third adds only another reader, and the theorems hold for any number.
* *Ports*, AGWPE: two stations, two connects in all (by the user or the station),
  two frames under way in each direction.  Two connects of one station make a call
  cross an incoming connect or the end of the link before it, which is where
  ids are shared or overtaken.
* *Ports*, streams: all five kinds; there is nothing to bound.
* *Window*: one port, of each of the four kinds, started twice (`MaxRuns = 2`), so
  that a runner goes down beside its successor; one station and two moves
  (`MaxMoves = 2`: dials, tabs closed, incoming calls, sign-offs), so that a dial
  meets an incoming call of the same station, or a tab is closed while its
  connection opens.  Ports share nothing in the window but the tab ids.  Two runs
  are too few for runners to overlap (4); with three, the safety properties were
  checked for each kind by itself (up to 9.5 million states), beyond what the run
  can afford, and the theorems hold for any number.
* *Local*, streams: two items, after up to two bytes of noise for KISS; every byte
  that a codec gives a meaning to occurs in every position, and AGWPE chunks of 1,
  7 and 20 places cut headers and data anywhere.
* *Local*, frames: routes of up to two digipeaters, and an answer that is answered
  (`MaxHops = 3`).
* *Local*, files: two edits and two stops, so that a save follows one that was
  interrupted.  Three of the eleven parts are edited; the others are written too.
* *Local*, responders: two connections in the log, five words or line ends.  A
  line split in three pieces, two lines in one, and a CQ that is called, answered
  and cleared fit.
* *Local*, stations and beacons: two stations, two ports, three beacons and four
  moves (`MaxMoves = 4`): enough for a packet to be recorded, shown, deleted and its id
  given out again, or for an entry to be heard while it is edited.
* *Local*, Direwolf: three starts, two saved settings: a third process while the
  end of the first is still unheard of.

Deadlock is checked where the system cannot stop (ArqSession).  A port stops
after `Shutdown`, `JoinReaders` or `JoinReader`, a link whose users have used up
`MaxOpens` and `MaxBytes` may come to rest, a stream is read to its end, and the
bounded parts run out of moves, so their runs do not check it.

### Fairness

* `ArqSession`: `WF(Tick)`.  `command_loop` visits every session's timer at
  least every `TICK_INTERVAL`, whatever else happens.  Nothing is assumed of
  peer or user.
* `ArqLink`: weak fairness of `Hear` and `Timeout` of each station, for the same
  reason and because a queued frame is handled in the next turn.  `WaitsEnd`
  additionally assumes, as a premise stated in the property, that the radio
  eventually stops losing frames.  The premise is needed: a radio that loses the
  same frame of every window for ever lets each REJ reset the retry count.
* `KissPort`: the loop keeps turning (weak fairness of the steps between its
  phases).  `TimerExpires` of a Connecting session is strongly fair: the action
  is possible only in the `timers` phase, once per turn, and nothing but its own
  expiry restarts T1 of a session that awaits its UA, so some turn finds it
  expired.
* `KernelPort`: weak fairness of each thread's own steps.  The steps that need
  the lock while another thread may write again and again (`RemoveSocket`,
  `InsertAccepted`) are strongly fair: a thread that waits for a mutex that is
  free time and again gets it.  The kernel ends every connect and write sooner or
  later, and ends a read or an accept once its socket is shut down; the code
  relies on both when it joins its threads, and looks at no result of
  `libc::shutdown` (`raw_socket.rs:266`).
* `AgwPort`: weak fairness of each thread, and of the TNC, which carries out
  requests and ends every call with a 'C' or a 'd'.  Nothing is assumed once the
  stream is gone: the reader then ends without telling anybody, and the port
  learns of it only from a write that fails.
* `StreamPort`: opening returns, and a thread that can go on does.  A write
  happens only when there is something to send, so a loop is obliged to end only
  by a command, a dropped handle or the Bluetooth watcher (`LoopEnds`), never by a
  write that would fail.
* `Window`: each runner's own steps and the GTK main loop's handlers.  Nothing is
  assumed of the user, a station or a transport.

## 4. Findings

Five disagreements between the code and what its comments say, each a run that
TLC finds violated; `PROJECT.json` quotes the lines.

1. *A busy peer that goes silent stalls a link for good* (`ArqSessionHang`).
   After RNR with nothing outstanding T1 is not running, the backlog is not sent
   and the peer is never polled.  `arq.rs:15` promises never to hang.
2. *A repeated SABM resets one end of a working link* (`LinkEarlyT1`).  If T1 is
   shorter than the round trip, the second SABM arrives after data was exchanged;
   the ends number differently from then on, and an old N(R) acknowledges data
   nobody received.
3. *Frames heard twice are handled twice* (`LinkDigipeated`).  Nothing looks at
   `has_repeated`, and `ack_up_to` pops the whole window for an N(R) it does not
   contain.
4. *Two sessions with one station* (`KissPortTwice`).  A second connect to a
   connected station overwrites the call map; the first session never hears its
   peer again.  `ConnectAttemptsEnd` and `UiMatchesSessions` show that it still
   ends and that the UI learns of it.
5. *The mailbox answers a station that we called* (`WindowAgwpe`).  An AGWPE port
   reports `ConnectionOpened` when a connect is asked for and again when the TNC
   confirms it (`client.rs:119`, `:251`); the first consumes the pending dial
   (`window.rs:1364`), so the second passes for an unsolicited connect, opens
   another tab and may start a responder.

A sixth thing came out of a proof and needs no run of its own, since no comment
promises otherwise: *connections of two runners may share a number*.  The future
that reads a runner's events ends with `active_ports.remove` (`window.rs:199`),
whichever runner has the handle by then.  If the first runner's ends after the
second was started, the port reads as inactive, a connect starts a third, and the
connections of the second and the third, both counted from 1, are bound in the
map of `window.rs:97` over one another.  That the window's two records of a
connection agree was an invariant of the runs with two runners; the attempt to
prove it failed at this step, TLC then found the behaviour with three, and
`TabsFollowConnections` now says it of the ports that are not `overlapped`.

## 5. What is proved

Checked by TLAPS, in the eight modules whose names end in `_proofs`.

### A session, against any peer

The assumptions are those the modules state: `ArqConfigAssumption` (`Window` in
1..7, `N1` at least 1, which `arq_config_from` enforces, `N2` a natural number) and
`ArqSessionAssumption` (the inputs are byte sequences).  The sets of bytes,
messages and payloads are arbitrary.

| Theorem | States |
|---|---|
| `Invariance` | `Spec => []Inv` |
| `TypeCorrect` | `Spec => []TypeOK` |
| `WindowStaysContiguous` | `Spec => []WindowIsContiguous` |
| `TimerRunsExactlyWhileWaiting` | `Spec => []TimerRunsWhileWaiting` |
| `NoBacklogIsStranded` | `Spec => []NoStrandedBacklog` |
| `UiIsToldTheTruth` | `Spec => []ReportedStateIsActual` |
| `LinksCloseOnce` | `Spec => ClosedExactlyAtTheEnd` |
| `AiredFramesStayRetained` | `Spec => []AiredFramesAreRetained` |
| `QueuesStayInOrder` | `Spec => []QueuesKeepOrder` |

The argument.  None of the invariants is inductive alone.  That T1 runs while
something is outstanding rests on what `PushBacklogIntoWindow` appends and
`AckUpTo` removes; that the window stays within `k` and contiguous rests on
queues existing only while Connected, or a reset of V(S) would leave old numbers
behind; that no backlog is stranded rests on the window being contiguous, so
that `AckUpTo` frees exactly a prefix.  `Inv` is their conjunction,
`Consistent(sess)`, with the state the UI was last told.

`Arq_proofs` works bottom up, one lemma per operator of `Arq`.  `Truthful(r, before)`
says that the actions of a result report the state change it made, exactly once
and with `Closed` exactly at the end; `Sound(r, before)` adds that the resulting
session is consistent.  Each operation has a lemma `...IsSound`: from a
consistent session it makes a sound result.  `PushBacklogIntoWindow` is
characterised without its loop: it moves a prefix of the backlog, and numbers it
on from V(S).  `ArqSession_proofs` is then short: applying a sound result keeps
`Inv`, and every action applies one.

`AiredFramesAreRetained` is a property of one step and needs of `Inv` only the
window's bound: whatever transmits an I frame transmits what
`PushBacklogIntoWindow` has just appended, or the window again, and what an
operation does after that leaves the window alone (`Retains`).

`QueuesKeepOrder` is not inductive either: the number of the next frame to leave
the backlog is V(S), which it does not mention.  `InOrder(sess, accepted)` adds
that V(S) is the number of chunks that have left the backlog, modulo 8, and that
it is 0 while the link is being set up, where a UA must find it so.  Moving chunks
up, acknowledging a prefix and appending to the backlog and to the history keep it
(`PushInOrder`, `ShorterInOrder`, `SendInOrder`); the numbers of the frames in the
window then follow from the window being contiguous.  With it every invariant that
the runs of `ArqSession` check is proved.

### A link that is up, over a radio that loses frames

| Theorem | States |
|---|---|
| `AcknowledgedIsReceived` | `Established => (Spec => []AckedWasReceived)` |
| `ConnectedEndsAgree` | `Established => (Spec => []EndsAgreeWhenQuiet)` |
| `LinkImplementsService` | `Established => (Spec => ImplementsLinkService)` |

For any window, any number of bytes both ways, numbers that start anywhere and
wrap any number of times, any frames lost, a T1 that expires whenever it likes
(`PatientT1` or not), retries exhausted and links taken down.  `Established` is
`LinkUp /\ MaxOpens = 0 /\ ~Digipeated`: the link starts up, nobody connects
again or repeats a close, and no frame is heard twice.  It is scenario `transfer` of *Link* with its
bounds removed.  Frames heard twice and connects cannot be let in as they are:
`LinkDigipeated` refutes the theorems for the ones, and `LinkEarlyT1` for a SABM that
is repeated within a working link.  That connects and resets are harmless when T1 is patient
is what scenario `connects` checks; its argument needs every frame under way of
the link before, and stays with TLC.

The argument is that of a sliding window, with three things this code adds: it
keeps no sequence number longer than three bits, it retransmits the whole window
with the newest N(R), and `ack_up_to` pops until it finds N(R), whether the window
contains it or not.  A station's `Side` counts in full what the session counts
modulo 8: bytes accepted, sent, known to be acknowledged, and given to the user.
`SidesFit` relates the two (what a sender takes for acknowledged, its peer has
given to its user; what the peer was given, the sender has sent; the difference is
at most the window, at most 7, so that a number of three bits tells all of them
apart).  `Traffic` speaks of the frames under way: each fits (`FrameFits`: an I
frame carries the byte its number stands for, seen from the receiver, and its N(R)
stands for something between what the receiver knows and what the sender has), and
of two in one queue the later never takes an acknowledgement back and never goes
back by a window or more (`OrderFits`), without which an N(S) of a retransmission could be
taken for that of a new frame.  `GoesOn` says what an operation of a session does
to all this, once per operation; `Rests` is the other outcome, that the link ends
here, after which this station says nothing that is numbered.  `LinkInv` was
checked by TLC before it was proved.

`AiredBy` is the fold that collects the frames among the actions.  That it exists
and keeps their order is induction over the list, which `SetInduction` states of
the set of lengths for which it holds, so that no theorem with an operator
parameter is needed.

### A KISS port, with any number of sessions

The assumptions are `ArqConfigAssumption` and `KissPortAssumption`.

| Theorem | States |
|---|---|
| `UiBelievesTheSessions` | `Spec => []UiMatchesSessions` |
| `CallMapIsSound` | `Spec => []CallsLeadToTheirSession` |
| `KissPortImplementsPortService` | `Spec => ImplementsPortService` |

The argument.  `UiMatchesSessions` cannot be proved of the port alone: that the UI
hears of each change of state once is the session's promise, `Truthful` of
`Arq_proofs`, which is why every `...IsSound` lemma is cited again here.  `IInv`
says that the maps have entries only for ids given out (`MapsAreTyped`,
`UntakenAreUnknown`), that each session is `Consistent` and not Disconnected
(`SessionsAreAlive`), that what the UI was told of it is its state, and that the
timers due belong to sessions (`DueExist`).  It leaves room for finding 4: a second
connect to one station overwrites the call's entry, so the call map need not lead
to every session, only to none but the station's.  For the refinement, a step
either operates one session (`Operates`), opens one (`Opens`), or tells nothing
(`Idles`), and `News` picks out what of the actions the UI hears.

### A kernel port, with any number of connections

The one assumption is `KernelPortAssumption` (`MaxIds` is a natural number).

| Theorem | States |
|---|---|
| `TypeCorrect` | `Spec => []TypeOK` |
| `EveryConnectionIsReachable` | `Spec => []ConnectedIsReachable` |
| `EverySocketHasAReader` | `Spec => []SocketsHaveReaders` |
| `NoOtherLinkSurvives` | `Spec => []OnlyLateLinksSurvive` |
| `KernelPortImplementsPortService` | `Spec => ImplementsPortService` |

The argument.  A connection is neither in the map nor ended for the few steps in
which the command thread opens it or the accept thread takes it, and none of the
properties survives unless these two are told apart.  Nothing locks the ids: what
tells them apart is that the UI was told `Connecting` of the one and nothing, or
`Connected`, of the other.  `IInv` is `TypeOK` with three groups:

* `Own`, who has which connection: ids not yet given out are no connection's
  (`UntakenAreUnused`), the command thread's and the accept thread's
  (`CommandOpensItsOwn`, `AcceptTakesItsOwn`), and a reader goes through its
  states with its link and what the UI knows (`ReadersFollowLinks`);
* `Kept`, what the map has: every socket in it has a reader, or gets one
  (`SocketsHaveReaders`), and every link that is up is in it, or on its way
  (`UpIsKept`);
* `Ending`, what a port that goes down leaves: after the shutdown only late links
  are up (`UpIsLate`), and the accept thread is joined before the UI hears of the
  end (`AcceptIsJoined`).

`CommandKeepsRest`, `AcceptKeepsRest` and `ReadersKeepRest` take the threads one
by one.  The refinement needs no more than `Own`: `ReportsAreAllowed` says what
`PortService` lets be told of a connection in each state, and every step that
tells the UI something tells it what `Own` knows of that connection; all other
steps are `Silent` and stutter.

### The window, whatever the user and the ports do

| Theorem | States |
|---|---|
| `RunnersAreNeverOrphaned` | `Spec => []NoRunnerIsOrphaned` |
| `RecordsOfConnectionsAgree` | `Spec => []TabsFollowConnections` |
| `TabsComeToShowTheConnections` | `Spec => []QuietTabsAreTrue` |

For any ports, kinds, stations and answers and any number of runs and moves;
nothing is assumed of the constants.

*Runners.*  The handlers of the window let go of "the handle the port has",
not of the handle of the runner they hear from, so a late `PortDisconnected`, a
late `PortError` and a late `LoopEnds` of one runner each take away the handle
of its successor.  This orphans nobody because dropping a handle is itself the
order to end (`DropDooms`), and because a runner serves its commands in order,
so that an order to end stays queued until the runner obeys it (`TailOfQueue`).
The invariant is said of one port at a time: `Held(rs, a)`, every runner of `rs`
but `a` is `Doomed`.  Four lemmas say what keeps it: one runner changes without
forgetting its end, a command is queued, an event is taken, a runner is added.

*Connections.*  What the window shows is behind what its runners have by the events
under way, and these are what the invariant `WInv` speaks of.  A runner is `Honest`:
an event of a connection under way names one it had, and a connection it has is
announced by an event or was; and at a regular port (not AGWPE, not one whose
stream could not be cloned) it is `Sound`: of each connection there is at most one
announcement and one end under way, in that order.  Of a port, what the window
shows belongs to a runner whose end is still to be heard of (`Owed`), and unless
the port is overlapped, to the only one unheard (`Alone`), with which it agrees
up to the events under way (`Fits`); of a runner that has the port for itself
(`Solo`) it is all there is (`Faithful`).  `TabsBound` and, over all ports,
`KeysHold` and `TabsFit` tie the map of bound connections to the tabs.
The lemmas climb from a runner's step to a port's and from there to the window's,
once for each event and each kind of runner.  `WInv` was checked by TLC with three
runs before it was proved.

### The connection map of an AGWPE port

For any stations, any number of connects and any length of the queues; nothing is
assumed of the constants.

| Theorem | States |
|---|---|
| `ConnMapStaysInverse` | `Spec => []MapsAreInverse` |
| `MapComesToBeTrue` | `Spec => []QuietMapIsTrue` |
| `UiComesToBeTrue` | `Spec => []QuietUiIsTrue` |

`Ports_proofs` states the same three of `MCSpec`, the specification that run *Ports*
checks, as `ComposedMapsAreInverse`, `ComposedMapComesToBeTrue` and
`ComposedUiComesToBeTrue`: whatever kind of port moves there, its AGWPE port keeps
to the specification of `AgwPort` (`AgwKeepsToItsSpec`).

*The inverse.*  An insert overwrites a station's entry and an id's entry, and would
break the inverse if either were in use: the station's is not, because both threads
insert only under the lock that they looked it up with, and the id's is not,
because ids in the map are below `next_id` (`IdsAreTaken`).  `CallsLeadBack` and
`IdsAreLedTo` are the two halves.

*The map.*  That the map and the links agree when nothing is under way is not
inductive: the invariant `PortInv` has to say what the frames and the steps under
way will make of the map.  Of the frames about a station only the last one decides
(`Newest`).  A link that is up is mapped, or the newest frame announces it
(`UpIsMapped`); one that is down is not mapped, or a `d` is the newest frame, or the
reader is about to remove it (`Removing`), or a connect to it is under way
(`Calling`, `Asked`; `DownIsForgotten`).  What a thread took from the map still
holds when it uses it unless the reader has removed it (`CommandKnows`,
`ReaderKnows`): only the reader removes, and ids are never given out twice.  What
it says of the links is conditional on the TNC's stream being up, as the two
properties are.

*The UI.*  A mapped connection is open at the UI or its event is under way
(`MappedIsOpen`), and one that the UI shows is mapped or its end is under way
(`OpenIsMapped`); the connections of `overtaken`, whose end was announced before
their opening, are the exception that the property makes too.

TLC checked `PortInv` on an instance with two stations before it was proved.

### Stations, timers, contacts and files

| Theorem | States |
|---|---|
| `HearingsSurviveDialogs` | `MCSpec => []HeardIsKept` |
| `RowsStayTrue` | `MCSpec => []RowsDeleteWhatTheyShow` |
| `RulesFollowToggles` | `MCSpec => []WatchesFollowTheToggle` |
| `BeaconsFollowSettings` | `MCSpec => []TimersFollowSettings` |
| `ContactsStayOpen` | `MCSpec => []LiveQsosAreOpen` |
| `SavedComesBack` | `MCSpec => SavedIsLoaded` |
| `OneDirewolfIsHeld` | `Spec => []RunningIsHeld` |

Of `MCLocal`, whose `Spec` is Direwolf's, for any stations and any number of events,
ports, beacons, contacts, edits, stops and starts; `DirewolfAssumption` (`MaxStarts`
is a natural number) is the one assumption.  Each part has an invariant of its own,
which only its own steps can disturb, since the others leave its variables at rest.

Most of these parts keep lists and take items out of them.  `Retain` picks places
of a list, and `PickedIsThere` says all that is used of it: what is picked stands in
the list, everything to be kept is picked, and nothing twice.  That the library's
least and greatest of a set of numbers exist is `LeastIsThere` and `GreatestIsThere`.

*Stations* (`BookInv`).  A station may have several entries, since nothing keeps an
entry from being renamed to it.  `HearingsInv` says that its entries together count every hearing
(`KeptIn`), and what a handler or a dialog makes of the book `Grows` in this sense.
A row of the dialog is a copy of a packet, and its id may be given out again:
`LogInv` says that ids differ within a log and that the rows the dialog has are
still there, so that an id names the row's packet or none.  `WatchInv` counts the
rules of the address book by station; the rules dialog is of no account, because
Save puts the book's rules back from the configuration and not from its own list.

*Timers* (`TimersInv`).  A timer captures what it sends, so the map from beacons to
timers has to fit the list after every change (`TimersFit`), and no timer may be
replaced in the map while it runs (`lost = 0`), which holds because ids differ, as
`next_id` finds one that is free (`NextIdIsFree`).  What the header's button leaves
behind fits the one or the other position of the switch (`Positions`).

*Contacts* (`QsosInv`).  The end of a connection is logged for the latest open
entry, which may be another connection's.  What is kept is a number: there are no
more live tabs (`Up`) than open entries (`OpenIn`; `Covered`), because whatever opens
a tab logs one entry, whatever ends one logs one end at most, and what else is done
to the log leaves these entries alone.

*Files* (`FilesInv`).  `FilesTyped` says what a file may hold and what is read from
it.  `OldOrNew` says that each part is on disk as it was last saved or as it is
being saved, but for the one file that is being written (`hurt`), and of a save or a
migration that what is still to be written is safe.  `PortsFirst` is what makes the
migration harmless: it is recognised by a missing `ports.toml`, and while that is
missing nothing but `config.toml` was ever written, since both a save and the
migration write it before any other list.

*Direwolf* (`ProcessInv`).  The property speaks of a process that runs; what keeps
it is that `pid` also stays while a process has ended and the window has not heard
of it (`UnheardIsHeld`), since otherwise a second process could be started and the
late end of the first taken for its end.

## 6. What is only model-checked

* Liveness (`SilenceEndsWaiting`, `WaitsEnd`, `ConnectAttemptsEnd`,
  `EndedLinksClose`, `PortsEnd`, `DisconnectEnds`): TLAPS has no
  proof rules here for fairness and ENABLED.
* `ArqLink` with connects, resets and disconnects that cross (scenario
  `connects`); see 5.
* All of `StreamPort`, whose one property is liveness.
* `StreamsAreUnderstood` and `LinesAreAnswered`: what the decoders and the
  responders compute for every input is induction over data.  `AnswersGoBack`: the
  address fields of a frame are folds over its route.

## 7. What is not modelled, and why

* *Widgets, layout, text formatting, the look-up of a call sign over HTTP*: no
  state another part depends on.  `established_conns` only decides a message;
  split and pinned tabs, scrollback and input history are views of a tab.
* *Scanning for Bluetooth and serial devices, fields that only travel from a
  widget to the file, the input-history files (`history_paths.rs`)*: pure I/O.
* *Sockets and ports of the kernel (`raw_socket.rs`, `axports.rs`)*: system calls,
  modelled by what `runner.rs` relies on.
* *The bit encoding of XID parameters and of the frames the `ax25` crate encodes*:
  taken as inverse to its decoding (external).

The properties leave some behaviour out because no line of the code promises
anything else.  The models contain it, unless the list says otherwise:

* `send` drops what is typed while a connection is still Connecting.
* The TCP, serial, Telnet and AGWPE readers tell nobody of the end of their stream;
  a Telnet reader whose handle was dropped stays blocked until its host hangs up.
  A Bluetooth disconnect before the watcher has subscribed is lost (not modelled).
* A port whose stream cannot be cloned stays confirmed, with its tabs bound.
* `close_tab` and `PortDisconnected` end no entry of the contact log; one logged by
  CQ never ends; and the end of a connection is logged for the latest open entry of
  its station, which may be another's: `LiveQsosAreOpen` counts entries and does
  not tell them apart.  Lines end with LF only.
* An XID reply is taken for a proposal, so two stations that run this code answer
  each other for ever.
* A list of listen ports with every switch off means any port.  The header's
  beacons button reschedules nothing: until the next change in the dialog the timers
  are those of the one or the other position of the switch, which is all
  `TimersFollowSettings` says of that time.  A change of our call sign leaves the
  availability beacon as it was (not modelled).
* Removing a rule of the address book in the rules dialog has no effect.  Renaming
  a station orphans its rule and may make a duplicate of another entry; an alias
  learnt while the entry is edited is lost.
* Half a configuration file makes all of the configuration default; an interrupted
  migration leaves the lists after `ports.toml` behind; and a stop in the first file
  of the very first save is taken for a migration, which empties the highlight rules.
* A Direwolf that runs when the window closes keeps running, and a stop after its
  end may signal another process that has its number (neither modelled).

## 8. Plan

What is left, the most valuable first:

1. The agreement of two ends with connects, resets and disconnects that cross
   (scenario `connects` of `ArqLink`), under a T1 that does not run ahead of the
   radio.  The invariant needs the age of every frame relative to the last reset
   of each end.
2. `LinesAreAnswered` and the decoders, for any input: an invariant over what was
   received so far, with the lemma that the lines of a text and its continuation are
   those of the text and those of its rest and the continuation.
3. A `Window` with two ports at once, should the time of a run allow it.

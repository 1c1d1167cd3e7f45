---------------------------- MODULE Window_proofs ----------------------------
(***************************************************************************)
(* What the window knows of its ports is true, for every set of ports,     *)
(* kinds, stations and answers, any number of runners of a port and any    *)
(* number of moves.                                                        *)
(*                                                                         *)
(* Three theorems.  No runner is orphaned: IInv, every runner but the one  *)
(* whose handle the window holds has been told to end.  The window's two   *)
(* records of a connection agree, and what it shows comes to be what there *)
(* is: WInv, which speaks of the events under way.  A runner is Honest (it *)
(* reports connections it has) and, at a regular port, Sound (in an order  *)
(* the window can follow); what a port shows is of a runner whose end is   *)
(* still to be heard of (Owed) and, unless runners overlapped, of the only *)
(* one unheard (Alone, Fits) and at the tabs (TabsBound); of a runner that *)
(* has the port for itself (Solo) it is all there is (Faithful).  The      *)
(* lemmas go from a runner's step over a port's to the window's.           *)
(***************************************************************************)
EXTENDS Window, SequenceTheorems, TLAPS

IsQueue(s) == s \in Seq(Range(s))

\* A runner has its fields, and its commands are a queue.
Whole(r) ==
  /\ r = [phase |-> r.phase, cmds |-> r.cmds, events |-> r.events,
          conns |-> r.conns, broke |-> r.broke]
  /\ IsQueue(r.cmds)

\* Whoever still runs has been told, or will find, that it is to end.
Doomed(r) == r.phase \in Running => Disconnect \in Range(r.cmds)

\* The runners rs of a port whose handle is that of runner a.
Held(rs, a) ==
  /\ IsQueue(rs)
  /\ \A g \in DOMAIN rs : Whole(rs[g])
  /\ \A g \in DOMAIN rs : g # a => Doomed(rs[g])

IInv ==
  /\ runner = [p \in Port |-> runner[p]]
  /\ active = [p \in Port |-> active[p]]
  /\ \A p \in Port : Held(runner[p], active[p])

-----------------------------------------------------------------------------
(* Queues.                                                                 *)

\* A function on 1..n is a sequence.
LEMMA FunctionIsQueue ==
  ASSUME NEW S, NEW n \in Nat, NEW f \in [1..n -> S]
  PROVE  f \in Seq(S)
BY SeqDef

\* What is appended to a queue joins what it holds.
LEMMA AppendToQueue ==
  ASSUME NEW s, IsQueue(s), NEW c
  PROVE  /\ IsQueue(Append(s, c))
         /\ Range(Append(s, c)) = Range(s) \cup {c}
         /\ DOMAIN Append(s, c) = DOMAIN s \cup {Len(s) + 1}
         /\ Append(s, c)[Len(s) + 1] = c
         /\ \A i \in DOMAIN s : Append(s, c)[i] = s[i] /\ i # Len(s) + 1
<1> DEFINE S == Range(s) \cup {c}
<1>1. s \in Seq(S)
  <2>1. s \in Seq(Range(s))
    BY DEF IsQueue
  <2>2. s \in [1..Len(s) -> Range(s)] /\ Len(s) \in Nat
    BY <2>1, LenProperties
  <2>3. s \in [1..Len(s) -> S]
    BY <2>2
  <2> QED
    BY <2>2, <2>3, FunctionIsQueue
<1>2. /\ Len(s) \in Nat /\ DOMAIN s = 1..Len(s)
      /\ \A i \in 1..Len(s) : s[i] \in S
  BY <1>1, LenProperties, ElementOfSeq
<1>3. /\ Append(s, c) \in Seq(S)
      /\ Len(Append(s, c)) = Len(s) + 1
      /\ \A i \in 1..Len(s) : Append(s, c)[i] = s[i]
      /\ Append(s, c)[Len(s) + 1] = c
  BY <1>1, AppendProperties
<1>4. DOMAIN Append(s, c) = 1..(Len(s) + 1)
  BY <1>3, LenProperties
<1>5. DOMAIN Append(s, c) = DOMAIN s \cup {Len(s) + 1}
  BY <1>2, <1>4
<1>6. Range(Append(s, c)) = S
  BY <1>2, <1>3, <1>5 DEF Range
<1>7. IsQueue(Append(s, c))
  BY <1>3, <1>6 DEF IsQueue
<1> QED
  BY <1>2, <1>3, <1>5, <1>6, <1>7

\* What is taken from a queue is its head, and all else stays.
LEMMA TailOfQueue ==
  ASSUME NEW s, IsQueue(s), s # <<>>
  PROVE  /\ IsQueue(Tail(s))
         /\ \A c \in Range(s) : c # Head(s) => c \in Range(Tail(s))
<1>1. s \in Seq(Range(s))
  BY DEF IsQueue
<1>2. Len(s) \in Nat /\ DOMAIN s = 1..Len(s) /\ Len(s) # 0
  BY <1>1, LenProperties, EmptySeq
<1>3. /\ Tail(s) \in Seq(Range(s))
      /\ Len(Tail(s)) = Len(s) - 1
      /\ \A i \in 1..Len(Tail(s)) : Tail(s)[i] = s[i + 1]
  BY <1>1, HeadTailProperties
<1>4. DOMAIN Tail(s) = 1..(Len(s) - 1) /\ Tail(s) \in [1..(Len(s) - 1) -> Range(s)]
  BY <1>3, LenProperties
<1>5. Tail(s) \in Seq(Range(Tail(s)))
  <2>1. Tail(s) \in [1..(Len(s) - 1) -> Range(Tail(s))]
    BY <1>4 DEF Range
  <2>2. Len(s) - 1 \in Nat
    BY <1>2
  <2> QED
    BY <2>1, <2>2, FunctionIsQueue
<1>6. ASSUME NEW c \in Range(s), c # Head(s)
      PROVE  c \in Range(Tail(s))
  <2>1. PICK i \in 1..Len(s) : s[i] = c
    BY <1>2 DEF Range
  <2>2. Head(s) = s[1]
    BY <1>1, <1>2
  <2>3. i # 1
    BY <1>6, <2>1, <2>2
  <2>4. i - 1 \in 1..(Len(s) - 1)
    BY <1>2, <2>1, <2>3
  <2>5. Tail(s)[i - 1] = c
    BY <1>3, <2>1, <2>4
  <2> QED
    BY <1>4, <2>4, <2>5 DEF Range
<1> QED
  BY <1>5, <1>6 DEF IsQueue

\* An element of a queue may be replaced.
LEMMA ReplaceInQueue ==
  ASSUME NEW s, IsQueue(s), NEW g \in DOMAIN s, NEW r
  PROVE  /\ IsQueue([s EXCEPT ![g] = r])
         /\ DOMAIN [s EXCEPT ![g] = r] = DOMAIN s
         /\ [s EXCEPT ![g] = r][g] = r
         /\ \A h \in DOMAIN s : h # g => [s EXCEPT ![g] = r][h] = s[h]
<1> DEFINE ss == [s EXCEPT ![g] = r]
<1>1. Len(s) \in Nat /\ s \in [1..Len(s) -> Range(s)] /\ DOMAIN s = 1..Len(s)
  BY LenProperties DEF IsQueue
<1>2. ss \in [1..Len(s) -> Range(ss)]
  BY <1>1 DEF Range
<1>3. ss \in Seq(Range(ss))
  BY <1>1, <1>2, FunctionIsQueue
<1> QED
  BY <1>1, <1>3 DEF IsQueue

-----------------------------------------------------------------------------
(* Runners.                                                                *)

\* One runner of a port may change, if it does not forget that it is to end.
LEMMA OneRunnerChanges ==
  ASSUME NEW rs, NEW a, Held(rs, a), NEW g \in DOMAIN rs, NEW r,
         Whole(r), Doomed(rs[g]) => Doomed(r)
  PROVE  Held([rs EXCEPT ![g] = r], a)
BY ReplaceInQueue DEF Held

\* Its events say nothing of its end.
LEMMA EventsMayChange ==
  ASSUME NEW r, Whole(r), NEW events
  PROVE  /\ Whole([r EXCEPT !.events = events])
         /\ Doomed(r) => Doomed([r EXCEPT !.events = events])
<1> DEFINE s == [r EXCEPT !.events = events]
<1>1. /\ s.phase = r.phase /\ s.cmds = r.cmds
      /\ s = [phase |-> s.phase, cmds |-> s.cmds, events |-> s.events,
              conns |-> s.conns, broke |-> s.broke]
  BY DEF Whole
<1> QED
  BY <1>1 DEF Whole, Doomed

\* What a change of its commands makes of a runner.
LEMMA CmdsChange ==
  ASSUME NEW r, Whole(r), NEW cmds
  PROVE  [r EXCEPT !.cmds = cmds]
         = [phase |-> r.phase, cmds |-> cmds, events |-> r.events,
            conns |-> r.conns, broke |-> r.broke]
BY DEF Whole

\* A command is queued: the runner is whole, and ends as surely as before.
LEMMA CommandIsHeld ==
  ASSUME NEW rs, NEW a, Held(rs, a), NEW g, NEW c
  PROVE  Held(Command(rs, g, c), a)
<1>1. CASE g \in DOMAIN rs /\ Command(rs, g, c) # rs
  <2> DEFINE r == [rs[g] EXCEPT !.cmds = Append(@, c)]
  <2>1. Whole(rs[g])
    BY <1>1 DEF Held
  <2>2. Command(rs, g, c) = [rs EXCEPT ![g] = r]
    BY <1>1 DEF Command
  <2>3. /\ r.phase = rs[g].phase /\ r.cmds = Append(rs[g].cmds, c)
        /\ r.events = rs[g].events /\ r.conns = rs[g].conns /\ r.broke = rs[g].broke
        /\ r = [phase |-> r.phase, cmds |-> r.cmds, events |-> r.events,
                conns |-> r.conns, broke |-> r.broke]
    <3>1. r = [phase |-> rs[g].phase, cmds |-> Append(rs[g].cmds, c), events |-> rs[g].events,
               conns |-> rs[g].conns, broke |-> rs[g].broke]
      BY <2>1, CmdsChange
    <3> HIDE DEF r
    <3> QED
      BY <3>1
  <2>4. IsQueue(r.cmds) /\ Range(r.cmds) = Range(rs[g].cmds) \cup {c}
    BY <2>1, <2>3, AppendToQueue DEF Whole
  <2>5. Whole(r)
    BY <2>3, <2>4 DEF Whole
  <2>6. Doomed(rs[g]) => Doomed(r)
    BY <2>3, <2>4 DEF Doomed
  <2> HIDE DEF r
  <2>7. Held([rs EXCEPT ![g] = r], a)
    BY <1>1, <2>5, <2>6, OneRunnerChanges
  <2> QED
    BY <2>2, <2>7
<1>2. CASE g \notin DOMAIN rs
  <2>1. DOMAIN Command(rs, g, c) = DOMAIN rs
    BY DEF Command
  <2>2. rs = [h \in DOMAIN rs |-> rs[h]]
    BY LenProperties DEF Held, IsQueue
  <2>3. Command(rs, g, c) = rs
    BY <1>2, <2>2 DEF Command
  <2> QED
    BY <2>3
<1> QED
  BY <1>1, <1>2

\* Dropping the handle dooms the runner it led to.
LEMMA DropDooms ==
  ASSUME NEW rs, NEW a, Held(rs, a)
  PROVE  Held(DropHandle(rs, a), None)
<1> DEFINE ss == DropHandle(rs, a)
<1>1. Held(ss, a)
  BY CommandIsHeld DEF DropHandle
<1>2. ASSUME a \in DOMAIN ss
      PROVE  Doomed(ss[a])
  <2>1. DOMAIN ss = DOMAIN rs
    BY DEF DropHandle, Command
  <2>2. a # None
    BY <1>2, <1>1, LenProperties DEF Held, IsQueue, None
  <2>3. Whole(rs[a])
    BY <1>2, <2>1 DEF Held
  <2>4. CASE rs[a].phase \in Running /\ Disconnect \notin Range(rs[a].cmds)
    <3>1. ss[a] = [rs[a] EXCEPT !.cmds = Append(@, Disconnect)]
      BY <1>2, <2>1, <2>2, <2>4 DEF DropHandle, Command
    <3>2. ss[a].cmds = Append(rs[a].cmds, Disconnect)
      BY <2>3, <3>1 DEF Whole
    <3>3. Disconnect \in Range(ss[a].cmds)
      BY <2>3, <3>2, AppendToQueue DEF Whole
    <3> QED
      BY <3>3 DEF Doomed
  <2>5. CASE ~(rs[a].phase \in Running /\ Disconnect \notin Range(rs[a].cmds))
    <3>1. ss = rs
      BY <2>5 DEF DropHandle, Command
    <3> QED
      BY <2>5, <3>1 DEF Doomed
  <2> QED
    BY <2>4, <2>5
<1> QED
  BY <1>1, <1>2 DEF Held

\* An event is taken from a runner.
LEMMA ReadIsHeld ==
  ASSUME NEW p \in Port, NEW g \in DOMAIN runner[p], Held(runner[p], active[p])
  PROVE  Held(Read(p, g), active[p])
<1> DEFINE r == [runner[p][g] EXCEPT !.events = Tail(@)]
<1>1. Whole(runner[p][g])
  BY DEF Held
<1>2. Whole(r) /\ (Doomed(runner[p][g]) => Doomed(r))
  BY <1>1, EventsMayChange
<1>3. Read(p, g) = [runner[p] EXCEPT ![g] = r]
  BY DEF Read
<1> HIDE DEF r
<1> QED
  BY <1>2, <1>3, OneRunnerChanges

\* A port that is connected has one more runner, or the one it had.
LEMMA StartIsHeld ==
  ASSUME NEW p \in Port, Held(runner[p], active[p])
  PROVE  Held(RunnersAfter(p), ActiveAfter(p))
<1>1. CASE active[p] # None
  BY <1>1 DEF RunnersAfter, ActiveAfter
<1>2. CASE active[p] = None
  <2> DEFINE rs == runner[p]
             ss == Append(rs, Fresh)
  <2>1. IsQueue(rs)
    BY DEF Held
  <2>2. /\ IsQueue(ss)
        /\ DOMAIN ss = DOMAIN rs \cup {Len(rs) + 1}
        /\ ss[Len(rs) + 1] = Fresh
        /\ \A i \in DOMAIN rs : ss[i] = rs[i] /\ i # Len(rs) + 1
    BY <2>1, AppendToQueue
  <2>3. RunnersAfter(p) = ss /\ ActiveAfter(p) = Len(rs) + 1
    BY <1>2 DEF RunnersAfter, ActiveAfter
  <2>4. IsQueue(<<>>)
    BY EmptySeq DEF IsQueue
  <2>5. Whole(Fresh)
    BY <2>4 DEF Whole, Fresh
  <2>6. \A i \in DOMAIN rs : i # None
    BY <2>1, LenProperties DEF IsQueue, None
  <2>7. \A i \in DOMAIN rs : Whole(rs[i]) /\ Doomed(rs[i])
    BY <1>2, <2>6 DEF Held
  <2> QED
    BY <2>2, <2>3, <2>5, <2>7 DEF Held
<1> QED
  BY <1>1, <1>2

-----------------------------------------------------------------------------
(* Steps.                                                                  *)

\* What one port's runners and handle become.
LEMMA OnePortSteps ==
  ASSUME IInv, NEW p \in Port, NEW rs, NEW a, Held(rs, a),
         runner' = [runner EXCEPT ![p] = rs], active' = [active EXCEPT ![p] = a]
  PROVE  IInv'
<1>1. DOMAIN runner = Port /\ DOMAIN active = Port
  BY DEF IInv
<1>2. DOMAIN runner' = Port /\ DOMAIN active' = Port
  BY <1>1
<1>3. runner'[p] = rs /\ active'[p] = a
  BY <1>1
<1>4. \A q \in Port : q # p => runner'[q] = runner[q] /\ active'[q] = active[q]
  BY <1>1
<1>5. \A q \in Port : Held(runner'[q], active'[q])
  BY <1>3, <1>4 DEF IInv
<1>6. /\ runner' = [q \in Port |-> runner'[q]]
      /\ active' = [q \in Port |-> active'[q]]
  BY <1>1
<1> QED
  BY <1>5, <1>6 DEF IInv

\* Its handle stays.
LEMMA RunnersStep ==
  ASSUME IInv, NEW p \in Port, NEW rs, Held(rs, active[p]),
         runner' = [runner EXCEPT ![p] = rs], UNCHANGED active
  PROVE  IInv'
<1>1. active' = [active EXCEPT ![p] = active[p]]
  BY DEF IInv
<1> QED
  BY <1>1, OnePortSteps

\* Nothing of it changes.
LEMMA NothingSteps ==
  ASSUME IInv, UNCHANGED <<runner, active>>
  PROVE  IInv'
BY DEF IInv

\* A step of a runner thread.
LEMMA BecomesIsHeld ==
  ASSUME IInv, NEW p \in Port, NEW g \in DOMAIN runner[p], NEW r, NEW evs,
         Whole(r), Doomed(runner[p][g]) => Doomed(r), Becomes(p, g, r, evs)
  PROVE  IInv'
<1> DEFINE s == [r EXCEPT !.events = @ \o evs]
           rs == [runner[p] EXCEPT ![g] = s]
<1>1. Whole(s) /\ (Doomed(runner[p][g]) => Doomed(s))
  BY EventsMayChange
<1>2. Held(runner[p], active[p])
  BY DEF IInv
<1>3. Held(rs, active[p])
  <2> HIDE DEF s
  <2> QED
    BY <1>1, <1>2, OneRunnerChanges
<1>4. runner' = [runner EXCEPT ![p] = rs] /\ UNCHANGED active
  BY DEF Becomes
<1> HIDE DEF rs
<1> QED
  BY <1>3, <1>4, RunnersStep

\* The user dials in a tab, whatever port it is of.
LEMMA ConnectTabStep ==
  ASSUME IInv, NEW t, NEW tab, ConnectTab(t, tab)
  PROVE  IInv'
<1> DEFINE p == tab.port
           rs == IF port_supports_connect(p)
                 THEN Command(RunnersAfter(p), ActiveAfter(p), Open(tab.node))
                 ELSE RunnersAfter(p)
<1>1. /\ runner' = [runner EXCEPT ![p] = rs]
      /\ active' = [active EXCEPT ![p] = ActiveAfter(p)]
  BY DEF ConnectTab
<1>2. CASE p \in Port
  <2>1. Held(runner[p], active[p])
    BY <1>2 DEF IInv
  <2>2. Held(RunnersAfter(p), ActiveAfter(p))
    BY <1>2, <2>1, StartIsHeld
  <2>3. Held(rs, ActiveAfter(p))
    BY <2>2, CommandIsHeld
  <2> HIDE DEF rs
  <2> QED
    BY <1>1, <1>2, <2>3, OnePortSteps
<1>3. CASE p \notin Port
  <2> HIDE DEF rs, p
  <2>1. runner' = runner /\ active' = active
    BY <1>1, <1>3 DEF IInv
  <2> QED
    BY <2>1, NothingSteps
<1> QED
  BY <1>2, <1>3

\* The user hangs up, whatever port the tab is of.
LEMMA HungUpStep ==
  ASSUME IInv, NEW t, runner' = HungUp(t), UNCHANGED active
  PROVE  IInv'
<1> DEFINE p == tabs[t].port
           rs == Command(runner[p], active[p], Close(tabs[t].conn))
<1>1. CASE tabs[t].conn = None
  BY <1>1, NothingSteps DEF HungUp
<1>2. CASE tabs[t].conn # None
  <2>1. runner' = [runner EXCEPT ![p] = rs]
    BY <1>2 DEF HungUp
  <2>2. CASE p \in Port
    <3>1. Held(rs, active[p])
      BY <2>2, CommandIsHeld DEF IInv
    <3> HIDE DEF rs
    <3> QED
      BY <2>1, <2>2, <3>1, RunnersStep
  <2>3. CASE p \notin Port
    <3> HIDE DEF rs, p
    <3>1. runner' = runner
      BY <2>1, <2>3 DEF IInv
    <3> QED
      BY <3>1, NothingSteps
  <2> QED
    BY <2>2, <2>3
<1> QED
  BY <1>1, <1>2

\* Whatever the user does.
LEMMA UserSteps ==
  ASSUME IInv, User
  PROVE  IInv'
<1>1. ASSUME NEW p \in Port, NEW n \in Node, Dial(p, n)
      PROVE  IInv'
  BY <1>1, ConnectTabStep DEF Dial
<1>2. ASSUME NEW p \in Port, ConnectPort(p)
      PROVE  IInv'
  <2>1. Held(RunnersAfter(p), ActiveAfter(p))
    BY <1>2, StartIsHeld DEF IInv
  <2>2. /\ runner' = [runner EXCEPT ![p] = RunnersAfter(p)]
        /\ active' = [active EXCEPT ![p] = ActiveAfter(p)]
    BY <1>2 DEF ConnectPort
  <2> QED
    BY <2>1, <2>2, OnePortSteps
<1>3. ASSUME NEW p \in Port, DisconnectPort(p)
      PROVE  IInv'
  <2> DEFINE rs == Command(runner[p], active[p], Disconnect)
  <2>1. Held(rs, active[p])
    BY CommandIsHeld DEF IInv
  <2>2. runner' = [runner EXCEPT ![p] = rs] /\ UNCHANGED active
    BY <1>3 DEF DisconnectPort
  <2> HIDE DEF rs
  <2> QED
    BY <2>1, <2>2, RunnersStep
<1>4. ASSUME NEW t \in DOMAIN tabs, Redial(t)
      PROVE  IInv'
  BY <1>4, ConnectTabStep DEF Redial
<1>5. ASSUME NEW t \in DOMAIN tabs, HangUp(t)
      PROVE  IInv'
  BY <1>5, HungUpStep DEF HangUp
<1>6. ASSUME NEW t \in DOMAIN tabs, CloseTab(t)
      PROVE  IInv'
  BY <1>6, HungUpStep DEF CloseTab
<1> QED
  BY <1>1, <1>2, <1>3, <1>4, <1>5, <1>6 DEF User

-----------------------------------------------------------------------------
(* The runner threads.                                                     *)

\* The end of its loop.
LEMMA EndChanges ==
  ASSUME NEW r, Whole(r), NEW phase, NEW cmds
  PROVE  [r EXCEPT !.phase = phase, !.cmds = cmds]
         = [phase |-> phase, cmds |-> cmds, events |-> r.events,
            conns |-> r.conns, broke |-> r.broke]
<1> DEFINE s == [r EXCEPT !.phase = phase]
<1>1. s = [phase |-> phase, cmds |-> r.cmds, events |-> r.events,
           conns |-> r.conns, broke |-> r.broke]
  BY DEF Whole
<1>2. [r EXCEPT !.phase = phase, !.cmds = cmds] = [s EXCEPT !.cmds = cmds]
  OBVIOUS
<1> HIDE DEF s
<1> QED
  BY <1>1, <1>2

\* The last step of a runner's loop leaves nothing that runs.
LEMMA LeavesStep ==
  ASSUME IInv, NEW p \in Port, NEW g \in DOMAIN runner[p], NEW r, Whole(r), Leaves(p, g, r)
  PROVE  IInv'
<1> DEFINE s == [r EXCEPT !.phase = "down", !.cmds = <<>>]
<1>end. s = [phase |-> "down", cmds |-> <<>>, events |-> r.events,
           conns |-> r.conns, broke |-> r.broke]
  BY EndChanges, Zenon
<1> HIDE DEF s
<1>1. /\ s.phase = "down" /\ s.cmds = <<>>
      /\ s = [phase |-> s.phase, cmds |-> s.cmds, events |-> s.events,
              conns |-> s.conns, broke |-> s.broke]
  BY <1>end
<1>2. IsQueue(s.cmds)
  BY <1>1, EmptySeq DEF IsQueue
<1>3. Whole(s) /\ Doomed(s)
  BY <1>1, <1>2 DEF Whole, Doomed, Running
<1>4. PICK evs : Becomes(p, g, s, evs)
  BY DEF Leaves, s
<1> QED
  BY <1>3, <1>4, BecomesIsHeld

\* A command is served: one that is not Disconnect leaves Disconnect queued.
LEMMA ServeStep ==
  ASSUME IInv, NEW p \in Port, NEW g \in DOMAIN runner[p], Serve(p, g)
  PROVE  IInv'
<1> DEFINE was == runner[p][g]
           r == [was EXCEPT !.cmds = Tail(@)]
           c == Head(was.cmds)
<1>1. Whole(was)
  BY DEF IInv, Held
<1>2. was.phase = "up" /\ was.cmds # <<>>
  BY DEF Serve
<1>tail. r = [phase |-> was.phase, cmds |-> Tail(was.cmds), events |-> was.events,
           conns |-> was.conns, broke |-> was.broke]
  BY <1>1, CmdsChange, Zenon
<1> HIDE DEF r
<1>3. /\ r.phase = was.phase /\ r.cmds = Tail(was.cmds)
      /\ r = [phase |-> r.phase, cmds |-> r.cmds, events |-> r.events,
              conns |-> r.conns, broke |-> r.broke]
  BY <1>tail
<1>4. IsQueue(was.cmds)
  BY <1>1 DEF Whole
<1>5. /\ IsQueue(r.cmds)
      /\ c # Disconnect => (Disconnect \in Range(was.cmds) => Disconnect \in Range(r.cmds))
  BY <1>2, <1>3, <1>4, TailOfQueue
<1>6. Whole(r)
  BY <1>3, <1>5 DEF Whole
<1>7. c.cmd \in {"open", "close"} => c # Disconnect
  BY DEF Disconnect
<1>8. c.cmd \in {"open", "close"} => (Doomed(was) => Doomed(r))
  BY <1>3, <1>5, <1>7 DEF Doomed
<1>9. CASE c.cmd = "open" /\
           LET id == IdFor(p, r, c.node)
           IN  Becomes(p, g,
                 Entered(r, id, [node |-> c.node, by |-> "us", st |-> "calling"]),
                 <<Opened(id, c.node)>>)
  <2> DEFINE id == IdFor(p, r, c.node)
             conn == [node |-> c.node, by |-> "us", st |-> "calling"]
             s == Entered(r, id, conn)
  <2> HIDE DEF id, conn, r, c, was
  <2>1. /\ s.phase = r.phase /\ s.cmds = r.cmds
        /\ s = [phase |-> s.phase, cmds |-> s.cmds, events |-> s.events,
                conns |-> s.conns, broke |-> s.broke]
    BY <1>6 DEF Whole, Entered
  <2>2. Whole(s) /\ (Doomed(r) => Doomed(s))
    BY <1>6, <2>1 DEF Whole, Doomed
  <2>3. Becomes(p, g, s, <<Opened(id, c.node)>>)
    BY <1>9 DEF id, conn
  <2>4. Doomed(was) => Doomed(s)
    BY <1>8, <1>9, <2>2
  <2> HIDE DEF s
  <2> QED
    BY <2>2, <2>3, <2>4, BecomesIsHeld DEF was
<1>10. CASE /\ c.cmd = "close"
            /\ Becomes(p, g,
                 IF c.id \in DOMAIN r.conns /\ r.conns[c.id].st \in Live
                 THEN [r EXCEPT !.conns[c.id].st = "closing"] ELSE r,
                 <<>>)
  <2> DEFINE s == IF c.id \in DOMAIN r.conns /\ r.conns[c.id].st \in Live
                  THEN [r EXCEPT !.conns[c.id].st = "closing"] ELSE r
  <2> HIDE DEF r, c, was
  <2>1. /\ s.phase = r.phase /\ s.cmds = r.cmds
        /\ s = [phase |-> s.phase, cmds |-> s.cmds, events |-> s.events,
                conns |-> s.conns, broke |-> s.broke]
    BY <1>6 DEF Whole
  <2>2. Whole(s) /\ (Doomed(r) => Doomed(s))
    BY <1>6, <2>1 DEF Whole, Doomed
  <2>3. Becomes(p, g, s, <<>>)
    BY <1>10
  <2>4. Doomed(was) => Doomed(s)
    BY <1>8, <1>10, <2>2
  <2> HIDE DEF s
  <2> QED
    BY <2>2, <2>3, <2>4, BecomesIsHeld DEF was
<1>11. CASE Leaves(p, g, r)
  <2> HIDE DEF r
  <2> QED
    BY <1>6, <1>11, LeavesStep
<1> QED
  BY <1>9, <1>10, <1>11 DEF Serve, r

\* Whatever a runner thread does of its own.
LEMMA RunnerSteps ==
  ASSUME IInv, NEW p \in Port, NEW g \in DOMAIN runner[p], RunnerRuns(p, g)
  PROVE  IInv'
<1> DEFINE r == runner[p][g]
<1>1. Whole(r)
  BY DEF IInv, Held
<1>2. CASE StartFails(p, g)
  <2> DEFINE s == [r EXCEPT !.phase = "down"]
  <2>1. Becomes(p, g, s, <<Event("PortError")>>)
    BY <1>2 DEF StartFails
  <2>2. /\ s.phase = "down" /\ s.cmds = r.cmds
        /\ s = [phase |-> s.phase, cmds |-> s.cmds, events |-> s.events,
                conns |-> s.conns, broke |-> s.broke]
    BY <1>1 DEF Whole
  <2>3. Whole(s) /\ Doomed(s)
    BY <1>1, <2>2 DEF Whole, Doomed, Running
  <2> HIDE DEF s
  <2> QED
    BY <2>1, <2>3, BecomesIsHeld
<1>3. ASSUME NEW broke \in BOOLEAN, Starts(p, g, broke)
      PROVE  IInv'
  <2> DEFINE only == [node |-> NoNode, by |-> "us", st |-> "up"]
             phase == IF broke THEN "down" ELSE "up"
             conns == IF Terminal(p) THEN <<only>> ELSE <<>>
             s == [r EXCEPT !.phase = phase, !.broke = broke, !.conns = conns]
  <2>1. r.phase = "starting" /\ \E evs : Becomes(p, g, s, evs)
    BY <1>3 DEF Starts
  <2>2. PICK evs : Becomes(p, g, s, evs)
    BY <2>1
  <2> HIDE DEF phase, conns, r
  <2> DEFINE s1 == [r EXCEPT !.phase = phase]
             s2 == [s1 EXCEPT !.broke = broke]
  <2>3. /\ s1 = [phase |-> phase, cmds |-> r.cmds, events |-> r.events,
                 conns |-> r.conns, broke |-> r.broke]
        /\ s = [s2 EXCEPT !.conns = conns]
    <3>1. s1 = [phase |-> phase, cmds |-> r.cmds, events |-> r.events,
                conns |-> r.conns, broke |-> r.broke]
      BY <1>1 DEF Whole
    <3>2. s = [s2 EXCEPT !.conns = conns]
      OBVIOUS
    <3> QED
      BY <3>1, <3>2
  <2> HIDE DEF s, s1
  <2>clone. s2 = [phase |-> phase, cmds |-> r.cmds, events |-> r.events,
              conns |-> r.conns, broke |-> broke]
    BY <2>3
  <2> HIDE DEF s2
  <2>start. s = [phase |-> phase, cmds |-> r.cmds, events |-> r.events,
             conns |-> conns, broke |-> broke]
    BY <2>3, <2>clone
  <2>4. /\ s.cmds = r.cmds
        /\ s = [phase |-> s.phase, cmds |-> s.cmds, events |-> s.events,
                conns |-> s.conns, broke |-> s.broke]
    BY <2>start
  <2>5. Whole(s) /\ (Doomed(r) => Doomed(s))
    BY <1>1, <2>1, <2>4 DEF Whole, Doomed, Running
  <2> QED
    BY <2>2, <2>5, BecomesIsHeld DEF r
<1>4. CASE Serve(p, g)
  BY <1>4, ServeStep
<1>5. CASE Exits(p, g)
  <2> DEFINE s == [r EXCEPT !.phase = "gone"]
  <2>1. Becomes(p, g, s, <<>>)
    BY <1>5 DEF Exits
  <2>2. /\ s.phase = "gone" /\ s.cmds = r.cmds
        /\ s = [phase |-> s.phase, cmds |-> s.cmds, events |-> s.events,
                conns |-> s.conns, broke |-> s.broke]
    BY <1>1 DEF Whole
  <2>3. Whole(s) /\ Doomed(s)
    BY <1>1, <2>2 DEF Whole, Doomed, Running
  <2> HIDE DEF s
  <2> QED
    BY <2>1, <2>3, BecomesIsHeld
<1> QED
  BY <1>2, <1>3, <1>4, <1>5 DEF RunnerRuns

\* What the transport and the stations do.
LEMMA WorldSteps ==
  ASSUME IInv, NEW p \in Port, NEW g \in DOMAIN runner[p], World(p, g)
  PROVE  IInv'
<1> DEFINE r == runner[p][g]
<1>1. Whole(r)
  BY DEF IInv, Held
<1>2. CASE Drops(p, g)
  BY <1>1, <1>2, LeavesStep DEF Drops
<1>3. ASSUME NEW id, NEW st, NEW evs,
             Becomes(p, g, [r EXCEPT !.conns[id].st = st], evs)
      PROVE  IInv'
  <2> DEFINE s == [r EXCEPT !.conns[id].st = st]
  <2>1. Whole(s) /\ (Doomed(r) => Doomed(s))
    <3> HIDE DEF r
    <3>1. /\ s.phase = r.phase /\ s.cmds = r.cmds
          /\ s = [phase |-> s.phase, cmds |-> s.cmds, events |-> s.events,
                  conns |-> s.conns, broke |-> s.broke]
      BY <1>1 DEF Whole
    <3> QED
      BY <1>1, <3>1 DEF Whole, Doomed
  <2>2. Becomes(p, g, s, evs)
    BY <1>3
  <2> HIDE DEF s
  <2> QED
    BY <2>1, <2>2, BecomesIsHeld
<1>4. CASE HangsUpUnnoticed(p, g)
  BY <1>3, <1>4 DEF HangsUpUnnoticed
<1>5. ASSUME NEW id \in DOMAIN r.conns, Answered(p, g, id)
      PROVE  IInv'
  BY <1>3, <1>5 DEF Answered
<1>6. ASSUME NEW id \in DOMAIN r.conns, Finishes(p, g, id)
      PROVE  IInv'
  BY <1>3, <1>6 DEF Finishes
<1>7. ASSUME NEW id \in DOMAIN r.conns, StationSignsOff(p, g, id)
      PROVE  IInv'
  <2>1. Becomes(p, g, r, <<SignOff(id)>>)
    BY <1>7 DEF StationSignsOff
  <2> QED
    BY <1>1, <2>1, BecomesIsHeld
<1>8. ASSUME NEW n \in Node, StationCalls(p, g, n)
      PROVE  IInv'
  <2> DEFINE id == IdFor(p, r, n)
             conn == [node |-> n, by |-> "them", st |-> "up"]
             s == Entered(r, id, conn)
  <2>1. Becomes(p, g, s, <<Opened(id, n)>>)
    BY <1>8 DEF StationCalls
  <2> HIDE DEF r, id, conn
  <2>2. /\ s.phase = r.phase /\ s.cmds = r.cmds
        /\ s = [phase |-> s.phase, cmds |-> s.cmds, events |-> s.events,
                conns |-> s.conns, broke |-> s.broke]
    BY <1>1 DEF Whole, Entered
  <2>3. Whole(s) /\ (Doomed(r) => Doomed(s))
    BY <1>1, <2>2 DEF Whole, Doomed
  <2> HIDE DEF s
  <2> QED
    BY <2>1, <2>3, BecomesIsHeld DEF r
<1> QED
  BY <1>2, <1>4, <1>5, <1>6, <1>7, <1>8 DEF World

-----------------------------------------------------------------------------
(* The window.                                                             *)

\* The window lets go of the handle a port has: whose it is does not matter.
LEMMA LetGoStep ==
  ASSUME IInv, NEW p \in Port, NEW rs, Held(rs, active[p]), LetGo(p, rs)
  PROVE  IInv'
BY DropDooms, OnePortSteps DEF LetGo

\* Whatever event the window handles.
LEMMA HandleSteps ==
  ASSUME IInv, NEW p \in Port, NEW g \in DOMAIN runner[p], Handle(p, g)
  PROVE  IInv'
<1>1. Held(runner[p], active[p])
  BY DEF IInv
<1>2. Held(Read(p, g), active[p])
  BY <1>1, ReadIsHeld
<1>3. ASSUME runner' = [runner EXCEPT ![p] = Read(p, g)], UNCHANGED active
      PROVE  IInv'
  BY <1>2, <1>3, RunnersStep
<1>4. ASSUME LetGo(p, Read(p, g))
      PROVE  IInv'
  BY <1>2, <1>4, LetGoStep
<1>5. CASE HandlePortConnected(p, g)
  BY <1>3, <1>5 DEF HandlePortConnected
<1>6. CASE HandlePortDisconnected(p, g)
  BY <1>4, <1>6 DEF HandlePortDisconnected
<1>7. CASE HandlePortError(p, g)
  BY <1>3, <1>4, <1>7 DEF HandlePortError
<1>8. CASE HandleConnectionOpened(p, g)
  BY <1>3, <1>8 DEF HandleConnectionOpened
<1>9. CASE HandleConnectionClosed(p, g)
  BY <1>3, <1>9 DEF HandleConnectionClosed
<1>10. CASE HandleSignOff(p, g)
  <2>1. PICK c : \/ runner' = [runner EXCEPT ![p] = Read(p, g)]
                 \/ runner' = [runner EXCEPT ![p] = Command(Read(p, g), active[p], c)]
    BY <1>10 DEF HandleSignOff
  <2>2. UNCHANGED active
    BY <1>10 DEF HandleSignOff
  <2>3. Held(Command(Read(p, g), active[p], c), active[p])
    BY <1>2, CommandIsHeld
  <2> QED
    BY <1>3, <2>1, <2>2, <2>3, RunnersStep
<1>11. CASE LoopEnds(p, g)
  <2> DEFINE r == [runner[p][g] EXCEPT !.phase = "joined"]
             rs == [runner[p] EXCEPT ![g] = r]
  <2>1. Whole(runner[p][g])
    BY <1>1 DEF Held
  <2>2. /\ r.phase = "joined" /\ r.cmds = runner[p][g].cmds
        /\ r = [phase |-> r.phase, cmds |-> r.cmds, events |-> r.events,
                conns |-> r.conns, broke |-> r.broke]
    BY <2>1 DEF Whole
  <2>3. Whole(r) /\ Doomed(r)
    BY <2>1, <2>2 DEF Whole, Doomed, Running
  <2>4. LetGo(p, rs)
    BY <1>11 DEF LoopEnds
  <2> HIDE DEF r
  <2>5. Held(rs, active[p])
    BY <1>1, <2>3, OneRunnerChanges
  <2> HIDE DEF rs
  <2> QED
    BY <2>4, <2>5, LetGoStep
<1> QED
  BY <1>5, <1>6, <1>7, <1>8, <1>9, <1>10, <1>11 DEF Handle

-----------------------------------------------------------------------------
(* The window keeps hold of its runners.                                   *)

\* At first there are none.
LEMMA InitHolds == Init => IInv
<1> SUFFICES ASSUME Init
             PROVE  IInv
  OBVIOUS
<1>1. \A p \in Port : runner[p] = <<>>
  BY DEF Init
<1>2. IsQueue(<<>>) /\ DOMAIN <<>> = {}
  BY EmptySeq DEF IsQueue
<1>3. \A p \in Port : Held(runner[p], active[p])
  BY <1>1, <1>2 DEF Held
<1> QED
  BY <1>3 DEF Init, IInv

\* Every step keeps the invariant.
LEMMA StepHolds == IInv /\ [Next]_vars => IInv'
<1> SUFFICES ASSUME IInv, [Next]_vars
             PROVE  IInv'
  OBVIOUS
<1>1. CASE User
  BY <1>1, UserSteps
<1>2. ASSUME NEW p \in Port, NEW g \in DOMAIN runner[p],
             World(p, g) \/ RunnerRuns(p, g) \/ Handle(p, g)
      PROVE  IInv'
  BY <1>2, WorldSteps, RunnerSteps, HandleSteps
<1>3. CASE UNCHANGED vars
  BY <1>3, NothingSteps DEF vars
<1> QED
  BY <1>1, <1>2, <1>3 DEF Next

\* No order of connects, failures, late events and late ends of event loops
\* leaves a runner that keeps the transport and takes no command: whatever
\* handle handle_event or connect_port lets go of, its runner ends on it.
THEOREM RunnersAreNeverOrphaned == Spec => []NoRunnerIsOrphaned
<1>1. IInv => NoRunnerIsOrphaned
  BY DEF IInv, Held, Doomed, NoRunnerIsOrphaned
<1> QED
  BY <1>1, InitHolds, StepHolds, PTL DEF Spec

-----------------------------------------------------------------------------
(* What runners tell the window.                                           *)

Ended == Event("PortDisconnected")

IsOpened(e) == e.ev = "ConnectionOpened"

\* The connections these events report.
Announced(evs) == {evs[i].id : i \in {j \in DOMAIN evs : IsOpened(evs[j])}}

ConnsHold(conns) ==
  /\ IsQueue(conns)
  /\ \A id \in DOMAIN conns :
       conns[id] = [node |-> conns[id].node, by |-> conns[id].by, st |-> conns[id].st]

EventsHold(evs) ==
  /\ IsQueue(evs)
  /\ \A i \in DOMAIN evs :
       evs[i].ev = "ConnectionClosed" => evs[i] = Closed(evs[i].id)

\* Any runner starts with no connections, and reports only those it has.
Honest(r) ==
  /\ r.phase = "starting" => r.conns = <<>> /\ ~r.broke
  /\ ConnsHold(r.conns)
  /\ EventsHold(r.events)
  /\ Announced(r.events) \subseteq DOMAIN r.conns

\* It has still to say that it is disconnected, or the window to hear it.
Owes(r) == r.phase = "up" \/ Ended \in Range(r.events)

\* A connection is reported once, before the end of the port.
OpenedOnce(evs) ==
  \A i, j \in DOMAIN evs : IsOpened(evs[i]) =>
    /\ IsOpened(evs[j]) /\ evs[i].id = evs[j].id => i = j
    /\ evs[j] = Ended => i < j

\* One that was closed before the window heard of it is reported closed later.
ClosedLater(r) ==
  \A i \in DOMAIN r.events :
    IsOpened(r.events[i]) /\ r.conns[r.events[i].id].st = "closed" =>
      \E j \in DOMAIN r.events : i < j /\ r.events[j] = Closed(r.events[i].id)

\* A runner of a regular port.
Sound(r) ==
  /\ r.phase = "starting" => r.conns = <<>> /\ r.events = <<>>
  /\ r.phase = "joined" => r.events = <<>>
  /\ r.phase = "up" => Ended \notin Range(r.events)
  /\ Announced(r.events) # {} => Owes(r)
  /\ OpenedOnce(r.events)
  /\ ClosedLater(r)
  /\ r.phase = "up" =>
       \A id : Closed(id) \in Range(r.events) =>
         id \in DOMAIN r.conns /\ r.conns[id].st = "closed"

\* What a step of its own threads makes of a runner that says evs.
Grows(r, s, evs) ==
  /\ s.phase # "starting"
  /\ EventsHold(evs)
  /\ s.events = r.events \o evs
  /\ ConnsHold(s.conns)
  /\ DOMAIN r.conns \subseteq DOMAIN s.conns
  /\ Announced(evs) \subseteq DOMAIN s.conns
  /\ r.broke => s.broke

\* And the phases, at a regular port.
Passes(r, s, evs) ==
  /\ r.phase # "joined" /\ s.phase \notin {"starting", "joined"}
  /\ s.phase = "up" => r.phase \in Running
  /\ r.phase = "up" /\ s.phase # "up" => Ended \in Range(evs)
  /\ Ended \in Range(evs) => r.phase = "up" /\ s.phase # "up" /\ Announced(evs) = {}
  /\ Announced(evs) # {} => s.phase = "up"

\* And the connections.
Turns(r, s, evs) ==
  /\ Announced(evs) = DOMAIN s.conns \ DOMAIN r.conns
  /\ \A i, j \in DOMAIN evs :
       IsOpened(evs[i]) /\ IsOpened(evs[j]) /\ evs[i].id = evs[j].id => i = j
  /\ \A id \in Announced(evs) : s.conns[id].st # "closed"
  /\ \A id \in DOMAIN r.conns :
       /\ s.conns[id].st = "closed" => r.conns[id].st = "closed" \/ Closed(id) \in Range(evs)
       /\ r.conns[id].st = "closed" => s.conns[id].st = "closed"
       /\ s.phase = "up" /\ s.conns[id].st \in Live =>
            /\ r.conns[id].st \in Live
            /\ Close(id) \in Range(r.cmds) => Close(id) \in Range(s.cmds)
  /\ s.phase = "up" =>
       /\ \A id : Closed(id) \in Range(evs) =>
            id \in DOMAIN s.conns /\ s.conns[id].st = "closed"
       /\ Disconnect \in Range(r.cmds) => Disconnect \in Range(s.cmds)

Says(r, s, evs) == Grows(r, s, evs) /\ Passes(r, s, evs) /\ Turns(r, s, evs)

-----------------------------------------------------------------------------
(* More on queues.                                                         *)

\* What two queues make.
Joins(s, t, u) ==
  /\ IsQueue(u)
  /\ Len(s) \in Nat /\ DOMAIN s = 1..Len(s)
  /\ Len(t) \in Nat /\ DOMAIN t = 1..Len(t)
  /\ DOMAIN u = 1..(Len(s) + Len(t))
  /\ \A i \in DOMAIN s : u[i] = s[i]
  /\ \A i \in DOMAIN t : u[Len(s) + i] = t[i]
  /\ Range(u) = Range(s) \cup Range(t)

\* Two queues make one.
LEMMA ConcatQueues ==
  ASSUME NEW s, NEW t, IsQueue(s), IsQueue(t)
  PROVE  Joins(s, t, s \o t)
<1> DEFINE S == Range(s) \cup Range(t)
           u == s \o t
<1>1. s \in Seq(Range(s)) /\ t \in Seq(Range(t))
  BY DEF IsQueue
<1>2. /\ Len(s) \in Nat /\ DOMAIN s = 1..Len(s) /\ s \in [1..Len(s) -> Range(s)]
      /\ Len(t) \in Nat /\ DOMAIN t = 1..Len(t) /\ t \in [1..Len(t) -> Range(t)]
  BY <1>1, LenProperties
<1>3. s \in Seq(S) /\ t \in Seq(S)
  <2>1. s \in [1..Len(s) -> S] /\ t \in [1..Len(t) -> S]
    BY <1>2
  <2> QED
    BY <1>2, <2>1, FunctionIsQueue
<1>4. /\ u \in Seq(S) /\ Len(u) = Len(s) + Len(t)
      /\ \A i \in 1..(Len(s) + Len(t)) : u[i] = IF i <= Len(s) THEN s[i] ELSE t[i - Len(s)]
  BY <1>3, ConcatProperties
<1>5. DOMAIN u = 1..(Len(s) + Len(t))
  BY <1>4, LenProperties
<1>6. \A i \in DOMAIN s : u[i] = s[i]
  BY <1>2, <1>4
<1>7. \A i \in DOMAIN t : u[Len(s) + i] = t[i]
  <2> TAKE i \in DOMAIN t
  <2>1. i \in 1..Len(t)
    BY <1>2
  <2>2. /\ Len(s) + i \in 1..(Len(s) + Len(t)) /\ ~(Len(s) + i <= Len(s))
        /\ (Len(s) + i) - Len(s) = i
    BY <1>2, <2>1
  <2> QED
    BY <1>4, <2>2
<1>8. \A k \in DOMAIN u : k \in DOMAIN s \/ k - Len(s) \in DOMAIN t
  BY <1>2, <1>5
<1>9. Range(u) = S
  <2>1. \A k \in DOMAIN u : u[k] \in S
    BY <1>2, <1>4, <1>5 DEF Range
  <2>2. \A i \in DOMAIN s : i \in DOMAIN u
    BY <1>2, <1>5
  <2>3. \A i \in DOMAIN t : Len(s) + i \in DOMAIN u
    BY <1>2, <1>5
  <2> HIDE DEF u
  <2>4. Range(s) \subseteq Range(u)
    BY <1>6, <2>2 DEF Range
  <2>5. Range(t) \subseteq Range(u)
    BY <1>7, <2>3 DEF Range
  <2>6. Range(u) \subseteq S
    BY <2>1 DEF Range
  <2> QED
    BY <2>4, <2>5, <2>6
<1>10. IsQueue(u)
  BY <1>4, <1>9 DEF IsQueue
<1> QED
  BY <1>2, <1>5, <1>6, <1>7, <1>9, <1>10 DEF Joins

\* Where what two queues make comes from.
LEMMA JoinedFrom ==
  ASSUME NEW s, NEW t, NEW u, Joins(s, t, u), NEW k \in DOMAIN u
  PROVE  \/ k \in DOMAIN s /\ u[k] = s[k]
         \/ \E i \in DOMAIN t : k = Len(s) + i /\ u[k] = t[i]
<1>1. k \in DOMAIN s \/ (k - Len(s) \in DOMAIN t /\ k = Len(s) + (k - Len(s)))
  BY DEF Joins
<1> QED
  BY <1>1 DEF Joins

\* The places of a queue that has lost its head.
LEMMA TailPlaces ==
  ASSUME NEW s, IsQueue(s), s # <<>>
  PROVE  /\ IsQueue(Tail(s))
         /\ Len(s) \in Nat /\ DOMAIN s = 1..Len(s) /\ 1 \in DOMAIN s /\ Head(s) = s[1]
         /\ DOMAIN Tail(s) = 1..(Len(s) - 1)
         /\ \A i \in DOMAIN Tail(s) : i + 1 \in DOMAIN s /\ Tail(s)[i] = s[i + 1]
         /\ \A k \in DOMAIN s : k # 1 => k - 1 \in DOMAIN Tail(s) /\ Tail(s)[k - 1] = s[k]
         /\ Range(Tail(s)) \subseteq Range(s)
<1>1. s \in Seq(Range(s))
  BY DEF IsQueue
<1>2. Len(s) \in Nat /\ DOMAIN s = 1..Len(s) /\ Len(s) # 0
  BY <1>1, LenProperties, EmptySeq
<1>3. /\ Tail(s) \in Seq(Range(s))
      /\ Len(Tail(s)) = Len(s) - 1
      /\ \A i \in 1..Len(Tail(s)) : Tail(s)[i] = s[i + 1]
  BY <1>1, HeadTailProperties
<1>4. DOMAIN Tail(s) = 1..(Len(s) - 1)
  BY <1>3, LenProperties
<1>5. \A i \in DOMAIN Tail(s) : i + 1 \in DOMAIN s /\ Tail(s)[i] = s[i + 1]
  BY <1>2, <1>3, <1>4
<1>6. \A k \in DOMAIN s : k # 1 => k - 1 \in DOMAIN Tail(s) /\ Tail(s)[k - 1] = s[k]
  <2> TAKE k \in DOMAIN s
  <2> HAVE k # 1
  <2>1. k - 1 \in 1..(Len(s) - 1) /\ (k - 1) + 1 = k
    BY <1>2
  <2> QED
    BY <1>3, <1>4, <2>1
<1>7. Range(Tail(s)) \subseteq Range(s)
  BY <1>5 DEF Range
<1>8. IsQueue(Tail(s))
  BY TailOfQueue
<1>9. Head(s) = s[1] /\ 1 \in DOMAIN s
  BY <1>1, <1>2
<1> QED
  BY <1>2, <1>4, <1>5, <1>6, <1>7, <1>8, <1>9

\* And what it reports.
LEMMA JoinedReports ==
  ASSUME NEW s, NEW t, NEW u, Joins(s, t, u)
  PROVE  Announced(u) = Announced(s) \cup Announced(t)
<1>1. ASSUME NEW id \in Announced(u)
      PROVE  id \in Announced(s) \cup Announced(t)
  <2>1. PICK k \in DOMAIN u : IsOpened(u[k]) /\ id = u[k].id
    BY <1>1 DEF Announced
  <2>2. \/ k \in DOMAIN s /\ u[k] = s[k]
        \/ \E i \in DOMAIN t : k = Len(s) + i /\ u[k] = t[i]
    BY JoinedFrom
  <2> QED
    BY <2>1, <2>2 DEF Announced
<1>2. ASSUME NEW i \in DOMAIN s, IsOpened(s[i])
      PROVE  s[i].id \in Announced(u)
  <2>1. i \in DOMAIN u /\ u[i] = s[i]
    BY DEF Joins
  <2> QED
    BY <1>2, <2>1 DEF Announced
<1>3. ASSUME NEW i \in DOMAIN t, IsOpened(t[i])
      PROVE  t[i].id \in Announced(u)
  <2>1. Len(s) + i \in DOMAIN u /\ u[Len(s) + i] = t[i]
    BY DEF Joins
  <2> QED
    BY <1>3, <2>1 DEF Announced
<1>4. Announced(s) \subseteq Announced(u)
  BY <1>2 DEF Announced
<1>5. Announced(t) \subseteq Announced(u)
  BY <1>3 DEF Announced
<1> QED
  BY <1>1, <1>4, <1>5

-----------------------------------------------------------------------------
(* Runners stay honest and sound.                                          *)

\* What any runner says is about connections it has.
LEMMA GrownIsHonest ==
  ASSUME NEW r, NEW s, NEW evs, Honest(r), Grows(r, s, evs)
  PROVE  Honest(s) /\ Joins(r.events, evs, s.events)
<1>1. IsQueue(r.events) /\ IsQueue(evs) /\ s.events = r.events \o evs
  BY DEF Honest, EventsHold, Grows
<1>2. Joins(r.events, evs, s.events)
  BY <1>1, ConcatQueues
<1>3. Announced(s.events) \subseteq DOMAIN s.conns
  BY <1>2, JoinedReports DEF Honest, Grows
<1>4. ASSUME NEW k \in DOMAIN s.events, s.events[k].ev = "ConnectionClosed"
      PROVE  s.events[k] = Closed(s.events[k].id)
  <2>1. \/ k \in DOMAIN r.events /\ s.events[k] = r.events[k]
        \/ \E i \in DOMAIN evs : k = Len(r.events) + i /\ s.events[k] = evs[i]
    BY <1>2, JoinedFrom
  <2> QED
    BY <1>4, <2>1 DEF Honest, Grows, EventsHold
<1>5. EventsHold(s.events)
  BY <1>2, <1>4 DEF EventsHold, Joins
<1> QED
  BY <1>2, <1>3, <1>5 DEF Honest, Grows

\* No order of reports is disturbed.
LEMMA SaidInOrder ==
  ASSUME NEW r, NEW s, NEW evs, Honest(r), Sound(r), Says(r, s, evs)
  PROVE  OpenedOnce(s.events)
<1>1. Joins(r.events, evs, s.events)
  BY GrownIsHonest DEF Says
<1>2. Announced(evs) \cap Announced(r.events) = {}
  BY DEF Says, Turns, Honest
<1> SUFFICES ASSUME NEW i \in DOMAIN s.events, NEW j \in DOMAIN s.events,
                    IsOpened(s.events[i])
             PROVE  /\ IsOpened(s.events[j]) /\ s.events[i].id = s.events[j].id => i = j
                    /\ s.events[j] = Ended => i < j
  BY DEF OpenedOnce
<1> DEFINE e == r.events
           u == s.events
<1>3. \/ i \in DOMAIN e /\ u[i] = e[i]
      \/ \E k \in DOMAIN evs : i = Len(e) + k /\ u[i] = evs[k]
  BY <1>1, JoinedFrom
<1>4. \/ j \in DOMAIN e /\ u[j] = e[j]
      \/ \E k \in DOMAIN evs : j = Len(e) + k /\ u[j] = evs[k]
  BY <1>1, JoinedFrom
<1>5. CASE i \in DOMAIN e /\ u[i] = e[i] /\ j \in DOMAIN e /\ u[j] = e[j]
  BY <1>5 DEF Sound, OpenedOnce
<1>6. CASE i \in DOMAIN e /\ u[i] = e[i] /\ \E k \in DOMAIN evs : j = Len(e) + k /\ u[j] = evs[k]
  <2>1. PICK k \in DOMAIN evs : j = Len(e) + k /\ u[j] = evs[k]
    BY <1>6
  <2>2. i < j
    BY <1>1, <1>6, <2>1 DEF Joins
  <2>3. e[i].id \in Announced(e)
    BY <1>6 DEF Announced
  <2>4. IsOpened(evs[k]) => evs[k].id \in Announced(evs)
    BY DEF Announced
  <2> QED
    BY <1>2, <1>6, <2>1, <2>2, <2>3, <2>4
<1>7. CASE (\E k \in DOMAIN evs : i = Len(e) + k /\ u[i] = evs[k]) /\ j \in DOMAIN e /\ u[j] = e[j]
  <2>1. PICK k \in DOMAIN evs : i = Len(e) + k /\ u[i] = evs[k]
    BY <1>7
  <2>2. evs[k].id \in Announced(evs)
    BY <2>1 DEF Announced
  <2>3. IsOpened(e[j]) => e[j].id \in Announced(e)
    BY <1>7 DEF Announced
  <2>4. s.phase = "up" /\ r.phase \in Running
    BY <2>2 DEF Says, Passes
  <2>5. e[j] # Ended
    <3>1. CASE r.phase = "up"
      BY <1>7, <3>1 DEF Sound, Range
    <3>2. CASE r.phase = "starting"
      <4>1. e = <<>>
        BY <3>2 DEF Sound
      <4> QED
        BY <1>7, <4>1, EmptySeq
    <3> QED
      BY <2>4, <3>1, <3>2 DEF Running
  <2> QED
    BY <1>2, <1>7, <2>1, <2>2, <2>3, <2>5
<1>8. CASE /\ \E k \in DOMAIN evs : i = Len(e) + k /\ u[i] = evs[k]
           /\ \E k \in DOMAIN evs : j = Len(e) + k /\ u[j] = evs[k]
  <2>1. PICK k \in DOMAIN evs : i = Len(e) + k /\ u[i] = evs[k]
    BY <1>8
  <2>2. PICK l \in DOMAIN evs : j = Len(e) + l /\ u[j] = evs[l]
    BY <1>8
  <2>3. evs[k].id \in Announced(evs)
    BY <2>1 DEF Announced
  <2>4. Ended \notin Range(evs)
    BY <2>3 DEF Says, Passes
  <2>5. evs[l] # Ended
    BY <2>4 DEF Range
  <2>6. IsOpened(evs[l]) /\ evs[k].id = evs[l].id => k = l
    BY <2>1 DEF Says, Turns
  <2> QED
    BY <2>1, <2>2, <2>5, <2>6
<1> QED
  BY <1>3, <1>4, <1>5, <1>6, <1>7, <1>8

\* What was closed unheard is still reported closed later.
LEMMA SaidClosedLater ==
  ASSUME NEW r, NEW s, NEW evs, Honest(r), Sound(r), Says(r, s, evs)
  PROVE  ClosedLater(s)
<1>1. Joins(r.events, evs, s.events)
  BY GrownIsHonest DEF Says
<1> DEFINE e == r.events
           u == s.events
<1> SUFFICES ASSUME NEW i \in DOMAIN u, IsOpened(u[i]), s.conns[u[i].id].st = "closed"
             PROVE  \E j \in DOMAIN u : i < j /\ u[j] = Closed(u[i].id)
  BY DEF ClosedLater
<1>2. \/ i \in DOMAIN e /\ u[i] = e[i]
      \/ \E k \in DOMAIN evs : i = Len(e) + k /\ u[i] = evs[k]
  BY <1>1, JoinedFrom
<1>3. CASE \E k \in DOMAIN evs : i = Len(e) + k /\ u[i] = evs[k]
  <2>1. u[i].id \in Announced(evs)
    BY <1>3 DEF Announced
  <2> QED
    BY <2>1 DEF Says, Turns
<1>4. CASE i \in DOMAIN e /\ u[i] = e[i]
  <2> DEFINE id == e[i].id
  <2>1. id \in DOMAIN r.conns
    BY <1>4 DEF Honest, Announced
  <2>2. r.conns[id].st = "closed" \/ Closed(id) \in Range(evs)
    BY <1>4, <2>1 DEF Says, Turns
  <2>3. CASE r.conns[id].st = "closed"
    <3>1. PICK j \in DOMAIN e : i < j /\ e[j] = Closed(id)
      BY <1>4, <2>3 DEF Sound, ClosedLater
    <3>2. j \in DOMAIN u /\ u[j] = e[j]
      BY <1>1 DEF Joins
    <3> QED
      BY <1>4, <3>1, <3>2
  <2>4. CASE Closed(id) \in Range(evs)
    <3>1. PICK k \in DOMAIN evs : evs[k] = Closed(id)
      BY <2>4 DEF Range
    <3>2. Len(e) + k \in DOMAIN u /\ u[Len(e) + k] = evs[k] /\ i < Len(e) + k
      BY <1>1, <1>4 DEF Joins
    <3> QED
      BY <1>4, <3>1, <3>2
  <2> QED
    BY <2>2, <2>3, <2>4
<1> QED
  BY <1>2, <1>3, <1>4

\* A step of its threads keeps a runner sound.
LEMMA SaidIsSound ==
  ASSUME NEW r, NEW s, NEW evs, Honest(r), Sound(r), Says(r, s, evs)
  PROVE  Sound(s)
<1>1. Joins(r.events, evs, s.events)
  BY GrownIsHonest DEF Says
<1>2. OpenedOnce(s.events) /\ ClosedLater(s)
  BY SaidInOrder, SaidClosedLater
<1>3. s.phase \notin {"starting", "joined"}
  BY DEF Says, Passes
<1>4. Range(s.events) = Range(r.events) \cup Range(evs)
  BY <1>1 DEF Joins
<1>5. r.phase = "starting" => Range(r.events) = {}
  BY EmptySeq DEF Sound, Range
<1>6. s.phase = "up" => Ended \notin Range(s.events)
  BY <1>4, <1>5 DEF Says, Passes, Sound, Running
<1>7. Announced(s.events) # {} => Owes(s)
  <2>1. Announced(s.events) = Announced(r.events) \cup Announced(evs)
    BY <1>1, JoinedReports
  <2>2. CASE Announced(evs) # {}
    BY <2>2 DEF Says, Passes, Owes
  <2>3. CASE Announced(r.events) # {}
    <3>1. r.phase = "up" \/ Ended \in Range(r.events)
      BY <2>3 DEF Sound, Owes
    <3> QED
      BY <1>4, <3>1 DEF Says, Passes, Owes
  <2> QED
    BY <2>1, <2>2, <2>3
<1>8. ASSUME s.phase = "up", NEW id, Closed(id) \in Range(s.events)
      PROVE  id \in DOMAIN s.conns /\ s.conns[id].st = "closed"
  <2>1. CASE Closed(id) \in Range(evs)
    BY <1>8, <2>1 DEF Says, Turns
  <2>2. CASE Closed(id) \in Range(r.events)
    <3>1. r.phase = "up"
      BY <1>5, <1>8, <2>2 DEF Says, Passes, Running
    <3>2. id \in DOMAIN r.conns /\ r.conns[id].st = "closed"
      BY <2>2, <3>1 DEF Sound
    <3> QED
      BY <3>2 DEF Says, Turns, Grows
  <2> QED
    BY <1>4, <1>8, <2>1, <2>2
<1> QED
  BY <1>2, <1>3, <1>6, <1>7, <1>8 DEF Sound

-----------------------------------------------------------------------------
(* What the window shows of a port: rs its runners, a its handle's, b and  *)
(* tb what is bound and the tabs, o whether its runners overlapped.        *)

Shown(p, b) == {k \in DOMAIN b : k[1] = p}

\* What is shown is of a runner whose end the window will hear of.
Owed(p, rs, b) == Shown(p, b) # {} => \E g \in DOMAIN rs : Owes(rs[g])

\* At most one runner is unheard.
Alone(rs) == \A g, h \in DOMAIN rs : Unheard(rs[g]) /\ Unheard(rs[h]) => g = h

\* What is shown is of that one, and has been heard of.
Fits(p, rs, b) ==
  \A g \in DOMAIN rs : Unheard(rs[g]) =>
    \A k \in Shown(p, b) : k[2] \in DOMAIN rs[g].conns /\ k[2] \notin Announced(rs[g].events)

\* A tab that shows a connection hears of its end.
TabsBound(p, b, tb) ==
  \A t \in DOMAIN tb : tb[t].port = p /\ tb[t].conn # None =>
    <<p, tb[t].conn>> \in DOMAIN b /\ b[<<p, tb[t].conn>>] = t

\* Runner a has the port for itself since it was started.
Solo(rs, a) ==
  a \in DOMAIN rs /\ \A h \in DOMAIN rs : h # a => rs[h].phase = "joined"

\* Its connections and what is shown differ by what is under way.
Faithful(p, r, b) ==
  /\ \A k \in Shown(p, b) :
       /\ k[2] \in DOMAIN r.conns
       /\ r.conns[k[2]].st = "closed" => Closed(k[2]) \in Range(r.events)
  /\ r.phase = "up" =>
       \A id \in DOMAIN r.conns : r.conns[id].st \in Live =>
         \/ <<p, id>> \in DOMAIN b \/ id \in Announced(r.events)
         \/ Close(id) \in Range(r.cmds) \/ Disconnect \in Range(r.cmds)

PortHolds(p, rs, a, b, tb, o) ==
  /\ Owed(p, rs, b)
  /\ ~o => Alone(rs) /\ Fits(p, rs, b) /\ TabsBound(p, b, tb)
  /\ Solo(rs, a) => Faithful(p, rs[a], b)

\* Its runners, whatever the window knows.
AllHonest(rs) == \A g \in DOMAIN rs : Honest(rs[g])
AllSound(rs) == \A g \in DOMAIN rs : Sound(rs[g])

\* A step of a runner's threads.
LEMMA SaidFits ==
  ASSUME NEW p, NEW rs, NEW a, NEW b, NEW tb, NEW o, PortHolds(p, rs, a, b, tb, o),
         IsQueue(rs), NEW g \in DOMAIN rs, Honest(rs[g]), Sound(rs[g]),
         NEW s, NEW evs, Says(rs[g], s, evs),
         NEW ss, ss = [rs EXCEPT ![g] = s]
  PROVE  PortHolds(p, ss, a, b, tb, o)
<1> DEFINE r == rs[g]
<1>1. /\ DOMAIN ss = DOMAIN rs /\ ss[g] = s
      /\ \A h \in DOMAIN rs : h # g => ss[h] = rs[h]
  BY ReplaceInQueue
<1>2. Joins(r.events, evs, s.events) /\ Honest(s)
  BY GrownIsHonest DEF Says
<1>3. /\ Range(s.events) = Range(r.events) \cup Range(evs)
      /\ Announced(s.events) = Announced(r.events) \cup Announced(evs)
  BY <1>2, JoinedReports DEF Joins
<1>4. Owes(r) => Owes(s)
  BY <1>3 DEF Owes, Says, Passes
<1>5. Unheard(s) => Unheard(r)
  BY <1>3 DEF Unheard, Ended, Running, Says, Passes
<1>6. Owed(p, ss, b)
  BY <1>1, <1>4 DEF PortHolds, Owed
<1>7. ASSUME ~o
      PROVE  Alone(ss) /\ Fits(p, ss, b) /\ TabsBound(p, b, tb)
  <2>1. Alone(rs) /\ Fits(p, rs, b) /\ TabsBound(p, b, tb)
    BY <1>7 DEF PortHolds
  <2>2. Alone(ss)
    BY <1>1, <1>5, <2>1 DEF Alone
  <2>3. ASSUME NEW h \in DOMAIN ss, Unheard(ss[h]), NEW k \in Shown(p, b)
        PROVE  k[2] \in DOMAIN ss[h].conns /\ k[2] \notin Announced(ss[h].events)
    <3>1. CASE h # g
      BY <1>1, <2>1, <2>3, <3>1 DEF Fits
    <3>2. CASE h = g
      <4>1. k[2] \in DOMAIN r.conns /\ k[2] \notin Announced(r.events)
        BY <1>1, <1>5, <2>1, <2>3, <3>2 DEF Fits
      <4>2. k[2] \in DOMAIN s.conns /\ k[2] \notin Announced(evs)
        BY <4>1 DEF Says, Grows, Turns
      <4> QED
        BY <1>1, <1>3, <3>2, <4>1, <4>2
    <3> QED
      BY <3>1, <3>2
  <2> QED
    BY <2>1, <2>2, <2>3 DEF Fits
<1>8. ASSUME Solo(ss, a)
      PROVE  Faithful(p, ss[a], b)
  <2>1. a = g
    BY <1>1, <1>8 DEF Solo, Says, Passes
  <2>2. Solo(rs, a)
    BY <1>1, <1>8, <2>1 DEF Solo
  <2>3. Faithful(p, r, b)
    BY <2>1, <2>2 DEF PortHolds
  <2>4. ASSUME NEW k \in Shown(p, b)
        PROVE  /\ k[2] \in DOMAIN s.conns
               /\ s.conns[k[2]].st = "closed" => Closed(k[2]) \in Range(s.events)
    <3>1. /\ k[2] \in DOMAIN r.conns
          /\ r.conns[k[2]].st = "closed" => Closed(k[2]) \in Range(r.events)
      BY <2>3 DEF Faithful
    <3> QED
      BY <1>3, <3>1 DEF Says, Grows, Turns
  <2>5. ASSUME s.phase = "up", NEW id \in DOMAIN s.conns, s.conns[id].st \in Live
        PROVE  \/ <<p, id>> \in DOMAIN b \/ id \in Announced(s.events)
               \/ Close(id) \in Range(s.cmds) \/ Disconnect \in Range(s.cmds)
    <3>1. CASE id \notin DOMAIN r.conns
      BY <1>3, <3>1 DEF Says, Turns
    <3>2. CASE id \in DOMAIN r.conns
      <4>1. r.phase = "up"
        <5>1. r.phase # "starting"
          BY <3>2, EmptySeq DEF Sound
        <5> QED
          BY <2>5, <5>1 DEF Says, Passes, Running
      <4>2. /\ r.conns[id].st \in Live
            /\ Close(id) \in Range(r.cmds) => Close(id) \in Range(s.cmds)
            /\ Disconnect \in Range(r.cmds) => Disconnect \in Range(s.cmds)
        BY <2>5, <3>2 DEF Says, Turns
      <4>3. \/ <<p, id>> \in DOMAIN b \/ id \in Announced(r.events)
            \/ Close(id) \in Range(r.cmds) \/ Disconnect \in Range(r.cmds)
        BY <2>3, <3>2, <4>1, <4>2 DEF Faithful
      <4> QED
        BY <1>3, <4>2, <4>3
    <3> QED
      BY <3>1, <3>2
  <2>6. Faithful(p, s, b)
    BY <2>4, <2>5 DEF Faithful
  <2> QED
    BY <1>1, <2>1, <2>6
<1> QED
  BY <1>6, <1>7, <1>8 DEF PortHolds

\* All but the commands is the same, and none of them is lost.
SameButCommands(r, s) ==
  /\ s.phase = r.phase /\ s.events = r.events /\ s.conns = r.conns /\ s.broke = r.broke
  /\ Range(r.cmds) \subseteq Range(s.cmds)

Commanded(rs, ss) ==
  /\ IsQueue(ss) /\ DOMAIN ss = DOMAIN rs
  /\ \A h \in DOMAIN rs : SameButCommands(rs[h], ss[h])

\* A command does no more than that.
LEMMA CommandCommands ==
  ASSUME NEW rs, NEW a, Held(rs, a), NEW g, NEW c
  PROVE  Commanded(rs, Command(rs, g, c))
<1>0. IsQueue(rs)
  BY DEF Held
<1>1. CASE g \in DOMAIN rs /\ Command(rs, g, c) # rs
  <2> DEFINE r == [rs[g] EXCEPT !.cmds = Append(@, c)]
  <2>1. Whole(rs[g])
    BY <1>1 DEF Held
  <2>2. Command(rs, g, c) = [rs EXCEPT ![g] = r]
    BY <1>1 DEF Command
  <2>3. /\ r.phase = rs[g].phase /\ r.cmds = Append(rs[g].cmds, c)
        /\ r.events = rs[g].events /\ r.conns = rs[g].conns /\ r.broke = rs[g].broke
    BY <2>1 DEF Whole
  <2>4. Range(r.cmds) = Range(rs[g].cmds) \cup {c}
    BY <2>1, <2>3, AppendToQueue DEF Whole
  <2>5. SameButCommands(rs[g], r)
    BY <2>3, <2>4 DEF SameButCommands
  <2> HIDE DEF r
  <2>6. /\ IsQueue([rs EXCEPT ![g] = r])
        /\ DOMAIN [rs EXCEPT ![g] = r] = DOMAIN rs
        /\ [rs EXCEPT ![g] = r][g] = r
        /\ \A h \in DOMAIN rs : h # g => [rs EXCEPT ![g] = r][h] = rs[h]
    BY <1>0, <1>1, ReplaceInQueue
  <2>7. \A h \in DOMAIN rs : SameButCommands(rs[h], rs[h])
    BY DEF SameButCommands
  <2> QED
    BY <2>2, <2>5, <2>6, <2>7 DEF Commanded
<1>2. CASE Command(rs, g, c) = rs
  BY <1>0, <1>2 DEF Commanded, SameButCommands
<1>3. CASE g \notin DOMAIN rs
  <2>1. DOMAIN Command(rs, g, c) = DOMAIN rs
    BY DEF Command
  <2>2. rs = [h \in DOMAIN rs |-> rs[h]]
    BY <1>0, LenProperties DEF IsQueue
  <2>3. Command(rs, g, c) = rs
    BY <1>3, <2>2 DEF Command
  <2> QED
    BY <1>2, <2>3
<1> QED
  BY <1>1, <1>2, <1>3

\* And what the window shows stays as true as it was.
LEMMA CommandedFits ==
  ASSUME NEW p, NEW rs, NEW a, NEW b, NEW tb, NEW o, PortHolds(p, rs, a, b, tb, o),
         NEW ss, Commanded(rs, ss)
  PROVE  PortHolds(p, ss, a, b, tb, o)
<1>1. \A h \in DOMAIN rs : /\ Owes(ss[h]) <=> Owes(rs[h])
                           /\ Unheard(ss[h]) <=> Unheard(rs[h])
                           /\ ss[h].conns = rs[h].conns /\ ss[h].events = rs[h].events
                           /\ ss[h].phase = rs[h].phase
  BY DEF Commanded, SameButCommands, Owes, Unheard
<1>2. DOMAIN ss = DOMAIN rs
  BY DEF Commanded
<1>3. Owed(p, ss, b)
  BY <1>1, <1>2 DEF PortHolds, Owed
<1>4. ~o => Alone(ss) /\ Fits(p, ss, b) /\ TabsBound(p, b, tb)
  BY <1>1, <1>2 DEF PortHolds, Alone, Fits
<1>5. ASSUME Solo(ss, a)
      PROVE  Faithful(p, ss[a], b)
  <2>1. Solo(rs, a)
    BY <1>1, <1>2, <1>5 DEF Solo
  <2>2. Faithful(p, rs[a], b)
    BY <2>1 DEF PortHolds
  <2>3. SameButCommands(rs[a], ss[a])
    BY <2>1 DEF Solo, Commanded
  <2> QED
    BY <2>2, <2>3 DEF Faithful, SameButCommands
<1> QED
  BY <1>3, <1>4, <1>5 DEF PortHolds

\* As do its runners.
LEMMA CommandedRunners ==
  ASSUME NEW rs, NEW ss, Commanded(rs, ss)
  PROVE  /\ AllHonest(rs) => AllHonest(ss)
         /\ \A g \in DOMAIN rs : Sound(rs[g]) => Sound(ss[g])
         /\ \A g \in DOMAIN rs : ss[g].broke = rs[g].broke
BY DEF Commanded, SameButCommands, AllHonest, Honest, Sound, Owes, ClosedLater

\* Whether the runners rs overlap a new one, or o each other.
Overlaps(rs, o) == o \/ \E r \in Range(rs) : Unheard(r)

\* A new runner: only one that overlaps another finds something shown.
LEMMA FreshFits ==
  ASSUME NEW p, NEW rs, NEW b, NEW tb, NEW o, NEW oo, PortHolds(p, rs, None, b, tb, o),
         IsQueue(rs), AllSound(rs), NEW ss, ss = Append(rs, Fresh),
         Overlaps(rs, o) => oo
  PROVE  PortHolds(p, ss, Len(rs) + 1, b, tb, oo)
<1> DEFINE n == Len(rs) + 1
<1>1. /\ DOMAIN ss = DOMAIN rs \cup {n} /\ ss[n] = Fresh
      /\ \A i \in DOMAIN rs : ss[i] = rs[i] /\ i # n
  BY AppendToQueue
<1> HIDE DEF n
<1>2. /\ Fresh.phase = "starting" /\ Fresh.conns = <<>> /\ Fresh.events = <<>>
  BY DEF Fresh
<1>3. Owed(p, ss, b)
  BY <1>1 DEF PortHolds, Owed
<1>4. ASSUME ~oo
      PROVE  Alone(ss) /\ Fits(p, ss, b) /\ TabsBound(p, b, tb)
  <2>1. \A g \in DOMAIN rs : ~Unheard(rs[g])
    BY <1>4 DEF Overlaps, Range
  <2>2. \A g \in DOMAIN rs : ~Owes(rs[g])
    BY <2>1 DEF Unheard, Owes, Ended, Running
  <2>3. Shown(p, b) = {}
    BY <2>2 DEF PortHolds, Owed
  <2>4. Alone(ss)
    BY <1>1, <2>1 DEF Alone
  <2>5. Fits(p, ss, b)
    BY <2>3 DEF Fits
  <2> QED
    BY <1>4, <2>4, <2>5 DEF PortHolds, Overlaps
<1>5. ASSUME Solo(ss, n)
      PROVE  Faithful(p, ss[n], b)
  <2>1. \A g \in DOMAIN rs : rs[g].phase = "joined"
    BY <1>1, <1>5 DEF Solo
  <2>2. \A g \in DOMAIN rs : rs[g].events = <<>>
    BY <2>1 DEF AllSound, Sound
  <2>3. \A g \in DOMAIN rs : Range(rs[g].events) = {}
    BY <2>2, EmptySeq DEF Range
  <2>4. \A g \in DOMAIN rs : ~Owes(rs[g])
    BY <2>1, <2>3 DEF Owes
  <2>5. Shown(p, b) = {}
    BY <2>4 DEF PortHolds, Owed
  <2> QED
    BY <1>1, <1>2, <2>5 DEF Faithful
<1> QED
  BY <1>3, <1>4, <1>5 DEF PortHolds, n

\* Without a handle no runner has the port for itself.
LEMMA LetGoFits ==
  ASSUME NEW p, NEW rs, NEW a, NEW b, NEW tb, NEW o, PortHolds(p, rs, a, b, tb, o),
         IsQueue(rs)
  PROVE  PortHolds(p, rs, None, b, tb, o)
<1>1. None \notin DOMAIN rs
  BY LenProperties DEF IsQueue, None
<1> QED
  BY <1>1 DEF PortHolds, Solo

\* The head of runner r's events is taken: s.
Taken(r, s) ==
  /\ r.events # <<>> /\ s.events = Tail(r.events)
  /\ s.phase = r.phase /\ s.cmds = r.cmds /\ s.conns = r.conns /\ s.broke = r.broke

\* What is left of its events.
LEMMA TakenRest ==
  ASSUME NEW r, NEW s, Honest(r), Taken(r, s)
  PROVE  /\ Honest(s)
         /\ Head(r.events) \in Range(r.events)
         /\ Range(s.events) \subseteq Range(r.events)
         /\ \A e \in Range(r.events) : e # Head(r.events) => e \in Range(s.events)
         /\ Announced(s.events) \subseteq Announced(r.events)
         /\ \A id \in Announced(r.events) :
              id \in Announced(s.events) \/ (IsOpened(Head(r.events)) /\ Head(r.events).id = id)
<1> DEFINE e == r.events
           u == s.events
<1>1. IsQueue(e) /\ e # <<>> /\ u = Tail(e)
  BY DEF Honest, EventsHold, Taken
<1> HIDE DEF e, u
<1>2. /\ IsQueue(Tail(e))
      /\ 1 \in DOMAIN e /\ Head(e) = e[1]
      /\ \A i \in DOMAIN Tail(e) : i + 1 \in DOMAIN e /\ Tail(e)[i] = e[i + 1]
      /\ \A k \in DOMAIN e : k # 1 => k - 1 \in DOMAIN Tail(e) /\ Tail(e)[k - 1] = e[k]
      /\ Range(Tail(e)) \subseteq Range(e)
  BY <1>1, TailPlaces, Zenon
<1>3. /\ IsQueue(u)
      /\ 1 \in DOMAIN e /\ Head(e) = e[1]
      /\ \A i \in DOMAIN u : i + 1 \in DOMAIN e /\ u[i] = e[i + 1]
      /\ \A k \in DOMAIN e : k # 1 => k - 1 \in DOMAIN u /\ u[k - 1] = e[k]
      /\ Range(u) \subseteq Range(e)
  BY <1>1, <1>2, Zenon
<1>4. Head(e) \in Range(e)
  BY <1>3 DEF Range
<1>5. \A x \in Range(e) : x # Head(e) => x \in Range(u)
  BY <1>3 DEF Range
<1>6. Announced(u) \subseteq Announced(e)
  BY <1>3 DEF Announced
<1>7. \A id \in Announced(e) : id \in Announced(u) \/ (IsOpened(Head(e)) /\ Head(e).id = id)
  <2> TAKE id \in Announced(e)
  <2>1. PICK k \in DOMAIN e : IsOpened(e[k]) /\ id = e[k].id
    BY DEF Announced
  <2>2. CASE k = 1
    BY <1>3, <2>1, <2>2
  <2>3. CASE k # 1
    <3>1. k - 1 \in DOMAIN u /\ u[k - 1] = e[k]
      BY <1>3, <2>3
    <3>2. IsOpened(u[k - 1]) /\ id = u[k - 1].id
      BY <2>1, <3>1
    <3> QED
      BY <3>1, <3>2 DEF Announced
  <2> QED
    BY <2>2, <2>3
<1>8. EventsHold(u)
  <2>1. \A i \in DOMAIN e : e[i].ev = "ConnectionClosed" => e[i] = Closed(e[i].id)
    BY DEF Honest, EventsHold, e
  <2>2. \A i \in DOMAIN u : u[i].ev = "ConnectionClosed" => u[i] = Closed(u[i].id)
    BY <1>3, <2>1
  <2> QED
    BY <1>3, <2>2 DEF EventsHold
<1>9. Honest(s)
  <2>1. s.conns = r.conns /\ s.phase = r.phase /\ s.broke = r.broke
    BY DEF Taken
  <2> QED
    BY <1>6, <1>8, <2>1 DEF Honest, e, u
<1> QED
  BY <1>3, <1>4, <1>5, <1>6, <1>7, <1>9 DEF e, u

\* A runner one of whose events is handled stays sound.
LEMMA TakenIsSound ==
  ASSUME NEW r, NEW s, Honest(r), Sound(r), Taken(r, s)
  PROVE  Sound(s)
<1> DEFINE e == r.events
           u == s.events
<1>1. IsQueue(e) /\ e # <<>> /\ u = Tail(e)
  BY DEF Honest, EventsHold, Taken
<1>2. /\ s.phase = r.phase /\ s.conns = r.conns
  BY DEF Taken
<1>3. /\ Range(u) \subseteq Range(e)
      /\ \A x \in Range(e) : x # Head(e) => x \in Range(u)
      /\ Announced(u) \subseteq Announced(e)
  BY TakenRest
<1> HIDE DEF e, u
<1>4. /\ 1 \in DOMAIN e /\ Head(e) = e[1] /\ DOMAIN e \subseteq Nat
      /\ \A i \in DOMAIN Tail(e) : i + 1 \in DOMAIN e /\ Tail(e)[i] = e[i + 1]
      /\ DOMAIN Tail(e) \subseteq Nat
      /\ \A k \in DOMAIN e : k # 1 => k - 1 \in DOMAIN Tail(e) /\ Tail(e)[k - 1] = e[k]
  BY <1>1, TailPlaces
<1>5. /\ \A i \in DOMAIN u : i \in Nat /\ i + 1 \in DOMAIN e /\ u[i] = e[i + 1]
      /\ \A k \in DOMAIN e : k # 1 => k - 1 \in DOMAIN u /\ u[k - 1] = e[k]
  BY <1>1, <1>4
<1>6. r.phase \notin {"starting", "joined"}
  BY <1>1 DEF Sound, e
<1>7. Announced(u) # {} => Owes(s)
  <2>1. ASSUME NEW i \in DOMAIN u, IsOpened(u[i]), r.phase # "up"
        PROVE  Ended \in Range(u)
    <3>1. u[i].id \in Announced(u)
      BY <2>1 DEF Announced
    <3>2. Ended \in Range(e)
      BY <1>3, <2>1, <3>1 DEF Sound, Owes, e
    <3>3. PICK j \in DOMAIN e : e[j] = Ended
      BY <3>2 DEF Range
    <3>4. i + 1 < j
      BY <1>5, <2>1, <3>3 DEF Sound, OpenedOnce, e
    <3>5. j # 1
      BY <1>4, <1>5, <2>1, <3>3, <3>4
    <3>6. j - 1 \in DOMAIN u /\ u[j - 1] = Ended
      BY <1>5, <3>3, <3>5
    <3> QED
      BY <3>6 DEF Range
  <2> QED
    BY <1>2, <2>1 DEF Owes, Announced, u
<1>8. OpenedOnce(u)
  <2>1. OpenedOnce(e)
    BY DEF Sound, e
  <2> SUFFICES ASSUME NEW i \in DOMAIN u, NEW j \in DOMAIN u, IsOpened(u[i])
               PROVE  /\ IsOpened(u[j]) /\ u[i].id = u[j].id => i = j
                      /\ u[j] = Ended => i < j
    BY DEF OpenedOnce
  <2>2. /\ i \in Nat /\ i + 1 \in DOMAIN e /\ u[i] = e[i + 1]
        /\ j \in Nat /\ j + 1 \in DOMAIN e /\ u[j] = e[j + 1]
    BY <1>5
  <2>3. /\ IsOpened(e[j + 1]) /\ e[i + 1].id = e[j + 1].id => i + 1 = j + 1
        /\ e[j + 1] = Ended => i + 1 < j + 1
    BY <2>1, <2>2 DEF OpenedOnce
  <2> QED
    BY <2>2, <2>3
<1>9. ASSUME NEW i \in DOMAIN u, IsOpened(u[i]), s.conns[u[i].id].st = "closed"
      PROVE  \E j \in DOMAIN u : i < j /\ u[j] = Closed(u[i].id)
  <2>1. i \in Nat /\ i + 1 \in DOMAIN e /\ u[i] = e[i + 1]
    BY <1>5
  <2>2. PICK j \in DOMAIN e : i + 1 < j /\ e[j] = Closed(e[i + 1].id)
    BY <1>2, <1>9, <2>1 DEF Sound, ClosedLater, e
  <2>3. j \in Nat /\ j # 1 /\ i < j - 1
    BY <1>4, <2>1, <2>2
  <2> QED
    BY <1>5, <2>1, <2>2, <2>3
<1>10. ClosedLater(s)
  BY <1>9 DEF ClosedLater, u
<1>11. s.phase = "up" => Ended \notin Range(u)
  BY <1>2, <1>3 DEF Sound, e
<1>12. s.phase = "up" =>
         \A id : Closed(id) \in Range(u) => id \in DOMAIN s.conns /\ s.conns[id].st = "closed"
  BY <1>2, <1>3 DEF Sound, e
<1> QED
  BY <1>2, <1>6, <1>7, <1>8, <1>10, <1>11, <1>12 DEF Sound, u

\* Where a key leads, as far as the window's own records go.
KeysHold(b, tb) ==
  \A k \in DOMAIN b :
    /\ k = <<k[1], k[2]>> /\ b[k] \in DOMAIN tb
    /\ tb[b[k]].port = k[1] /\ tb[b[k]].conn = k[2] /\ k[2] # None

\* An event that is about the port: nothing shown changes.
LEMMA OtherEventFits ==
  ASSUME NEW p, NEW rs, NEW a, NEW b, NEW tb, NEW o, PortHolds(p, rs, a, b, tb, o),
         IsQueue(rs), NEW g \in DOMAIN rs, Honest(rs[g]), NEW s, Taken(rs[g], s),
         Head(rs[g].events).ev \notin {"ConnectionOpened", "ConnectionClosed", "PortDisconnected"},
         NEW ss, ss = [rs EXCEPT ![g] = s]
  PROVE  PortHolds(p, ss, a, b, tb, o)
<1> DEFINE r == rs[g]
           e == Head(r.events)
<1>1. /\ DOMAIN ss = DOMAIN rs /\ ss[g] = s
      /\ \A h \in DOMAIN rs : h # g => ss[h] = rs[h]
  BY ReplaceInQueue
<1>2. /\ s.phase = r.phase /\ s.conns = r.conns /\ s.cmds = r.cmds
  BY DEF Taken
<1>3. /\ Range(s.events) \subseteq Range(r.events)
      /\ \A x \in Range(r.events) : x # e => x \in Range(s.events)
      /\ Announced(s.events) \subseteq Announced(r.events)
      /\ \A id \in Announced(r.events) :
           id \in Announced(s.events) \/ (IsOpened(e) /\ e.id = id)
  BY TakenRest
<1>4. e # Ended /\ ~IsOpened(e) /\ \A id : e # Closed(id)
  BY DEF Ended, Event, IsOpened, Closed
<1>5. /\ Owes(s) <=> Owes(r)
      /\ Unheard(s) <=> Unheard(r)
      /\ Announced(s.events) = Announced(r.events)
      /\ \A id : Closed(id) \in Range(r.events) => Closed(id) \in Range(s.events)
  BY <1>2, <1>3, <1>4 DEF Owes, Unheard, Ended
<1>6. Owed(p, ss, b)
  BY <1>1, <1>5 DEF PortHolds, Owed
<1>7. ~o => Alone(ss) /\ Fits(p, ss, b) /\ TabsBound(p, b, tb)
  BY <1>1, <1>2, <1>5 DEF PortHolds, Alone, Fits
<1>8. ASSUME Solo(ss, a)
      PROVE  Faithful(p, ss[a], b)
  <2>1. Solo(rs, a)
    BY <1>1, <1>2, <1>8 DEF Solo
  <2>2. Faithful(p, rs[a], b)
    BY <2>1 DEF PortHolds
  <2>3. CASE a # g
    BY <1>1, <2>1, <2>2, <2>3 DEF Solo
  <2>4. CASE a = g
    BY <1>1, <1>2, <1>5, <2>2, <2>4 DEF Faithful
  <2> QED
    BY <2>3, <2>4
<1> QED
  BY <1>6, <1>7, <1>8 DEF PortHolds

\* Nothing is shown of p any more.
Unbinds(p, b, tb, b2, tb2) ==
  /\ Shown(p, b2) = {}
  /\ \A t \in DOMAIN tb2 : tb2[t].port = p /\ tb2[t].conn # None =>
       /\ t \in DOMAIN tb /\ tb[t].port = p /\ tb[t].conn = tb2[t].conn
       /\ \A k \in DOMAIN b : b[k] = t => k[1] # p

\* The end of the port: nothing is shown.
LEMMA EndedFits ==
  ASSUME NEW p, NEW rs, NEW a, NEW b, NEW tb, NEW o, PortHolds(p, rs, a, b, tb, o),
         IsQueue(rs), NEW g \in DOMAIN rs, Honest(rs[g]), NEW s, Taken(rs[g], s),
         NEW ss, ss = [rs EXCEPT ![g] = s],
         NEW b2, NEW tb2, Unbinds(p, b, tb, b2, tb2)
  PROVE  PortHolds(p, ss, None, b2, tb2, o)
<1> USE DEF Unbinds
<1> DEFINE r == rs[g]
<1>1. /\ DOMAIN ss = DOMAIN rs /\ ss[g] = s /\ IsQueue(ss)
      /\ \A h \in DOMAIN rs : h # g => ss[h] = rs[h]
  BY ReplaceInQueue
<1>2. Unheard(s) => Unheard(r)
  BY TakenRest DEF Unheard, Taken
<1>3. Owed(p, ss, b2) /\ Fits(p, ss, b2)
  BY DEF Owed, Fits
<1>4. ASSUME ~o
      PROVE  Alone(ss) /\ TabsBound(p, b2, tb2)
  <2>1. Alone(rs) /\ TabsBound(p, b, tb)
    BY <1>4 DEF PortHolds
  <2>2. Alone(ss)
    BY <1>1, <1>2, <2>1 DEF Alone
  <2>3. ASSUME NEW t \in DOMAIN tb2, tb2[t].port = p, tb2[t].conn # None
        PROVE  FALSE
    <3>1. /\ t \in DOMAIN tb /\ tb[t].port = p /\ tb[t].conn # None
          /\ \A k \in DOMAIN b : b[k] = t => k[1] # p
      BY <2>3
    <3>2. <<p, tb[t].conn>> \in DOMAIN b /\ b[<<p, tb[t].conn>>] = t
      BY <2>1, <3>1 DEF TabsBound
    <3> QED
      BY <3>1, <3>2
  <2> QED
    BY <2>2, <2>3 DEF TabsBound
<1>5. ~Solo(ss, None)
  BY <1>1, LenProperties DEF IsQueue, Solo, None
<1> QED
  BY <1>3, <1>4, <1>5 DEF PortHolds

\* Connection id of p is shown by tab t.
Binds(p, id, t, b, tb, b2, tb2) ==
  /\ DOMAIN b2 = DOMAIN b \cup {<<p, id>>} /\ b2[<<p, id>>] = t
  /\ \A k \in DOMAIN b : k # <<p, id>> => b2[k] = b[k]
  /\ \A u \in DOMAIN tb2 : u # t => u \in DOMAIN tb /\ tb2[u] = tb[u]
  /\ tb2[t].conn = id

\* A connection is heard of: it was not shown, and its end is still to come.
LEMMA OpenedFits ==
  ASSUME NEW p, NEW rs, NEW a, NEW b, NEW tb, NEW o, PortHolds(p, rs, a, b, tb, o),
         IsQueue(rs), NEW g \in DOMAIN rs, Honest(rs[g]), Sound(rs[g]),
         NEW s, Taken(rs[g], s), IsOpened(Head(rs[g].events)),
         NEW ss, ss = [rs EXCEPT ![g] = s],
         NEW id, id = Head(rs[g].events).id,
         NEW t, NEW b2, NEW tb2, Binds(p, id, t, b, tb, b2, tb2)
  PROVE  PortHolds(p, ss, a, b2, tb2, o)
<1> USE DEF Binds
<1> DEFINE r == rs[g]
           e == Head(r.events)
<1>1. /\ DOMAIN ss = DOMAIN rs /\ ss[g] = s
      /\ \A h \in DOMAIN rs : h # g => ss[h] = rs[h]
  BY ReplaceInQueue
<1>2. /\ s.phase = r.phase /\ s.conns = r.conns /\ s.cmds = r.cmds
      /\ r.events # <<>> /\ s.events = Tail(r.events)
  BY DEF Taken
<1>3. /\ e \in Range(r.events)
      /\ Range(s.events) \subseteq Range(r.events)
      /\ \A x \in Range(r.events) : x # e => x \in Range(s.events)
      /\ Announced(s.events) \subseteq Announced(r.events)
      /\ \A x \in Announced(r.events) :
           x \in Announced(s.events) \/ (IsOpened(e) /\ e.id = x)
  BY TakenRest
<1>4. e # Ended /\ \A x : e # Closed(x)
  BY DEF Ended, Event, IsOpened, Closed
<1>5. IsQueue(r.events)
  BY DEF Honest, EventsHold
<1>6. /\ 1 \in DOMAIN r.events /\ e = r.events[1] /\ DOMAIN r.events \subseteq Nat
      /\ DOMAIN s.events \subseteq Nat
      /\ \A i \in DOMAIN s.events : i + 1 \in DOMAIN r.events /\ s.events[i] = r.events[i + 1]
  BY <1>2, <1>5, TailPlaces
<1>7. id \in Announced(r.events) /\ id \in DOMAIN r.conns
  BY <1>6 DEF Announced, Honest
<1>8. id \notin Announced(s.events)
  <2>1. ASSUME NEW i \in DOMAIN s.events, IsOpened(s.events[i]), s.events[i].id = id
        PROVE  FALSE
    <3>1. i \in Nat /\ i + 1 \in DOMAIN r.events /\ s.events[i] = r.events[i + 1]
      BY <1>6
    <3>2. 1 = i + 1
      BY <1>6, <2>1, <3>1 DEF Sound, OpenedOnce
    <3>3. i \in DOMAIN s.events /\ i # 0
      BY <1>2, <1>5, TailPlaces
    <3> QED
      BY <3>1, <3>2, <3>3
  <2> QED
    BY <2>1 DEF Announced
<1>9. Owes(r) /\ Owes(s)
  BY <1>2, <1>3, <1>4, <1>7 DEF Sound, Owes
<1>10. Unheard(r) /\ (Unheard(s) => Unheard(r))
  BY <1>9 DEF Owes, Unheard, Ended, Running
<1>11. Owed(p, ss, b2)
  BY <1>1, <1>9 DEF Owed
<1>12. Shown(p, b2) = Shown(p, b) \cup {<<p, id>>}
  BY DEF Shown
<1>13. ASSUME ~o
       PROVE  Alone(ss) /\ Fits(p, ss, b2) /\ TabsBound(p, b2, tb2)
  <2>1. Alone(rs) /\ Fits(p, rs, b) /\ TabsBound(p, b, tb)
    BY <1>13 DEF PortHolds
  <2>2. Alone(ss)
    BY <1>1, <1>10, <2>1 DEF Alone
  <2>3. ASSUME NEW h \in DOMAIN ss, Unheard(ss[h]), NEW k \in Shown(p, b2)
        PROVE  k[2] \in DOMAIN ss[h].conns /\ k[2] \notin Announced(ss[h].events)
    <3>1. h = g
      BY <1>1, <1>10, <2>1, <2>3 DEF Alone
    <3>2. CASE k = <<p, id>>
      BY <1>1, <1>2, <1>7, <1>8, <3>1, <3>2
    <3>3. CASE k \in Shown(p, b)
      BY <1>1, <1>2, <1>3, <1>10, <2>1, <3>1, <3>3 DEF Fits
    <3> QED
      BY <1>12, <3>2, <3>3
  <2>4. <<p, id>> \notin DOMAIN b
    <3>1. \A k \in Shown(p, b) : k[2] \notin Announced(r.events)
      BY <1>10, <2>1 DEF Fits
    <3> QED
      BY <1>7, <3>1 DEF Shown
  <2>5. ASSUME NEW u \in DOMAIN tb2, tb2[u].port = p, tb2[u].conn # None
        PROVE  <<p, tb2[u].conn>> \in DOMAIN b2 /\ b2[<<p, tb2[u].conn>>] = u
    <3>1. CASE u = t
      BY <3>1
    <3>2. CASE u # t
      <4>1. u \in DOMAIN tb /\ tb2[u] = tb[u]
        BY <3>2
      <4>2. <<p, tb[u].conn>> \in DOMAIN b /\ b[<<p, tb[u].conn>>] = u
        BY <2>1, <2>5, <4>1 DEF TabsBound
      <4> QED
        BY <2>4, <4>1, <4>2
    <3> QED
      BY <3>1, <3>2
  <2> QED
    BY <2>2, <2>3, <2>5 DEF Fits, TabsBound
<1>14. ASSUME Solo(ss, a)
       PROVE  Faithful(p, ss[a], b2)
  <2>1. Solo(rs, a)
    BY <1>1, <1>2, <1>14 DEF Solo
  <2>2. a = g
    BY <1>2, <2>1 DEF Solo, Sound
  <2>3. Faithful(p, r, b)
    BY <2>1, <2>2 DEF PortHolds
  <2>4. r.conns[id].st = "closed" => Closed(id) \in Range(s.events)
    <3> SUFFICES ASSUME r.conns[id].st = "closed"
                 PROVE  Closed(id) \in Range(s.events)
      OBVIOUS
    <3>1. PICK j \in DOMAIN r.events : 1 < j /\ r.events[j] = Closed(id)
      BY <1>6 DEF Sound, ClosedLater
    <3>2. Closed(id) \in Range(r.events)
      BY <3>1 DEF Range
    <3> QED
      BY <1>3, <1>4, <3>2
  <2>5. ASSUME NEW k \in Shown(p, b2)
        PROVE  /\ k[2] \in DOMAIN s.conns
               /\ s.conns[k[2]].st = "closed" => Closed(k[2]) \in Range(s.events)
    <3>1. CASE k = <<p, id>>
      BY <1>2, <1>7, <2>4, <3>1
    <3>2. CASE k \in Shown(p, b)
      BY <1>2, <1>3, <1>4, <2>3, <3>2 DEF Faithful
    <3> QED
      BY <1>12, <3>1, <3>2
  <2>6. ASSUME s.phase = "up", NEW x \in DOMAIN s.conns, s.conns[x].st \in Live
        PROVE  \/ <<p, x>> \in DOMAIN b2 \/ x \in Announced(s.events)
               \/ Close(x) \in Range(s.cmds) \/ Disconnect \in Range(s.cmds)
    <3>1. \/ <<p, x>> \in DOMAIN b \/ x \in Announced(r.events)
          \/ Close(x) \in Range(r.cmds) \/ Disconnect \in Range(r.cmds)
      BY <1>2, <2>3, <2>6 DEF Faithful
    <3> QED
      BY <1>2, <1>3, <3>1
  <2>7. Faithful(p, s, b2)
    BY <2>5, <2>6 DEF Faithful
  <2> QED
    BY <1>1, <2>2, <2>7
<1> QED
  BY <1>11, <1>13, <1>14 DEF PortHolds

\* The end of a connection: the tab that showed it, if any, shows none.
LEMMA ClosedFits ==
  ASSUME NEW p, NEW rs, NEW a, NEW b, NEW tb, NEW o, PortHolds(p, rs, a, b, tb, o),
         IsQueue(rs), NEW g \in DOMAIN rs, Honest(rs[g]), Sound(rs[g]),
         NEW s, Taken(rs[g], s), Head(rs[g].events).ev = "ConnectionClosed",
         NEW ss, ss = [rs EXCEPT ![g] = s],
         NEW key, key = <<p, Head(rs[g].events).id>>,
         NEW b2, NEW tb2, KeysHold(b, tb),
         DOMAIN b2 = DOMAIN b \ {key}, \A k \in DOMAIN b2 : b2[k] = b[k],
         \A u \in DOMAIN tb2 : tb2[u].port = p /\ tb2[u].conn # None =>
           /\ u \in DOMAIN tb /\ tb[u].port = p /\ tb[u].conn = tb2[u].conn
           /\ key \in DOMAIN b => b[key] # u
  PROVE  PortHolds(p, ss, a, b2, tb2, o)
<1> DEFINE r == rs[g]
           e == Head(r.events)
           id == e.id
<1>1. /\ DOMAIN ss = DOMAIN rs /\ ss[g] = s
      /\ \A h \in DOMAIN rs : h # g => ss[h] = rs[h]
  BY ReplaceInQueue
<1>2. /\ s.phase = r.phase /\ s.conns = r.conns /\ s.cmds = r.cmds
  BY DEF Taken
<1>3. /\ e \in Range(r.events)
      /\ Range(s.events) \subseteq Range(r.events)
      /\ \A x \in Range(r.events) : x # e => x \in Range(s.events)
      /\ Announced(s.events) \subseteq Announced(r.events)
      /\ \A x \in Announced(r.events) :
           x \in Announced(s.events) \/ (IsOpened(e) /\ e.id = x)
  BY TakenRest
<1>4. e # Ended /\ ~IsOpened(e)
  BY DEF Ended, Event, IsOpened
<1>5. e = Closed(id)
  BY <1>3 DEF Honest, EventsHold, Range
<1>6. \A x : x # id => Closed(x) # e
  BY <1>5 DEF Closed
<1>7. /\ Owes(s) <=> Owes(r)
      /\ Unheard(s) <=> Unheard(r)
      /\ Announced(s.events) = Announced(r.events)
  BY <1>2, <1>3, <1>4 DEF Owes, Unheard, Ended
<1>8. Shown(p, b2) \subseteq Shown(p, b)
  BY DEF Shown
<1>9. Owed(p, ss, b2)
  BY <1>1, <1>7, <1>8 DEF PortHolds, Owed
<1>10. ASSUME ~o
       PROVE  Alone(ss) /\ Fits(p, ss, b2) /\ TabsBound(p, b2, tb2)
  <2>1. Alone(rs) /\ Fits(p, rs, b) /\ TabsBound(p, b, tb)
    BY <1>10 DEF PortHolds
  <2>2. Alone(ss) /\ Fits(p, ss, b2)
    BY <1>1, <1>2, <1>7, <1>8, <2>1 DEF Alone, Fits
  <2>3. ASSUME NEW u \in DOMAIN tb2, tb2[u].port = p, tb2[u].conn # None
        PROVE  <<p, tb2[u].conn>> \in DOMAIN b2 /\ b2[<<p, tb2[u].conn>>] = u
    <3>1. /\ u \in DOMAIN tb /\ tb[u].port = p /\ tb[u].conn = tb2[u].conn
          /\ key \in DOMAIN b => b[key] # u
      BY <2>3
    <3>2. <<p, tb[u].conn>> \in DOMAIN b /\ b[<<p, tb[u].conn>>] = u
      BY <2>1, <2>3, <3>1 DEF TabsBound
    <3>3. <<p, tb[u].conn>> # key
      BY <3>1, <3>2
    <3> QED
      BY <3>1, <3>2, <3>3
  <2> QED
    BY <2>2, <2>3 DEF TabsBound
<1>11. ASSUME Solo(ss, a)
       PROVE  Faithful(p, ss[a], b2)
  <2>1. Solo(rs, a)
    BY <1>1, <1>2, <1>11 DEF Solo
  <2>2. r.events # <<>>
    BY DEF Taken
  <2>3. a = g
    BY <2>1, <2>2 DEF Solo, Sound
  <2>4. Faithful(p, r, b)
    BY <2>1, <2>3 DEF PortHolds
  <2>5. ASSUME NEW k \in Shown(p, b2)
        PROVE  /\ k[2] \in DOMAIN s.conns
               /\ s.conns[k[2]].st = "closed" => Closed(k[2]) \in Range(s.events)
    <3>1. k \in Shown(p, b)
      BY <1>8
    <3>2. k # key /\ k = <<k[1], k[2]>> /\ k[1] = p
      BY <3>1 DEF Shown, KeysHold
    <3>3. k[2] # id
      BY <3>2
    <3> QED
      BY <1>2, <1>3, <1>6, <2>4, <3>1, <3>3 DEF Faithful
  <2>6. ASSUME s.phase = "up", NEW x \in DOMAIN s.conns, s.conns[x].st \in Live
        PROVE  \/ <<p, x>> \in DOMAIN b2 \/ x \in Announced(s.events)
               \/ Close(x) \in Range(s.cmds) \/ Disconnect \in Range(s.cmds)
    <3>1. \/ <<p, x>> \in DOMAIN b \/ x \in Announced(r.events)
          \/ Close(x) \in Range(r.cmds) \/ Disconnect \in Range(r.cmds)
      BY <1>2, <2>4, <2>6 DEF Faithful
    <3>2. id \in DOMAIN r.conns /\ r.conns[id].st = "closed"
      BY <1>2, <1>3, <1>5, <2>6 DEF Sound
    <3>3. x # id
      BY <1>2, <2>6, <3>2 DEF Live
    <3>4. <<p, x>> # key
      BY <3>3
    <3> QED
      BY <1>2, <1>7, <3>1, <3>4
  <2>7. Faithful(p, s, b2)
    BY <2>5, <2>6 DEF Faithful
  <2> QED
    BY <1>1, <2>3, <2>7
<1> QED
  BY <1>9, <1>10, <1>11 DEF PortHolds

\* Where nothing of the port is bound anew, and no tab of it shows more.
LEMMA OthersFit ==
  ASSUME NEW p, NEW rs, NEW a, NEW b, NEW tb, NEW o, PortHolds(p, rs, a, b, tb, o),
         NEW b2, NEW tb2,
         \A k : k[1] = p => /\ k \in DOMAIN b2 <=> k \in DOMAIN b
                            /\ k \in DOMAIN b => b2[k] = b[k],
         \A u \in DOMAIN tb2 : tb2[u].port = p /\ tb2[u].conn # None =>
           u \in DOMAIN tb /\ tb[u].port = p /\ tb[u].conn = tb2[u].conn
  PROVE  PortHolds(p, rs, a, b2, tb2, o)
<1>1. Shown(p, b2) = Shown(p, b)
  BY DEF Shown
<1>2. \A x : <<p, x>>[1] = p
  OBVIOUS
<1>3. \A x : /\ <<p, x>> \in DOMAIN b2 <=> <<p, x>> \in DOMAIN b
             /\ <<p, x>> \in DOMAIN b => b2[<<p, x>>] = b[<<p, x>>]
  BY <1>2
<1>4. Owed(p, rs, b2)
  BY <1>1 DEF PortHolds, Owed
<1>5. ASSUME ~o
      PROVE  Alone(rs) /\ Fits(p, rs, b2) /\ TabsBound(p, b2, tb2)
  <2>1. Alone(rs) /\ Fits(p, rs, b) /\ TabsBound(p, b, tb)
    BY <1>5 DEF PortHolds
  <2>2. Fits(p, rs, b2)
    BY <1>1, <2>1 DEF Fits
  <2>3. ASSUME NEW u \in DOMAIN tb2, tb2[u].port = p, tb2[u].conn # None
        PROVE  <<p, tb2[u].conn>> \in DOMAIN b2 /\ b2[<<p, tb2[u].conn>>] = u
    <3>1. u \in DOMAIN tb /\ tb[u].port = p /\ tb[u].conn = tb2[u].conn
      BY <2>3
    <3>2. <<p, tb[u].conn>> \in DOMAIN b /\ b[<<p, tb[u].conn>>] = u
      BY <2>1, <2>3, <3>1 DEF TabsBound
    <3> QED
      BY <1>3, <3>1, <3>2
  <2> QED
    BY <2>1, <2>2, <2>3 DEF TabsBound
<1>6. ASSUME Solo(rs, a)
      PROVE  Faithful(p, rs[a], b2)
  <2>1. Faithful(p, rs[a], b)
    BY <1>6 DEF PortHolds
  <2> QED
    BY <1>1, <1>3, <2>1 DEF Faithful
<1> QED
  BY <1>4, <1>5, <1>6 DEF PortHolds

\* Tab t is closed, and what led to it forgotten.
TabCloses(t, b, tb, b2, tb2) ==
  /\ t \in DOMAIN tb
  /\ DOMAIN b2 = DOMAIN b \ {k \in DOMAIN b : b[k] = t} /\ \A k \in DOMAIN b2 : b2[k] = b[k]
  /\ DOMAIN tb2 = DOMAIN tb \ {t} /\ \A u \in DOMAIN tb2 : tb2[u] = tb[u]

\* The runner that is up has been asked to close connection id.
Asked(rs, ss, a, id) ==
  a \in DOMAIN rs /\ rs[a].phase = "up" =>
    Close(id) \in Range(ss[a].cmds) \/ Disconnect \in Range(ss[a].cmds)

\* A tab is closed, after the runner was asked to close what it shows.
LEMMA TabClosedFits ==
  ASSUME NEW p, NEW rs, NEW a, NEW b, NEW tb, NEW o, PortHolds(p, rs, a, b, tb, o),
         NEW t, KeysHold(b, tb), NEW b2, NEW tb2, TabCloses(t, b, tb, b2, tb2),
         NEW ss, Commanded(rs, ss),
         tb[t].conn # None /\ tb[t].port = p => Asked(rs, ss, a, tb[t].conn)
  PROVE  PortHolds(p, ss, a, b2, tb2, o)
<1> USE DEF TabCloses, Asked
<1>1. PortHolds(p, ss, a, b, tb, o)
  BY CommandedFits
<1>2. Shown(p, b2) \subseteq Shown(p, b)
  BY DEF Shown
<1>3. Owed(p, ss, b2)
  BY <1>1, <1>2 DEF PortHolds, Owed
<1>4. ASSUME ~o
      PROVE  Alone(ss) /\ Fits(p, ss, b2) /\ TabsBound(p, b2, tb2)
  <2>1. Alone(ss) /\ Fits(p, ss, b) /\ TabsBound(p, b, tb)
    BY <1>1, <1>4 DEF PortHolds
  <2>2. Fits(p, ss, b2)
    BY <1>2, <2>1 DEF Fits
  <2>3. ASSUME NEW u \in DOMAIN tb2, tb2[u].port = p, tb2[u].conn # None
        PROVE  <<p, tb2[u].conn>> \in DOMAIN b2 /\ b2[<<p, tb2[u].conn>>] = u
    <3>1. u \in DOMAIN tb /\ tb[u] = tb2[u] /\ u # t
      OBVIOUS
    <3>2. <<p, tb[u].conn>> \in DOMAIN b /\ b[<<p, tb[u].conn>>] = u
      BY <2>1, <2>3, <3>1 DEF TabsBound
    <3> QED
      BY <3>1, <3>2
  <2> QED
    BY <2>1, <2>2, <2>3 DEF TabsBound
<1>5. ASSUME Solo(ss, a)
      PROVE  Faithful(p, ss[a], b2)
  <2>1. Faithful(p, ss[a], b)
    BY <1>1, <1>5 DEF PortHolds
  <2>2. a \in DOMAIN rs /\ ss[a].phase = rs[a].phase
    BY <1>5 DEF Solo, Commanded, SameButCommands
  <2>3. ASSUME ss[a].phase = "up", NEW id \in DOMAIN ss[a].conns, ss[a].conns[id].st \in Live
        PROVE  \/ <<p, id>> \in DOMAIN b2 \/ id \in Announced(ss[a].events)
               \/ Close(id) \in Range(ss[a].cmds) \/ Disconnect \in Range(ss[a].cmds)
    <3>1. \/ <<p, id>> \in DOMAIN b \/ id \in Announced(ss[a].events)
          \/ Close(id) \in Range(ss[a].cmds) \/ Disconnect \in Range(ss[a].cmds)
      BY <2>1, <2>3 DEF Faithful
    <3>2. CASE <<p, id>> \in DOMAIN b /\ b[<<p, id>>] = t
      <4>1. tb[t].port = p /\ tb[t].conn = id /\ id # None
        <5>1. <<p, id>>[1] = p /\ <<p, id>>[2] = id
          OBVIOUS
        <5> QED
          BY <3>2, <5>1 DEF KeysHold
      <4> QED
        BY <2>2, <2>3, <4>1
    <3>3. CASE <<p, id>> \in DOMAIN b /\ b[<<p, id>>] # t
      BY <3>3
    <3> QED
      BY <3>1, <3>2, <3>3
  <2> QED
    BY <1>2, <2>1, <2>3 DEF Faithful
<1> QED
  BY <1>3, <1>4, <1>5 DEF PortHolds

-----------------------------------------------------------------------------
(* Bursts of events.                                                       *)

\* evs are the events R, which report the connections A, each once.
Burst(evs, R, A) ==
  /\ EventsHold(evs) /\ Range(evs) = R /\ Announced(evs) = A
  /\ \A i, j \in DOMAIN evs :
       IsOpened(evs[i]) /\ IsOpened(evs[j]) /\ evs[i].id = evs[j].id => i = j

\* Nothing is said.
LEMMA BurstOfNone == Burst(<<>>, {}, {})
<1>1. IsQueue(<<>>) /\ DOMAIN <<>> = {}
  BY EmptySeq DEF IsQueue
<1> QED
  BY <1>1 DEF Burst, EventsHold, Announced, Range

\* One event.
LEMMA BurstOfOne ==
  ASSUME NEW e, e.ev = "ConnectionClosed" => e = Closed(e.id)
  PROVE  /\ IsOpened(e) => Burst(<<e>>, {e}, {e.id})
         /\ ~IsOpened(e) => Burst(<<e>>, {e}, {})
<1> DEFINE evs == <<e>>
<1>2. evs \in [1..1 -> {e}] /\ DOMAIN evs = {1} /\ evs[1] = e
  OBVIOUS
<1> HIDE DEF evs
<1>3. Range(evs) = {e}
  BY <1>2 DEF Range
<1>4. IsQueue(evs)
  <2>1. evs \in Seq({e})
    BY <1>2, FunctionIsQueue
  <2> QED
    BY <1>3, <2>1 DEF IsQueue
<1>5. EventsHold(evs)
  BY <1>2, <1>4 DEF EventsHold
<1>6. /\ IsOpened(e) => Announced(evs) = {e.id}
      /\ ~IsOpened(e) => Announced(evs) = {}
  BY <1>2 DEF Announced
<1>7. \A i, j \in DOMAIN evs : i = j
  BY <1>2
<1>8. /\ IsOpened(e) => Burst(evs, {e}, {e.id})
      /\ ~IsOpened(e) => Burst(evs, {e}, {})
  BY <1>3, <1>5, <1>6, <1>7 DEF Burst
<1> QED
  BY <1>8 DEF evs

\* One after another.
LEMMA BurstOfBoth ==
  ASSUME NEW s, NEW t, NEW R, NEW Q, NEW A, NEW B,
         Burst(s, R, A), Burst(t, Q, B), A \cap B = {}
  PROVE  Burst(s \o t, R \cup Q, A \cup B)
<1> DEFINE u == s \o t
<1>1. Joins(s, t, u)
  BY ConcatQueues DEF Burst, EventsHold
<1> HIDE DEF u
<1>2. Range(u) = R \cup Q /\ IsQueue(u)
  BY <1>1 DEF Joins, Burst
<1>3. Announced(u) = A \cup B
  BY <1>1, JoinedReports DEF Burst
<1>4. \A k \in DOMAIN u : \/ k \in DOMAIN s /\ u[k] = s[k]
                          \/ \E i \in DOMAIN t : k = Len(s) + i /\ u[k] = t[i]
  BY <1>1, JoinedFrom
<1>5. EventsHold(u)
  BY <1>2, <1>4 DEF EventsHold, Burst
<1>6. \A i \in DOMAIN s : IsOpened(s[i]) => s[i].id \in A
  BY DEF Burst, Announced
<1>7. \A i \in DOMAIN t : IsOpened(t[i]) => t[i].id \in B
  BY DEF Burst, Announced
<1>8. ASSUME NEW i \in DOMAIN u, NEW j \in DOMAIN u,
             IsOpened(u[i]), IsOpened(u[j]), u[i].id = u[j].id
      PROVE  i = j
  <2>1. \/ i \in DOMAIN s /\ u[i] = s[i]
        \/ \E k \in DOMAIN t : i = Len(s) + k /\ u[i] = t[k]
    BY <1>4
  <2>2. \/ j \in DOMAIN s /\ u[j] = s[j]
        \/ \E k \in DOMAIN t : j = Len(s) + k /\ u[j] = t[k]
    BY <1>4
  <2>3. CASE i \in DOMAIN s /\ u[i] = s[i] /\ j \in DOMAIN s /\ u[j] = s[j]
    BY <1>8, <2>3 DEF Burst
  <2>4. CASE /\ \E k \in DOMAIN t : i = Len(s) + k /\ u[i] = t[k]
             /\ \E k \in DOMAIN t : j = Len(s) + k /\ u[j] = t[k]
    BY <1>8, <2>4 DEF Burst
  <2> QED
    BY <1>6, <1>7, <1>8, <2>1, <2>2, <2>3, <2>4
<1> QED
  BY <1>2, <1>3, <1>5, <1>8 DEF Burst, u

-----------------------------------------------------------------------------
(* The kinds of step a runner's threads take.                              *)

\* It grows by a burst of events.
LEMMA BurstGrows ==
  ASSUME NEW r, NEW s, NEW evs, NEW R, NEW A, Burst(evs, R, A),
         s.events = r.events \o evs, s.phase # "starting",
         ConnsHold(s.conns), DOMAIN r.conns \subseteq DOMAIN s.conns,
         A \subseteq DOMAIN s.conns, r.broke => s.broke
  PROVE  Grows(r, s, evs)
BY DEF Grows, Burst

\* It stops, or what is left of it does: the connections stay as they are.
LEMMA StoppingSays ==
  ASSUME NEW r, NEW s, NEW evs, NEW R, Honest(r), Burst(evs, R, {}),
         s.events = r.events \o evs, s.conns = r.conns, s.broke = r.broke,
         s.phase \notin {"starting", "up", "joined"}, r.phase # "joined",
         Ended \in R <=> r.phase = "up"
  PROVE  Says(r, s, evs)
<1>1. Grows(r, s, evs)
  BY DEF Grows, Burst, Honest
<1>2. Passes(r, s, evs)
  BY DEF Passes, Burst
<1>3. Turns(r, s, evs)
  BY DEF Turns, Burst
<1> QED
  BY <1>1, <1>2, <1>3 DEF Says

\* It is up, and one connection is new.
LEMMA OpeningSays ==
  ASSUME NEW r, NEW s, NEW evs, NEW id, NEW R, Honest(r), Burst(evs, R, {id}),
         s.events = r.events \o evs, r.broke => s.broke,
         s.phase = "up", r.phase \in Running,
         ConnsHold(s.conns), id \notin DOMAIN r.conns,
         DOMAIN s.conns = DOMAIN r.conns \cup {id},
         \A x \in DOMAIN r.conns : s.conns[x] = r.conns[x],
         s.conns[id].st # "closed",
         Ended \notin R, \A x : Closed(x) \notin R,
         Disconnect \in Range(r.cmds) => Disconnect \in Range(s.cmds),
         \A x : Close(x) \in Range(r.cmds) => Close(x) \in Range(s.cmds)
  PROVE  Says(r, s, evs)
<1>1. Grows(r, s, evs)
  BY DEF Grows, Burst, Honest
<1>2. Passes(r, s, evs)
  BY DEF Passes, Burst, Running
<1>3. Turns(r, s, evs)
  BY DEF Turns, Burst
<1> QED
  BY <1>1, <1>2, <1>3 DEF Says

\* Its connections turn, and it says at most that one is closed.
LEMMA TurningSays ==
  ASSUME NEW r, NEW s, NEW evs, NEW R, Honest(r), Burst(evs, R, {}),
         s.events = r.events \o evs, r.broke => s.broke,
         s.phase = r.phase \/ (r.phase = "starting" /\ s.phase = "up"),
         r.phase # "joined", s.phase # "starting",
         ConnsHold(s.conns), DOMAIN s.conns = DOMAIN r.conns,
         Ended \notin R,
         \A id \in DOMAIN r.conns :
           /\ s.conns[id].st = "closed" <=> (r.conns[id].st = "closed" \/ Closed(id) \in R)
           /\ s.phase = "up" /\ s.conns[id].st \in Live => 
                /\ r.conns[id].st \in Live
                /\ Close(id) \in Range(r.cmds) => Close(id) \in Range(s.cmds),
         \A id : Closed(id) \in R => id \in DOMAIN r.conns,
         s.phase = "up" => (Disconnect \in Range(r.cmds) => Disconnect \in Range(s.cmds))
  PROVE  Says(r, s, evs)
<1>1. Grows(r, s, evs)
  BY DEF Grows, Burst, Honest
<1>2. Passes(r, s, evs)
  BY DEF Passes, Burst, Running
<1>3. Turns(r, s, evs)
  BY DEF Turns, Burst
<1> QED
  BY <1>1, <1>2, <1>3 DEF Says

-----------------------------------------------------------------------------
(* A runner that is changed and says something.                            *)

\* What becomes of its fields.
LEMMA SaidFields ==
  ASSUME NEW r, Whole(r), NEW evs
  PROVE  LET s == [r EXCEPT !.events = @ \o evs]
         IN  /\ s.phase = r.phase /\ s.cmds = r.cmds /\ s.events = r.events \o evs
             /\ s.conns = r.conns /\ s.broke = r.broke
BY DEF Whole

\* One of its connections turns.
LEMMA ConnTurns ==
  ASSUME NEW conns, ConnsHold(conns), NEW id \in DOMAIN conns, NEW st,
         NEW turned, turned = [conns EXCEPT ![id].st = st]
  PROVE  /\ ConnsHold(turned) /\ DOMAIN turned = DOMAIN conns /\ turned[id].st = st
         /\ \A x \in DOMAIN conns : x # id => turned[x] = conns[x]
<1> DEFINE c == [conns[id] EXCEPT !.st = st]
<1>1. c = [node |-> conns[id].node, by |-> conns[id].by, st |-> st]
  BY DEF ConnsHold
<1>2. c = [node |-> c.node, by |-> c.by, st |-> c.st] /\ c.st = st
  BY <1>1
<1>3. turned = [conns EXCEPT ![id] = c]
  OBVIOUS
<1> HIDE DEF c
<1>4. IsQueue(conns)
  BY DEF ConnsHold
<1>5. /\ IsQueue([conns EXCEPT ![id] = c])
      /\ DOMAIN [conns EXCEPT ![id] = c] = DOMAIN conns
      /\ [conns EXCEPT ![id] = c][id] = c
      /\ \A x \in DOMAIN conns : x # id => [conns EXCEPT ![id] = c][x] = conns[x]
  BY <1>4, ReplaceInQueue
<1>6. /\ IsQueue(turned) /\ DOMAIN turned = DOMAIN conns /\ turned[id] = c
      /\ \A x \in DOMAIN conns : x # id => turned[x] = conns[x]
  BY <1>3, <1>5
<1> QED
  BY <1>2, <1>6 DEF ConnsHold

\* Nothing else of it changes.
LEMMA TurnedFields ==
  ASSUME NEW r, Whole(r), NEW id, NEW st, NEW s, s = [r EXCEPT !.conns[id].st = st]
  PROVE  /\ s.phase = r.phase /\ s.cmds = r.cmds /\ s.events = r.events
         /\ s.conns = [r.conns EXCEPT ![id].st = st] /\ s.broke = r.broke
         /\ Whole(s)
BY DEF Whole

\* more are these and c.
MoreBy(conns, c, more) ==
  /\ ConnsHold(more) /\ DOMAIN more = DOMAIN conns \cup {Len(conns) + 1}
  /\ Len(conns) + 1 \notin DOMAIN conns /\ more[Len(conns) + 1] = c
  /\ \A x \in DOMAIN conns : more[x] = conns[x]

\* It has one more.
LEMMA ConnEnters ==
  ASSUME NEW conns, ConnsHold(conns),
         NEW c, c = [node |-> c.node, by |-> c.by, st |-> c.st]
  PROVE  MoreBy(conns, c, Append(conns, c))
<1> DEFINE n == Len(conns) + 1
           more == Append(conns, c)
<1>1. IsQueue(conns)
  BY DEF ConnsHold
<1>2. /\ IsQueue(more) /\ DOMAIN more = DOMAIN conns \cup {n} /\ more[n] = c
      /\ \A i \in DOMAIN conns : more[i] = conns[i] /\ i # n
  BY <1>1, AppendToQueue
<1> HIDE DEF n, more
<1>3. ConnsHold(more)
  BY <1>2 DEF ConnsHold
<1>4. MoreBy(conns, c, more)
  BY <1>2, <1>3 DEF n, MoreBy
<1> QED
  BY <1>4 DEF more

\* Nothing else of it changes.
LEMMA EnteredFields ==
  ASSUME NEW r, Whole(r), NEW id, NEW conn
  PROVE  LET s == Entered(r, id, conn)
         IN  /\ s.phase = r.phase /\ s.cmds = r.cmds /\ s.events = r.events
             /\ s.conns = IF id \in DOMAIN r.conns THEN r.conns ELSE Append(r.conns, conn)
             /\ s.broke = r.broke
             /\ Whole(s)
BY DEF Whole, Entered

\* Runner g of p becomes s and says evs; of a regular port it stays sound.
Speaks(p, g, s, evs) ==
  /\ runner' = [runner EXCEPT ![p][g] = s]
  /\ UNCHANGED <<kind, active, confirmed, tabvars, overlapped>>
  /\ Grows(runner[p][g], s, evs)
  /\ kind[p] # "agwpe" /\ ~s.broke /\ Sound(runner[p][g]) => Says(runner[p][g], s, evs)

\* A way to become something: m is changed and says evs.
LEMMA BecomesSpeaks ==
  ASSUME NEW p, NEW g, NEW m, Whole(m), NEW evs, Becomes(p, g, m, evs),
         \A s : /\ s.phase = m.phase /\ s.cmds = m.cmds /\ s.events = m.events \o evs
                /\ s.conns = m.conns /\ s.broke = m.broke
                => /\ Grows(runner[p][g], s, evs)
                   /\ kind[p] # "agwpe" /\ ~s.broke /\ Sound(runner[p][g]) =>
                        Says(runner[p][g], s, evs)
  PROVE  \E s : Speaks(p, g, s, evs)
<1> DEFINE s == [m EXCEPT !.events = @ \o evs]
<1>1. /\ s.phase = m.phase /\ s.cmds = m.cmds /\ s.events = m.events \o evs
      /\ s.conns = m.conns /\ s.broke = m.broke
  BY SaidFields
<1>2. /\ runner' = [runner EXCEPT ![p][g] = s]
      /\ UNCHANGED <<kind, active, confirmed, tabvars, overlapped>>
  BY DEF Becomes
<1> HIDE DEF s
<1>3. Speaks(p, g, s, evs)
  BY <1>1, <1>2 DEF Speaks
<1> QED
  BY <1>3

\* It cannot start.
LEMMA StartFailsSpeaks ==
  ASSUME NEW p, NEW g, Whole(runner[p][g]), Honest(runner[p][g]), StartFails(p, g)
  PROVE  \E s, evs : Speaks(p, g, s, evs)
<1> DEFINE r == runner[p][g]
           m == [r EXCEPT !.phase = "down"]
           e == Event("PortError")
<1>1. r.phase = "starting" /\ Becomes(p, g, m, <<e>>)
  BY DEF StartFails
<1> HIDE DEF r
<1>2. /\ m.phase = "down" /\ m.cmds = r.cmds /\ m.events = r.events
      /\ m.conns = r.conns /\ m.broke = r.broke /\ Whole(m)
  BY DEF Whole, r
<1>3. Burst(<<e>>, {e}, {})
  <2>1. e.ev # "ConnectionClosed" /\ ~IsOpened(e)
    BY DEF Event, IsOpened
  <2> QED
    BY <2>1, BurstOfOne
<1>4. Ended \notin {e}
  BY DEF Ended, Event
<1> HIDE DEF m, e
<1>5. ASSUME NEW s, s.phase = m.phase, s.cmds = m.cmds, s.events = m.events \o <<e>>,
             s.conns = m.conns, s.broke = m.broke
      PROVE  Says(r, s, <<e>>)
  BY <1>1, <1>2, <1>3, <1>4, <1>5, StoppingSays DEF r
<1>6. \E s : Speaks(p, g, s, <<e>>)
  BY <1>1, <1>2, <1>5, BecomesSpeaks DEF r, Says
<1> QED
  BY <1>6

\* It exits.
LEMMA ExitsSpeaks ==
  ASSUME NEW p, NEW g, Whole(runner[p][g]), Honest(runner[p][g]), Exits(p, g)
  PROVE  \E s, evs : Speaks(p, g, s, evs)
<1> DEFINE r == runner[p][g]
           m == [r EXCEPT !.phase = "gone"]
<1>1. r.phase = "down" /\ Becomes(p, g, m, <<>>)
  BY DEF Exits
<1> HIDE DEF r
<1>2. /\ m.phase = "gone" /\ m.cmds = r.cmds /\ m.events = r.events
      /\ m.conns = r.conns /\ m.broke = r.broke /\ Whole(m)
  BY DEF Whole, r
<1> HIDE DEF m
<1>5. ASSUME NEW s, s.phase = m.phase, s.cmds = m.cmds, s.events = m.events \o <<>>,
             s.conns = m.conns, s.broke = m.broke
      PROVE  Says(r, s, <<>>)
  BY <1>1, <1>2, <1>5, BurstOfNone, StoppingSays DEF r
<1>6. \E s : Speaks(p, g, s, <<>>)
  BY <1>1, <1>2, <1>5, BecomesSpeaks DEF r, Says
<1> QED
  BY <1>6

\* What leaving the loop makes of its fields.
LEMMA LeftFields ==
  ASSUME NEW r, Whole(r)
  PROVE  LET s == [r EXCEPT !.phase = "down", !.cmds = <<>>]
         IN  /\ s.phase = "down" /\ s.cmds = <<>> /\ s.events = r.events
             /\ s.conns = r.conns /\ s.broke = r.broke /\ Whole(s)
<1> DEFINE s == [r EXCEPT !.phase = "down", !.cmds = <<>>]
<1>1. s = [phase |-> "down", cmds |-> <<>>, events |-> r.events,
           conns |-> r.conns, broke |-> r.broke]
  BY EndChanges, Zenon
<1>2. IsQueue(<<>>)
  BY EmptySeq DEF IsQueue
<1> HIDE DEF s
<1>3. /\ s.phase = "down" /\ s.cmds = <<>> /\ s.events = r.events
      /\ s.conns = r.conns /\ s.broke = r.broke /\ Whole(s)
  BY <1>1, <1>2 DEF Whole
<1> QED
  BY <1>3 DEF s

\* It leaves its loop.
LEMMA LeavesSpeaks ==
  ASSUME NEW p, NEW g, Honest(runner[p][g]), runner[p][g].phase = "up",
         NEW q, Whole(q), Leaves(p, g, q),
         q.events = runner[p][g].events, q.conns = runner[p][g].conns,
         q.broke = runner[p][g].broke
  PROVE  \E s, evs : Speaks(p, g, s, evs)
<1> DEFINE m == [q EXCEPT !.phase = "down", !.cmds = <<>>]
           r == runner[p][g]
           first == IF Terminal(p) THEN <<Closed(1)>> ELSE <<>>
           evs == first \o <<Ended>>
<1>1. Becomes(p, g, m, evs)
  BY DEF Leaves, Ended
<1> HIDE DEF r, m
<1>2. /\ m.phase = "down" /\ m.cmds = <<>> /\ m.events = q.events
      /\ m.conns = q.conns /\ m.broke = q.broke /\ Whole(m)
  BY LeftFields DEF m
<1>3. m.events = r.events /\ m.conns = r.conns /\ m.broke = r.broke
  BY <1>2 DEF r
<1>4. \E R : Burst(first, R, {})
  <2>1. Closed(1).ev = "ConnectionClosed" /\ Closed(1) = Closed(Closed(1).id) /\ ~IsOpened(Closed(1))
    BY DEF Closed, IsOpened
  <2>2. Burst(<<Closed(1)>>, {Closed(1)}, {})
    BY <2>1, BurstOfOne
  <2> QED
    BY <2>2, BurstOfNone
<1>5. Burst(<<Ended>>, {Ended}, {})
  <2>1. Ended.ev # "ConnectionClosed" /\ ~IsOpened(Ended)
    BY DEF Ended, Event, IsOpened
  <2> QED
    BY <2>1, BurstOfOne
<1> HIDE DEF first
<1>6. PICK R : Burst(first, R, {})
  BY <1>4
<1>7. Burst(evs, R \cup {Ended}, {} \cup {})
  BY <1>5, <1>6, BurstOfBoth, Zenon
<1>8. Burst(evs, R \cup {Ended}, {})
  BY <1>7
<1> HIDE DEF evs
<1>9. ASSUME NEW s, s.phase = m.phase, s.cmds = m.cmds, s.events = m.events \o evs,
             s.conns = m.conns, s.broke = m.broke
      PROVE  Says(r, s, evs)
  <2>1. r.phase = "up" /\ s.phase = "down" /\ s.events = r.events \o evs /\ s.conns = r.conns
        /\ s.broke = r.broke /\ Honest(r)
    BY <1>2, <1>3, <1>9 DEF r
  <2>2. Ended \in R \cup {Ended} <=> r.phase = "up"
    BY <2>1
  <2> QED
    BY <1>8, <2>1, <2>2, StoppingSays
<1>10. \E s : Speaks(p, g, s, evs)
  BY <1>1, <1>2, <1>9, BecomesSpeaks DEF r, Says
<1> QED
  BY <1>10

\* What starting makes of a runner's fields.
LEMMA StartedFields ==
  ASSUME NEW r, Whole(r), NEW phase, NEW broke, NEW conns
  PROVE  LET s == [r EXCEPT !.phase = phase, !.broke = broke, !.conns = conns]
         IN  /\ s.phase = phase /\ s.cmds = r.cmds /\ s.events = r.events
             /\ s.conns = conns /\ s.broke = broke /\ Whole(s)
<1> DEFINE s == [r EXCEPT !.phase = phase, !.broke = broke, !.conns = conns]
           s1 == [r EXCEPT !.phase = phase]
           s2 == [s1 EXCEPT !.broke = broke]
<1>1. s1 = [phase |-> phase, cmds |-> r.cmds, events |-> r.events,
            conns |-> r.conns, broke |-> r.broke]
  BY DEF Whole
<1>2. s = [s2 EXCEPT !.conns = conns]
  OBVIOUS
<1> HIDE DEF s, s1
<1>3. s2 = [phase |-> phase, cmds |-> r.cmds, events |-> r.events,
            conns |-> r.conns, broke |-> broke]
  BY <1>1
<1> HIDE DEF s2
<1>4. s = [phase |-> phase, cmds |-> r.cmds, events |-> r.events,
           conns |-> conns, broke |-> broke]
  BY <1>2, <1>3
<1>5. /\ s.phase = phase /\ s.cmds = r.cmds /\ s.events = r.events
      /\ s.conns = conns /\ s.broke = broke /\ Whole(s)
  BY <1>4 DEF Whole
<1> QED
  BY <1>5 DEF s

\* What a runner says when it is up, or one of its threads cannot be.
LEMMA StartingBurst ==
  ASSUME NEW only \in BOOLEAN, NEW broke \in BOOLEAN, NEW evs,
         evs = <<Event("PortConnected")>>
               \o (IF only THEN <<Opened(1, NoNode)>> ELSE <<>>)
               \o (IF broke THEN <<Event("PortError")>> ELSE <<>>)
  PROVE  \E R : /\ Burst(evs, R, IF only THEN {1} ELSE {})
                /\ Ended \notin R /\ \A id : Closed(id) \notin R
<1> DEFINE a == Event("PortConnected")
           b == Opened(1, NoNode)
           c == Event("PortError")
           t1 == IF only THEN <<b>> ELSE <<>>
           t2 == IF broke THEN <<c>> ELSE <<>>
           R1 == IF only THEN {b} ELSE {}
           R2 == IF broke THEN {c} ELSE {}
           A == IF only THEN {1} ELSE {}
<1>1. /\ a.ev # "ConnectionClosed" /\ ~IsOpened(a)
      /\ b.ev # "ConnectionClosed" /\ IsOpened(b) /\ b.id = 1
      /\ c.ev # "ConnectionClosed" /\ ~IsOpened(c)
  BY DEF Event, Opened, IsOpened
<1>2. /\ a # Ended /\ b # Ended /\ c # Ended
      /\ \A id : a # Closed(id) /\ b # Closed(id) /\ c # Closed(id)
  BY DEF Event, Opened, Closed, Ended
<1>3. evs = (<<a>> \o t1) \o t2
  OBVIOUS
<1> HIDE DEF a, b, c
<1>4. Burst(<<a>>, {a}, {}) /\ Burst(<<c>>, {c}, {}) /\ Burst(<<b>>, {b}, {1})
  <2>1. Burst(<<a>>, {a}, {})
    BY <1>1, BurstOfOne
  <2>2. Burst(<<b>>, {b}, {b.id})
    BY <1>1, BurstOfOne
  <2>3. Burst(<<c>>, {c}, {})
    BY <1>1, BurstOfOne
  <2> QED
    BY <1>1, <2>1, <2>2, <2>3
<1>5. Burst(t1, R1, A) /\ Burst(t2, R2, {})
  BY <1>4, BurstOfNone
<1>6. R1 \subseteq {b} /\ R2 \subseteq {c}
  OBVIOUS
<1> HIDE DEF t1, t2, R1, R2, A
<1>7. Burst(<<a>> \o t1, {a} \cup R1, {} \cup A)
  <2>1. {} \cap A = {}
    OBVIOUS
  <2> QED
    BY <1>4, <1>5, <2>1, BurstOfBoth, Zenon
<1> DEFINE u == <<a>> \o t1
           Q == {a} \cup R1
<1>8. Burst(u, Q, A)
  BY <1>7
<1> HIDE DEF u, Q
<1>9. Burst(u \o t2, Q \cup R2, A \cup {})
  <2>1. A \cap {} = {}
    OBVIOUS
  <2> QED
    BY <1>5, <1>8, <2>1, BurstOfBoth, Zenon
<1>10. Burst(evs, Q \cup R2, A)
  BY <1>3, <1>9 DEF u
<1>11. Ended \notin Q \cup R2 /\ \A id : Closed(id) \notin Q \cup R2
  BY <1>2, <1>6 DEF Q
<1> QED
  BY <1>10, <1>11 DEF A

\* It is up, or as good as down.
LEMMA StartsSpeaks ==
  ASSUME NEW p, NEW g, Whole(runner[p][g]), Honest(runner[p][g]),
         NEW broke \in BOOLEAN, Starts(p, g, broke)
  PROVE  \E s, evs : Speaks(p, g, s, evs)
<1> DEFINE r == runner[p][g]
           only == [node |-> NoNode, by |-> "us", st |-> "up"]
           phase == IF broke THEN "down" ELSE "up"
           conns == IF Terminal(p) THEN <<only>> ELSE <<>>
           m == [r EXCEPT !.phase = phase, !.broke = broke, !.conns = conns]
           evs == <<Event("PortConnected")>>
                  \o (IF Terminal(p) THEN <<Opened(1, NoNode)>> ELSE <<>>)
                  \o (IF broke THEN <<Event("PortError")>> ELSE <<>>)
<1>1. r.phase = "starting" /\ Becomes(p, g, m, evs)
  BY DEF Starts
<1> HIDE DEF phase, conns
<1>2. /\ m.phase = phase /\ m.cmds = r.cmds /\ m.events = r.events
      /\ m.conns = conns /\ m.broke = broke /\ Whole(m)
  BY StartedFields
<1>3. PICK R : /\ Burst(evs, R, IF Terminal(p) THEN {1} ELSE {})
               /\ Ended \notin R /\ \A id : Closed(id) \notin R
  <2>1. Terminal(p) \in BOOLEAN
    BY DEF Terminal
  <2> QED
    BY <2>1, StartingBurst
<1>4. /\ ConnsHold(conns) /\ DOMAIN conns = (IF Terminal(p) THEN {1} ELSE {})
      /\ Terminal(p) => conns[1].st = "up"
  <2>1. CASE ~Terminal(p)
    BY <2>1, EmptySeq DEF ConnsHold, IsQueue, conns
  <2>2. CASE Terminal(p)
    <3>1. conns = <<only>>
      BY <2>2 DEF conns
    <3>2. conns \in [1..1 -> {only}] /\ DOMAIN conns = {1} /\ conns[1] = only
      BY <3>1
    <3>3. conns \in Seq(Range(conns))
      <4>1. conns \in [1..1 -> Range(conns)]
        BY <3>2 DEF Range
      <4> QED
        BY <4>1, FunctionIsQueue
    <3>4. only = [node |-> only.node, by |-> only.by, st |-> only.st] /\ only.st = "up"
      OBVIOUS
    <3> HIDE DEF only
    <3> QED
      BY <2>2, <3>2, <3>3, <3>4 DEF ConnsHold, IsQueue
  <2> QED
    BY <2>1, <2>2
<1>5. DOMAIN r.conns = {}
  <2>1. r.conns = <<>>
    BY <1>1 DEF Honest
  <2> QED
    BY <2>1, EmptySeq
<1>6. phase # "starting" /\ (~broke => phase = "up")
  BY DEF phase
<1> HIDE DEF r, m, evs
<1>7. ASSUME NEW s, s.phase = m.phase, s.cmds = m.cmds, s.events = m.events \o evs,
             s.conns = m.conns, s.broke = m.broke
      PROVE  /\ Grows(r, s, evs)
             /\ kind[p] # "agwpe" /\ ~s.broke /\ Sound(r) => Says(r, s, evs)
  <2>1. /\ s.events = r.events \o evs /\ s.conns = conns /\ s.phase = phase /\ s.broke = broke
        /\ s.cmds = r.cmds
    BY <1>2, <1>7
  <2>2. r.broke => s.broke
    BY <1>1 DEF Honest, r
  <2>3. Grows(r, s, evs)
    BY <1>3, <1>4, <1>5, <1>6, <2>1, <2>2, BurstGrows
  <2>4. ASSUME ~s.broke, Terminal(p)
        PROVE  Says(r, s, evs)
    <3>1. Burst(evs, R, {1}) /\ DOMAIN s.conns = DOMAIN r.conns \cup {1}
      BY <1>3, <1>4, <1>5, <2>1, <2>4
    <3>2. s.phase = "up" /\ r.phase \in Running /\ s.conns[1].st # "closed" /\ ConnsHold(s.conns)
      BY <1>1, <1>4, <1>6, <2>1, <2>4 DEF Running
    <3> QED
      BY <1>3, <1>5, <2>1, <2>2, <3>1, <3>2, OpeningSays DEF r
  <2>5. ASSUME ~s.broke, ~Terminal(p)
        PROVE  Says(r, s, evs)
    <3>1. Burst(evs, R, {}) /\ DOMAIN s.conns = DOMAIN r.conns
      BY <1>3, <1>4, <1>5, <2>1, <2>5
    <3>2. s.phase = "up" /\ ConnsHold(s.conns)
      BY <1>4, <1>6, <2>1, <2>5
    <3> QED
      BY <1>1, <1>3, <1>5, <2>1, <2>2, <3>1, <3>2, TurningSays DEF r
  <2> QED
    BY <2>3, <2>4, <2>5
<1>8. \E s : Speaks(p, g, s, evs)
  BY <1>1, <1>2, <1>7, BecomesSpeaks DEF r
<1> QED
  BY <1>8

\* A connection is new, or AGWPE's that it takes for it.
LEMMA EntersSpeaks ==
  ASSUME NEW p, NEW g, Honest(runner[p][g]),
         NEW q, Whole(q), q.phase = runner[p][g].phase, q.events = runner[p][g].events,
         q.conns = runner[p][g].conns, q.broke = runner[p][g].broke,
         q.phase # "starting", kind[p] # "agwpe" => q.phase = "up",
         Disconnect \in Range(runner[p][g].cmds) => Disconnect \in Range(q.cmds),
         \A x : Close(x) \in Range(runner[p][g].cmds) => Close(x) \in Range(q.cmds),
         NEW node, NEW by, NEW st, st # "closed",
         Becomes(p, g, Entered(q, IdFor(p, q, node), [node |-> node, by |-> by, st |-> st]),
                 <<Opened(IdFor(p, q, node), node)>>)
  PROVE  \E s, evs : Speaks(p, g, s, evs)
<1> DEFINE r == runner[p][g]
           id == IdFor(p, q, node)
           conn == [node |-> node, by |-> by, st |-> st]
           m == Entered(q, id, conn)
           e == Opened(id, node)
           more == Append(q.conns, conn)
<1>1. /\ id \in DOMAIN q.conns \/ id = Len(q.conns) + 1
      /\ kind[p] # "agwpe" => id = Len(q.conns) + 1
  <2> DEFINE mapped == {x \in DOMAIN q.conns : q.conns[x].node = node /\ q.conns[x].st # "closed"}
  <2>1. CASE kind[p] = "agwpe" /\ mapped # {}
    <3>1. id = CHOOSE x \in mapped : TRUE
      BY <2>1 DEF IdFor
    <3>2. id \in mapped
      BY <2>1, <3>1
    <3> QED
      BY <2>1, <3>2
  <2>2. CASE ~(kind[p] = "agwpe" /\ mapped # {})
    BY <2>2 DEF IdFor
  <2> QED
    BY <2>1, <2>2
<1>2. Becomes(p, g, m, <<e>>)
  OBVIOUS
<1>3. Burst(<<e>>, {e}, {id})
  <2>1. e.ev # "ConnectionClosed" /\ IsOpened(e) /\ e.id = id
    BY DEF Opened, IsOpened
  <2> HIDE DEF e, id
  <2> QED
    BY <2>1, BurstOfOne
<1>4. Ended \notin {e} /\ \A x : Closed(x) \notin {e}
  BY DEF Ended, Event, Opened, Closed
<1>5. ConnsHold(q.conns)
  BY DEF Honest
<1>conn. conn = [node |-> conn.node, by |-> conn.by, st |-> conn.st] /\ conn.st = st
  OBVIOUS
<1> HIDE DEF id, e, r, conn
<1>enters. MoreBy(q.conns, conn, more)
  BY <1>conn, <1>5, ConnEnters, Zenon
<1> HIDE DEF more
<1>6. /\ ConnsHold(more) /\ DOMAIN more = DOMAIN q.conns \cup {Len(q.conns) + 1}
      /\ Len(q.conns) + 1 \notin DOMAIN q.conns /\ more[Len(q.conns) + 1].st = st
      /\ \A x \in DOMAIN q.conns : more[x] = q.conns[x]
  BY <1>conn, <1>enters DEF MoreBy
<1>7. /\ m.phase = q.phase /\ m.cmds = q.cmds /\ m.events = q.events
      /\ m.conns = IF id \in DOMAIN q.conns THEN q.conns ELSE more
      /\ m.broke = q.broke /\ Whole(m)
  BY EnteredFields DEF more
<1> HIDE DEF m
<1>8. ASSUME NEW s, s.phase = m.phase, s.cmds = m.cmds, s.events = m.events \o <<e>>,
             s.conns = m.conns, s.broke = m.broke
      PROVE  /\ Grows(r, s, <<e>>)
             /\ kind[p] # "agwpe" /\ ~s.broke /\ Sound(r) => Says(r, s, <<e>>)
  <2>1. /\ s.phase = r.phase /\ s.events = r.events \o <<e>> /\ s.broke = r.broke
        /\ s.cmds = q.cmds /\ r.conns = q.conns /\ q.phase = r.phase
        /\ s.conns = IF id \in DOMAIN q.conns THEN q.conns ELSE more
    BY <1>7, <1>8 DEF r
  <2>2. ConnsHold(s.conns) /\ DOMAIN r.conns \subseteq DOMAIN s.conns /\ {id} \subseteq DOMAIN s.conns
    BY <1>1, <1>5, <1>6, <2>1
  <2>3. Grows(r, s, <<e>>)
    BY <1>3, <2>1, <2>2, BurstGrows
  <2>4. ASSUME kind[p] # "agwpe"
        PROVE  Says(r, s, <<e>>)
    <3>1. id \notin DOMAIN r.conns /\ s.conns = more /\ id = Len(q.conns) + 1
      BY <1>1, <1>6, <2>1, <2>4
    <3>2. /\ DOMAIN s.conns = DOMAIN r.conns \cup {id} /\ s.conns[id].st # "closed"
          /\ \A x \in DOMAIN r.conns : s.conns[x] = r.conns[x]
      BY <1>6, <2>1, <3>1
    <3>3. s.phase = "up" /\ r.phase \in Running /\ Honest(r)
      BY <2>1, <2>4 DEF Running, r
    <3> QED
      BY <1>3, <1>4, <2>1, <2>2, <3>1, <3>2, <3>3, OpeningSays DEF r
  <2> QED
    BY <2>3, <2>4
<1>9. \E s : Speaks(p, g, s, <<e>>)
  BY <1>2, <1>7, <1>8, BecomesSpeaks DEF r
<1> QED
  BY <1>9

\* Its connections turn.
LEMMA TurnsSpeaks ==
  ASSUME NEW p, NEW g, Honest(runner[p][g]),
         NEW m, Whole(m), m.phase = runner[p][g].phase, m.events = runner[p][g].events,
         m.broke = runner[p][g].broke, m.phase \notin {"starting", "joined"},
         ConnsHold(m.conns), DOMAIN m.conns = DOMAIN runner[p][g].conns,
         NEW evs, NEW R, NEW A, Burst(evs, R, A), Becomes(p, g, m, evs),
         A \subseteq DOMAIN m.conns, kind[p] # "agwpe" => A = {},
         Ended \notin R, \A id : Closed(id) \in R => id \in DOMAIN m.conns,
         Disconnect \in Range(runner[p][g].cmds) => Disconnect \in Range(m.cmds),
         \A id \in DOMAIN m.conns :
           /\ m.conns[id].st = "closed"
              <=> (runner[p][g].conns[id].st = "closed" \/ Closed(id) \in R)
           /\ m.phase = "up" /\ m.conns[id].st \in Live =>
                /\ runner[p][g].conns[id].st \in Live
                /\ Close(id) \in Range(runner[p][g].cmds) => Close(id) \in Range(m.cmds)
  PROVE  \E s, e : Speaks(p, g, s, e)
<1> DEFINE r == runner[p][g]
<1>1. ASSUME NEW s, s.phase = m.phase, s.cmds = m.cmds, s.events = m.events \o evs,
             s.conns = m.conns, s.broke = m.broke
      PROVE  /\ Grows(r, s, evs)
             /\ kind[p] # "agwpe" /\ ~s.broke /\ Sound(r) => Says(r, s, evs)
  <2>1. /\ s.phase = r.phase /\ s.events = r.events \o evs /\ s.broke = r.broke
        /\ s.phase # "starting" /\ r.phase # "joined"
    BY <1>1
  <2>2. /\ ConnsHold(s.conns) /\ DOMAIN s.conns = DOMAIN r.conns
        /\ A \subseteq DOMAIN s.conns
    BY <1>1
  <2>3. Grows(r, s, evs)
    BY <2>1, <2>2, BurstGrows
  <2>4. ASSUME kind[p] # "agwpe"
        PROVE  Says(r, s, evs)
    <3>1. Burst(evs, R, {})
      BY <2>4
    <3>2. \A id \in DOMAIN r.conns :
            /\ s.conns[id].st = "closed" <=> (r.conns[id].st = "closed" \/ Closed(id) \in R)
            /\ s.phase = "up" /\ s.conns[id].st \in Live =>
                 /\ r.conns[id].st \in Live
                 /\ Close(id) \in Range(r.cmds) => Close(id) \in Range(s.cmds)
      BY <1>1
    <3>3. s.phase = "up" => (Disconnect \in Range(r.cmds) => Disconnect \in Range(s.cmds))
      BY <1>1
    <3>4. \A id : Closed(id) \in R => id \in DOMAIN r.conns
      OBVIOUS
    <3>5. Honest(r)
      OBVIOUS
    <3> HIDE DEF r
    <3> QED
      BY <2>1, <2>2, <3>1, <3>2, <3>3, <3>4, <3>5, TurningSays
  <2> QED
    BY <2>3, <2>4
<1>2. \E s : Speaks(p, g, s, evs)
  BY <1>1, BecomesSpeaks
<1> QED
  BY <1>2

\* It serves a command.
LEMMA ServeSpeaks ==
  ASSUME NEW p, NEW g, Whole(runner[p][g]), Honest(runner[p][g]), Serve(p, g)
  PROVE  \E s, evs : Speaks(p, g, s, evs)
<1> DEFINE r == runner[p][g]
           q == [r EXCEPT !.cmds = Tail(@)]
           c == Head(r.cmds)
<1>1. r.phase = "up" /\ r.cmds # <<>>
  BY DEF Serve
<1>tail. q = [phase |-> r.phase, cmds |-> Tail(r.cmds), events |-> r.events,
              conns |-> r.conns, broke |-> r.broke]
  BY CmdsChange, Zenon
<1>2. \/ /\ c.cmd = "open"
         /\ Becomes(p, g, Entered(q, IdFor(p, q, c.node),
                                  [node |-> c.node, by |-> "us", st |-> "calling"]),
                    <<Opened(IdFor(p, q, c.node), c.node)>>)
      \/ /\ c.cmd = "close"
         /\ Becomes(p, g,
              IF c.id \in DOMAIN q.conns /\ q.conns[c.id].st \in Live
              THEN [q EXCEPT !.conns[c.id].st = "closing"] ELSE q,
              <<>>)
      \/ Leaves(p, g, q)
  BY DEF Serve
<1>3. Whole(r) /\ Honest(r)
  OBVIOUS
<1> HIDE DEF q, r
<1>4. /\ q.phase = r.phase /\ q.cmds = Tail(r.cmds) /\ q.events = r.events
      /\ q.conns = r.conns /\ q.broke = r.broke
      /\ q = [phase |-> q.phase, cmds |-> q.cmds, events |-> q.events,
              conns |-> q.conns, broke |-> q.broke]
  BY <1>tail
<1>5. IsQueue(Tail(r.cmds)) /\ \A x \in Range(r.cmds) : x # c => x \in Range(Tail(r.cmds))
  BY <1>1, <1>3, TailOfQueue DEF Whole
<1>6. Whole(q)
  BY <1>4, <1>5 DEF Whole
<1> HIDE DEF c
<1>7. \A x \in Range(r.cmds) : x # c => x \in Range(q.cmds)
  BY <1>4, <1>5
<1>8. ConnsHold(q.conns)
  BY <1>3, <1>4 DEF Honest
<1>9. CASE /\ c.cmd = "open"
           /\ Becomes(p, g, Entered(q, IdFor(p, q, c.node),
                                    [node |-> c.node, by |-> "us", st |-> "calling"]),
                      <<Opened(IdFor(p, q, c.node), c.node)>>)
  <2>1. c # Disconnect /\ \A x : Close(x) # c
    BY <1>9 DEF Disconnect, Close
  <2>2. /\ Disconnect \in Range(r.cmds) => Disconnect \in Range(q.cmds)
        /\ \A x : Close(x) \in Range(r.cmds) => Close(x) \in Range(q.cmds)
    BY <1>7, <2>1
  <2> DEFINE node == c.node
  <2>3. Becomes(p, g, Entered(q, IdFor(p, q, node), [node |-> node, by |-> "us", st |-> "calling"]),
                <<Opened(IdFor(p, q, node), node)>>)
    BY <1>9
  <2>4. q.phase # "starting" /\ q.phase = "up" /\ "calling" # "closed"
    BY <1>1, <1>4
  <2> HIDE DEF node
  <2> QED
    BY <1>3, <1>4, <1>6, <2>2, <2>3, <2>4, EntersSpeaks DEF r
<1>10. CASE /\ c.cmd = "close"
            /\ Becomes(p, g,
                 IF c.id \in DOMAIN q.conns /\ q.conns[c.id].st \in Live
                 THEN [q EXCEPT !.conns[c.id].st = "closing"] ELSE q,
                 <<>>)
  <2> DEFINE id == c.id
             turned == [q EXCEPT !.conns[id].st = "closing"]
  <2>1. /\ Disconnect \in Range(r.cmds) => Disconnect \in Range(q.cmds)
        /\ \A x : x # id /\ Close(x) \in Range(r.cmds) => Close(x) \in Range(q.cmds)
    <3>1. c # Disconnect /\ \A x : Close(x) = c => x = id
      BY <1>10 DEF Disconnect, Close
    <3> QED
      BY <1>7, <3>1
  <2> HIDE DEF id
  <2>2. CASE id \in DOMAIN q.conns /\ q.conns[id].st \in Live
    <3>1. Becomes(p, g, turned, <<>>)
      BY <1>10, <2>2 DEF id
    <3>2. /\ turned.phase = q.phase /\ turned.cmds = q.cmds /\ turned.events = q.events
          /\ turned.conns = [q.conns EXCEPT ![id].st = "closing"] /\ turned.broke = q.broke
          /\ Whole(turned)
      BY <1>6, TurnedFields
    <3> HIDE DEF turned
    <3>3. /\ ConnsHold(turned.conns) /\ DOMAIN turned.conns = DOMAIN q.conns
          /\ turned.conns[id].st = "closing"
          /\ \A x \in DOMAIN q.conns : x # id => turned.conns[x] = q.conns[x]
      BY <1>8, <2>2, <3>2, ConnTurns
    <3>4. \A x \in DOMAIN turned.conns :
            /\ turned.conns[x].st = "closed" <=> (r.conns[x].st = "closed" \/ Closed(x) \in {})
            /\ turned.phase = "up" /\ turned.conns[x].st \in Live =>
                 /\ r.conns[x].st \in Live
                 /\ Close(x) \in Range(r.cmds) => Close(x) \in Range(turned.cmds)
      BY <1>4, <2>1, <2>2, <3>2, <3>3 DEF Live
    <3>5. turned.phase \notin {"starting", "joined"}
      BY <1>1, <1>4, <3>2
    <3> QED
      BY <1>3, <1>4, <2>1, <3>1, <3>2, <3>3, <3>4, <3>5, BurstOfNone, TurnsSpeaks DEF r
  <2>3. CASE ~(id \in DOMAIN q.conns /\ q.conns[id].st \in Live)
    <3>1. Becomes(p, g, q, <<>>)
      BY <1>10, <2>3 DEF id
    <3>2. \A x \in DOMAIN q.conns :
            /\ q.conns[x].st = "closed" <=> (r.conns[x].st = "closed" \/ Closed(x) \in {})
            /\ q.phase = "up" /\ q.conns[x].st \in Live =>
                 /\ r.conns[x].st \in Live
                 /\ Close(x) \in Range(r.cmds) => Close(x) \in Range(q.cmds)
      BY <1>4, <2>1, <2>3
    <3>3. q.phase \notin {"starting", "joined"}
      BY <1>1, <1>4
    <3> QED
      BY <1>3, <1>4, <1>6, <1>8, <2>1, <3>1, <3>2, <3>3, BurstOfNone, TurnsSpeaks DEF r
  <2> QED
    BY <2>2, <2>3
<1>11. CASE Leaves(p, g, q)
  BY <1>1, <1>3, <1>4, <1>6, <1>11, LeavesSpeaks DEF r
<1> QED
  BY <1>2, <1>9, <1>10, <1>11

\* Runner r becomes m: connection id of it is st, which it says if it is closed.
OneTurns(r, m, id, st, R) ==
  /\ m = [r EXCEPT !.conns[id].st = st]
  /\ id \in DOMAIN r.conns /\ r.phase \notin {"starting", "joined"}
  /\ Ended \notin R /\ \A x : Closed(x) \in R => x = id
  /\ st = "closed" <=> (r.conns[id].st = "closed" \/ Closed(id) \in R)
  /\ st \in Live => r.conns[id].st \in Live

\* evs are the events R; of its connections, only id may be reported, at AGWPE.
Reports(p, evs, R, id) ==
  \E A : Burst(evs, R, A) /\ A \subseteq {id} /\ (kind[p] # "agwpe" => A = {})

\* One of its connections turns, and it says at most so.
LEMMA OneTurnSpeaks ==
  ASSUME NEW p, NEW g, Whole(runner[p][g]), Honest(runner[p][g]),
         NEW m, NEW id, NEW st, NEW R, OneTurns(runner[p][g], m, id, st, R),
         NEW evs, Reports(p, evs, R, id), Becomes(p, g, m, evs)
  PROVE  \E s, e : Speaks(p, g, s, e)
<1> DEFINE r == runner[p][g]
<1>1. Becomes(p, g, m, evs) /\ Whole(r) /\ Honest(r) /\ r.phase \notin {"starting", "joined"}
  BY DEF OneTurns
<1>2. /\ st = "closed" <=> (r.conns[id].st = "closed" \/ Closed(id) \in R)
      /\ st \in Live => r.conns[id].st \in Live
      /\ id \in DOMAIN r.conns
      /\ Ended \notin R /\ \A x : Closed(x) \in R => x = id
  BY DEF OneTurns
<1>m. m = [r EXCEPT !.conns[id].st = st]
  BY DEF OneTurns
<1> HIDE DEF r
<1>3. /\ m.phase = r.phase /\ m.cmds = r.cmds /\ m.events = r.events
      /\ m.conns = [r.conns EXCEPT ![id].st = st] /\ m.broke = r.broke
      /\ Whole(m)
  BY <1>1, <1>m DEF Whole
<1>4. /\ ConnsHold(m.conns) /\ DOMAIN m.conns = DOMAIN r.conns /\ m.conns[id].st = st
      /\ \A x \in DOMAIN r.conns : x # id => m.conns[x] = r.conns[x]
  <2>1. ConnsHold(r.conns)
    BY <1>1 DEF Honest
  <2> QED
    BY <1>2, <1>3, <2>1, ConnTurns
<1>5. \A x \in DOMAIN m.conns :
        /\ m.conns[x].st = "closed" <=> (r.conns[x].st = "closed" \/ Closed(x) \in R)
        /\ m.phase = "up" /\ m.conns[x].st \in Live =>
             /\ r.conns[x].st \in Live
             /\ Close(x) \in Range(r.cmds) => Close(x) \in Range(m.cmds)
  BY <1>2, <1>3, <1>4
<1>0. PICK A : Burst(evs, R, A) /\ A \subseteq {id} /\ (kind[p] # "agwpe" => A = {})
  BY DEF Reports
<1>6. A \subseteq DOMAIN m.conns /\ \A x : Closed(x) \in R => x \in DOMAIN m.conns
  BY <1>0, <1>2, <1>4
<1>7. m.phase \notin {"starting", "joined"}
  BY <1>1, <1>3
<1>8. Disconnect \in Range(r.cmds) => Disconnect \in Range(m.cmds)
  BY <1>3
<1> QED
  BY <1>0, <1>1, <1>2, <1>3, <1>4, <1>5, <1>6, <1>7, <1>8, TurnsSpeaks DEF r

\* The transport and the stations.
LEMMA WorldSpeaks ==
  ASSUME NEW p, NEW g, Whole(runner[p][g]), Honest(runner[p][g]), World(p, g)
  PROVE  \E s, evs : Speaks(p, g, s, evs)
<1> DEFINE r == runner[p][g]
<1>1. Whole(r) /\ Honest(r)
  OBVIOUS
<1>2. ConnsHold(r.conns)
  BY <1>1 DEF Honest
<1>reads. Reads(p, r) =>
            /\ r.phase \in {"up", "down"}
            /\ kind[p] # "agwpe" => r.phase = "up"
  BY DEF Reads
<1>3. CASE Drops(p, g)
  BY <1>3, LeavesSpeaks DEF Drops
<1>4. CASE HangsUpUnnoticed(p, g)
  <2>1. r.phase = "up" /\ r.conns[1].st = "up"
        /\ Becomes(p, g, [r EXCEPT !.conns[1].st = "deaf"], <<>>)
    BY <1>4 DEF HangsUpUnnoticed
  <2>2. CASE 1 \in DOMAIN r.conns
    <3> DEFINE m == [r EXCEPT !.conns[1].st = "deaf"]
    <3>1. OneTurns(r, m, 1, "deaf", {})
      BY <2>1, <2>2 DEF OneTurns, Live
    <3>2. Becomes(p, g, m, <<>>)
      BY <2>1
    <3> HIDE DEF m
    <3>3. Reports(p, <<>>, {}, 1)
      BY BurstOfNone DEF Reports
    <3> QED
      BY <1>1, <3>1, <3>2, <3>3, OneTurnSpeaks
  <2>3. CASE 1 \notin DOMAIN r.conns
    <3> DEFINE m == [r EXCEPT !.conns[1].st = "deaf"]
    <3> HIDE DEF r
    <3>1. /\ m.phase = r.phase /\ m.cmds = r.cmds /\ m.events = r.events
          /\ m.conns = [r.conns EXCEPT ![1].st = "deaf"] /\ m.broke = r.broke
          /\ Whole(m)
      BY <1>1, TurnedFields
    <3>2. m.conns = r.conns
      <4>1. r.conns = [x \in DOMAIN r.conns |-> r.conns[x]]
        BY <1>2, LenProperties DEF ConnsHold, IsQueue
      <4> QED
        BY <2>3, <3>1, <4>1
    <3>3. Becomes(p, g, m, <<>>)
      BY <2>1
    <3> HIDE DEF m
    <3>4. m.phase \notin {"starting", "joined"}
      BY <2>1, <3>1
    <3> QED
      BY <1>1, <1>2, <3>1, <3>2, <3>3, <3>4, BurstOfNone, TurnsSpeaks DEF r
  <2> QED
    BY <2>2, <2>3
<1>5. ASSUME NEW n \in Node, StationCalls(p, g, n)
      PROVE  \E s, evs : Speaks(p, g, s, evs)
  <2>1. /\ Reads(p, r)
        /\ Becomes(p, g, Entered(r, IdFor(p, r, n), [node |-> n, by |-> "them", st |-> "up"]),
                   <<Opened(IdFor(p, r, n), n)>>)
    BY <1>5 DEF StationCalls
  <2> QED
    BY <1>1, <1>reads, <2>1, EntersSpeaks
<1>6. ASSUME NEW id \in DOMAIN r.conns, Answered(p, g, id)
      PROVE  \E s, evs : Speaks(p, g, s, evs)
  <2> DEFINE evs == IF kind[p] = "agwpe" THEN <<Opened(id, r.conns[id].node)>> ELSE <<>>
             e == Opened(id, r.conns[id].node)
             R == IF kind[p] = "agwpe" THEN {e} ELSE {}
             A == IF kind[p] = "agwpe" THEN {id} ELSE {}
  <2>1. /\ Reads(p, r) /\ r.conns[id].st = "calling"
        /\ Becomes(p, g, [r EXCEPT !.conns[id].st = "up"], evs)
    BY <1>6 DEF Answered
  <2>2. e.ev # "ConnectionClosed" /\ IsOpened(e) /\ e.id = id /\ e # Ended /\ \A x : Closed(x) # e
    BY DEF Opened, IsOpened, Ended, Event, Closed
  <2> HIDE DEF e
  <2>3. Burst(<<e>>, {e}, {id})
    BY <2>2, BurstOfOne
  <2>4. Burst(evs, R, A)
    BY <2>3, BurstOfNone DEF e
  <2>5. /\ A \subseteq {id}
        /\ kind[p] # "agwpe" => A = {}
        /\ Ended \notin R /\ \A x : Closed(x) \notin R
    BY <2>2
  <2>6. "up" # "closed" /\ r.conns[id].st # "closed" /\ r.conns[id].st \in Live
    BY <2>1 DEF Live
  <2>7. r.phase \notin {"starting", "joined"}
    BY <1>reads, <2>1
  <2> DEFINE m == [r EXCEPT !.conns[id].st = "up"]
  <2> HIDE DEF evs, R, A
  <2>8. OneTurns(r, m, id, "up", R)
    BY <2>5, <2>6, <2>7 DEF OneTurns
  <2> HIDE DEF m
  <2>9. Becomes(p, g, m, evs)
    BY <2>1 DEF m
  <2>10. Reports(p, evs, R, id)
    BY <2>4, <2>5 DEF Reports
  <2> QED
    BY <1>1, <2>8, <2>9, <2>10, OneTurnSpeaks
<1>7. ASSUME NEW id \in DOMAIN r.conns, Finishes(p, g, id)
      PROVE  \E s, evs : Speaks(p, g, s, evs)
  <2> DEFINE e == Closed(id)
  <2>1. /\ r.phase \in {"up", "down"}
        /\ Becomes(p, g, [r EXCEPT !.conns[id].st = "closed"], <<e>>)
    BY <1>7, <1>reads DEF Finishes
  <2>2. e = Closed(e.id) /\ ~IsOpened(e) /\ e # Ended /\ \A x : Closed(x) = e => x = id
    BY DEF IsOpened, Ended, Event, Closed
  <2>3. Closed(id) \in {e} /\ "closed" \notin Live
    BY DEF Live
  <2> DEFINE m == [r EXCEPT !.conns[id].st = "closed"]
  <2>4. OneTurns(r, m, id, "closed", {e})
    BY <2>1, <2>2, <2>3 DEF OneTurns
  <2>5. Becomes(p, g, m, <<e>>)
    BY <2>1
  <2> HIDE DEF e, m
  <2>6. Burst(<<e>>, {e}, {})
    BY <2>2, BurstOfOne
  <2>7. Reports(p, <<e>>, {e}, id)
    BY <2>6 DEF Reports
  <2> QED
    BY <1>1, <2>4, <2>5, <2>7, OneTurnSpeaks
<1>8. ASSUME NEW id \in DOMAIN r.conns, StationSignsOff(p, g, id)
      PROVE  \E s, evs : Speaks(p, g, s, evs)
  <2> DEFINE e == SignOff(id)
  <2>1. Reads(p, r) /\ Becomes(p, g, r, <<e>>)
    BY <1>8 DEF StationSignsOff
  <2>2. /\ e.ev # "ConnectionClosed" /\ ~IsOpened(e) /\ e # Ended
        /\ \A x : Closed(x) # e
    BY DEF IsOpened, Ended, Event, Closed, SignOff
  <2> HIDE DEF e
  <2>3. Burst(<<e>>, {e}, {})
    BY <2>2, BurstOfOne
  <2>4. r.phase \notin {"starting", "joined"}
    BY <1>reads, <2>1
  <2> QED
    BY <1>1, <1>2, <2>1, <2>2, <2>3, <2>4, TurnsSpeaks
<1> QED
  BY <1>3, <1>4, <1>5, <1>6, <1>7, <1>8 DEF World

\* Whatever a runner's threads do.
LEMMA ThreadsSpeak ==
  ASSUME NEW p, NEW g, Whole(runner[p][g]), Honest(runner[p][g]),
         World(p, g) \/ RunnerRuns(p, g)
  PROVE  \E s, evs : Speaks(p, g, s, evs)
BY WorldSpeaks, StartFailsSpeaks, StartsSpeaks, ServeSpeaks, ExitsSpeaks DEF RunnerRuns

-----------------------------------------------------------------------------
(* A port of any kind.                                                     *)

Plain(k, rs) == k # "agwpe" /\ \A g \in DOMAIN rs : ~rs[g].broke

PortFits(k, p, rs, a, b, tb, o) ==
  /\ AllHonest(rs)
  /\ Plain(k, rs) => AllSound(rs) /\ PortHolds(p, rs, a, b, tb, o)

\* A step of a runner's threads.
LEMMA PortSpeaks ==
  ASSUME NEW k, NEW p, NEW rs, NEW a, NEW b, NEW tb, NEW o, PortFits(k, p, rs, a, b, tb, o),
         IsQueue(rs), NEW g \in DOMAIN rs, NEW s, NEW evs, Grows(rs[g], s, evs),
         k # "agwpe" /\ ~s.broke /\ Sound(rs[g]) => Says(rs[g], s, evs),
         NEW ss, ss = [rs EXCEPT ![g] = s]
  PROVE  PortFits(k, p, ss, a, b, tb, o)
<1>1. /\ DOMAIN ss = DOMAIN rs /\ ss[g] = s
      /\ \A h \in DOMAIN rs : h # g => ss[h] = rs[h]
  BY ReplaceInQueue
<1>2. Honest(rs[g])
  BY DEF PortFits, AllHonest
<1>3. Honest(s)
  BY <1>2, GrownIsHonest
<1>4. AllHonest(ss)
  BY <1>1, <1>3 DEF PortFits, AllHonest
<1>5. ASSUME Plain(k, ss)
      PROVE  AllSound(ss) /\ PortHolds(p, ss, a, b, tb, o)
  <2>1. ~s.broke /\ k # "agwpe"
    BY <1>1, <1>5 DEF Plain
  <2>2. Plain(k, rs)
    BY <1>1, <1>5, <2>1 DEF Plain, Grows
  <2>3. AllSound(rs) /\ PortHolds(p, rs, a, b, tb, o)
    BY <2>2 DEF PortFits
  <2>4. Sound(rs[g])
    BY <2>3 DEF AllSound
  <2>5. Says(rs[g], s, evs)
    BY <2>1, <2>4
  <2>6. Sound(s)
    BY <1>2, <2>4, <2>5, SaidIsSound
  <2>7. AllSound(ss)
    BY <1>1, <2>3, <2>6 DEF AllSound
  <2>8. PortHolds(p, ss, a, b, tb, o)
    BY <1>2, <2>3, <2>4, <2>5, SaidFits
  <2> QED
    BY <2>7, <2>8
<1> QED
  BY <1>4, <1>5 DEF PortFits

\* Commands to its runners.
LEMMA PortCommanded ==
  ASSUME NEW k, NEW p, NEW rs, NEW a, NEW b, NEW tb, NEW o, PortFits(k, p, rs, a, b, tb, o),
         NEW ss, Commanded(rs, ss)
  PROVE  PortFits(k, p, ss, a, b, tb, o)
<1>1. /\ AllHonest(ss)
      /\ \A g \in DOMAIN rs : Sound(rs[g]) => Sound(ss[g])
      /\ \A g \in DOMAIN rs : ss[g].broke = rs[g].broke
  BY CommandedRunners DEF PortFits
<1>2. DOMAIN ss = DOMAIN rs
  BY DEF Commanded
<1>3. ASSUME Plain(k, ss)
      PROVE  AllSound(ss) /\ PortHolds(p, ss, a, b, tb, o)
  <2>1. Plain(k, rs)
    BY <1>1, <1>2, <1>3 DEF Plain
  <2>2. AllSound(rs) /\ PortHolds(p, rs, a, b, tb, o)
    BY <2>1 DEF PortFits
  <2> QED
    BY <1>1, <1>2, <2>2, CommandedFits DEF AllSound
<1> QED
  BY <1>1, <1>3 DEF PortFits

\* A new runner.
LEMMA PortStarted ==
  ASSUME NEW k, NEW p, NEW rs, NEW b, NEW tb, NEW o, NEW oo, PortFits(k, p, rs, None, b, tb, o),
         IsQueue(rs), NEW ss, ss = Append(rs, Fresh),
         Overlaps(rs, o) => oo
  PROVE  PortFits(k, p, ss, Len(rs) + 1, b, tb, oo)
<1> DEFINE n == Len(rs) + 1
<1>1. /\ DOMAIN ss = DOMAIN rs \cup {n} /\ ss[n] = Fresh
      /\ \A i \in DOMAIN rs : ss[i] = rs[i] /\ i # n
  BY AppendToQueue
<1> HIDE DEF n
<1>2. /\ Fresh.phase = "starting" /\ Fresh.conns = <<>> /\ Fresh.events = <<>>
      /\ Fresh.broke = FALSE
  BY DEF Fresh
<1>3. IsQueue(<<>>) /\ DOMAIN <<>> = {} /\ Announced(<<>>) = {} /\ Range(<<>>) = {}
  BY EmptySeq DEF IsQueue, Announced, Range
<1>4. Honest(Fresh)
  BY <1>2, <1>3 DEF Honest, ConnsHold, EventsHold
<1>5. Sound(Fresh)
  BY <1>2, <1>3 DEF Sound, OpenedOnce, ClosedLater
<1>6. AllHonest(ss)
  BY <1>1, <1>4 DEF AllHonest, PortFits
<1>7. ASSUME Plain(k, ss)
      PROVE  AllSound(ss) /\ PortHolds(p, ss, n, b, tb, oo)
  <2>1. Plain(k, rs)
    BY <1>1, <1>7 DEF Plain
  <2>2. AllSound(rs) /\ PortHolds(p, rs, None, b, tb, o)
    BY <2>1 DEF PortFits
  <2>3. AllSound(ss)
    BY <1>1, <1>5, <2>2 DEF AllSound
  <2>4. PortHolds(p, ss, n, b, tb, oo)
    BY <2>2, FreshFits DEF n
  <2> QED
    BY <2>3, <2>4
<1> QED
  BY <1>6, <1>7 DEF PortFits, n

\* The window lets go of it.
LEMMA PortLetGo ==
  ASSUME NEW k, NEW p, NEW rs, NEW a, NEW b, NEW tb, NEW o, PortFits(k, p, rs, a, b, tb, o),
         IsQueue(rs)
  PROVE  PortFits(k, p, rs, None, b, tb, o)
BY LetGoFits DEF PortFits

\* Nothing of p is bound anew, and no tab of it shows more.
Rests(p, b, tb, b2, tb2) ==
  /\ \A x : x[1] = p =>
       /\ x \in DOMAIN b2 <=> x \in DOMAIN b
       /\ x \in DOMAIN b => b2[x] = b[x]
  /\ \A u \in DOMAIN tb2 : tb2[u].port = p /\ tb2[u].conn # None =>
       u \in DOMAIN tb /\ tb[u].port = p /\ tb[u].conn = tb2[u].conn

\* Then it fits as it did.
LEMMA PortRests ==
  ASSUME NEW k, NEW p, NEW rs, NEW a, NEW b, NEW tb, NEW o, PortFits(k, p, rs, a, b, tb, o),
         NEW b2, NEW tb2, Rests(p, b, tb, b2, tb2)
  PROVE  PortFits(k, p, rs, a, b2, tb2, o)
<1>1. PortHolds(p, rs, a, b, tb, o) => PortHolds(p, rs, a, b2, tb2, o)
  BY OthersFit DEF Rests
<1> QED
  BY <1>1 DEF PortFits

\* Whatever event is taken.
LEMMA TakenRunners ==
  ASSUME NEW k, NEW rs, AllHonest(rs), IsQueue(rs), NEW g \in DOMAIN rs,
         NEW s, Taken(rs[g], s), NEW ss, ss = [rs EXCEPT ![g] = s]
  PROVE  /\ AllHonest(ss) /\ IsQueue(ss)
         /\ AllSound(rs) => AllSound(ss)
         /\ Plain(k, ss) <=> Plain(k, rs)
<1>1. /\ DOMAIN ss = DOMAIN rs /\ ss[g] = s /\ IsQueue(ss)
      /\ \A h \in DOMAIN rs : h # g => ss[h] = rs[h]
  BY ReplaceInQueue
<1>2. Honest(rs[g]) /\ Honest(s)
  <2>1. Honest(rs[g])
    BY DEF AllHonest
  <2> QED
    BY <2>1, TakenRest
<1>3. AllHonest(ss)
  BY <1>1, <1>2 DEF AllHonest
<1>4. Sound(rs[g]) => Sound(s)
  BY <1>2, TakenIsSound
<1>5. AllSound(rs) => AllSound(ss)
  BY <1>1, <1>4 DEF AllSound
<1>6. s.broke = rs[g].broke
  BY DEF Taken
<1>7. Plain(k, ss) <=> Plain(k, rs)
  BY <1>1, <1>6 DEF Plain
<1> QED
  BY <1>1, <1>3, <1>5, <1>7

\* The last sending end is gone.
LEMMA PortJoined ==
  ASSUME NEW k, NEW p, NEW rs, NEW a, NEW b, NEW tb, NEW o, PortFits(k, p, rs, a, b, tb, o),
         IsQueue(rs), NEW g \in DOMAIN rs, rs[g].phase = "gone", rs[g].events = <<>>,
         NEW s, s.phase = "joined", s.events = rs[g].events, s.conns = rs[g].conns,
         s.broke = rs[g].broke,
         NEW ss, ss = [rs EXCEPT ![g] = s]
  PROVE  PortFits(k, p, ss, None, b, tb, o)
<1> DEFINE r == rs[g]
<1>1. /\ DOMAIN ss = DOMAIN rs /\ ss[g] = s
      /\ \A h \in DOMAIN rs : h # g => ss[h] = rs[h]
  BY ReplaceInQueue
<1>2. Range(<<>>) = {} /\ DOMAIN <<>> = {} /\ Announced(<<>>) = {}
  BY EmptySeq DEF Range, Announced
<1>3. Honest(s) /\ ~Owes(s) /\ ~Owes(r) /\ ~Unheard(s) /\ ~Unheard(r)
  BY <1>2 DEF Honest, PortFits, AllHonest, Owes, Unheard, Running, Ended
<1>4. Sound(s)
  BY <1>2 DEF Sound, OpenedOnce, ClosedLater
<1>5. AllHonest(ss)
  BY <1>1, <1>3 DEF PortFits, AllHonest
<1>6. ASSUME Plain(k, ss)
      PROVE  AllSound(ss) /\ PortHolds(p, ss, None, b, tb, o)
  <2>1. Plain(k, rs)
    BY <1>1, <1>6 DEF Plain
  <2>2. AllSound(rs) /\ PortHolds(p, rs, a, b, tb, o)
    BY <2>1 DEF PortFits
  <2>3. AllSound(ss)
    BY <1>1, <1>4, <2>2 DEF AllSound
  <2>4. Owed(p, ss, b)
    BY <1>1, <1>3, <2>2 DEF PortHolds, Owed
  <2>5. ~o => Alone(ss) /\ Fits(p, ss, b) /\ TabsBound(p, b, tb)
    BY <1>1, <1>3, <2>2 DEF PortHolds, Alone, Fits
  <2>6. ~Solo(ss, None)
    BY <1>1, LenProperties DEF Solo, IsQueue, None
  <2> QED
    BY <2>3, <2>4, <2>5, <2>6 DEF PortHolds
<1> QED
  BY <1>5, <1>6 DEF PortFits

-----------------------------------------------------------------------------
(* The window and all its ports.                                           *)

TabHolds(tab) ==
  /\ tab = [port |-> tab.port, node |-> tab.node, conn |-> tab.conn,
            responder |-> tab.responder]
  /\ tab.port \in Port

\* What a tab dials as.
KeyOf(k, tab) == <<tab.port, IF k[tab.port] # "terminal" THEN tab.node ELSE NoNode>>

\* The ids of tabs are not used again; what is dialed shows no connection.
TabsFit(k, n, tb, dialed, b) ==
  /\ n \in Nat
  /\ \A t \in DOMAIN tb : t \in Nat /\ t < n /\ TabHolds(tb[t])
  /\ \A x \in DOMAIN dialed :
       dialed[x] \in DOMAIN tb /\ tb[dialed[x]].conn = None /\ x = KeyOf(k, tb[dialed[x]])
  /\ KeysHold(b, tb)

TabsHold == TabsFit(kind, next_tab_id, tabs, pending, bound)

WInv ==
  /\ IInv /\ TabsHold
  /\ \A p \in Port : PortFits(kind[p], p, runner[p], active[p], bound, tabs, p \in overlapped)

\* Only of port p is anything bound, and do tabs show more than they did.
OnlyOf(p) ==
  /\ \A k : k[1] # p =>
       /\ k \in DOMAIN bound' <=> k \in DOMAIN bound
       /\ k \in DOMAIN bound => bound'[k] = bound[k]
  /\ \A u \in DOMAIN tabs' : tabs'[u].port # p /\ tabs'[u].conn # None =>
       u \in DOMAIN tabs /\ tabs[u].port = tabs'[u].port /\ tabs[u].conn = tabs'[u].conn

\* One port changes.
LEMMA PortsStep ==
  ASSUME WInv, NEW p \in Port, IInv', TabsHold', kind' = kind,
         NEW rs, NEW a, runner' = [runner EXCEPT ![p] = rs], active' = [active EXCEPT ![p] = a],
         \A q \in Port : q # p => (q \in overlapped' <=> q \in overlapped),
         OnlyOf(p),
         PortFits(kind[p], p, rs, a, bound', tabs', p \in overlapped')
  PROVE  WInv'
<1>1. /\ runner'[p] = rs /\ active'[p] = a
      /\ \A q \in Port : q # p => runner'[q] = runner[q] /\ active'[q] = active[q]
  BY DEF WInv, IInv
<1>2. ASSUME NEW q \in Port, q # p
      PROVE  PortFits(kind[q], q, runner[q], active[q], bound', tabs', q \in overlapped')
  <2>1. PortFits(kind[q], q, runner[q], active[q], bound, tabs, q \in overlapped)
    BY DEF WInv
  <2>2. Rests(q, bound, tabs, bound', tabs')
    BY <1>2 DEF OnlyOf, Rests
  <2>3. (q \in overlapped') = (q \in overlapped)
    BY <1>2
  <2>4. PortFits(kind[q], q, runner[q], active[q], bound', tabs', q \in overlapped)
    BY <2>1, <2>2, PortRests
  <2> QED
    BY <2>3, <2>4
<1>3. \A q \in Port :
        PortFits(kind[q], q, runner'[q], active'[q], bound', tabs', q \in overlapped')
  <2> TAKE q \in Port
  <2>1. CASE q = p
    BY <1>1, <2>1
  <2>2. CASE q # p
    BY <1>1, <1>2, <2>2
  <2> QED
    BY <2>1, <2>2
<1> QED
  BY <1>3 DEF WInv

\* Only its runners do.
LEMMA PortsRunnersStep ==
  ASSUME WInv, NEW p \in Port, IInv', UNCHANGED <<kind, active, tabvars, overlapped>>,
         NEW rs, runner' = [runner EXCEPT ![p] = rs],
         PortFits(kind[p], p, rs, active[p], bound, tabs, p \in overlapped)
  PROVE  WInv'
<1>1. TabsHold'
  BY DEF WInv, TabsHold, tabvars
<1>2. OnlyOf(p)
  BY DEF OnlyOf, tabvars
<1>3. active' = [active EXCEPT ![p] = active[p]]
  BY DEF WInv, IInv
<1>4. PortFits(kind[p], p, rs, active[p], bound', tabs', p \in overlapped')
  BY DEF tabvars
<1>5. \A q \in Port : q # p => (q \in overlapped' <=> q \in overlapped)
  OBVIOUS
<1> QED
  BY <1>1, <1>2, <1>3, <1>4, <1>5, PortsStep

\* The threads.
LEMMA ThreadSteps ==
  ASSUME WInv, IInv', NEW p \in Port, NEW g \in DOMAIN runner[p],
         World(p, g) \/ RunnerRuns(p, g)
  PROVE  WInv'
<1>1. /\ Held(runner[p], active[p])
      /\ PortFits(kind[p], p, runner[p], active[p], bound, tabs, p \in overlapped)
  BY DEF WInv, IInv
<1>2. Whole(runner[p][g]) /\ Honest(runner[p][g]) /\ IsQueue(runner[p])
  BY <1>1 DEF Held, PortFits, AllHonest
<1>3. PICK s, evs : Speaks(p, g, s, evs)
  BY <1>2, ThreadsSpeak
<1> DEFINE rs == [runner[p] EXCEPT ![g] = s]
<1>4. /\ runner' = [runner EXCEPT ![p] = rs]
      /\ UNCHANGED <<kind, active, tabvars, overlapped>>
      /\ Grows(runner[p][g], s, evs)
      /\ kind[p] # "agwpe" /\ ~s.broke /\ Sound(runner[p][g]) => Says(runner[p][g], s, evs)
  BY <1>3 DEF Speaks
<1> HIDE DEF rs
<1>5. PortFits(kind[p], p, rs, active[p], bound, tabs, p \in overlapped)
  BY <1>1, <1>2, <1>4, PortSpeaks DEF rs
<1> QED
  BY <1>4, <1>5, PortsRunnersStep

-----------------------------------------------------------------------------
(* The user.                                                               *)

\* A port that is connected.
LEMMA ConnectFits ==
  ASSUME NEW p, NEW b, NEW tb, Held(runner[p], active[p]),
         PortFits(kind[p], p, runner[p], active[p], b, tb, p \in overlapped)
  PROVE  PortFits(kind[p], p, RunnersAfter(p), ActiveAfter(p), b, tb, p \in OverlappedAfter(p))
<1>1. CASE active[p] # None
  <2>1. /\ RunnersAfter(p) = runner[p] /\ ActiveAfter(p) = active[p]
        /\ OverlappedAfter(p) = overlapped
    BY <1>1 DEF RunnersAfter, ActiveAfter, OverlappedAfter
  <2> QED
    BY <2>1
<1>2. CASE active[p] = None
  <2> DEFINE rs == runner[p]
             oo == p \in OverlappedAfter(p)
             o == p \in overlapped
  <2>1. RunnersAfter(p) = Append(rs, Fresh) /\ ActiveAfter(p) = Len(rs) + 1
    BY <1>2 DEF RunnersAfter, ActiveAfter
  <2>2. Overlaps(rs, o) => oo
    BY <1>2 DEF Overlaps, OverlappedAfter
  <2>3. IsQueue(rs)
    BY DEF Held
  <2>4. PortFits(kind[p], p, rs, None, b, tb, o)
    BY <1>2
  <2> HIDE DEF rs, oo, o
  <2>5. PortFits(kind[p], p, Append(rs, Fresh), Len(rs) + 1, b, tb, oo)
    BY <2>2, <2>3, <2>4, PortStarted
  <2> QED
    BY <2>1, <2>5 DEF oo
<1> QED
  BY <1>1, <1>2

\* It is asked for a connection as well.
LEMMA ConnectTabFits ==
  ASSUME NEW p \in Port, NEW b, NEW tb, Held(runner[p], active[p]),
         PortFits(kind[p], p, runner[p], active[p], b, tb, p \in overlapped), NEW c,
         NEW rs, rs = IF port_supports_connect(p)
                      THEN Command(RunnersAfter(p), ActiveAfter(p), c)
                      ELSE RunnersAfter(p)
  PROVE  PortFits(kind[p], p, rs, ActiveAfter(p), b, tb, p \in OverlappedAfter(p))
<1> DEFINE oo == p \in OverlappedAfter(p)
<1>1. PortFits(kind[p], p, RunnersAfter(p), ActiveAfter(p), b, tb, oo)
  BY ConnectFits
<1>2. Held(RunnersAfter(p), ActiveAfter(p))
  BY StartIsHeld
<1>3. Commanded(RunnersAfter(p), Command(RunnersAfter(p), ActiveAfter(p), c))
  BY <1>2, CommandCommands
<1> HIDE DEF oo
<1>4. PortFits(kind[p], p, Command(RunnersAfter(p), ActiveAfter(p), c), ActiveAfter(p), b, tb, oo)
  BY <1>1, <1>3, PortCommanded
<1> QED
  BY <1>1, <1>4 DEF oo

\* A tab, new or not, dials.
LEMMA ConnectTabSteps ==
  ASSUME WInv, IInv', NEW t \in Nat, NEW tab, TabHolds(tab), tab.conn = None,
         ConnectTab(t, tab),
         DOMAIN tabs' = DOMAIN tabs \cup {t}, tabs'[t] = tab,
         \A u \in DOMAIN tabs : tabs'[u] = tabs[u],
         next_tab_id' \in Nat, next_tab_id <= next_tab_id', t < next_tab_id'
  PROVE  WInv'
<1> DEFINE p == tab.port
           rs == IF port_supports_connect(p)
                 THEN Command(RunnersAfter(p), ActiveAfter(p), Open(tab.node))
                 ELSE RunnersAfter(p)
           key == PendingKey(p, tab.node)
<1>1. p \in Port
  BY DEF TabHolds
<1>2. /\ pending' = With(pending, key, t)
      /\ active' = [active EXCEPT ![p] = ActiveAfter(p)]
      /\ runner' = [runner EXCEPT ![p] = rs]
      /\ overlapped' = OverlappedAfter(p)
      /\ UNCHANGED <<kind, confirmed, bound>>
  BY DEF ConnectTab
<1>3. TabsHold /\ Held(runner[p], active[p])
      /\ PortFits(kind[p], p, runner[p], active[p], bound, tabs, p \in overlapped)
  BY <1>1 DEF WInv, IInv
<1>4. key = KeyOf(kind, tab)
  BY DEF KeyOf, PendingKey, port_supports_connect
<1>tabs. TabsFit(kind, next_tab_id, tabs, pending, bound)
  BY <1>3 DEF TabsHold
<1>5. TabsHold'
  <2>1. \A u \in DOMAIN tabs' : u \in Nat /\ u < next_tab_id' /\ TabHolds(tabs'[u])
    <3> TAKE u \in DOMAIN tabs'
    <3>1. CASE u = t
      BY <3>1
    <3>2. CASE u # t
      <4>1. u \in DOMAIN tabs /\ tabs'[u] = tabs[u]
        BY <3>2
      <4>2. u \in Nat /\ u < next_tab_id /\ TabHolds(tabs[u]) /\ next_tab_id \in Nat
        BY <1>tabs, <4>1 DEF TabsFit
      <4>3. u < next_tab_id'
        BY <4>2
      <4> QED
        BY <4>1, <4>2, <4>3
    <3> QED
      BY <3>1, <3>2
  <2>2. ASSUME NEW k \in DOMAIN pending'
        PROVE  /\ pending'[k] \in DOMAIN tabs' /\ tabs'[pending'[k]].conn = None
               /\ k = KeyOf(kind, tabs'[pending'[k]])
    <3>1. CASE k = key
      <4>1. pending'[k] = t
        BY <1>2, <3>1 DEF With
      <4> HIDE DEF key
      <4> QED
        BY <1>4, <3>1, <4>1
    <3>2. CASE k # key
      <4>1. k \in DOMAIN pending /\ pending'[k] = pending[k]
        BY <1>2, <3>2 DEF With
      <4>2. /\ pending[k] \in DOMAIN tabs /\ tabs[pending[k]].conn = None
            /\ k = KeyOf(kind, tabs[pending[k]])
        BY <1>tabs, <4>1 DEF TabsFit
      <4>3. tabs'[pending[k]] = tabs[pending[k]] /\ pending[k] \in DOMAIN tabs'
        BY <4>2
      <4> HIDE DEF key
      <4> QED
        BY <4>1, <4>2, <4>3
    <3> QED
      BY <3>1, <3>2
  <2>3. KeysHold(bound', tabs')
    BY <1>2, <1>tabs DEF TabsFit, KeysHold
  <2>4. TabsFit(kind, next_tab_id', tabs', pending', bound')
    BY <2>1, <2>2, <2>3 DEF TabsFit
  <2> QED
    BY <1>2, <2>4 DEF TabsHold
<1>6. OnlyOf(p) /\ Rests(p, bound, tabs, bound', tabs')
  <2>1. \A u \in DOMAIN tabs' : tabs'[u].conn # None => u \in DOMAIN tabs /\ tabs'[u] = tabs[u]
    OBVIOUS
  <2> QED
    BY <1>2, <2>1 DEF OnlyOf, Rests
<1> HIDE DEF rs, p
<1>7. PortFits(kind[p], p, runner[p], active[p], bound', tabs', p \in overlapped)
  BY <1>3, <1>6, PortRests
<1>8. PortFits(kind[p], p, rs, ActiveAfter(p), bound', tabs', p \in overlapped')
  <2>1. PortFits(kind[p], p, rs, ActiveAfter(p), bound', tabs', p \in OverlappedAfter(p))
    BY <1>1, <1>3, <1>7, ConnectTabFits DEF rs
  <2> QED
    BY <1>2, <2>1
<1>9. \A q \in Port : q # p => (q \in overlapped' <=> q \in overlapped)
  BY <1>2 DEF OverlappedAfter
<1> HIDE DEF key
<1> QED
  BY <1>1, <1>2, <1>5, <1>6, <1>8, <1>9, PortsStep

\* A tab hangs up: the runner of its port is asked to close.
LEMMA HungUpCommands ==
  ASSUME WInv, NEW t \in DOMAIN tabs, NEW p, p = tabs[t].port
  PROVE  \E ss : /\ Commanded(runner[p], ss) /\ HungUp(t) = [runner EXCEPT ![p] = ss]
                 /\ tabs[t].conn # None =>
                      ss = Command(runner[p], active[p], Close(tabs[t].conn))
<1>1. p \in Port
  BY DEF WInv, TabsHold, TabsFit, TabHolds
<1>2. Held(runner[p], active[p])
  BY <1>1 DEF WInv, IInv
<1>3. CASE tabs[t].conn = None
  <2>1. HungUp(t) = runner
    BY <1>3 DEF HungUp
  <2>2. runner = [runner EXCEPT ![p] = runner[p]]
    BY <1>1 DEF WInv, IInv
  <2>3. Commanded(runner[p], runner[p])
    BY <1>2 DEF Commanded, SameButCommands, Held
  <2> QED
    BY <1>3, <2>1, <2>2, <2>3
<1>4. CASE tabs[t].conn # None
  <2> DEFINE ss == Command(runner[p], active[p], Close(tabs[t].conn))
  <2>1. HungUp(t) = [runner EXCEPT ![p] = ss]
    BY <1>4 DEF HungUp
  <2>2. Commanded(runner[p], ss)
    BY <1>2, CommandCommands
  <2> QED
    BY <2>1, <2>2
<1> QED
  BY <1>3, <1>4

\* The runner gets the command, unless it is to end.
LEMMA CommandArrives ==
  ASSUME NEW rs, NEW a, Held(rs, a), a \in DOMAIN rs, rs[a].phase = "up", NEW c
  PROVE  \/ c \in Range(Command(rs, a, c)[a].cmds)
         \/ Disconnect \in Range(Command(rs, a, c)[a].cmds)
<1>1. a # None
  BY LenProperties DEF Held, IsQueue, None
<1>2. Whole(rs[a])
  BY DEF Held
<1>3. CASE Disconnect \in Range(rs[a].cmds)
  BY <1>3 DEF Command
<1>4. CASE Disconnect \notin Range(rs[a].cmds)
  <2>1. Command(rs, a, c)[a] = [rs[a] EXCEPT !.cmds = Append(@, c)]
    BY <1>1, <1>4 DEF Command, Running
  <2>2. Command(rs, a, c)[a].cmds = Append(rs[a].cmds, c)
    BY <1>2, <2>1 DEF Whole
  <2> QED
    BY <1>2, <2>2, AppendToQueue DEF Whole
<1> QED
  BY <1>3, <1>4

\* A tab is closed.
LEMMA CloseTabSteps ==
  ASSUME WInv, IInv', NEW t \in DOMAIN tabs, CloseTab(t)
  PROVE  WInv'
<1> DEFINE p == tabs[t].port
           gone == {k \in DOMAIN bound : bound[k] = t}
           lost == {k \in DOMAIN pending : pending[k] = t}
<1>1. TabsFit(kind, next_tab_id, tabs, pending, bound)
  BY DEF WInv, TabsHold
<1>2. p \in Port
  BY <1>1 DEF TabsFit, TabHolds
<1>3. /\ Held(runner[p], active[p])
      /\ PortFits(kind[p], p, runner[p], active[p], bound, tabs, p \in overlapped)
  BY <1>2 DEF WInv, IInv
<1>4. /\ runner' = HungUp(t) /\ tabs' = Without(tabs, {t}) /\ bound' = Without(bound, gone)
      /\ pending' = Without(pending, lost)
      /\ UNCHANGED <<kind, active, confirmed, next_tab_id, overlapped>>
  BY DEF CloseTab
<1>5. PICK ss : /\ Commanded(runner[p], ss) /\ HungUp(t) = [runner EXCEPT ![p] = ss]
                /\ tabs[t].conn # None =>
                     ss = Command(runner[p], active[p], Close(tabs[t].conn))
  BY HungUpCommands
<1>6. /\ DOMAIN tabs' = DOMAIN tabs \ {t} /\ \A u \in DOMAIN tabs' : tabs'[u] = tabs[u]
      /\ DOMAIN bound' = DOMAIN bound \ gone /\ \A k \in DOMAIN bound' : bound'[k] = bound[k]
      /\ DOMAIN pending' = DOMAIN pending \ lost
      /\ \A k \in DOMAIN pending' : pending'[k] = pending[k]
  <2> HIDE DEF gone, lost
  <2>1. DOMAIN tabs' = DOMAIN tabs \ {t} /\ \A u \in DOMAIN tabs' : tabs'[u] = tabs[u]
    BY <1>4 DEF Without, Restrict
  <2>2. DOMAIN bound' = DOMAIN bound \ gone /\ \A k \in DOMAIN bound' : bound'[k] = bound[k]
    BY <1>4 DEF Without, Restrict, gone
  <2>3. /\ DOMAIN pending' = DOMAIN pending \ lost
        /\ \A k \in DOMAIN pending' : pending'[k] = pending[k]
    BY <1>4 DEF Without, Restrict, lost
  <2> QED
    BY <2>1, <2>2, <2>3
<1>7. TabsHold'
  <2>1. \A u \in DOMAIN tabs' : u \in Nat /\ u < next_tab_id' /\ TabHolds(tabs'[u])
    BY <1>1, <1>4, <1>6 DEF TabsFit
  <2>2. \A k \in DOMAIN pending' :
          /\ pending'[k] \in DOMAIN tabs' /\ tabs'[pending'[k]].conn = None
          /\ k = KeyOf(kind, tabs'[pending'[k]])
    BY <1>1, <1>6 DEF TabsFit
  <2>3. KeysHold(bound', tabs')
    BY <1>1, <1>6 DEF TabsFit, KeysHold
  <2>4. next_tab_id' \in Nat
    BY <1>1, <1>4 DEF TabsFit
  <2>5. TabsFit(kind, next_tab_id', tabs', pending', bound')
    BY <2>1, <2>2, <2>3, <2>4 DEF TabsFit
  <2> QED
    BY <1>4, <2>5 DEF TabsHold
<1>8. OnlyOf(p)
  <2>1. \A k \in gone : k[1] = p
    BY <1>1 DEF TabsFit, KeysHold
  <2>2. \A k : k[1] # p =>
          /\ k \in DOMAIN bound' <=> k \in DOMAIN bound
          /\ k \in DOMAIN bound => bound'[k] = bound[k]
    BY <1>6, <2>1
  <2>3. \A u \in DOMAIN tabs' : u \in DOMAIN tabs /\ tabs'[u] = tabs[u]
    BY <1>6
  <2> QED
    BY <2>2, <2>3 DEF OnlyOf
<1>9. tabs[t].conn # None /\ tabs[t].port = p => Asked(runner[p], ss, active[p], tabs[t].conn)
  BY <1>3, <1>5, CommandArrives DEF Asked
<1>10. KeysHold(bound, tabs)
  BY <1>1 DEF TabsFit
<1>11. /\ AllHonest(ss)
       /\ \A g \in DOMAIN runner[p] : Sound(runner[p][g]) => Sound(ss[g])
       /\ \A g \in DOMAIN runner[p] : ss[g].broke = runner[p][g].broke
       /\ DOMAIN ss = DOMAIN runner[p]
  BY <1>3, <1>5, CommandedRunners DEF PortFits, Commanded
<1> DEFINE o == p \in overlapped
           rs == runner[p]
           a == active[p]
           k == kind[p]
<1>12. ASSUME Plain(k, ss)
       PROVE  AllSound(ss) /\ PortHolds(p, ss, a, bound', tabs', o)
  <2>1. Plain(k, rs)
    BY <1>11, <1>12 DEF Plain
  <2>2. AllSound(rs) /\ PortHolds(p, rs, a, bound, tabs, o)
    BY <1>3, <2>1 DEF PortFits
  <2>3. AllSound(ss)
    BY <1>11, <2>2 DEF AllSound
  <2>4. Commanded(rs, ss)
    BY <1>5
  <2> HIDE DEF o, rs, a, k, p
  <2>5. tabs[t].conn # None /\ tabs[t].port = p => Asked(rs, ss, a, tabs[t].conn)
    BY <1>9 DEF rs, a
  <2>6. TabCloses(t, bound, tabs, bound', tabs')
    BY <1>6 DEF TabCloses, gone
  <2>7. PortHolds(p, ss, a, bound', tabs', o)
    BY <1>10, <2>2, <2>4, <2>5, <2>6, TabClosedFits
  <2> QED
    BY <2>3, <2>7
<1>13. PortFits(k, p, ss, a, bound', tabs', o)
  BY <1>11, <1>12 DEF PortFits
<1>14. runner' = [runner EXCEPT ![p] = ss] /\ active' = [active EXCEPT ![p] = active[p]]
  BY <1>4, <1>5 DEF WInv, IInv
<1>15. \A q \in Port : q # p => (q \in overlapped' <=> q \in overlapped)
  BY <1>4
<1>16. PortFits(kind[p], p, ss, active[p], bound', tabs', p \in overlapped')
  BY <1>4, <1>13
<1> HIDE DEF p, gone, lost, o, rs, a, k
<1> QED
  BY <1>2, <1>4, <1>7, <1>8, <1>14, <1>15, <1>16, PortsStep

\* Whatever the user does.
LEMMA UserFits ==
  ASSUME WInv, IInv', User
  PROVE  WInv'
<1>1. TabsFit(kind, next_tab_id, tabs, pending, bound)
  BY DEF WInv, TabsHold
<1>2. ASSUME NEW p \in Port, NEW n \in Node, Dial(p, n)
      PROVE  WInv'
  <2> DEFINE t == next_tab_id
             tab == NewTab(p, n)
  <2>1. /\ ConnectTab(t, tab) /\ tabs' = With(tabs, t, tab) /\ next_tab_id' = t + 1
        /\ t \in Nat
    BY <1>1, <1>2 DEF Dial, TabsFit
  <2>2. t \notin DOMAIN tabs
    BY <1>1 DEF TabsFit
  <2>3. TabHolds(tab) /\ tab.conn = None
    BY DEF TabHolds, NewTab
  <2> HIDE DEF tab
  <2>4. /\ DOMAIN tabs' = DOMAIN tabs \cup {t} /\ tabs'[t] = tab
        /\ \A u \in DOMAIN tabs : tabs'[u] = tabs[u]
    BY <2>1, <2>2 DEF With
  <2>5. next_tab_id' \in Nat /\ next_tab_id <= next_tab_id' /\ t < next_tab_id'
    BY <2>1
  <2> HIDE DEF t
  <2> QED
    BY <2>1, <2>3, <2>4, <2>5, ConnectTabSteps
<1>3. ASSUME NEW t \in DOMAIN tabs, Redial(t)
      PROVE  WInv'
  <2> DEFINE tab == tabs[t]
  <2>1. /\ ConnectTab(t, tab) /\ UNCHANGED <<tabs, next_tab_id>> /\ tab.conn = None
    BY <1>3 DEF Redial
  <2>2. t \in Nat /\ t < next_tab_id /\ TabHolds(tab) /\ next_tab_id \in Nat
    BY <1>1 DEF TabsFit
  <2>3. /\ DOMAIN tabs' = DOMAIN tabs \cup {t} /\ tabs'[t] = tab
        /\ \A u \in DOMAIN tabs : tabs'[u] = tabs[u]
    BY <2>1
  <2>4. next_tab_id' \in Nat /\ next_tab_id <= next_tab_id' /\ t < next_tab_id'
    BY <2>1, <2>2
  <2> HIDE DEF tab
  <2> QED
    BY <2>1, <2>2, <2>3, <2>4, ConnectTabSteps
<1>4. ASSUME NEW t \in DOMAIN tabs, HangUp(t)
      PROVE  WInv'
  <2> DEFINE p == tabs[t].port
  <2>1. p \in Port
    BY <1>1 DEF TabsFit, TabHolds
  <2>2. PICK ss : Commanded(runner[p], ss) /\ HungUp(t) = [runner EXCEPT ![p] = ss]
    BY HungUpCommands
  <2>3. runner' = [runner EXCEPT ![p] = ss] /\ UNCHANGED <<kind, active, tabvars, overlapped>>
    BY <1>4, <2>2 DEF HangUp
  <2>4. PortFits(kind[p], p, runner[p], active[p], bound, tabs, p \in overlapped)
    BY <2>1 DEF WInv
  <2> HIDE DEF p
  <2>5. PortFits(kind[p], p, ss, active[p], bound, tabs, p \in overlapped)
    BY <2>2, <2>4, PortCommanded
  <2> QED
    BY <2>1, <2>3, <2>5, PortsRunnersStep
<1>5. ASSUME NEW p \in Port, DisconnectPort(p)
      PROVE  WInv'
  <2> DEFINE ss == Command(runner[p], active[p], Disconnect)
  <2>1. runner' = [runner EXCEPT ![p] = ss] /\ UNCHANGED <<kind, active, tabvars, overlapped>>
    BY <1>5 DEF DisconnectPort
  <2>2. /\ Held(runner[p], active[p])
        /\ PortFits(kind[p], p, runner[p], active[p], bound, tabs, p \in overlapped)
    BY DEF WInv, IInv
  <2>3. Commanded(runner[p], ss)
    BY <2>2, CommandCommands
  <2> HIDE DEF ss
  <2>4. PortFits(kind[p], p, ss, active[p], bound, tabs, p \in overlapped)
    BY <2>2, <2>3, PortCommanded
  <2> QED
    BY <2>1, <2>4, PortsRunnersStep
<1>6. ASSUME NEW p \in Port, ConnectPort(p)
      PROVE  WInv'
  <2>1. /\ runner' = [runner EXCEPT ![p] = RunnersAfter(p)]
        /\ active' = [active EXCEPT ![p] = ActiveAfter(p)]
        /\ overlapped' = OverlappedAfter(p)
        /\ UNCHANGED <<kind, tabvars>>
    BY <1>6 DEF ConnectPort
  <2>2. /\ Held(runner[p], active[p])
        /\ PortFits(kind[p], p, runner[p], active[p], bound, tabs, p \in overlapped)
    BY DEF WInv, IInv
  <2>3. PortFits(kind[p], p, RunnersAfter(p), ActiveAfter(p), bound, tabs, p \in OverlappedAfter(p))
    BY <2>2, ConnectFits
  <2>4. TabsHold'
    BY <1>1, <2>1 DEF TabsHold, tabvars
  <2>5. OnlyOf(p)
    BY <2>1 DEF OnlyOf, tabvars
  <2>6. \A q \in Port : q # p => (q \in overlapped' <=> q \in overlapped)
    BY <2>1 DEF OverlappedAfter
  <2>7. PortFits(kind[p], p, RunnersAfter(p), ActiveAfter(p), bound', tabs', p \in overlapped')
    BY <2>1, <2>3 DEF tabvars
  <2> QED
    BY <2>1, <2>4, <2>5, <2>6, <2>7, PortsStep
<1> QED
  BY <1>2, <1>3, <1>4, <1>5, <1>6, CloseTabSteps DEF User

-----------------------------------------------------------------------------
(* Events.                                                                 *)

\* An event is taken, and what is shown may change.
LEMMA PortTakes ==
  ASSUME NEW k, NEW p, NEW rs, NEW a, NEW b, NEW tb, NEW o, PortFits(k, p, rs, a, b, tb, o),
         IsQueue(rs), NEW g \in DOMAIN rs, NEW s, Taken(rs[g], s),
         NEW ss, ss = [rs EXCEPT ![g] = s], NEW a2, NEW b2, NEW tb2,
         Honest(rs[g]) /\ Sound(rs[g]) /\ PortHolds(p, rs, a, b, tb, o)
         => PortHolds(p, ss, a2, b2, tb2, o)
  PROVE  PortFits(k, p, ss, a2, b2, tb2, o)
<1>1. AllHonest(rs)
  BY DEF PortFits
<1>2. /\ AllHonest(ss)
      /\ AllSound(rs) => AllSound(ss)
      /\ Plain(k, ss) <=> Plain(k, rs)
  BY <1>1, TakenRunners
<1>3. ASSUME Plain(k, ss)
      PROVE  AllSound(ss) /\ PortHolds(p, ss, a2, b2, tb2, o)
  <2>1. AllSound(rs) /\ PortHolds(p, rs, a, b, tb, o)
    BY <1>2, <1>3 DEF PortFits
  <2>2. Honest(rs[g]) /\ Sound(rs[g])
    BY <1>1, <2>1 DEF AllHonest, AllSound
  <2> QED
    BY <1>2, <2>1, <2>2
<1> QED
  BY <1>2, <1>3 DEF PortFits

\* One that is about the port changes nothing shown.
LEMMA PortHears ==
  ASSUME NEW k, NEW p, NEW rs, NEW a, NEW b, NEW tb, NEW o, PortFits(k, p, rs, a, b, tb, o),
         IsQueue(rs), NEW g \in DOMAIN rs, NEW s, Taken(rs[g], s),
         Head(rs[g].events).ev \notin {"ConnectionOpened", "ConnectionClosed", "PortDisconnected"},
         NEW ss, ss = [rs EXCEPT ![g] = s]
  PROVE  PortFits(k, p, ss, a, b, tb, o)
<1>1. Honest(rs[g]) /\ PortHolds(p, rs, a, b, tb, o) => PortHolds(p, ss, a, b, tb, o)
  BY OtherEventFits
<1> QED
  BY <1>1, PortTakes

\* Its end.
LEMMA PortEnds ==
  ASSUME NEW k, NEW p, NEW rs, NEW a, NEW b, NEW tb, NEW o, PortFits(k, p, rs, a, b, tb, o),
         IsQueue(rs), NEW g \in DOMAIN rs, NEW s, Taken(rs[g], s),
         NEW ss, ss = [rs EXCEPT ![g] = s], NEW b2, NEW tb2, Unbinds(p, b, tb, b2, tb2)
  PROVE  PortFits(k, p, ss, None, b2, tb2, o)
<1>1. Honest(rs[g]) /\ PortHolds(p, rs, a, b, tb, o) => PortHolds(p, ss, None, b2, tb2, o)
  BY EndedFits
<1> QED
  BY <1>1, PortTakes

\* It is heard of.
LEMMA PortOpens ==
  ASSUME NEW k, NEW p, NEW rs, NEW a, NEW b, NEW tb, NEW o, PortFits(k, p, rs, a, b, tb, o),
         IsQueue(rs), NEW g \in DOMAIN rs, NEW s, Taken(rs[g], s), IsOpened(Head(rs[g].events)),
         NEW ss, ss = [rs EXCEPT ![g] = s],
         NEW t, NEW b2, NEW tb2, Binds(p, Head(rs[g].events).id, t, b, tb, b2, tb2)
  PROVE  PortFits(k, p, ss, a, b2, tb2, o)
<1>1. Honest(rs[g]) /\ Sound(rs[g]) /\ PortHolds(p, rs, a, b, tb, o)
      => PortHolds(p, ss, a, b2, tb2, o)
  BY OpenedFits
<1> QED
  BY <1>1, PortTakes

\* Nothing is shown of the connection of key any more.
Unhooks(p, key, b, tb, b2, tb2) ==
  /\ DOMAIN b2 = DOMAIN b \ {key} /\ \A k \in DOMAIN b2 : b2[k] = b[k]
  /\ \A u \in DOMAIN tb2 : tb2[u].port = p /\ tb2[u].conn # None =>
       /\ u \in DOMAIN tb /\ tb[u].port = p /\ tb[u].conn = tb2[u].conn
       /\ key \in DOMAIN b => b[key] # u

\* Its end is heard of.
LEMMA PortCloses ==
  ASSUME NEW k, NEW p, NEW rs, NEW a, NEW b, NEW tb, NEW o, PortFits(k, p, rs, a, b, tb, o),
         IsQueue(rs), NEW g \in DOMAIN rs, NEW s, Taken(rs[g], s),
         Head(rs[g].events).ev = "ConnectionClosed",
         NEW ss, ss = [rs EXCEPT ![g] = s], KeysHold(b, tb),
         NEW b2, NEW tb2, Unhooks(p, <<p, Head(rs[g].events).id>>, b, tb, b2, tb2)
  PROVE  PortFits(k, p, ss, a, b2, tb2, o)
<1>1. Honest(rs[g]) /\ Sound(rs[g]) /\ PortHolds(p, rs, a, b, tb, o)
      => PortHolds(p, ss, a, b2, tb2, o)
  BY ClosedFits DEF Unhooks
<1> QED
  BY <1>1, PortTakes

\* The handle is dropped.
LEMMA PortDropped ==
  ASSUME NEW k, NEW p, NEW rs, NEW b, NEW tb, NEW o, PortFits(k, p, rs, None, b, tb, o),
         NEW a, Held(rs, a)
  PROVE  PortFits(k, p, DropHandle(rs, a), None, b, tb, o)
<1>1. Commanded(rs, DropHandle(rs, a))
  BY CommandCommands DEF DropHandle
<1> QED
  BY <1>1, PortCommanded

\* What reading an event does to its runner.
LEMMA ReadTakes ==
  ASSUME NEW p, NEW g \in DOMAIN runner[p], Whole(runner[p][g]), runner[p][g].events # <<>>
  PROVE  \E s : Taken(runner[p][g], s) /\ Read(p, g) = [runner[p] EXCEPT ![g] = s]
<1> DEFINE r == runner[p][g]
           s == [r EXCEPT !.events = Tail(@)]
<1>1. Read(p, g) = [runner[p] EXCEPT ![g] = s]
  BY DEF Read
<1>2. Taken(r, s)
  BY DEF Taken, Whole
<1> QED
  BY <1>1, <1>2

\* What is there when an event is handled.
LEMMA EventThere ==
  ASSUME WInv, NEW p \in Port, NEW g \in DOMAIN runner[p], NEW name, Reading(p, g, name)
  PROVE  /\ Held(Read(p, g), active[p]) /\ IsQueue(runner[p])
         /\ PortFits(kind[p], p, runner[p], active[p], bound, tabs, p \in overlapped)
         /\ Honest(runner[p][g])
         /\ Head(runner[p][g].events) \in Range(runner[p][g].events)
         /\ Head(runner[p][g].events).ev = name
         /\ UNCHANGED <<kind, overlapped>>
         /\ \E s : Taken(runner[p][g], s) /\ Read(p, g) = [runner[p] EXCEPT ![g] = s]
<1>1. /\ Held(runner[p], active[p])
      /\ PortFits(kind[p], p, runner[p], active[p], bound, tabs, p \in overlapped)
  BY DEF WInv, IInv
<1>2. Whole(runner[p][g]) /\ Honest(runner[p][g]) /\ IsQueue(runner[p])
  BY <1>1 DEF Held, PortFits, AllHonest
<1>3. /\ runner[p][g].events # <<>> /\ Head(runner[p][g].events).ev = name
      /\ UNCHANGED <<kind, overlapped>>
  BY DEF Reading
<1>4. PICK s : Taken(runner[p][g], s) /\ Read(p, g) = [runner[p] EXCEPT ![g] = s]
  BY <1>2, <1>3, ReadTakes
<1>5. Held(Read(p, g), active[p])
  BY <1>1, ReadIsHeld
<1>6. Head(runner[p][g].events) \in Range(runner[p][g].events)
  BY <1>2, <1>4, TakenRest
<1> QED
  BY <1>1, <1>2, <1>3, <1>4, <1>5, <1>6

\* Where the records of tabs stay as they are.
LEMMA NoTabSteps ==
  ASSUME WInv, UNCHANGED <<kind, tabvars>>, NEW p
  PROVE  TabsHold' /\ OnlyOf(p)
BY DEF WInv, TabsHold, TabsFit, OnlyOf, tabvars

\* PortConnected, and PortError after it.
LEMMA HeardSteps ==
  ASSUME WInv, IInv', NEW p \in Port, NEW g \in DOMAIN runner[p],
         HandlePortConnected(p, g) \/ HandlePortError(p, g),
         runner' = [runner EXCEPT ![p] = Read(p, g)], UNCHANGED active
  PROVE  WInv'
<1>1. PICK name : /\ name \in {"PortConnected", "PortError"} /\ Reading(p, g, name)
                  /\ UNCHANGED tabvars
  BY DEF HandlePortConnected, HandlePortError
<1>2. PICK s : Taken(runner[p][g], s) /\ Read(p, g) = [runner[p] EXCEPT ![g] = s]
  BY <1>1, EventThere
<1>3. /\ IsQueue(runner[p]) /\ Held(Read(p, g), active[p])
      /\ PortFits(kind[p], p, runner[p], active[p], bound, tabs, p \in overlapped)
      /\ Head(runner[p][g].events).ev \in {"PortConnected", "PortError"}
      /\ UNCHANGED <<kind, overlapped>>
  BY <1>1, EventThere
<1>4. PortFits(kind[p], p, Read(p, g), active[p], bound, tabs, p \in overlapped)
  BY <1>2, <1>3, PortHears
<1> QED
  BY <1>1, <1>3, <1>4, PortsRunnersStep

\* The window lets go of a port, whose records of tabs are as new.
LEMMA LetGoSteps ==
  ASSUME WInv, IInv', NEW p \in Port, NEW rs, Held(rs, active[p]), LetGo(p, rs),
         UNCHANGED <<kind, overlapped>>, TabsHold', OnlyOf(p),
         PortFits(kind[p], p, rs, None, bound', tabs', p \in overlapped)
  PROVE  WInv'
<1>1. /\ runner' = [runner EXCEPT ![p] = DropHandle(rs, active[p])]
      /\ active' = [active EXCEPT ![p] = None]
  BY DEF LetGo
<1>2. PortFits(kind[p], p, DropHandle(rs, active[p]), None, bound', tabs', p \in overlapped')
  BY PortDropped
<1>3. \A q \in Port : q # p => (q \in overlapped' <=> q \in overlapped)
  OBVIOUS
<1> QED
  BY <1>1, <1>2, <1>3, PortsStep

\* PortError of a port that was never up.
LEMMA FailedSteps ==
  ASSUME WInv, IInv', NEW p \in Port, NEW g \in DOMAIN runner[p],
         HandlePortError(p, g), LetGo(p, Read(p, g))
  PROVE  WInv'
<1>1. Reading(p, g, "PortError") /\ UNCHANGED tabvars
  BY DEF HandlePortError
<1>2. PICK s : Taken(runner[p][g], s) /\ Read(p, g) = [runner[p] EXCEPT ![g] = s]
  BY <1>1, EventThere
<1>3. /\ IsQueue(runner[p]) /\ Held(Read(p, g), active[p])
      /\ PortFits(kind[p], p, runner[p], active[p], bound, tabs, p \in overlapped)
      /\ Head(runner[p][g].events).ev = "PortError"
      /\ UNCHANGED <<kind, overlapped>>
  BY <1>1, EventThere
<1>4. PortFits(kind[p], p, Read(p, g), active[p], bound, tabs, p \in overlapped)
  BY <1>2, <1>3, PortHears
<1>5. IsQueue(Read(p, g))
  BY <1>3 DEF Held
<1>6. PortFits(kind[p], p, Read(p, g), None, bound, tabs, p \in overlapped)
  BY <1>4, <1>5, PortLetGo
<1>7. TabsHold' /\ OnlyOf(p)
  BY <1>1, <1>3, NoTabSteps
<1>8. PortFits(kind[p], p, Read(p, g), None, bound', tabs', p \in overlapped)
  BY <1>1, <1>6 DEF tabvars
<1> QED
  BY <1>3, <1>7, <1>8, LetGoSteps

\* The event loop of a runner ends.
LEMMA LoopEndsSteps ==
  ASSUME WInv, IInv', NEW p \in Port, NEW g \in DOMAIN runner[p], LoopEnds(p, g)
  PROVE  WInv'
<1>1. /\ Held(runner[p], active[p])
      /\ PortFits(kind[p], p, runner[p], active[p], bound, tabs, p \in overlapped)
  BY DEF WInv, IInv
<1>2. Whole(runner[p][g]) /\ IsQueue(runner[p])
  BY <1>1 DEF Held
<1> DEFINE s == [runner[p][g] EXCEPT !.phase = "joined"]
           rs == [runner[p] EXCEPT ![g] = s]
<1>3. /\ runner[p][g].phase = "gone" /\ runner[p][g].events = <<>>
      /\ LetGo(p, rs) /\ UNCHANGED <<kind, tabvars, overlapped>>
  BY DEF LoopEnds
<1>4. /\ s.phase = "joined" /\ s.events = runner[p][g].events /\ s.cmds = runner[p][g].cmds
      /\ s.conns = runner[p][g].conns /\ s.broke = runner[p][g].broke
      /\ s = [phase |-> s.phase, cmds |-> s.cmds, events |-> s.events,
              conns |-> s.conns, broke |-> s.broke]
  BY <1>2 DEF Whole
<1>5. Whole(s) /\ Doomed(s)
  BY <1>2, <1>4 DEF Whole, Doomed, Running
<1> HIDE DEF s
<1>6. Held(rs, active[p])
  BY <1>1, <1>5, OneRunnerChanges
<1>7. PortFits(kind[p], p, rs, None, bound, tabs, p \in overlapped)
  BY <1>1, <1>2, <1>3, <1>4, PortJoined
<1> HIDE DEF rs
<1>8. TabsHold' /\ OnlyOf(p)
  BY <1>3, NoTabSteps
<1>9. PortFits(kind[p], p, rs, None, bound', tabs', p \in overlapped)
  BY <1>3, <1>7 DEF tabvars
<1> QED
  BY <1>3, <1>6, <1>8, <1>9, LetGoSteps

\* A tab shows something else.
LEMMA TabFields ==
  ASSUME NEW tab, TabHolds(tab), NEW conn, NEW u, u = [tab EXCEPT !.conn = conn]
  PROVE  TabHolds(u) /\ u.port = tab.port /\ u.node = tab.node /\ u.conn = conn
BY DEF TabHolds

\* It is answered by someone else.
LEMMA TabAnswered ==
  ASSUME NEW tab, TabHolds(tab), NEW who, NEW u, u = [tab EXCEPT !.responder = who]
  PROVE  TabHolds(u) /\ u.port = tab.port /\ u.node = tab.node /\ u.conn = tab.conn
BY DEF TabHolds

\* A tab of the same port and node that may show no connection any more.
Fades(tab, u) ==
  /\ TabHolds(u) /\ u.port = tab.port /\ u.node = tab.node
  /\ u.conn = tab.conn \/ u.conn = None

\* As tabs do where the window handles an event.
LEMMA TabsFades ==
  ASSUME NEW tab, TabHolds(tab)
  PROVE  /\ Fades(tab, tab)
         /\ Fades(tab, [tab EXCEPT !.conn = None]) /\ [tab EXCEPT !.conn = None].conn = None
         /\ Fades(tab, [tab EXCEPT !.conn = None, !.responder = "none"])
         /\ [tab EXCEPT !.conn = None, !.responder = "none"].conn = None
         /\ Fades(tab, [tab EXCEPT !.responder = "none"])
         /\ [tab EXCEPT !.responder = "none"].conn = tab.conn
<1> DEFINE u == [tab EXCEPT !.conn = None]
           v == [tab EXCEPT !.conn = None, !.responder = "none"]
           w == [tab EXCEPT !.responder = "none"]
<1>1. TabHolds(u) /\ u.port = tab.port /\ u.node = tab.node /\ u.conn = None
  BY TabFields
<1>2. TabHolds(v) /\ v.port = tab.port /\ v.node = tab.node /\ v.conn = None
  <2>1. v = [u EXCEPT !.responder = "none"]
    OBVIOUS
  <2> HIDE DEF u, v
  <2>2. u.port = tab.port /\ u.node = tab.node /\ u.conn = None /\ TabHolds(u)
    BY <1>1
  <2> QED
    BY <2>1, <2>2 DEF TabHolds
<1>3. TabHolds(w) /\ w.port = tab.port /\ w.node = tab.node /\ w.conn = tab.conn
  BY TabAnswered
<1> HIDE DEF u, v, w
<1>4. Fades(tab, tab) /\ Fades(tab, u) /\ Fades(tab, v) /\ Fades(tab, w)
  BY <1>1, <1>2, <1>3 DEF Fades
<1> QED
  BY <1>1, <1>2, <1>3, <1>4 DEF u, v, w

\* Tabs fade, and what is dialed may be less; what is bound is less too.
LEMMA TabsFade ==
  ASSUME WInv, kind' = kind, next_tab_id' = next_tab_id, DOMAIN tabs' = DOMAIN tabs,
         \A u \in DOMAIN tabs : Fades(tabs[u], tabs'[u]),
         DOMAIN pending' \subseteq DOMAIN pending,
         \A x \in DOMAIN pending' : pending'[x] = pending[x],
         DOMAIN bound' \subseteq DOMAIN bound,
         \A x \in DOMAIN bound' : bound'[x] = bound[x] /\ tabs'[bound[x]].conn = tabs[bound[x]].conn
  PROVE  TabsHold'
<1>1. TabsFit(kind, next_tab_id, tabs, pending, bound)
  BY DEF WInv, TabsHold
<1>2. next_tab_id \in Nat
  BY <1>1 DEF TabsFit
<1>3. \A u \in DOMAIN tabs' : u \in Nat /\ u < next_tab_id /\ TabHolds(tabs'[u])
  BY <1>1 DEF TabsFit, Fades
<1>4. ASSUME NEW x \in DOMAIN pending'
      PROVE  /\ pending'[x] \in DOMAIN tabs' /\ tabs'[pending'[x]].conn = None
             /\ x = KeyOf(kind, tabs'[pending'[x]])
  <2>1. /\ pending[x] \in DOMAIN tabs /\ tabs[pending[x]].conn = None
        /\ x = KeyOf(kind, tabs[pending[x]])
    BY <1>1, <1>4 DEF TabsFit
  <2>2. Fades(tabs[pending[x]], tabs'[pending[x]])
    BY <2>1
  <2> QED
    BY <1>4, <2>1, <2>2 DEF Fades, KeyOf
<1>5. KeysHold(bound', tabs')
  <2>1. KeysHold(bound, tabs)
    BY <1>1 DEF TabsFit
  <2> QED
    BY <2>1 DEF KeysHold, Fades
<1>6. TabsFit(kind, next_tab_id, tabs', pending', bound')
  BY <1>2, <1>3, <1>4, <1>5 DEF TabsFit
<1> QED
  BY <1>6 DEF TabsHold

\* A tab shows nothing that it did not show.
LEMMA FadedOnlyOf ==
  ASSUME NEW p, DOMAIN tabs' = DOMAIN tabs, \A u \in DOMAIN tabs : Fades(tabs[u], tabs'[u]),
         \A k : k[1] # p => /\ k \in DOMAIN bound' <=> k \in DOMAIN bound
                            /\ k \in DOMAIN bound => bound'[k] = bound[k]
  PROVE  OnlyOf(p)
BY DEF OnlyOf, Fades

\* PortDisconnected.
LEMMA DisconnectedSteps ==
  ASSUME WInv, IInv', NEW p \in Port, NEW g \in DOMAIN runner[p],
         HandlePortDisconnected(p, g)
  PROVE  WInv'
<1> DEFINE gone == {k \in DOMAIN bound : k[1] = p}
<1>1. /\ Reading(p, g, "PortDisconnected") /\ LetGo(p, Read(p, g))
      /\ Unbind(p) /\ next_tab_id' = next_tab_id
      /\ pending' = Without(pending, {k \in DOMAIN pending : k[1] = p})
  BY DEF HandlePortDisconnected
<1>2. PICK s : Taken(runner[p][g], s) /\ Read(p, g) = [runner[p] EXCEPT ![g] = s]
  BY <1>1, EventThere
<1>3. /\ IsQueue(runner[p]) /\ Held(Read(p, g), active[p])
      /\ PortFits(kind[p], p, runner[p], active[p], bound, tabs, p \in overlapped)
      /\ UNCHANGED <<kind, overlapped>>
  BY <1>1, EventThere
<1>4. TabsFit(kind, next_tab_id, tabs, pending, bound)
  BY DEF WInv, TabsHold
<1>5. /\ DOMAIN pending' \subseteq DOMAIN pending
      /\ \A x \in DOMAIN pending' : pending'[x] = pending[x]
  BY <1>1 DEF Without, Restrict
<1>6. DOMAIN bound' = DOMAIN bound \ gone /\ \A x \in DOMAIN bound' : bound'[x] = bound[x]
  BY <1>1 DEF Unbind, Without, Restrict
<1>7. /\ DOMAIN tabs' = DOMAIN tabs
      /\ \A u \in DOMAIN tabs :
           tabs'[u] = IF \E k \in gone : bound[k] = u
                      THEN [tabs[u] EXCEPT !.conn = None] ELSE tabs[u]
  BY <1>1 DEF Unbind
<1>8. \A u \in DOMAIN tabs : TabHolds(tabs[u])
  BY <1>4 DEF TabsFit
<1>9. \A u \in DOMAIN tabs :
        /\ Fades(tabs[u], tabs'[u])
        /\ (\E k \in gone : bound[k] = u) => tabs'[u].conn = None
        /\ ~(\E k \in gone : bound[k] = u) => tabs'[u] = tabs[u]
  <2> SUFFICES ASSUME NEW u \in DOMAIN tabs
               PROVE  /\ Fades(tabs[u], tabs'[u])
                      /\ (\E k \in gone : bound[k] = u) => tabs'[u].conn = None
                      /\ ~(\E k \in gone : bound[k] = u) => tabs'[u] = tabs[u]
    OBVIOUS
  <2>1. CASE \E k \in gone : bound[k] = u
    <3>1. tabs'[u] = [tabs[u] EXCEPT !.conn = None]
      BY <1>7, <2>1
    <3>2. TabHolds(tabs[u])
      BY <1>8
    <3> QED
      BY <2>1, <3>1, <3>2, TabsFades
  <2>2. CASE ~(\E k \in gone : bound[k] = u)
    BY <1>7, <1>8, <2>2, TabsFades
  <2> QED
    BY <2>1, <2>2
<1>10. \A k \in DOMAIN bound : bound[k] \in DOMAIN tabs /\ tabs[bound[k]].port = k[1]
  BY <1>4 DEF TabsFit, KeysHold
<1>11. TabsHold'
  <2>1. \A x \in DOMAIN bound' :
          bound'[x] = bound[x] /\ tabs'[bound[x]].conn = tabs[bound[x]].conn
    BY <1>6, <1>9, <1>10
  <2>2. DOMAIN bound' \subseteq DOMAIN bound
    BY <1>6
  <2> QED
    BY <1>1, <1>3, <1>5, <1>7, <1>9, <2>1, <2>2, TabsFade
<1>12. OnlyOf(p)
  <2>1. \A k : k[1] # p => /\ k \in DOMAIN bound' <=> k \in DOMAIN bound
                           /\ k \in DOMAIN bound => bound'[k] = bound[k]
    BY <1>6
  <2> QED
    BY <1>7, <1>9, <2>1, FadedOnlyOf
<1>13. Unbinds(p, bound, tabs, bound', tabs')
  <2>1. Shown(p, bound') = {}
    BY <1>6 DEF Shown
  <2>2. ASSUME NEW u \in DOMAIN tabs', tabs'[u].port = p, tabs'[u].conn # None
        PROVE  /\ u \in DOMAIN tabs /\ tabs[u].port = p /\ tabs[u].conn = tabs'[u].conn
               /\ \A k \in DOMAIN bound : bound[k] = u => k[1] # p
    BY <1>7, <1>9, <2>2
  <2> QED
    BY <2>1, <2>2 DEF Unbinds
<1>14. PortFits(kind[p], p, Read(p, g), None, bound', tabs', p \in overlapped)
  BY <1>2, <1>3, <1>13, PortEnds
<1> QED
  BY <1>1, <1>3, <1>11, <1>12, <1>14, LetGoSteps

\* Only runners of p change.
LEMMA HandledSteps ==
  ASSUME WInv, IInv', NEW p \in Port, UNCHANGED <<kind, active, overlapped>>,
         NEW rs, runner' = [runner EXCEPT ![p] = rs], TabsHold', OnlyOf(p),
         PortFits(kind[p], p, rs, active[p], bound', tabs', p \in overlapped)
  PROVE  WInv'
<1>1. active' = [active EXCEPT ![p] = active[p]]
  BY DEF WInv, IInv
<1>2. PortFits(kind[p], p, rs, active[p], bound', tabs', p \in overlapped')
  OBVIOUS
<1>3. \A q \in Port : q # p => (q \in overlapped' <=> q \in overlapped)
  OBVIOUS
<1> QED
  BY <1>1, <1>2, <1>3, PortsStep

\* ConnectionClosed.
LEMMA ClosedSteps ==
  ASSUME WInv, IInv', NEW p \in Port, NEW g \in DOMAIN runner[p],
         HandleConnectionClosed(p, g)
  PROVE  WInv'
<1> DEFINE key == <<p, Head(runner[p][g].events).id>>
<1>1. /\ Reading(p, g, "ConnectionClosed")
      /\ bound' = Without(bound, {key})
      /\ tabs' = [t \in DOMAIN tabs |->
                    IF key \in DOMAIN bound /\ bound[key] = t
                    THEN [tabs[t] EXCEPT !.conn = None, !.responder = "none"]
                    ELSE tabs[t]]
      /\ runner' = [runner EXCEPT ![p] = Read(p, g)]
      /\ UNCHANGED <<active, next_tab_id, pending>>
  BY DEF HandleConnectionClosed
<1>2. PICK s : Taken(runner[p][g], s) /\ Read(p, g) = [runner[p] EXCEPT ![g] = s]
  BY <1>1, EventThere
<1>3. /\ IsQueue(runner[p]) /\ Head(runner[p][g].events).ev = "ConnectionClosed"
      /\ PortFits(kind[p], p, runner[p], active[p], bound, tabs, p \in overlapped)
      /\ UNCHANGED <<kind, overlapped>>
  BY <1>1, EventThere
<1>4. TabsFit(kind, next_tab_id, tabs, pending, bound)
  BY DEF WInv, TabsHold
<1>5. DOMAIN bound' = DOMAIN bound \ {key} /\ \A x \in DOMAIN bound' : bound'[x] = bound[x]
  BY <1>1 DEF Without, Restrict
<1>6. key[1] = p
  OBVIOUS
<1> HIDE DEF key
<1>7. \A u \in DOMAIN tabs : TabHolds(tabs[u])
  BY <1>4 DEF TabsFit
<1>8. /\ DOMAIN tabs' = DOMAIN tabs
      /\ \A u \in DOMAIN tabs :
           /\ Fades(tabs[u], tabs'[u])
           /\ key \in DOMAIN bound /\ bound[key] = u => tabs'[u].conn = None
           /\ ~(key \in DOMAIN bound /\ bound[key] = u) => tabs'[u] = tabs[u]
  BY <1>1, <1>7, TabsFades
<1>9. KeysHold(bound, tabs)
  BY <1>4 DEF TabsFit
<1>10. TabsHold'
  <2>1. ASSUME NEW x \in DOMAIN bound'
        PROVE  bound'[x] = bound[x] /\ tabs'[bound[x]].conn = tabs[bound[x]].conn
    <3>1. x \in DOMAIN bound /\ x # key /\ bound'[x] = bound[x] /\ bound[x] \in DOMAIN tabs
      BY <1>5, <1>9, <2>1 DEF KeysHold
    <3>2. CASE key \in DOMAIN bound /\ bound[key] = bound[x]
      <4>1. x = <<x[1], x[2]>> /\ key = <<key[1], key[2]>>
        BY <1>9, <3>1, <3>2 DEF KeysHold
      <4>2. x[1] = key[1] /\ x[2] = key[2]
        BY <1>9, <3>1, <3>2 DEF KeysHold
      <4> QED
        BY <3>1, <4>1, <4>2
    <3>3. CASE ~(key \in DOMAIN bound /\ bound[key] = bound[x])
      BY <1>8, <3>1, <3>3
    <3> QED
      BY <3>2, <3>3
  <2>2. DOMAIN bound' \subseteq DOMAIN bound
    BY <1>5
  <2> QED
    BY <1>1, <1>3, <1>8, <2>1, <2>2, TabsFade
<1>11. OnlyOf(p)
  <2>1. \A k : k[1] # p => /\ k \in DOMAIN bound' <=> k \in DOMAIN bound
                           /\ k \in DOMAIN bound => bound'[k] = bound[k]
    BY <1>5, <1>6
  <2> QED
    BY <1>8, <2>1, FadedOnlyOf
<1>12. Unhooks(p, key, bound, tabs, bound', tabs')
  BY <1>5, <1>8 DEF Unhooks, Fades
<1>13. PortFits(kind[p], p, Read(p, g), active[p], bound', tabs', p \in overlapped)
  BY <1>2, <1>3, <1>9, <1>12, PortCloses DEF key
<1> QED
  BY <1>1, <1>3, <1>10, <1>11, <1>13, HandledSteps

\* A line that signs off.
LEMMA SignedOffSteps ==
  ASSUME WInv, IInv', NEW p \in Port, NEW g \in DOMAIN runner[p], HandleSignOff(p, g)
  PROVE  WInv'
<1> DEFINE key == <<p, Head(runner[p][g].events).id>>
           driven == {t \in DOMAIN tabs : /\ key \in DOMAIN bound /\ bound[key] = t
                                          /\ tabs[t].responder # "none"}
<1>1. /\ Reading(p, g, "SignOff")
      /\ tabs' = [t \in DOMAIN tabs |->
                    IF t \in driven THEN [tabs[t] EXCEPT !.responder = "none"] ELSE tabs[t]]
      /\ runner' = [runner EXCEPT ![p] =
           IF driven = {} THEN Read(p, g)
           ELSE Command(Read(p, g), active[p], Close(key[2]))]
      /\ UNCHANGED <<active, next_tab_id, pending, bound>>
  BY DEF HandleSignOff
<1> HIDE DEF key, driven
<1>2. PICK s : Taken(runner[p][g], s) /\ Read(p, g) = [runner[p] EXCEPT ![g] = s]
  BY <1>1, EventThere
<1>3. /\ IsQueue(runner[p]) /\ Head(runner[p][g].events).ev = "SignOff"
      /\ Held(Read(p, g), active[p])
      /\ PortFits(kind[p], p, runner[p], active[p], bound, tabs, p \in overlapped)
      /\ UNCHANGED <<kind, overlapped>>
  BY <1>1, EventThere
<1>4. PortFits(kind[p], p, Read(p, g), active[p], bound, tabs, p \in overlapped)
  BY <1>2, <1>3, PortHears
<1>5. \A u \in DOMAIN tabs : TabHolds(tabs[u])
  BY DEF WInv, TabsHold, TabsFit
<1>6. /\ DOMAIN tabs' = DOMAIN tabs
      /\ \A u \in DOMAIN tabs : Fades(tabs[u], tabs'[u]) /\ tabs'[u].conn = tabs[u].conn
  BY <1>1, <1>5, TabsFades
<1>7. \A k \in DOMAIN bound : bound[k] \in DOMAIN tabs
  BY DEF WInv, TabsHold, TabsFit, KeysHold
<1>8. TabsHold'
  BY <1>1, <1>3, <1>6, <1>7, TabsFade
<1>9. OnlyOf(p)
  BY <1>1, <1>6, FadedOnlyOf
<1>10. Rests(p, bound, tabs, bound', tabs')
  BY <1>1, <1>6 DEF Rests, Fades
<1>11. PICK rs : runner' = [runner EXCEPT ![p] = rs] /\ Commanded(Read(p, g), rs)
  <2>1. Commanded(Read(p, g), Read(p, g))
    BY <1>3 DEF Commanded, SameButCommands, Held
  <2>2. Commanded(Read(p, g), Command(Read(p, g), active[p], Close(key[2])))
    BY <1>3, CommandCommands
  <2> QED
    BY <1>1, <2>1, <2>2
<1>12. PortFits(kind[p], p, rs, active[p], bound, tabs, p \in overlapped)
  BY <1>4, <1>11, PortCommanded
<1>13. PortFits(kind[p], p, rs, active[p], bound', tabs', p \in overlapped)
  BY <1>10, <1>12, PortRests
<1> QED
  BY <1>1, <1>3, <1>8, <1>9, <1>11, <1>13, HandledSteps

\* A tab comes to show a connection: the one that dialed it, or a new one.
LEMMA TabShows ==
  ASSUME WInv, kind' = kind, NEW p, NEW id, id # None, NEW key,
         NEW t, NEW tab, TabHolds(tab), tab.port = p, tab.conn = id,
         \/ /\ t \in DOMAIN tabs /\ key = KeyOf(kind, tabs[t]) /\ tabs[t].conn = None
            /\ next_tab_id' = next_tab_id
         \/ t = next_tab_id /\ next_tab_id' = next_tab_id + 1,
         tabs' = With(tabs, t, tab), bound' = With(bound, <<p, id>>, t),
         pending' = Without(pending, {key})
  PROVE  TabsHold' /\ OnlyOf(p) /\ Binds(p, id, t, bound, tabs, bound', tabs')
<1>1. TabsFit(kind, next_tab_id, tabs, pending, bound)
  BY DEF WInv, TabsHold
<1>2. next_tab_id \in Nat /\ \A u \in DOMAIN tabs : u \in Nat /\ u < next_tab_id /\ TabHolds(tabs[u])
  BY <1>1 DEF TabsFit
<1>3. /\ DOMAIN tabs' = DOMAIN tabs \cup {t} /\ tabs'[t] = tab
      /\ \A u \in DOMAIN tabs : u # t => tabs'[u] = tabs[u]
  BY DEF With
<1> DEFINE k2 == <<p, id>>
<1>4. /\ DOMAIN bound' = DOMAIN bound \cup {k2} /\ bound'[k2] = t
      /\ \A k \in DOMAIN bound : k # k2 => bound'[k] = bound[k]
  BY DEF With
<1>5. DOMAIN pending' = DOMAIN pending \ {key} /\ \A x \in DOMAIN pending' : pending'[x] = pending[x]
  BY DEF Without, Restrict
<1>6. k2 = <<k2[1], k2[2]>> /\ k2[1] = p /\ k2[2] = id
  OBVIOUS
<1> HIDE DEF k2
<1>7. /\ next_tab_id' \in Nat
      /\ \A u \in DOMAIN tabs' : u \in Nat /\ u < next_tab_id' /\ TabHolds(tabs'[u])
  BY <1>2, <1>3
<1>8. t \in DOMAIN tabs => tabs[t].conn = None /\ key = KeyOf(kind, tabs[t])
  BY <1>2
<1>9. ASSUME NEW x \in DOMAIN pending'
      PROVE  /\ pending'[x] \in DOMAIN tabs' /\ tabs'[pending'[x]].conn = None
             /\ x = KeyOf(kind, tabs'[pending'[x]])
  <2>1. /\ pending[x] \in DOMAIN tabs /\ tabs[pending[x]].conn = None /\ x # key
        /\ x = KeyOf(kind, tabs[pending[x]]) /\ pending'[x] = pending[x]
    BY <1>1, <1>5, <1>9 DEF TabsFit
  <2> QED
    BY <1>3, <1>8, <2>1
<1>10. KeysHold(bound', tabs')
  <2> SUFFICES ASSUME NEW k \in DOMAIN bound'
               PROVE  /\ k = <<k[1], k[2]>> /\ bound'[k] \in DOMAIN tabs'
                      /\ tabs'[bound'[k]].port = k[1] /\ tabs'[bound'[k]].conn = k[2]
                      /\ k[2] # None
    BY DEF KeysHold
  <2>1. CASE k = k2
    BY <1>3, <1>4, <1>6, <2>1
  <2>2. CASE k # k2
    <3>1. k \in DOMAIN bound /\ bound'[k] = bound[k]
      BY <1>4, <2>2
    <3>2. /\ k = <<k[1], k[2]>> /\ bound[k] \in DOMAIN tabs
          /\ tabs[bound[k]].port = k[1] /\ tabs[bound[k]].conn = k[2] /\ k[2] # None
      BY <1>1, <3>1 DEF TabsFit, KeysHold
    <3> QED
      BY <1>3, <1>8, <3>1, <3>2
  <2> QED
    BY <2>1, <2>2
<1>11. TabsHold'
  <2>1. TabsFit(kind, next_tab_id', tabs', pending', bound')
    BY <1>7, <1>9, <1>10 DEF TabsFit
  <2> QED
    BY <2>1 DEF TabsHold
<1>12. OnlyOf(p)
  BY <1>3, <1>4, <1>6 DEF OnlyOf
<1>13. Binds(p, id, t, bound, tabs, bound', tabs')
  BY <1>3, <1>4 DEF Binds, k2
<1> QED
  BY <1>11, <1>12, <1>13

\* ConnectionOpened.
LEMMA OpenedSteps ==
  ASSUME WInv, IInv', NEW p \in Port, NEW g \in DOMAIN runner[p],
         HandleConnectionOpened(p, g)
  PROVE  WInv'
<1> DEFINE e == Head(runner[p][g].events)
           key == PendingKey(p, e.node)
           dialed == key \in DOMAIN pending
           t == IF dialed THEN pending[key] ELSE next_tab_id
           old == IF dialed THEN tabs[t] ELSE NewTab(p, e.node)
           answer == IF port_supports_connect(p) /\ ~dialed THEN Answer[p] ELSE "none"
           responder == IF answer = "none" THEN old.responder ELSE answer
           tab == [old EXCEPT !.conn = e.id, !.responder = responder]
<1>1. /\ Reading(p, g, "ConnectionOpened")
      /\ tabs' = With(tabs, t, tab)
      /\ next_tab_id' = IF dialed THEN next_tab_id ELSE next_tab_id + 1
      /\ pending' = Without(pending, {key})
      /\ bound' = With(bound, <<p, e.id>>, t)
      /\ runner' = [runner EXCEPT ![p] = Read(p, g)]
      /\ UNCHANGED <<active, confirmed>>
  BY DEF HandleConnectionOpened
<1>2. PICK s : Taken(runner[p][g], s) /\ Read(p, g) = [runner[p] EXCEPT ![g] = s]
  BY <1>1, EventThere
<1>3. /\ IsQueue(runner[p]) /\ Honest(runner[p][g])
      /\ e \in Range(runner[p][g].events) /\ e.ev = "ConnectionOpened"
      /\ PortFits(kind[p], p, runner[p], active[p], bound, tabs, p \in overlapped)
      /\ UNCHANGED <<kind, overlapped>>
  BY <1>1, EventThere
<1> HIDE DEF e
<1>4. TabsFit(kind, next_tab_id, tabs, pending, bound)
  BY DEF WInv, TabsHold
<1>5. e.id # None
  <2>1. e.id \in Announced(runner[p][g].events)
    BY <1>3 DEF Announced, IsOpened, Range
  <2>2. e.id \in DOMAIN runner[p][g].conns /\ IsQueue(runner[p][g].conns)
    BY <1>3, <2>1 DEF Honest, ConnsHold
  <2> QED
    BY <2>2, LenProperties DEF IsQueue, None
<1>6. TabHolds(old) /\ old.port = p
  <2>1. CASE dialed
    <3>1. t \in DOMAIN tabs /\ key = KeyOf(kind, tabs[t]) /\ key[1] = p
      BY <1>4, <2>1 DEF TabsFit, PendingKey
    <3> QED
      BY <1>4, <2>1, <3>1 DEF TabsFit, KeyOf
  <2>2. CASE ~dialed
    BY <2>2 DEF NewTab, TabHolds
  <2> QED
    BY <2>1, <2>2
<1>7. \/ /\ t \in DOMAIN tabs /\ key = KeyOf(kind, tabs[t]) /\ tabs[t].conn = None
         /\ next_tab_id' = next_tab_id
      \/ t = next_tab_id /\ next_tab_id' = next_tab_id + 1
  BY <1>1, <1>4 DEF TabsFit
<1> HIDE DEF key, dialed, t, old, responder
<1>8. TabHolds(tab) /\ tab.port = p /\ tab.conn = e.id
  <2> DEFINE u == [old EXCEPT !.conn = e.id]
  <2>1. tab = [u EXCEPT !.responder = responder]
    OBVIOUS
  <2>2. TabHolds(u) /\ u.port = p /\ u.conn = e.id
    BY <1>6, TabFields
  <2> HIDE DEF tab, u
  <2> QED
    BY <2>1, <2>2 DEF TabHolds
<1> HIDE DEF tab
<1>9. TabsHold' /\ OnlyOf(p) /\ Binds(p, e.id, t, bound, tabs, bound', tabs')
  BY <1>1, <1>3, <1>5, <1>7, <1>8, TabShows
<1>10. PortFits(kind[p], p, Read(p, g), active[p], bound', tabs', p \in overlapped)
  BY <1>2, <1>3, <1>9, PortOpens DEF e, IsOpened
<1> QED
  BY <1>1, <1>3, <1>9, <1>10, HandledSteps

\* Whatever event the window handles.
LEMMA HandleFits ==
  ASSUME WInv, IInv', NEW p \in Port, NEW g \in DOMAIN runner[p], Handle(p, g)
  PROVE  WInv'
<1>1. CASE HandlePortConnected(p, g)
  BY <1>1, HeardSteps DEF HandlePortConnected
<1>2. CASE HandlePortError(p, g)
  BY <1>2, HeardSteps, FailedSteps DEF HandlePortError
<1> QED
  BY <1>1, <1>2, DisconnectedSteps, OpenedSteps, ClosedSteps, SignedOffSteps, LoopEndsSteps
  DEF Handle

-----------------------------------------------------------------------------
(* The window shows what there is.                                         *)

\* At first there is nothing.
LEMMA InitFits == Init => WInv
<1> SUFFICES ASSUME Init
             PROVE  WInv
  OBVIOUS
<1>1. IInv
  BY InitHolds
<1>2. DOMAIN <<>> = {}
  OBVIOUS
<1>3. TabsHold
  BY <1>2 DEF Init, TabsHold, TabsFit, KeysHold
<1>4. ASSUME NEW p \in Port
      PROVE  PortFits(kind[p], p, runner[p], active[p], bound, tabs, p \in overlapped)
  <2> DEFINE rs == runner[p]
             b == bound
             tb == tabs
             o == p \in overlapped
  <2>1. DOMAIN rs = {} /\ DOMAIN b = {} /\ DOMAIN tb = {}
    BY <1>2 DEF Init
  <2> HIDE DEF rs, b, tb, o
  <2>2. AllHonest(rs) /\ AllSound(rs)
    BY <2>1 DEF AllHonest, AllSound
  <2>3. PortHolds(p, rs, active[p], b, tb, o)
    BY <2>1 DEF PortHolds, Owed, Alone, Fits, TabsBound, Solo, Shown
  <2>4. PortFits(kind[p], p, rs, active[p], b, tb, o)
    BY <2>2, <2>3 DEF PortFits
  <2> QED
    BY <2>4 DEF rs, b, tb, o
<1> QED
  BY <1>1, <1>3, <1>4 DEF WInv

\* Every step keeps it so.
LEMMA StepFits == WInv /\ [Next]_vars => WInv'
<1> SUFFICES ASSUME WInv, [Next]_vars
             PROVE  WInv'
  OBVIOUS
<1>1. IInv'
  BY StepHolds DEF WInv
<1>2. CASE User
  BY <1>1, <1>2, UserFits
<1>3. ASSUME NEW p \in Port, NEW g \in DOMAIN runner[p], World(p, g) \/ RunnerRuns(p, g)
      PROVE  WInv'
  BY <1>1, <1>3, ThreadSteps
<1>4. ASSUME NEW p \in Port, NEW g \in DOMAIN runner[p], Handle(p, g)
      PROVE  WInv'
  BY <1>1, <1>4, HandleFits
<1>5. CASE UNCHANGED vars
  BY <1>1, <1>5 DEF WInv, TabsHold, vars, tabvars
<1> QED
  BY <1>2, <1>3, <1>4, <1>5 DEF Next

\* A regular port is one whose runners are sound.
LEMMA RegularIsPlain ==
  ASSUME NEW p, Regular(p)
  PROVE  Plain(kind[p], runner[p])
BY DEF Regular, Plain, Range

\* The two records agree.
LEMMA TabsFollow == WInv => TabsFollowConnections
<1> SUFFICES ASSUME WInv
             PROVE  TabsFollowConnections
  OBVIOUS
<1>1. TabsFit(kind, next_tab_id, tabs, pending, bound)
  BY DEF WInv, TabsHold
<1>2. \A k \in DOMAIN bound :
        /\ bound[k] \in DOMAIN tabs
        /\ tabs[bound[k]].port = k[1] /\ tabs[bound[k]].conn = k[2]
  BY <1>1 DEF TabsFit, KeysHold
<1>3. ASSUME NEW t \in DOMAIN tabs, NEW p, p = tabs[t].port, tabs[t].conn # None,
             Regular(p), p \notin overlapped
      PROVE  <<p, tabs[t].conn>> \in DOMAIN bound /\ bound[<<p, tabs[t].conn>>] = t
  <2>1. p \in Port
    BY <1>1, <1>3 DEF TabsFit, TabHolds
  <2>2. Plain(kind[p], runner[p])
    BY <1>3, RegularIsPlain
  <2>3. PortHolds(p, runner[p], active[p], bound, tabs, p \in overlapped)
    BY <2>1, <2>2 DEF WInv, PortFits
  <2>4. TabsBound(p, bound, tabs)
    BY <1>3, <2>3 DEF PortHolds
  <2> QED
    BY <1>3, <2>4 DEF TabsBound
<1> QED
  BY <1>2, <1>3 DEF TabsFollowConnections

\* And where nothing is under way they show the connections there are.
LEMMA QuietShows == WInv => QuietTabsAreTrue
<1> SUFFICES ASSUME WInv, NEW p \in Port, Quiet(p), Regular(p)
             PROVE  LET up == {r \in Range(runner[p]) : r.phase = "up"}
                        shown == {k[2] : k \in {b \in DOMAIN bound : b[1] = p}}
                    IN  /\ \A id \in shown : \E r \in up :
                             id \in DOMAIN r.conns /\ r.conns[id].st # "closed"
                        /\ \A r \in up :
                             {id \in DOMAIN r.conns : r.conns[id].st \in Live} \subseteq shown
  BY DEF QuietTabsAreTrue
<1> DEFINE rs == runner[p]
           a == active[p]
           up == {r \in Range(rs) : r.phase = "up"}
           shown == {k[2] : k \in {b \in DOMAIN bound : b[1] = p}}
<1>1. Held(rs, a)
  BY DEF WInv, IInv
<1>2. Plain(kind[p], rs)
  BY RegularIsPlain
<1>3. PortHolds(p, rs, a, bound, tabs, p \in overlapped)
  BY <1>2 DEF WInv, PortFits
<1>4. \A g \in DOMAIN rs :
        rs[g].phase \in {"up", "joined"} /\ rs[g].events = <<>> /\ rs[g].cmds = <<>>
  BY DEF Quiet, Range
<1>5. Range(<<>>) = {} /\ Announced(<<>>) = {}
  BY EmptySeq DEF Range, Announced
<1> HIDE DEF rs, a
<1>6. CASE \E g \in DOMAIN rs : rs[g].phase = "up"
  <2>1. \A g \in DOMAIN rs : rs[g].phase = "up" => g = a
    BY <1>1, <1>4, <1>5 DEF Held, Doomed, Running
  <2>2. Solo(rs, a) /\ rs[a].phase = "up"
    BY <1>4, <1>6, <2>1 DEF Solo
  <2>3. Faithful(p, rs[a], bound)
    BY <1>3, <2>2 DEF PortHolds
  <2>4. a \in DOMAIN rs /\ rs[a] \in up /\ \A r \in up : r = rs[a]
    BY <2>1, <2>2 DEF Solo, Range
  <2>5. rs[a].events = <<>> /\ rs[a].cmds = <<>>
    BY <1>4, <2>4
  <2>6. ASSUME NEW id \in shown
        PROVE  id \in DOMAIN rs[a].conns /\ rs[a].conns[id].st # "closed"
    BY <1>5, <2>3, <2>5 DEF Faithful, Shown
  <2>7. ASSUME NEW id \in DOMAIN rs[a].conns, rs[a].conns[id].st \in Live
        PROVE  id \in shown
    <3>1. <<p, id>> \in DOMAIN bound
      BY <1>5, <2>2, <2>3, <2>5, <2>7 DEF Faithful
    <3> QED
      BY <3>1
  <2>8. \A id \in shown : \E r \in up : id \in DOMAIN r.conns /\ r.conns[id].st # "closed"
    BY <2>4, <2>6
  <2>9. \A r \in up : {id \in DOMAIN r.conns : r.conns[id].st \in Live} \subseteq shown
    BY <2>4, <2>7
  <2> QED
    BY <2>8, <2>9 DEF rs
<1>7. CASE ~(\E g \in DOMAIN rs : rs[g].phase = "up")
  <2>1. up = {}
    BY <1>7 DEF Range
  <2>2. ~(\E g \in DOMAIN rs : Owes(rs[g]))
    BY <1>4, <1>5, <1>7 DEF Owes
  <2>3. Shown(p, bound) = {}
    BY <1>3, <2>2 DEF PortHolds, Owed
  <2>4. shown = {}
    BY <2>3 DEF Shown
  <2> QED
    BY <2>1, <2>4 DEF rs
<1> QED
  BY <1>6, <1>7

\* No order of dials, connects, closed tabs, late events and ends of event
\* loops makes a tab show a connection whose end it will not hear of, or leads
\* an event to a tab that shows another, on a port whose runners have not
\* overlapped (window.rs:1374, 1313).
THEOREM RecordsOfConnectionsAgree == Spec => []TabsFollowConnections
<1>1. Init => WInv
  BY InitFits
<1>2. WInv /\ [Next]_vars => WInv'
  BY StepFits
<1>3. WInv => TabsFollowConnections
  BY TabsFollow
<1> QED
  BY <1>1, <1>2, <1>3, PTL DEF Spec

\* Where nothing is under way between a port's runners and the window, its tabs
\* show the connections there are and no other, however often the port was
\* started and whatever arrived late in between (window.rs:1302).
THEOREM TabsComeToShowTheConnections == Spec => []QuietTabsAreTrue
<1>1. Init => WInv
  BY InitFits
<1>2. WInv /\ [Next]_vars => WInv'
  BY StepFits
<1>3. WInv => QuietTabsAreTrue
  BY QuietShows
<1> QED
  BY <1>1, <1>2, <1>3, PTL DEF Spec
=============================================================================

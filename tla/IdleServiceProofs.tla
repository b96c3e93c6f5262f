--------------------------- MODULE IdleServiceProofs ---------------------------
(***************************************************************************)
(* The idle service, proved for every set of behaviours, configurations,   *)
(* clients and capacity and any number of calls, losses and absences.      *)
(*                                                                         *)
(* The invariant has one part per concern, and each part is preserved      *)
(* with the help of those before it:                                       *)
(*   Control     the supervisor, the lifecycle and where the threads are   *)
(*   Data        the mailbox, the channel, the configuration, the grace    *)
(*   Reported    completions on their way were reported by an overlay      *)
(*   Fires       which grace periods have fired, and why                   *)
(*   Arms        which notifications the compositor watches                *)
(*   Whole       logind's inhibitor is not shared between paths            *)
(*   Flight      at most one D-Bus command is between channel and service  *)
(*   Agree       what the commands on their way leave of the inhibitors    *)
(*   Ticketed    tickets wait in one place and are answered after it       *)
(*   Counted     how many tickets there can be                             *)
(***************************************************************************)
EXTENDS IdleService, FiniteSetTheorems, TLAPS

-----------------------------------------------------------------------------
(***************************************************************************)
(* The supervisor record keeps its type under the calls that the service   *)
(* makes.                                                                  *)
(***************************************************************************)
Sound(s) == s \in Supervisor /\ IsFiniteSet(s.failures)

\* reconnect_backoff_ms is a natural number of milliseconds for any attempt.
LEMMA BackoffIsNat ==
  ASSUME NEW attempt \in Nat
  PROVE  ReconnectBackoffMs(attempt) \in Nat
<1> DEFINE e == IF SatSub(attempt, 1) < 7 THEN SatSub(attempt, 1) ELSE 7
<1>1. e \in 0..7
  BY DEF SatSub
<1>2. PowersOfTwo[e + 1] \in Nat
  BY <1>1 DEF PowersOfTwo
<1>3. InitialBackoffMs * PowersOfTwo[e + 1] \in Nat
  BY <1>2, SupervisorConstants
<1>4. QED
  BY <1>3, SupervisorConstants DEF ReconnectBackoffMs

LEMMA FailureIsSound ==
  ASSUME NEW s, Sound(s), NEW t \in Nat
  PROVE  Sound(RecordFailure(s, t))
<1> DEFINE new  == [n |-> s.recorded + 1, at |-> t]
           kept == Retained(s, t) \cup {new}
<1>1. /\ s \in Supervisor /\ s.recorded \in Nat /\ s.failures \subseteq Failure
      /\ new \in Failure
  BY DEF Sound, Supervisor, Failure
<1>2. kept \subseteq Failure /\ Retained(s, t) \in SUBSET s.failures
  BY <1>1 DEF Retained
<1>3. IsFiniteSet(kept)
  BY <1>2, FS_Subset, FS_AddElement DEF Sound
<1>4. Cardinality(kept) \in Nat
  BY <1>3, FS_CardinalityType
<1>5. ReconnectBackoffMs(Cardinality(kept)) \in Nat
  BY <1>4, BackoffIsNat
<1>6. RecordFailure(s, t).failures = kept
  BY DEF RecordFailure
<1>7. RecordFailure(s, t) \in Supervisor
  BY <1>1, <1>2, <1>4, <1>5 DEF RecordFailure, Supervisor, SupervisorStates, NoTime
<1>8. QED
  BY <1>3, <1>6, <1>7 DEF Sound

LEMMA RestartIsSound ==
  ASSUME NEW s, Sound(s), NEW t \in Nat
  PROVE  /\ Sound(MarkStarting(s)) /\ Sound(MarkRunning(s, t))
         /\ Sound(Tick(s, t)) /\ Sound(ResetQuarantine(s))
<1>1. s \in Supervisor /\ IsFiniteSet(s.failures) /\ IsFiniteSet({})
  BY FS_EmptySet DEF Sound
<1>2. /\ MarkStarting(s) \in Supervisor /\ MarkStarting(s).failures = s.failures
      /\ MarkRunning(s, t) \in Supervisor /\ MarkRunning(s, t).failures = s.failures
  BY <1>1 DEF MarkStarting, MarkRunning, Supervisor, SupervisorStates
<1>3. Sound(Tick(s, t))
  <2>1. CASE Tick(s, t) = MarkStarting(s) \/ Tick(s, t) = s
    BY <2>1, <1>1, <1>2 DEF Sound
  <2>2. CASE Tick(s, t) = [s EXCEPT !.failures = {}]
    BY <2>2, <1>1 DEF Sound, Supervisor
  <2>3. QED
    BY <2>1, <2>2 DEF Tick
<1>4. Sound(ResetQuarantine(s))
  <2>1. CASE s.st = "Quarantined"
    <3>1. [MarkStarting(s) EXCEPT !.failures = {}, !.since = NoTime] \in Supervisor
          /\ [MarkStarting(s) EXCEPT !.failures = {}, !.since = NoTime].failures = {}
      BY <1>2 DEF Supervisor, NoTime
    <3>2. QED
      BY <2>1, <3>1, <1>1 DEF ResetQuarantine, Sound
  <2>2. QED
    BY <2>1 DEF ResetQuarantine
<1>5. QED
  BY <1>1, <1>2, <1>3, <1>4 DEF Sound

-----------------------------------------------------------------------------
(***************************************************************************)
(* The notification ids.                                                   *)
(***************************************************************************)
\* The ids are the ranks of the enabled behaviours' names: the n-th name has
\* rank n, because ranks differ and there are as many as names.
LEMMA IdsOfProperties ==
  ASSUME NEW on \in SUBSET Behaviors
  PROVE  IdsOf(on) \in [1..Cardinality(on) -> on]
<1> DEFINE upTo(b) == {c \in on : c <= b}
           rank == [b \in on |-> Cardinality(upTo(b))]
           n == Cardinality(on)
<1>1. IsFiniteSet(on) /\ n \in Nat /\ on \subseteq Nat
  BY IdleConstants, FS_Subset, FS_CardinalityType
<1>2. ASSUME NEW b \in on
      PROVE  IsFiniteSet(upTo(b)) /\ Cardinality(upTo(b)) \in 1..n /\ b \in upTo(b)
  <2>1. upTo(b) \in SUBSET on /\ b \in upTo(b)
    BY <1>1
  <2>2. IsFiniteSet(upTo(b)) /\ Cardinality(upTo(b)) <= n
    BY <2>1, <1>1, FS_Subset
  <2>3. Cardinality(upTo(b)) # 0 /\ Cardinality(upTo(b)) \in Nat
    BY <2>1, <2>2, FS_EmptySet, FS_CardinalityType
  <2>4. QED
    BY <2>1, <2>2, <2>3, <1>1
<1>3. ASSUME NEW b \in on, NEW d \in on, b < d
      PROVE  Cardinality(upTo(b)) # Cardinality(upTo(d))
  <2>1. upTo(b) \in SUBSET upTo(d) /\ d \notin upTo(b) /\ d \in upTo(d)
    <3>1. b \in Nat /\ d \in Nat /\ ~(d <= b) /\ d <= d
      BY <1>1, <1>3
    <3>2. \A c \in on : c \in Nat /\ (c <= b => c <= d)
      BY <1>1, <1>3, <3>1
    <3>3. QED
      BY <3>1, <3>2
  <2>2. IsFiniteSet(upTo(d))
    BY <1>2
  <2> HIDE DEF upTo
  <2>3. QED
    BY <2>1, <2>2, FS_Subset
<1>4. rank \in [on -> 1..n]
  BY <1>2
<1>5. \A b, d \in on : rank[b] = rank[d] => b = d
  <2>1. TAKE b, d \in on
  <2>2. b \in Nat /\ d \in Nat
    BY <1>1
  <2>3. b < d \/ d < b \/ b = d
    BY <2>2
  <2>4. QED
    BY <2>3, <1>3
<1> HIDE DEF rank
<1>6. rank \in Injection(on, 1..n)
  BY <1>4, <1>5 DEF Injection, IsInjective
<1>7. IsFiniteSet(1..n) /\ Cardinality(1..n) = n
  BY <1>1, FS_Interval
<1>8. rank \in Surjection(on, 1..n)
  BY <1>6, <1>7, FS_Injection
<1>9. \A i \in 1..n : \E b \in on : Cardinality({c \in on : c <= b}) = i
  <2>1. \A i \in 1..n : \E b \in on : rank[b] = i
    BY <1>8 DEF Surjection
  <2>2. QED
    BY <2>1 DEF rank
<1>10. QED
  BY <1>9 DEF IdsOf

-----------------------------------------------------------------------------
(***************************************************************************)
(* Control.                                                                *)
(***************************************************************************)
Lifecycles == {"Unavailable", "Connecting", "Reconnecting", "Ready"}
Places == {"boot", "booting", "select", "fail", "recover", "started", "tick", "process"}

Control ==
  /\ Sound(sup) /\ now \in Nat /\ gen \in Nat /\ prior \in BOOLEAN
  /\ life \in Lifecycles /\ pc \in Places /\ caller \in {"none", "submitted"}

\* The steps that leave control alone, but for the place of a thread.
LEMMA PlaceKeepsControl ==
  ASSUME Control, UNCHANGED <<sup, now, gen, prior, life>>,
         pc' \in Places, caller' \in {"none", "submitted"}
  PROVE  Control'
  BY DEF Control

\* Every step keeps the supervisor and the threads in order.
LEMMA NextKeepsControl == Control /\ [Next]_vars => Control'
<1> SUFFICES ASSUME Control, [Next]_vars PROVE Control'
  OBVIOUS
<1>0. /\ Sound(sup) /\ now \in Nat /\ gen \in Nat /\ prior \in BOOLEAN
      /\ life \in Lifecycles /\ pc \in Places /\ caller \in {"none", "submitted"}
      /\ NotReady \in Lifecycles
  BY DEF Control, NotReady, Lifecycles
<1>1. CASE Start
  <2>1. ASSUME NEW from, NEW to \in Places, BeginStart(from, to)
        PROVE  Control'
    <3>1. /\ sup' = MarkStarting(sup) /\ gen' = gen + 1 /\ life' = NotReady /\ pc' = to
          /\ UNCHANGED <<now, prior, caller>>
      BY <2>1 DEF BeginStart, user
    <3>2. QED
      BY <3>1, <1>0, RestartIsSound DEF Control
  <2>2. ASSUME NEW from, NEW to \in Places, MarkReady(from, to)
        PROVE  Control'
    <3>1. /\ sup' = MarkRunning(sup, now) /\ gen' = gen /\ life' = "Ready" /\ pc' = to
          /\ prior' = TRUE /\ UNCHANGED <<now, caller>>
      BY <2>2 DEF MarkReady, user
    <3>2. QED
      BY <3>1, <1>0, RestartIsSound DEF Control, Lifecycles
  <2>3. QED
    BY <1>1, <2>1, <2>2 DEF Start, Places
<1>2. CASE TickRead
  BY <1>2, <1>0, PlaceKeepsControl DEF TickRead, Reconcile, Places, domain, user
<1>3. CASE TickFail
  <2>1. /\ sup' = RecordFailure(sup, now) /\ UNCHANGED <<now, gen, prior, caller>>
        /\ life' \in {"Unavailable", "Reconnecting"} /\ pc' = "tick"
    BY <1>3 DEF TickFail, user
  <2>2. QED
    BY <2>1, <1>0, FailureIsSound DEF Control, Lifecycles, Places
<1>4. CASE TickTick
  <2>1. /\ sup' = Tick(sup, now) /\ UNCHANGED <<now, prior, caller>>
        /\ gen' \in {gen, gen + 1} /\ life' \in {NotReady, life} /\ pc' = "select"
    BY <1>4 DEF TickTick, user
  <2>2. Sound(sup') /\ gen' \in Nat /\ life' \in Lifecycles /\ pc' \in Places
    BY <2>1, <1>0, RestartIsSound DEF Places
  <2>3. QED
    BY <2>1, <2>2, <1>0 DEF Control
<1>5. CASE ProcessItem
  <2>1. /\ sup' \in {sup, ResetQuarantine(sup)}
        /\ UNCHANGED <<now, gen, prior, life, pc, caller>>
    BY <1>5 DEF ProcessItem, ApplyConfigure, ApplyInhibit, ApplyRelease, ApplyDone, ApplyOther, user
  <2>2. QED
    BY <2>1, <1>0, RestartIsSound DEF Control
<1>6. CASE PortReset
  <2>1. /\ sup' = ResetQuarantine(sup) /\ life' = NotReady
        /\ UNCHANGED <<now, gen, prior, pc, caller>>
    BY <1>6 DEF PortReset, user, tasks
  <2>2. QED
    BY <2>1, <1>0, RestartIsSound DEF Control
<1>7. CASE Advance
  BY <1>7, <1>0 DEF Advance, Control, domain, tasks
<1>8. CASE HandleEvent
  BY <1>8, <1>0, PlaceKeepsControl DEF HandleEvent, domain, tasks, user
<1>9. CASE LoopSubmit \/ LoopProcess \/ CallProcess \/ \E cmd \in Calls : CallSubmit(cmd)
  BY <1>9, <1>0, PlaceKeepsControl
  DEF LoopSubmit, LoopProcess, CallProcess, CallSubmit, Places, domain, user
<1>10. CASE Clients
  BY <1>10, <1>0, PlaceKeepsControl
  DEF Clients, ClientInhibit, ClientUnInhibit, ClientGone, LogindChange, Send, domain, tasks, user
<1>11. CASE Wayland
  BY <1>11, <1>0, PlaceKeepsControl
  DEF Wayland, WaylandApply, WaylandEvent, WaylandLost, WaylandConnect, Emit, domain, tasks, user
<1>12. CASE UserMoves \/ UNCHANGED vars
  BY <1>12, <1>0, PlaceKeepsControl DEF UserMoves, vars, domain, tasks, user
<1>13. QED
  BY <1>1, <1>2, <1>3, <1>4, <1>5, <1>6, <1>7, <1>8, <1>9, <1>10, <1>11, <1>12
  DEF Next, SupervisorTask, Shell

-----------------------------------------------------------------------------
(***************************************************************************)
(* Data.                                                                   *)
(***************************************************************************)
Command ==
  {c \in [op : {"configure", "inhibit", "uninhibit", "clear", "done", "cancel", "reset"},
          arg : Config \cup Source \cup Senders \cup Nat] : CommandType(c)}

Item == [id : Nat, cmd : Command, gen : Nat]

\* D-Bus commands come from the command channel, the others from the shell.
Dbus == {"inhibit", "uninhibit", "clear"}

DbusCommand == {c \in Command : c.op \in Dbus}

Mailed ==
  /\ queue \in Seq(Item) /\ nextId \in Nat \ {0}
  /\ held = NoHold \/ held \in [by : {"loop", "caller"}, items : Seq(Item) \ {<<>>}]
  /\ ~Unlocked => queue = <<>>
  /\ cmdChan \in Seq(DbusCommand)

Grace == [gen : Nat, members : SUBSET Behaviors, deadline : Nat]

Configured ==
  /\ config \in Config
  /\ idMap = <<>> \/ idMap = IdsOf(config.on)
  /\ grace \in Grace /\ graceGen \in Nat
  /\ grace = NoGrace \/ (grace.gen = graceGen /\ grace.members # {}
                         /\ grace.members \subseteq config.on)

Grant == [path : Paths \cup {"logind"}, src : Source]

Surroundings ==
  /\ inhibitors \subseteq Source /\ granted \subseteq Grant
  /\ nextCookie \in [Paths -> Nat \ {0}]
  /\ notes \in [DOMAIN notes -> {"armed", "idled"}]

Data == Mailed /\ Configured /\ Surroundings

\* What a configuration, an inhibitor and the like are as commands.
LEMMA CommandForms ==
  /\ \A c \in Config : Cmd("configure", c) \in Command
  /\ \A g \in Nat : Cmd("done", g) \in Command
  /\ Cmd("cancel", 0) \in Command /\ Cmd("reset", 0) \in Command
  /\ \A s \in Source : Cmd("inhibit", s) \in DbusCommand /\ Cmd("uninhibit", s) \in DbusCommand
  /\ \A s \in Senders : Cmd("clear", s) \in DbusCommand
  BY DEF Cmd, Command, CommandType, DbusCommand, Dbus

LEMMA CommandFields ==
  ASSUME NEW c \in Command
  PROVE  /\ c.op = "configure" => c.arg \in Config
         /\ c.op \in {"inhibit", "uninhibit"} => c.arg \in Source
         /\ c.op = "clear" => c.arg \in Senders
         /\ c.op \in {"done", "cancel", "reset"} => c.arg \in Nat
  BY DEF Command, CommandType

\* Enqueueing keeps the items but those that are superseded, each once, and
\* puts the new one behind them: m tells where an item was before.
Kept(it, q, m, S) ==
  /\ S \subseteq 1..Len(queue) /\ m \in [1..Len(q) -> (1..Len(queue)) \ S]
  /\ \A i \in 1..Len(q) : q[i] = queue[m[i]]
  /\ \A i, j \in 1..Len(q) : m[i] = m[j] => i = j
  /\ \A j \in (1..Len(queue)) \ S : \E i \in 1..Len(q) : m[i] = j
  /\ \A j \in S : queue[j].cmd.op = "configure"
  /\ queue' = Append(q, it)
  /\ outcomes' = outcomes \cup {Result(queue[j], "Superseded") : j \in S}

LEMMA EnqueueKeeps ==
  ASSUME queue \in Seq(Item), NEW it \in Item, Enqueued(it)
  PROVE  \E q \in Seq(Item) : \E m, S : Kept(it, q, m, S)
<1>0. Len(queue) \in Nat /\ \A i \in 1..Len(queue) : queue[i] \in Item
  OBVIOUS
<1>1. CASE queue' = Append(queue, it) /\ UNCHANGED outcomes
  <2> DEFINE m == [i \in 1..Len(queue) |-> i]
  <2>1. m \in [1..Len(queue) -> (1..Len(queue)) \ {}] /\ \A i \in 1..Len(queue) : m[i] = i
    OBVIOUS
  <2> HIDE DEF m
  <2>2. Kept(it, queue, m, {})
    BY <1>1, <2>1 DEF Kept
  <2>3. QED
    BY <2>2
<1>2. CASE \E k \in Replaceable(it.cmd) :
             /\ queue' = Append(Without(k), it)
             /\ outcomes' = outcomes \cup {Result(queue[k], "Superseded")}
  <2>1. PICK k \in 1..Len(queue) :
          /\ queue[k].cmd.op = "configure"
          /\ queue' = Append(Without(k), it)
          /\ outcomes' = outcomes \cup {Result(queue[k], "Superseded")}
    BY <1>2 DEF Replaceable
  <2> DEFINE n == Len(queue) - 1
             q == [j \in 1..n |-> IF j < k THEN queue[j] ELSE queue[j + 1]]
             m == [j \in 1..n |-> IF j < k THEN j ELSE j + 1]
  <2>2. n \in Nat
    BY <1>0
  <2>3. \A j \in 1..n : (IF j < k THEN queue[j] ELSE queue[j + 1]) \in Item
    BY <1>0
  <2>4. q \in Seq(Item) /\ Len(q) = n /\ Without(k) = q
    BY <2>2, <2>3 DEF Without
  <2>5. m \in [1..n -> (1..Len(queue)) \ {k}]
    BY <1>0
  <2>6. \A j \in 1..n : q[j] = queue[m[j]]
    OBVIOUS
  <2>7. \A i, j \in 1..n : m[i] = m[j] => i = j
    BY <1>0
  <2>8. \A j \in (1..Len(queue)) \ {k} : \E i \in 1..n : m[i] = j
    <3>1. TAKE j \in (1..Len(queue)) \ {k}
    <3>2. CASE j < k
      <4>1. j \in 1..n /\ m[j] = j
        BY <3>2, <1>0
      <4>2. QED
        BY <4>1
    <3>3. CASE j > k
      <4>1. j - 1 \in 1..n /\ m[j - 1] = j
        BY <3>3, <1>0
      <4>2. QED
        BY <4>1
    <3>4. QED
      BY <3>2, <3>3, <1>0
  <2> HIDE DEF m, q, n
  <2>9. Kept(it, q, m, {k})
    BY <2>1, <2>4, <2>5, <2>6, <2>7, <2>8 DEF Kept
  <2>10. QED
    BY <2>4, <2>9
<1>3. QED
  BY <1>1, <1>2 DEF Enqueued

\* A refused call changes nothing, an accepted one the queue.
LEMMA AcceptedMails ==
  ASSUME Control, Mailed, Unlocked, NEW cmd \in Command, Accepted(cmd)
  PROVE  /\ queue' \in Seq(Item) /\ nextId' \in Nat \ {0}
         /\ \E q \in Seq(Item) : \E m, S :
              Kept([id |-> nextId, cmd |-> cmd, gen |-> gen], q, m, S)
<1> DEFINE it == [id |-> nextId, cmd |-> cmd, gen |-> gen]
<1>1. it \in Item /\ queue \in Seq(Item)
  BY DEF Control, Mailed, Item
<1>2. PICK q \in Seq(Item) : \E m, S : Kept(it, q, m, S)
  BY <1>1, EnqueueKeeps DEF Accepted
<1>3. queue' = Append(q, it)
  BY <1>2 DEF Kept
<1>4. nextId' \in Nat \ {0}
  BY DEF Accepted, Mailed
<1>5. QED
  BY <1>1, <1>2, <1>3, <1>4

\* What the shell may submit.
LEMMA CallsAreCommands ==
  ASSUME Data, NEW cmd \in Calls
  PROVE  cmd \in Command /\ cmd.op \notin Dbus
<1>1. graceGen \in Nat /\ Configs \subseteq Config
  BY IdleConstants DEF Data, Configured, Config
<1>2. cmd.op \in {"configure", "done", "cancel", "reset"}
  BY DEF Calls, Cmd
<1>3. cmd \in Command
  BY <1>1, CommandForms DEF Calls
<1>4. QED
  BY <1>2, <1>3 DEF Dbus

\* Every call or signal of a client sends one command.
LEMMA ChannelGrows ==
  ASSUME Data, Clients
  PROVE  \E c \in DbusCommand : cmdChan' = Append(cmdChan, c)
<1>1. CASE \E p \in Paths, s \in Senders : ClientInhibit(p, s)
  <2>1. PICK p \in Paths, s \in Senders : ClientInhibit(p, s)
    BY <1>1
  <2>2. [cookie |-> nextCookie[p], sender |-> s] \in Source
    BY DEF Data, Surroundings, Source
  <2>3. QED
    BY <2>1, <2>2, CommandForms DEF ClientInhibit, Send
<1>2. CASE \E g \in granted : ClientUnInhibit(g)
  <2>1. PICK g \in granted : ClientUnInhibit(g)
    BY <1>2
  <2>2. g.src \in Source
    BY DEF Data, Surroundings, Grant
  <2>3. QED
    BY <2>1, <2>2, CommandForms DEF ClientUnInhibit, Send
<1>3. CASE \E s \in Senders : ClientGone(s)
  BY <1>3, CommandForms DEF ClientGone, Send
<1>4. CASE LogindChange
  <2>1. Logind \in Source
    BY DEF Logind, Source
  <2>2. QED
    BY <1>4, <2>1, CommandForms DEF LogindChange, Send
<1>5. QED
  BY <1>1, <1>2, <1>3, <1>4 DEF Clients

LEMMA TailOfMany ==
  ASSUME NEW S, NEW s \in Seq(S), s # <<>>, Len(s) # 1
  PROVE  Tail(s) \in Seq(S) \ {<<>>}
<1>1. Len(s) \in Nat /\ Len(s) # 0
  OBVIOUS
<1>2. Tail(s) \in Seq(S) /\ Len(Tail(s)) = Len(s) - 1
  OBVIOUS
<1>3. Len(Tail(s)) # 0
  BY <1>1, <1>2
<1>4. QED
  BY <1>2, <1>3

\* The queue, what was taken from it and the channel hold commands.
LEMMA NextKeepsMailed == Control /\ Data /\ [Next]_vars => Mailed'
<1> SUFFICES ASSUME Control, Data, [Next]_vars PROVE Mailed'
  OBVIOUS
<1>0. /\ queue \in Seq(Item) /\ nextId \in Nat \ {0} /\ cmdChan \in Seq(DbusCommand)
      /\ held = NoHold \/ held \in [by : {"loop", "caller"}, items : Seq(Item) \ {<<>>}]
      /\ ~Unlocked => queue = <<>>
      /\ Mailed /\ <<>> \in Seq(Item)
  BY DEF Data, Mailed
<1>1. CASE Start \/ TickTick
  <2>1. /\ queue' \in {<<>>, queue} /\ Unlocked /\ UNCHANGED <<held, cmdChan, nextId>>
    BY <1>1 DEF Start, BeginStart, MarkReady, TickTick, tickets
  <2>2. QED
    BY <2>1, <1>0 DEF Mailed, Unlocked
<1>2. CASE LoopSubmit
  <2>1. /\ cmdChan # <<>> /\ Unlocked /\ held' = held /\ cmdChan' = Tail(cmdChan)
        /\ Accepted(Head(cmdChan)) \/ UNCHANGED <<queue, tickets>>
    BY <1>2 DEF LoopSubmit
  <2>2. Head(cmdChan) \in Command /\ Tail(cmdChan) \in Seq(DbusCommand)
    BY <1>0, <2>1 DEF DbusCommand
  <2>3. queue' \in Seq(Item) /\ nextId' \in Nat \ {0}
    BY <2>1, <2>2, <1>0, AcceptedMails DEF tickets
  <2>4. QED
    BY <2>1, <2>2, <2>3, <1>0 DEF Mailed, Unlocked
<1>3. CASE \E cmd \in Calls : CallSubmit(cmd)
  <2>1. PICK cmd \in Calls : CallSubmit(cmd)
    BY <1>3
  <2>2. /\ Unlocked /\ UNCHANGED <<held, cmdChan>>
        /\ Accepted(cmd) \/ UNCHANGED <<queue, tickets>>
    BY <2>1 DEF CallSubmit
  <2>3. queue' \in Seq(Item) /\ nextId' \in Nat \ {0}
    BY <2>2, <1>0, AcceptedMails, CallsAreCommands DEF tickets
  <2>4. QED
    BY <2>2, <2>3, <1>0 DEF Mailed, Unlocked
<1>4. CASE LoopProcess \/ CallProcess
  <2>1. UNCHANGED <<cmdChan, nextId>> /\ (TakeQueue("loop") \/ TakeQueue("caller"))
    BY <1>4 DEF LoopProcess, CallProcess, tickets
  <2>2. /\ queue' = <<>>
        /\ held' = NoHold \/ held' \in [by : {"loop", "caller"}, items : Seq(Item) \ {<<>>}]
    BY <2>1, <1>0 DEF TakeQueue
  <2>3. QED
    BY <2>1, <2>2, <1>0 DEF Mailed
<1>5. CASE ProcessItem
  <2>1. /\ ~Unlocked /\ UNCHANGED <<queue, cmdChan, nextId>>
        /\ held' = IF Len(held.items) = 1 THEN NoHold ELSE [held EXCEPT !.items = Tail(@)]
    BY <1>5 DEF ProcessItem
  <2>2. /\ held \in [by : {"loop", "caller"}, items : Seq(Item) \ {<<>>}] /\ queue = <<>>
        /\ held.items \in Seq(Item) /\ held.items # <<>>
    BY <2>1, <1>0 DEF Unlocked
  <2>3. Len(held.items) # 1 => Tail(held.items) \in Seq(Item) \ {<<>>}
    BY <2>2, TailOfMany
  <2>4. held' = NoHold \/ held' \in [by : {"loop", "caller"}, items : Seq(Item) \ {<<>>}]
    BY <2>1, <2>2, <2>3
  <2>5. QED
    BY <2>1, <2>2, <2>4, <1>0 DEF Mailed
<1>6. CASE Clients
  <2>1. UNCHANGED <<queue, held, nextId>>
    BY <1>6 DEF Clients, ClientInhibit, ClientUnInhibit, ClientGone, LogindChange, Send, tasks,
                tickets
  <2>2. \E c \in DbusCommand : cmdChan' = Append(cmdChan, c)
    BY <1>6, ChannelGrows
  <2>3. cmdChan' \in Seq(DbusCommand)
    BY <2>2, <1>0
  <2>4. QED
    BY <2>1, <2>3, <1>0 DEF Mailed, Unlocked
<1>7. CASE TickRead \/ TickFail \/ HandleEvent \/ PortReset \/ Wayland \/ UserMoves \/ Advance
           \/ UNCHANGED vars
  <2>1. UNCHANGED <<queue, held, cmdChan, nextId>>
    BY <1>7 DEF TickRead, TickFail, HandleEvent, PortReset, Wayland, WaylandApply, WaylandEvent,
                WaylandLost, WaylandConnect, Emit, UserMoves, Advance, vars, tasks, tickets
  <2>2. QED
    BY <2>1, <1>0 DEF Mailed, Unlocked
<1>8. QED
  BY <1>1, <1>2, <1>3, <1>4, <1>5, <1>6, <1>7 DEF Next, SupervisorTask, Shell

\* register_all_notifications_locked.
LEMMA RegisterKeeps ==
  ASSUME NEW l, NEW c, RegisterAll(l, c)
  PROVE  idMap' = <<>> \/ idMap' = IdsOf(c.on)
  BY DEF RegisterAll

\* A known id names an enabled behaviour.
LEMMA KnownIds ==
  ASSUME Configured, NEW i \in DOMAIN idMap
  PROVE  idMap[i] \in config.on /\ config.on \subseteq Behaviors
<1>1. config.on \in SUBSET Behaviors
  BY DEF Configured, Config
<1>2. idMap # <<>>
  OBVIOUS
<1>3. idMap = IdsOf(config.on)
  BY <1>2 DEF Configured
<1>4. idMap \in [1..Cardinality(config.on) -> config.on]
  BY <1>1, <1>3, IdsOfProperties
<1>5. QED
  BY <1>1, <1>4

\* A grace period has members, all of them enabled, and is the latest one.
LEMMA NextKeepsConfigured == Control /\ Data /\ [Next]_vars => Configured'
<1> SUFFICES ASSUME Control, Data, [Next]_vars PROVE Configured'
  OBVIOUS
<1>0. /\ config \in Config
      /\ idMap = <<>> \/ idMap = IdsOf(config.on)
      /\ grace \in Grace /\ graceGen \in Nat
      /\ grace = NoGrace \/ (grace.gen = graceGen /\ grace.members # {}
                             /\ grace.members \subseteq config.on)
      /\ NoGrace \in Grace /\ Configured
  BY DEF Data, Configured, NoGrace, Grace
<1>1. CASE Start \/ TickFail \/ TickTick
  <2>1. /\ config' = config /\ graceGen' = graceGen /\ grace' \in {NoGrace, grace}
        /\ idMap' \in {<<>>, IdsOf(config.on), idMap}
    BY <1>1, RegisterKeeps DEF Start, BeginStart, MarkReady, TickFail, TickTick, conf, graces
  <2>2. QED
    BY <2>1, <1>0 DEF Configured
<1>2. CASE HandleEvent
  <2>1. UNCHANGED <<config, idMap>> /\ (\/ \E i : HandleIdled(i)
                                        \/ HandleResumed)
    BY <1>2 DEF HandleEvent, conf
  <2>2. CASE UNCHANGED graces \/ HandleResumed
    BY <2>1, <2>2, <1>0 DEF Configured, HandleResumed, graces
  <2>3. CASE \E i \in DOMAIN idMap : grace # NoGrace /\ Joined(idMap[i])
    <3>1. PICK i \in DOMAIN idMap : grace # NoGrace /\ Joined(idMap[i])
      BY <2>3
    <3>2. idMap[i] \in config.on /\ config.on \subseteq Behaviors
      BY <1>0, KnownIds
    <3>3. /\ grace' = [grace EXCEPT !.members = grace.members \cup {idMap[i]}]
          /\ graceGen' = graceGen
      BY <3>1 DEF Joined
    <3>4. /\ grace' \in Grace /\ grace'.gen = graceGen
          /\ grace'.members = grace.members \cup {idMap[i]}
      BY <3>1, <3>2, <3>3, <1>0 DEF Grace
    <3>5. QED
      BY <2>1, <3>1, <3>2, <3>3, <3>4, <1>0 DEF Configured
  <2>4. CASE \E i \in DOMAIN idMap : StartedGrace(idMap[i])
    <3>1. PICK i \in DOMAIN idMap : StartedGrace(idMap[i])
      BY <2>4
    <3>2. idMap[i] \in config.on /\ config.on \subseteq Behaviors
      BY <1>0, KnownIds
    <3>3. /\ grace' = [gen |-> graceGen + 1, members |-> {idMap[i]}, deadline |-> now + GraceMs]
          /\ graceGen' = graceGen + 1
      BY <3>1 DEF StartedGrace
    <3>4. now + GraceMs \in Nat /\ graceGen + 1 \in Nat
      BY <1>0, IdleConstants DEF Control
    <3>5. grace' \in Grace
      BY <3>2, <3>3, <3>4 DEF Grace
    <3>6. QED
      BY <2>1, <3>2, <3>3, <3>4, <3>5, <1>0 DEF Configured
  <2>5. QED
    BY <2>1, <2>2, <2>3, <2>4 DEF HandleIdled
<1>3. CASE ProcessItem
  <2>1. graceGen' = graceGen
    BY <1>3 DEF ProcessItem
  <2>2. CASE UNCHANGED <<config, idMap>> /\ grace' \in {NoGrace, grace}
    BY <2>1, <2>2, <1>0 DEF Configured
  <2>3. CASE ApplyRelease(Head(held.items).cmd)
    <3>1. config' = config /\ grace' = grace /\ idMap' \in {<<>>, IdsOf(config.on), idMap}
      BY <2>3, RegisterKeeps DEF ApplyRelease, Inhibited, watched
    <3>2. QED
      BY <2>1, <3>1, <1>0 DEF Configured
  <2>4. CASE ApplyConfigure(Head(held.items).cmd)
    <3> DEFINE cmd == Head(held.items).cmd
    <3>1. /\ cmd.op = "configure" /\ config' = cmd.arg /\ grace' = NoGrace
          /\ idMap' \in {<<>>, IdsOf(cmd.arg.on)}
      BY <2>4, RegisterKeeps DEF ApplyConfigure
    <3>2. held \in [by : {"loop", "caller"}, items : Seq(Item) \ {<<>>}]
      BY <1>3 DEF ProcessItem, Unlocked, Data, Mailed
    <3>3. Head(held.items) \in Item
      BY <3>2
    <3>4. cmd \in Command
      BY <3>3 DEF Item
    <3>5. cmd.arg \in Config
      BY <3>1, <3>4, CommandFields
    <3>6. QED
      BY <2>1, <3>1, <3>5, <1>0 DEF Configured
  <2>5. QED
    BY <1>3, <2>2, <2>3, <2>4 DEF ProcessItem, ApplyInhibit, ApplyDone, ApplyOther, watched
<1>4. CASE TickRead \/ LoopSubmit \/ LoopProcess \/ Shell \/ Clients \/ Wayland \/ UserMoves
           \/ Advance \/ UNCHANGED vars
  <2>1. UNCHANGED <<config, idMap, grace, graceGen>>
    BY <1>4 DEF TickRead, LoopSubmit, LoopProcess, Shell, CallSubmit, CallProcess, PortReset,
                Clients, ClientInhibit, ClientUnInhibit, ClientGone, LogindChange, Send,
                Wayland, WaylandApply, WaylandEvent, WaylandLost, WaylandConnect, Emit,
                UserMoves, Advance, vars, conf, graces
  <2>2. QED
    BY <2>1, <1>0 DEF Configured
<1>5. QED
  BY <1>1, <1>2, <1>3, <1>4 DEF Next, SupervisorTask

\* Inhibitors, grants and notifications keep their types.
LEMMA NextKeepsSurroundings == Data /\ [Next]_vars => Surroundings'
<1> SUFFICES ASSUME Data, [Next]_vars PROVE Surroundings'
  OBVIOUS
<1>0. /\ inhibitors \subseteq Source /\ granted \subseteq Grant
      /\ nextCookie \in [Paths -> Nat \ {0}]
      /\ notes \in [DOMAIN notes -> {"armed", "idled"}]
  BY DEF Data, Surroundings
<1>1. CASE ProcessItem
  <2>1. UNCHANGED <<granted, nextCookie, notes>>
    BY <1>1 DEF ProcessItem, clients
  <2>2. inhibitors' \subseteq Source
    <3> DEFINE cmd == Head(held.items).cmd
    <3>1. held \in [by : {"loop", "caller"}, items : Seq(Item) \ {<<>>}]
      BY <1>1 DEF ProcessItem, Unlocked, Data, Mailed
    <3>2. Head(held.items) \in Item
      BY <3>1
    <3>3. cmd \in Command
      BY <3>2 DEF Item
    <3>4. CASE ApplyInhibit(cmd)
      BY <3>3, <3>4, <1>0, CommandFields DEF ApplyInhibit
    <3>5. CASE ApplyRelease(cmd)
      BY <3>5, <1>0 DEF ApplyRelease, Inhibited, ClearedOf
    <3>6. CASE inhibitors' = inhibitors
      BY <3>6, <1>0
    <3>7. QED
      BY <1>1, <3>4, <3>5, <3>6 DEF ProcessItem, ApplyConfigure, ApplyDone, ApplyOther
  <2>3. QED
    BY <2>1, <2>2, <1>0 DEF Surroundings
<1>2. CASE Clients
  <2>1. UNCHANGED <<inhibitors, notes>>
    BY <1>2 DEF Clients, ClientInhibit, ClientUnInhibit, ClientGone, LogindChange, Send, wayland
  <2>2. CASE \E p \in Paths, s \in Senders : ClientInhibit(p, s)
    <3>1. PICK p \in Paths, s \in Senders : ClientInhibit(p, s)
      BY <2>2
    <3> DEFINE src == [cookie |-> nextCookie[p], sender |-> s]
    <3>2. nextCookie[p] \in Nat \ {0}
      BY <1>0
    <3>3. [path |-> p, src |-> src] \in Grant
      BY <3>2 DEF Source, Grant
    <3>4. /\ granted' = granted \cup {[path |-> p, src |-> src]}
          /\ nextCookie' = [nextCookie EXCEPT ![p] = nextCookie[p] + 1]
      BY <3>1 DEF ClientInhibit
    <3>5. nextCookie' \in [Paths -> Nat \ {0}]
      BY <3>2, <3>4, <1>0
    <3>6. QED
      BY <2>1, <3>3, <3>4, <3>5, <1>0 DEF Surroundings
  <2>3. CASE (\E g \in granted : ClientUnInhibit(g)) \/ (\E s \in Senders : ClientGone(s))
    BY <2>1, <2>3, <1>0 DEF ClientUnInhibit, ClientGone, Surroundings
  <2>4. CASE LogindChange
    <3>1. [path |-> "logind", src |-> Logind] \in Grant
      BY DEF Logind, Source, Grant
    <3>2. QED
      BY <2>1, <2>4, <3>1, <1>0 DEF LogindChange, Surroundings
  <2>5. QED
    BY <1>2, <2>2, <2>3, <2>4 DEF Clients
<1>3. CASE Wayland
  <2>1. UNCHANGED <<inhibitors, granted, nextCookie>>
    BY <1>3 DEF Wayland, WaylandApply, WaylandEvent, WaylandLost, WaylandConnect, Emit, clients
  <2>2. notes' \in [DOMAIN notes' -> {"armed", "idled"}]
    <3>1. CASE WaylandApply
      BY <3>1 DEF WaylandApply
    <3>2. CASE WaylandLost
      BY <3>2 DEF WaylandLost
    <3>3. CASE WaylandConnect
      BY <3>3, <1>0 DEF WaylandConnect
    <3>4. CASE WaylandEvent
      <4>1. PICK i \in DOMAIN notes, to \in {"armed", "idled"} :
              notes' = [notes EXCEPT ![i] = to]
        BY <3>4 DEF WaylandEvent, Emit
      <4>2. QED
        BY <4>1, <1>0
    <3>5. QED
      BY <1>3, <3>1, <3>2, <3>3, <3>4 DEF Wayland
  <2>3. QED
    BY <2>1, <2>2, <1>0 DEF Surroundings
<1>4. CASE SupervisorTask \/ Shell \/ UserMoves \/ Advance \/ UNCHANGED vars
  <2>1. UNCHANGED <<inhibitors, granted, nextCookie, notes>>
    BY <1>4 DEF SupervisorTask, Start, BeginStart, MarkReady, TickRead, TickFail, TickTick,
                HandleEvent, LoopSubmit, LoopProcess, Shell, CallSubmit, CallProcess, PortReset,
                UserMoves, Advance, vars, clients, wayland
  <2>2. QED
    BY <2>1, <1>0 DEF Surroundings
<1>5. QED
  BY <1>1, <1>2, <1>3, <1>4 DEF Next

TypeInv == Control /\ Data

LEMMA InitTypeInv == Init => TypeInv
<1> SUFFICES ASSUME Init PROVE TypeInv
  OBVIOUS
<1>1. Sound(NewSupervisor)
  BY FS_EmptySet DEF Sound, NewSupervisor, Supervisor, SupervisorStates, NoTime
<1>2. Control
  BY <1>1 DEF Init, Control, Lifecycles, Places
<1>3. DefaultConfig \in Config
  <2>1. (CHOOSE b \in Behaviors : TRUE) \in Behaviors
    BY IdleConstants
  <2>2. QED
    BY <2>1 DEF DefaultConfig, Config
<1>4. Configured
  BY <1>3 DEF Init, Configured, NoGrace, Grace
<1>5. Mailed
  BY DEF Init, Mailed, Unlocked
<1>6. Surroundings
  <2>1. nextCookie \in [Paths -> Nat \ {0}]
    BY DEF Init
  <2>2. notes = <<>> /\ inhibitors = {} /\ granted = {}
    BY DEF Init
  <2>3. QED
    BY <2>1, <2>2 DEF Surroundings
<1>7. QED
  BY <1>2, <1>4, <1>5, <1>6 DEF TypeInv, Data

LEMMA NextKeepsTypeInv == TypeInv /\ [Next]_vars => TypeInv'
  BY NextKeepsControl, NextKeepsMailed, NextKeepsConfigured, NextKeepsSurroundings
  DEF TypeInv, Data

\* Every variable keeps its type: a grace period that a configuration or the
\* loss of the backend overtakes has only enabled members, and every id that
\* an event can name is that of an enabled behaviour.
THEOREM IdleTypeOK == Spec => []TypeOK
<1>1. TypeInv => TypeOK
  <2> SUFFICES ASSUME TypeInv PROVE TypeOK
    OBVIOUS
  <2>1. Control /\ Mailed /\ Configured /\ Surroundings
    BY DEF TypeInv, Data
  <2>2. ASSUME NEW q \in Seq(Item) PROVE ItemsType(q)
    <3>1. \A i \in 1..Len(q) : q[i] \in Item
      OBVIOUS
    <3>2. QED
      BY <3>1 DEF ItemsType, Item, Command
  <2>3. queue \in Seq(Item) /\ held.items \in Seq(Item)
    <3>1. held = NoHold => held.items = <<>>
      BY DEF NoHold
    <3>2. <<>> \in Seq(Item)
      OBVIOUS
    <3>3. QED
      BY <2>1, <3>1, <3>2 DEF Mailed
  <2>4. \A i \in DOMAIN idMap : idMap[i] \in config.on
    BY <2>1, KnownIds
  <2>5. \A i \in DOMAIN notes : notes[i] \in {"armed", "idled"}
    BY <2>1 DEF Surroundings
  <2>6. /\ sup \in Supervisor /\ gen \in Nat /\ prior \in BOOLEAN
        /\ life \in {"Unavailable", "Connecting", "Reconnecting", "Ready"}
        /\ pc \in {"boot", "booting", "select", "fail", "recover", "started", "tick", "process"}
        /\ caller \in {"none", "submitted"}
    BY <2>1 DEF Control, Sound, Lifecycles, Places
  <2>7. /\ config \in Config /\ inhibitors \subseteq Source
        /\ grace = NoGrace \/ (grace.gen = graceGen /\ grace.members # {}
                               /\ grace.members \subseteq config.on)
    BY <2>1 DEF Configured, Surroundings
  <2>8. QED
    BY <2>2, <2>3, <2>4, <2>5, <2>6, <2>7 DEF TypeOK
<1>2. QED
  BY InitTypeInv, NextKeepsTypeInv, <1>1, PTL DEF Spec
-----------------------------------------------------------------------------
(***************************************************************************)
(* Grace periods.                                                          *)
(***************************************************************************)
\* A command that was accepted is the last one; m tells where the others were.
Shifted(it, n, m) ==
  /\ n \in Nat /\ m \in [1..n -> 1..Len(queue)]
  /\ Len(queue') = n + 1 /\ queue'[n + 1] = it
  /\ \A i \in 1..n : queue'[i] = queue[m[i]]
  /\ \A i, j \in 1..n : m[i] = m[j] => i = j
  /\ \A j \in 1..Len(queue) : queue[j].cmd.op = "configure" \/ \E i \in 1..n : m[i] = j

LEMMA AcceptedShifts ==
  ASSUME Control, Mailed, Unlocked, NEW cmd \in Command, Accepted(cmd)
  PROVE  \E n, m : Shifted([id |-> nextId, cmd |-> cmd, gen |-> gen], n, m)
<1> DEFINE it == [id |-> nextId, cmd |-> cmd, gen |-> gen]
<1>1. PICK q \in Seq(Item) : \E m, S : Kept(it, q, m, S)
  BY AcceptedMails
<1>2. PICK m, S : Kept(it, q, m, S)
  BY <1>1
<1>3. it \in Item
  BY DEF Item, Control, Mailed
<1> HIDE DEF it
<1>4. /\ queue' = Append(q, it) /\ Len(q) \in Nat
      /\ Len(queue') = Len(q) + 1 /\ queue'[Len(q) + 1] = it
      /\ \A i \in 1..Len(q) : queue'[i] = q[i]
  BY <1>2, <1>3 DEF Kept
<1>5. Shifted(it, Len(q), m)
  BY <1>2, <1>4 DEF Kept, Shifted
<1>6. QED
  BY <1>5 DEF it

\* An item that waits after a command was accepted waited before or is new.
LEMMA AcceptedItems ==
  ASSUME Control, Mailed, Unlocked, NEW cmd \in Command, Accepted(cmd)
  PROVE  \A i \in 1..Len(queue') :
           \/ queue'[i] = [id |-> nextId, cmd |-> cmd, gen |-> gen]
           \/ \E j \in 1..Len(queue) : queue'[i] = queue[j]
<1>1. PICK n, m : Shifted([id |-> nextId, cmd |-> cmd, gen |-> gen], n, m)
  BY AcceptedShifts
<1>2. \A i \in 1..(n + 1) : i \in 1..n \/ i = n + 1
  BY <1>1 DEF Shifted
<1>3. \A i \in 1..n : m[i] \in 1..Len(queue) /\ queue'[i] = queue[m[i]]
  BY <1>1 DEF Shifted
<1>4. QED
  BY <1>1, <1>2, <1>3 DEF Shifted

\* Every completion that waits was reported by the overlay of its number.
DoneReported(q) == \A i \in 1..Len(q) : q[i].cmd.op = "done" => q[i].cmd.arg \in reports

Reported == DoneReported(queue) /\ DoneReported(held.items)

LEMMA NextKeepsReported == Control /\ Data /\ Reported /\ [Next]_vars => Reported'
<1> SUFFICES ASSUME Control, Data, Reported, [Next]_vars PROVE Reported'
  OBVIOUS
<1>0. /\ queue \in Seq(Item) /\ cmdChan \in Seq(DbusCommand) /\ Mailed
      /\ held = NoHold \/ held \in [by : {"loop", "caller"}, items : Seq(Item) \ {<<>>}]
      /\ \A i \in 1..Len(queue) : queue[i].cmd.op = "done" => queue[i].cmd.arg \in reports
      /\ \A i \in 1..Len(held.items) :
           held.items[i].cmd.op = "done" => held.items[i].cmd.arg \in reports
  BY DEF Data, Mailed, Reported, DoneReported
<1>1. ASSUME NEW cmd \in Command, Accepted(cmd), Unlocked, held' = held,
             reports \subseteq reports', cmd.op = "done" => cmd.arg \in reports'
      PROVE  Reported'
  <2> DEFINE it == [id |-> nextId, cmd |-> cmd, gen |-> gen]
  <2>1. \A i \in 1..Len(queue') : queue'[i] = it \/ \E j \in 1..Len(queue) : queue'[i] = queue[j]
    BY <1>0, <1>1, AcceptedItems
  <2>2. it.cmd = cmd
    OBVIOUS
  <2> HIDE DEF it
  <2>3. QED
    BY <2>1, <2>2, <1>0, <1>1 DEF Reported, DoneReported
<1>2. ASSUME queue' \in {<<>>, queue}, held' = held, reports \subseteq reports'
      PROVE  Reported'
  BY <1>0, <1>2 DEF Reported, DoneReported
<1>3. CASE LoopSubmit
  <2>1. /\ cmdChan # <<>> /\ Unlocked /\ held' = held /\ reports' = reports
        /\ Accepted(Head(cmdChan)) \/ UNCHANGED queue
    BY <1>3 DEF LoopSubmit, shell, tickets
  <2>2. Head(cmdChan) \in Command /\ Head(cmdChan).op # "done"
    BY <1>0, <2>1 DEF DbusCommand, Dbus
  <2>3. QED
    BY <2>1, <2>2, <1>1, <1>2
<1>4. CASE \E cmd \in Calls : CallSubmit(cmd)
  <2>1. PICK cmd \in Calls : CallSubmit(cmd)
    BY <1>4
  <2>2. /\ Unlocked /\ held' = held /\ (Accepted(cmd) \/ UNCHANGED queue)
        /\ reports' = IF cmd.op = "done" THEN reports \cup {cmd.arg} ELSE reports
    BY <2>1 DEF CallSubmit, tickets
  <2>3. QED
    BY <2>2, <1>1, <1>2, CallsAreCommands
<1>5. CASE LoopProcess \/ CallProcess
  <2>1. /\ queue' = <<>> /\ reports' = reports
        /\ held' = IF queue = <<>> THEN NoHold ELSE [by |-> held'.by, items |-> queue]
    BY <1>5 DEF LoopProcess, CallProcess, TakeQueue, shell
  <2>2. held'.items = queue
    BY <2>1 DEF NoHold
  <2>3. QED
    BY <2>1, <2>2, <1>0 DEF Reported, DoneReported
<1>6. CASE ProcessItem
  <2>1. /\ ~Unlocked /\ UNCHANGED <<queue, reports>>
        /\ held' = IF Len(held.items) = 1 THEN NoHold ELSE [held EXCEPT !.items = Tail(@)]
    BY <1>6 DEF ProcessItem, shell
  <2>2. held.items \in Seq(Item) /\ held.items # <<>>
        /\ held \in [by : {"loop", "caller"}, items : Seq(Item) \ {<<>>}]
    BY <2>1, <1>0 DEF Unlocked
  <2>3. held'.items = <<>> \/ held'.items = Tail(held.items)
    BY <2>1, <2>2 DEF NoHold
  <2>4. \A i \in 1..Len(held'.items) :
          \E j \in 1..Len(held.items) : held'.items[i] = held.items[j]
    <3>1. \A i \in 1..Len(Tail(held.items)) :
            i + 1 \in 1..Len(held.items) /\ Tail(held.items)[i] = held.items[i + 1]
      BY <2>2
    <3>2. CASE held'.items = Tail(held.items)
      BY <3>1, <3>2
    <3>3. QED
      BY <2>3, <3>2
  <2>5. QED
    BY <2>1, <2>4, <1>0 DEF Reported, DoneReported
<1>7. CASE Start \/ TickTick
  <2>1. held' = held /\ reports' = reports /\ queue' \in {<<>>, queue}
    BY <1>7 DEF Start, BeginStart, MarkReady, TickTick, shell
  <2>2. QED
    BY <2>1, <1>2
<1>8. CASE TickRead \/ TickFail \/ HandleEvent \/ PortReset \/ Clients \/ Wayland \/ UserMoves
           \/ Advance \/ UNCHANGED vars
  <2>1. UNCHANGED <<queue, held, reports>>
    BY <1>8 DEF TickRead, TickFail, HandleEvent, PortReset, Clients, ClientInhibit,
                ClientUnInhibit, ClientGone, LogindChange, Send, Wayland, WaylandApply,
                WaylandEvent, WaylandLost, WaylandConnect, Emit, UserMoves, Advance, vars, tasks,
                shell
  <2>2. QED
    BY <2>1, <1>2
<1>9. QED
  BY <1>3, <1>4, <1>5, <1>6, <1>7, <1>8 DEF Next, SupervisorTask, Shell

Shot == [gen : Nat, by : {"now", "overlay", "deadline"}, over : BOOLEAN]

\* The latest grace period ends GraceMs after its start and, while it runs,
\* has not fired; no firing is of a grace period to come.
Fires ==
  /\ fired \in Seq(Shot) /\ started \in Nat
  /\ grace # NoGrace => graceGen > 0 /\ grace.deadline = started + GraceMs
  /\ \A i \in 1..Len(fired) :
       fired[i].gen <= graceGen /\ (grace # NoGrace => fired[i].gen # graceGen)
  /\ GraceFiresOnce

LEMMA FiringIsShot ==
  ASSUME now \in Nat, started \in Nat, NEW g \in Nat,
         NEW by \in {"now", "overlay", "deadline"}
  PROVE  /\ Firing(g, by) \in Shot /\ Firing(g, by).gen = g /\ Firing(g, by).by = by
         /\ now >= started + GraceMs => Firing(g, by).over
<1> DEFINE b == now >= started + GraceMs
<1>1. b = TRUE \/ b = FALSE
  BY IdleConstants
<1>2. ASSUME NEW o \in BOOLEAN
      PROVE  [gen |-> g, by |-> by, over |-> o] \in Shot
  BY DEF Shot
<1>3. Firing(g, by) = [gen |-> g, by |-> by, over |-> b]
  BY DEF Firing
<1>4. CASE b = TRUE
  <2>1. Firing(g, by) = [gen |-> g, by |-> by, over |-> TRUE]
    BY <1>3, <1>4
  <2>2. Firing(g, by) \in Shot
    BY <2>1, <1>2
  <2>3. Firing(g, by).gen = g /\ Firing(g, by).by = by /\ Firing(g, by).over
    BY <2>1
  <2>4. QED
    BY <2>2, <2>3
<1>5. CASE b = FALSE
  <2>1. Firing(g, by) = [gen |-> g, by |-> by, over |-> FALSE]
    BY <1>3, <1>5
  <2>2. Firing(g, by) \in Shot
    BY <2>1, <1>2
  <2>3. Firing(g, by).gen = g /\ Firing(g, by).by = by
    BY <2>1
  <2>4. QED
    BY <2>2, <2>3, <1>5
<1>6. QED
  BY <1>1, <1>4, <1>5

\* A grace period that is cancelled, or goes on, does not fire.
LEMMA NotFired ==
  ASSUME Configured, Fires, UNCHANGED <<fired, graceGen, started>>, reports \subseteq reports',
         grace' = NoGrace \/ (grace # NoGrace /\ grace'.deadline = grace.deadline)
  PROVE  Fires'
<1>1. GraceFiresOnce'
  BY DEF Fires, GraceFiresOnce
<1>2. QED
  BY <1>1 DEF Fires, Configured

\* A firing ends the grace period it is of.
LEMMA FiredOnce ==
  ASSUME Configured, Fires, UNCHANGED <<graceGen, started>>, reports' = reports,
         NEW s \in Shot, fired' = Append(fired, s),
         s.by = "overlay" => s.gen \in reports, s.by = "deadline" => s.over,
         \/ s.gen = 0 /\ grace' = grace
         \/ s.gen = graceGen /\ grace # NoGrace /\ grace' = NoGrace
  PROVE  Fires'
<1> DEFINE n == Len(fired)
<1>0. /\ fired \in Seq(Shot) /\ n \in Nat /\ graceGen \in Nat /\ started \in Nat
      /\ \A i \in 1..n : fired[i].gen <= graceGen /\ (grace # NoGrace => fired[i].gen # graceGen)
      /\ \A i, j \in 1..n : fired[i].gen # 0 /\ fired[i].gen = fired[j].gen => i = j
      /\ \A i \in 1..n : /\ fired[i].by = "overlay" => fired[i].gen \in reports
                         /\ fired[i].by = "deadline" => fired[i].over
      /\ grace # NoGrace => graceGen > 0 /\ grace.deadline = started + GraceMs
  BY DEF Fires, GraceFiresOnce, Configured
<1>1. /\ fired' \in Seq(Shot) /\ Len(fired') = n + 1 /\ DOMAIN fired' = 1..(n + 1)
      /\ \A i \in 1..n : fired'[i] = fired[i]
      /\ fired'[n + 1] = s
  BY <1>0
<1>2. \A i \in 1..(n + 1) : i \in 1..n \/ i = n + 1
  BY <1>0
<1> HIDE DEF n
<1>3. \A i \in 1..n : s.gen # 0 => fired[i].gen # s.gen
  BY <1>0
<1>4. \A i, j \in 1..(n + 1) : fired'[i].gen # 0 /\ fired'[i].gen = fired'[j].gen => i = j
  BY <1>0, <1>1, <1>2, <1>3
<1>5. \A i \in 1..(n + 1) : /\ fired'[i].by = "overlay" => fired'[i].gen \in reports
                            /\ fired'[i].by = "deadline" => fired'[i].over
  BY <1>0, <1>1, <1>2
<1>6. GraceFiresOnce'
  BY <1>1, <1>4, <1>5 DEF GraceFiresOnce
<1>7. \A i \in 1..(n + 1) :
        fired'[i].gen <= graceGen /\ (grace' # NoGrace => fired'[i].gen # graceGen)
  BY <1>0, <1>1, <1>2 DEF Shot
<1>8. grace' # NoGrace => graceGen > 0 /\ grace'.deadline = started + GraceMs
  BY <1>0
<1>9. QED
  BY <1>0, <1>1, <1>6, <1>7, <1>8 DEF Fires
\* Whoever completes a grace period, the overlay, the deadline or activity, is
\* the last to: it is gone when the lock is released.
LEMMA NextKeepsFires == Control /\ Data /\ Reported /\ Fires /\ [Next]_vars => Fires'
<1> SUFFICES ASSUME Control, Data, Reported, Fires, [Next]_vars PROVE Fires'
  OBVIOUS
<1>0. /\ Configured /\ now \in Nat /\ started \in Nat /\ graceGen \in Nat /\ GraceMs \in Nat
      /\ fired \in Seq(Shot)
      /\ grace # NoGrace => graceGen > 0 /\ grace.deadline = started + GraceMs
                            /\ grace.gen = graceGen
  BY IdleConstants DEF Control, Data, Configured, Fires
<1>1. CASE Start \/ TickFail
  <2>1. UNCHANGED <<fired, graceGen, started, reports>> /\ grace' \in {NoGrace, grace}
    BY <1>1 DEF Start, BeginStart, MarkReady, TickFail, graces, shell
  <2>2. QED
    BY <2>1, <1>0, NotFired
<1>2. CASE TickTick
  <2>1. UNCHANGED <<graceGen, started, reports>>
    BY <1>2 DEF TickTick, shell
  <2>2. CASE Expired /\ grace' = NoGrace /\ fired' = Append(fired, Firing(grace.gen, "deadline"))
    <3>1. grace # NoGrace /\ now >= started + GraceMs /\ grace.gen = graceGen
      BY <2>2, <1>0 DEF Expired
    <3>2. /\ Firing(graceGen, "deadline") \in Shot /\ Firing(graceGen, "deadline").gen = graceGen
          /\ Firing(graceGen, "deadline").by = "deadline" /\ Firing(graceGen, "deadline").over
      BY <3>1, <1>0, FiringIsShot
    <3>3. QED
      BY <2>1, <2>2, <3>1, <3>2, <1>0, FiredOnce
  <2>3. CASE fired' = fired /\ grace' \in {NoGrace, grace}
    BY <2>1, <2>3, <1>0, NotFired
  <2>4. QED
    BY <1>2, <2>2, <2>3 DEF TickTick
<1>3. CASE HandleEvent
  <2>1. reports' = reports /\ ((\E i : HandleIdled(i)) \/ HandleResumed)
    BY <1>3 DEF HandleEvent, shell
  <2>2. CASE fired' = Append(fired, Firing(0, "now")) /\ UNCHANGED graces
    <3>1. /\ Firing(0, "now") \in Shot /\ Firing(0, "now").gen = 0 /\ Firing(0, "now").by = "now"
      BY <1>0, FiringIsShot
    <3>2. QED
      BY <2>1, <2>2, <3>1, <1>0, FiredOnce DEF graces
  <2>3. CASE fired' = fired /\ UNCHANGED <<graceGen, started>>
             /\ (grace' \in {NoGrace, grace} \/ \E b : grace # NoGrace /\ Joined(b))
    <3>1. grace' = NoGrace \/ (grace # NoGrace /\ grace'.deadline = grace.deadline)
      <4>1. ASSUME NEW b, grace # NoGrace, Joined(b)
            PROVE  grace'.deadline = grace.deadline
        <5>1. grace' = [grace EXCEPT !.members = @ \cup {b}] /\ grace \in Grace
          BY <4>1, <1>0 DEF Joined, Configured
        <5>2. QED
          BY <5>1 DEF Grace
      <4>2. QED
        BY <2>3, <4>1
    <3>2. QED
      BY <2>1, <2>3, <3>1, <1>0, NotFired
  <2>4. CASE fired' = fired /\ grace = NoGrace /\ \E b : StartedGrace(b)
    <3>1. PICK b : StartedGrace(b)
      BY <2>4
    <3>2. /\ graceGen' = graceGen + 1 /\ started' = now
          /\ grace'.deadline = now + GraceMs /\ graceGen' > 0
      BY <3>1, <1>0 DEF StartedGrace
    <3>3. \A i \in 1..Len(fired) : fired[i].gen <= graceGen /\ fired[i].gen \in Nat
      <4>1. \A i \in 1..Len(fired) : fired[i] \in Shot
        BY <1>0
      <4>2. QED
        BY <4>1 DEF Fires, Shot
    <3>4. \A i \in 1..Len(fired') : fired'[i].gen <= graceGen' /\ fired'[i].gen # graceGen'
      BY <3>2, <3>3, <2>4, <1>0
    <3>5. GraceFiresOnce'
      BY <2>1, <2>4 DEF Fires, GraceFiresOnce
    <3>6. QED
      BY <3>2, <3>4, <3>5, <2>4, <1>0 DEF Fires
  <2>5. CASE HandleResumed
    BY <2>5, <2>3 DEF HandleResumed
  <2>6. CASE \E i : HandleIdled(i)
    <3>1. PICK i : HandleIdled(i)
      BY <2>6
    <3>2. CASE fired' = fired /\ grace # NoGrace /\ Joined(idMap[i])
      BY <3>2, <2>3 DEF Joined
    <3>3. CASE fired' = fired /\ grace = NoGrace /\ StartedGrace(idMap[i])
      BY <3>3, <2>4
    <3>4. CASE UNCHANGED <<graces, fired>>
      BY <3>4, <2>3 DEF graces
    <3>5. QED
      BY <3>1, <3>2, <3>3, <3>4, <2>2 DEF HandleIdled
  <2>7. QED
    BY <2>1, <2>5, <2>6
<1>4. CASE ProcessItem
  <2> DEFINE cmd == Head(held.items).cmd
  <2>1. UNCHANGED <<graceGen, started, reports>>
    BY <1>4 DEF ProcessItem, shell
  <2>2. CASE fired' = fired /\ grace' \in {NoGrace, grace}
    BY <2>1, <2>2, <1>0, NotFired
  <2>3. CASE /\ cmd.op = "done" /\ Completes(cmd.arg) /\ grace' = NoGrace
             /\ fired' = Append(fired, Firing(grace.gen, "overlay"))
    <3>1. held \in [by : {"loop", "caller"}, items : Seq(Item) \ {<<>>}]
      BY <1>4 DEF ProcessItem, Unlocked, Data, Mailed
    <3>2. 1 \in 1..Len(held.items) /\ Head(held.items) = held.items[1]
      BY <3>1
    <3>3. cmd.arg \in reports
      BY <2>3, <3>2 DEF Reported, DoneReported
    <3>4. grace # NoGrace /\ grace.gen = graceGen /\ graceGen \in reports
      BY <2>3, <3>3, <1>0 DEF Completes
    <3>5. /\ Firing(graceGen, "overlay") \in Shot /\ Firing(graceGen, "overlay").gen = graceGen
          /\ Firing(graceGen, "overlay").by = "overlay"
      BY <1>0, FiringIsShot
    <3>6. QED
      BY <2>1, <2>3, <3>4, <3>5, <1>0, FiredOnce
  <2>4. QED
    BY <1>4, <2>2, <2>3
    DEF ProcessItem, ApplyConfigure, ApplyInhibit, ApplyRelease, ApplyDone, ApplyOther
<1>5. CASE \E cmd \in Calls : CallSubmit(cmd)
  <2>1. UNCHANGED <<fired, graceGen, started, grace>> /\ reports \subseteq reports'
    BY <1>5 DEF CallSubmit, graces
  <2>2. QED
    BY <2>1, <1>0, NotFired
<1>6. CASE TickRead \/ LoopSubmit \/ LoopProcess \/ CallProcess \/ PortReset \/ Clients
           \/ Wayland \/ UserMoves \/ Advance \/ UNCHANGED vars
  <2>1. UNCHANGED <<fired, graceGen, started, grace, reports>>
    BY <1>6 DEF TickRead, LoopSubmit, LoopProcess, CallProcess, PortReset, Clients, ClientInhibit,
                ClientUnInhibit, ClientGone, LogindChange, Send, Wayland, WaylandApply,
                WaylandEvent, WaylandLost, WaylandConnect, Emit, UserMoves, Advance, vars, graces,
                shell
  <2>2. QED
    BY <2>1, <1>0, NotFired
<1>7. QED
  BY <1>1, <1>2, <1>3, <1>4, <1>5, <1>6 DEF Next, SupervisorTask, Shell

\* A grace period fires at most once, for a report of its own overlay or after
\* its own deadline, whatever resets, configurations and losses come between.
THEOREM GraceFiresOnceHolds == Spec => []GraceFiresOnce
<1>1. Init => TypeInv /\ Reported /\ Fires
  BY InitTypeInv DEF Init, Reported, DoneReported, Fires, GraceFiresOnce, NoHold
<1>2. TypeInv /\ Reported /\ Fires /\ [Next]_vars => (TypeInv /\ Reported /\ Fires)'
  BY NextKeepsTypeInv, NextKeepsReported, NextKeepsFires DEF TypeInv
<1>3. Fires => GraceFiresOnce
  BY DEF Fires
<1>4. QED
  BY <1>1, <1>2, <1>3, PTL DEF Spec
-----------------------------------------------------------------------------
(***************************************************************************)
(* Notifications.                                                          *)
(***************************************************************************)
\* What the Wayland thread has, or will have once it applies what it was sent.
Registered(ids) == IF batch = NoBatch THEN DOMAIN notes = ids ELSE batch = ids

\* A domain that is Ready knows the ids of its configuration, and the backend
\* has been sent them since it came up last, unless it came up late.  Only the
\* first connection can be late: a loss is seen by a tick, which fails the owner,
\* before the backend is up again.
Arms ==
  /\ losses = 0 \/ up \/ ~lossSeen \/ pc \notin {"boot", "booting", "recover", "started"}
  /\ losses = 0 \/ up \/ ~lossSeen \/ pc = "fail" \/ life # "Ready"
  /\ life = "Ready" /\ pc # "fail" =>
       /\ idMap = IdsOf(config.on)
       /\ Registered(IF up /\ ~late THEN RegisteredIds(config) ELSE {})
       /\ late => losses = 0

\* Registering sends the ids, which are never those of no batch, or, while the
\* backend is down, none.
LEMMA RegisterArms ==
  ASSUME NEW l, NEW c, RegisterAll(l, c)
  PROVE  /\ ~late' /\ batch' # NoBatch
         /\ l = "Ready" => /\ idMap' = IdsOf(c.on)
                           /\ batch' = IF up THEN RegisteredIds(c) ELSE {}
<1>1. /\ 0 \in RegisteredIds(c) /\ 0 \notin NoBatch
      /\ -1 \in NoBatch
  BY DEF RegisteredIds, HeartbeatId, NoBatch
<1>2. QED
  BY <1>1 DEF RegisterAll

LEMMA NextKeepsArms == Control /\ Data /\ Arms /\ [Next]_vars => Arms'
<1> SUFFICES ASSUME Control, Data, Arms, [Next]_vars PROVE Arms'
  OBVIOUS
<1>0. /\ losses = 0 \/ up \/ ~lossSeen \/ pc \notin {"boot", "booting", "recover", "started"}
      /\ losses = 0 \/ up \/ ~lossSeen \/ pc = "fail" \/ life # "Ready"
      /\ life = "Ready" /\ pc # "fail" =>
           /\ idMap = IdsOf(config.on)
           /\ Registered(IF up /\ ~late THEN RegisteredIds(config) ELSE {})
           /\ late => losses = 0
      /\ NotReady \in {"Connecting", "Reconnecting"}
  BY DEF Arms, NotReady
<1>1. ASSUME UNCHANGED <<wayland, config, idMap>>, life' \in {life, NotReady},
             pc' # "fail" => pc # "fail", pc # "fail" => pc' # "fail",
             pc' \in {"boot", "booting", "recover", "started"} =>
               pc \in {"boot", "booting", "recover", "started"}
      PROVE  Arms'
  BY <1>0, <1>1 DEF Arms, Registered, RegisteredIds, wayland
<1>2. CASE Start
  <2>1. ASSUME NEW from \in {"boot", "recover"}, NEW to \in {"booting", "started"},
               BeginStart(from, to)
        PROVE  Arms'
    <3>1. /\ pc = from /\ pc' = to /\ life' = NotReady
          /\ UNCHANGED <<wayland, config, idMap>>
      BY <2>1 DEF BeginStart, conf
    <3>2. QED
      BY <3>1, <1>1
  <2>2. ASSUME NEW from \in {"booting", "started"}, NEW to \in {"select", "tick"},
               MarkReady(from, to)
        PROVE  Arms'
    <3>1. /\ pc = from /\ pc' = to /\ life' = "Ready" /\ RegisterAll("Ready", config)
          /\ UNCHANGED <<up, lossSeen, losses, config>>
      BY <2>2 DEF MarkReady
    <3>2. /\ idMap' = IdsOf(config.on) /\ ~late' /\ batch' # NoBatch
          /\ batch' = IF up THEN RegisteredIds(config) ELSE {}
      BY <3>1, RegisterArms
    <3>3. Registered(IF up /\ ~late THEN RegisteredIds(config) ELSE {})'
      BY <3>1, <3>2 DEF Registered, RegisteredIds
    <3>4. QED
      BY <3>1, <3>2, <3>3, <1>0 DEF Arms
  <2>3. QED
    BY <1>2, <2>1, <2>2 DEF Start
<1>3. CASE TickRead
  <2>1. pc = "select" /\ lossSeen' = TRUE
        /\ UNCHANGED <<life, up, late, batch, notes, losses, config, idMap>>
    BY <1>3 DEF TickRead, domain, conf
  <2>2. \/ ~up /\ life = "Ready" /\ pc' = "fail"
        \/ up /\ pc' = "recover"
        \/ (up \/ life # "Ready") /\ pc' = "tick"
    BY <1>3 DEF TickRead, Reconcile
  <2>3. QED
    BY <2>1, <2>2, <1>0 DEF Arms, Registered, RegisteredIds
<1>4. CASE TickFail
  BY <1>4 DEF TickFail, Arms
<1>5. CASE ProcessItem
  <2> DEFINE cmd == Head(held.items).cmd
  <2>1. UNCHANGED <<life, pc, up, lossSeen, losses, notes>>
    BY <1>5 DEF ProcessItem
  <2>2. CASE UNCHANGED <<config, watched>>
    BY <2>1, <2>2, <1>1 DEF watched, wayland
  <2>3. ASSUME RegisterAll(life, config') PROVE Arms'
    <3>1. /\ ~late' /\ batch' # NoBatch
          /\ life = "Ready" => /\ idMap' = IdsOf(config'.on)
                               /\ batch' = IF up THEN RegisteredIds(config') ELSE {}
      BY <2>3, RegisterArms
    <3>2. life = "Ready" => Registered(IF up /\ ~late THEN RegisteredIds(config) ELSE {})'
      BY <2>1, <3>1 DEF Registered, RegisteredIds
    <3>3. QED
      BY <2>1, <3>1, <3>2, <1>0 DEF Arms
  <2>4. CASE ApplyConfigure(cmd)
    BY <2>4, <2>3 DEF ApplyConfigure
  <2>5. CASE ApplyRelease(cmd)
    BY <2>5, <2>3, <2>2 DEF ApplyRelease, Inhibited
  <2>6. QED
    BY <1>5, <2>2, <2>4, <2>5 DEF ProcessItem, ApplyInhibit, ApplyDone, ApplyOther
<1>6. CASE Wayland
  <2>1. UNCHANGED <<life, pc, config, idMap>>
    BY <1>6 DEF Wayland, WaylandApply, WaylandEvent, WaylandLost, WaylandConnect, Emit, domain,
                conf, tasks
  <2>2. CASE WaylandApply
    <3>1. DOMAIN notes' = batch /\ batch # NoBatch /\ batch' = NoBatch
          /\ UNCHANGED <<up, lossSeen, late, losses>>
      BY <2>2 DEF WaylandApply
    <3>2. QED
      BY <2>1, <3>1, <1>0 DEF Arms, Registered, RegisteredIds
  <2>3. CASE WaylandEvent
    <3>1. PICK i \in DOMAIN notes, to \in {"armed", "idled"} :
            notes' = [notes EXCEPT ![i] = to] /\ UNCHANGED <<up, lossSeen, late, losses, batch>>
      BY <2>3 DEF WaylandEvent, Emit
    <3>2. DOMAIN notes' = DOMAIN notes
      BY <3>1 DEF Data, Surroundings
    <3>3. QED
      BY <2>1, <3>1, <3>2, <1>0 DEF Arms, Registered, RegisteredIds
  <2>4. CASE WaylandLost
    BY <2>1, <2>4, <1>0 DEF WaylandLost, Arms, Registered
  <2>5. CASE WaylandConnect
    BY <2>1, <2>5, <1>0 DEF WaylandConnect, Arms, Registered
  <2>6. QED
    BY <1>6, <2>2, <2>3, <2>4, <2>5 DEF Wayland
<1>7. CASE TickTick \/ HandleEvent \/ LoopSubmit \/ LoopProcess
  <2>1. /\ UNCHANGED <<wayland, config, idMap>> /\ life' \in {life, NotReady}
        /\ pc \in {"tick", "select", "process"} /\ pc' \in {"select", "process"}
    BY <1>7 DEF TickTick, HandleEvent, LoopSubmit, LoopProcess, domain, conf, tasks
  <2>2. QED
    BY <2>1, <1>1
<1>8. CASE Shell \/ Clients \/ UserMoves \/ Advance \/ UNCHANGED vars
  <2>1. /\ UNCHANGED <<wayland, config, idMap, pc>>
        /\ life' \in {life, NotReady}
    BY <1>8 DEF Shell, CallSubmit, CallProcess, PortReset, Clients, ClientInhibit, ClientUnInhibit,
                ClientGone, LogindChange, Send, UserMoves, Advance, vars, domain, conf, tasks
  <2>2. QED
    BY <2>1, <1>1
<1>9. QED
  BY <1>2, <1>3, <1>4, <1>5, <1>6, <1>7, <1>8 DEF Next, SupervisorTask

\* While the domain is Ready and its backend has applied everything, it watches
\* exactly the enabled behaviours, under the ids by which events name them, or,
\* after a first connection that came up late, nothing.
THEOREM ArmedUnlessLate == Spec => []ArmedWhenReady
<1>1. Init => TypeInv /\ Arms
  BY InitTypeInv DEF Init, Arms
<1>2. TypeInv /\ Arms /\ [Next]_vars => (TypeInv /\ Arms)'
  BY NextKeepsTypeInv, NextKeepsArms DEF TypeInv
<1>3. TypeInv /\ Arms => ArmedWhenReady
  <2> SUFFICES ASSUME TypeInv, Arms, life = "Ready", up, pc = "select", batch = NoBatch
               PROVE  /\ idMap = IdsOf(config.on)
                      /\ DOMAIN notes = IF late THEN {} ELSE {HeartbeatId} \cup DOMAIN idMap
                      /\ late => losses = 0
    BY DEF ArmedWhenReady, Settled
  <2>1. /\ idMap = IdsOf(config.on) /\ (late => losses = 0)
        /\ DOMAIN notes = IF late THEN {} ELSE RegisteredIds(config)
    BY DEF Arms, Registered
  <2>2. config.on \in SUBSET Behaviors
    BY DEF TypeInv, Data, Configured, Config
  <2>3. DOMAIN idMap = 1..Cardinality(config.on)
    BY <2>1, <2>2, IdsOfProperties
  <2>4. QED
    BY <2>1, <2>3 DEF RegisteredIds
<1>4. QED
  BY <1>1, <1>2, <1>3, PTL DEF Spec
-----------------------------------------------------------------------------
(***************************************************************************)
(* Inhibitors.                                                             *)
(***************************************************************************)
\* At most one D-Bus command waits in q, of the present owner.
Sole(q) ==
  /\ \A i \in 1..Len(q) : q[i].cmd.op \in Dbus => q[i].gen = gen
  /\ \A i, j \in 1..Len(q) : q[i].cmd.op \in Dbus /\ q[j].cmd.op \in Dbus => i = j

\* The supervisor task processes the D-Bus command it submitted, or finds that
\* the shell's thread has taken it, before it takes the next or restarts.
Flight ==
  /\ Sole(queue) /\ Sole(held.items)
  /\ \A i \in 1..Len(queue) : queue[i].cmd.op \in Dbus => pc = "process"

\* The D-Bus command that has left the channel and is not processed yet.
InFlight ==
  {c \in DbusCommand : \/ \E i \in 1..Len(queue) : queue[i].cmd = c
                       \/ \E i \in 1..Len(held.items) : held.items[i].cmd = c}

\* The commands of a mailbox are commands.
LEMMA MailFields ==
  ASSUME Mailed
  PROVE  /\ queue \in Seq(Item) /\ held.items \in Seq(Item)
         /\ Len(queue) \in Nat /\ Len(held.items) \in Nat
         /\ \A i \in 1..Len(queue) : queue[i] \in Item /\ queue[i].cmd \in Command
         /\ \A i \in 1..Len(held.items) : held.items[i] \in Item /\ held.items[i].cmd \in Command
         /\ Unlocked => Len(held.items) = 0
         /\ ~Unlocked => Len(queue) = 0 /\ Len(held.items) # 0
<1>1. held = NoHold => held.items = <<>>
  BY DEF NoHold
<1>2. queue \in Seq(Item) /\ held.items \in Seq(Item)
  <2>1. <<>> \in Seq(Item)
    OBVIOUS
  <2>2. QED
    BY <1>1, <2>1 DEF Mailed
<1>3. /\ \A i \in 1..Len(queue) : queue[i] \in Item
      /\ \A i \in 1..Len(held.items) : held.items[i] \in Item
      /\ Len(queue) \in Nat /\ Len(held.items) \in Nat
  BY <1>2
<1>4. ~Unlocked => Len(queue) = 0 /\ Len(held.items) # 0
  <2>1. ~Unlocked => queue = <<>> /\ held.items # <<>>
    BY DEF Mailed, Unlocked
  <2>2. QED
    BY <2>1, <1>2
<1>5. QED
  BY <1>1, <1>2, <1>3, <1>4 DEF Unlocked, Item

LEMMA NextKeepsFlight == Control /\ Data /\ Flight /\ [Next]_vars => Flight'
<1> SUFFICES ASSUME Control, Data, Flight, [Next]_vars PROVE Flight'
  OBVIOUS
<1>0. /\ Mailed /\ queue \in Seq(Item) /\ held.items \in Seq(Item)
      /\ Unlocked => Len(held.items) = 0
      /\ Len(queue) \in Nat /\ Len(held.items) \in Nat
      /\ cmdChan \in Seq(DbusCommand)
  BY MailFields DEF Data, Mailed
<1>1. ASSUME UNCHANGED <<queue, held, gen>>, pc # "process" \/ pc' = pc
      PROVE  Flight'
  BY <1>1 DEF Flight, Sole
<1>2. ASSUME queue' = <<>>, Unlocked, held' = held
      PROVE  Flight'
  BY <1>0, <1>2 DEF Flight, Sole
<1>3. CASE Start \/ TickTick
  <2>1. /\ Unlocked /\ held' = held /\ (queue' = <<>> \/ UNCHANGED <<queue, gen>>)
        /\ pc # "process"
    BY <1>3 DEF Start, BeginStart, MarkReady, TickTick
  <2>2. QED
    BY <2>1, <1>1, <1>2
<1>4. CASE LoopSubmit
  <2>1. /\ pc = "select" /\ pc' = "process" /\ cmdChan # <<>> /\ Unlocked
        /\ UNCHANGED <<held, gen>> /\ (Accepted(Head(cmdChan)) \/ UNCHANGED queue)
    BY <1>4 DEF LoopSubmit, domain, tickets
  <2>2. CASE UNCHANGED queue
    BY <2>1, <2>2, <1>1
  <2>3. CASE Accepted(Head(cmdChan))
    <3> DEFINE it == [id |-> nextId, cmd |-> Head(cmdChan), gen |-> gen]
    <3>1. Head(cmdChan) \in Command
      BY <1>0, <2>1 DEF DbusCommand
    <3>2. PICK n, m : Shifted(it, n, m)
      BY <2>1, <2>3, <3>1, <1>0, AcceptedShifts
    <3>3. it.gen = gen
      OBVIOUS
    <3> HIDE DEF it
    <3>4. \A i \in 1..n : queue'[i].cmd.op \notin Dbus
      BY <3>2, <2>1 DEF Shifted, Flight
    <3>5. \A i \in 1..(n + 1) : i \in 1..n \/ i = n + 1
      BY <3>2 DEF Shifted
    <3>6. \A i \in 1..Len(queue') : queue'[i].cmd.op \in Dbus => i = n + 1 /\ queue'[i].gen = gen
      BY <3>2, <3>3, <3>4, <3>5 DEF Shifted
    <3>7. QED
      BY <3>6, <2>1 DEF Flight, Sole
  <2>4. QED
    BY <2>1, <2>2, <2>3
<1>5. CASE \E cmd \in Calls : CallSubmit(cmd)
  <2>1. PICK cmd \in Calls : CallSubmit(cmd)
    BY <1>5
  <2>2. Unlocked /\ UNCHANGED <<held, gen, pc>> /\ (Accepted(cmd) \/ UNCHANGED queue)
    BY <2>1 DEF CallSubmit, domain, tickets
  <2>3. CASE UNCHANGED queue
    BY <2>2, <2>3, <1>1
  <2>4. CASE Accepted(cmd)
    <3> DEFINE it == [id |-> nextId, cmd |-> cmd, gen |-> gen]
    <3>1. cmd \in Command /\ cmd.op \notin Dbus
      BY CallsAreCommands
    <3>2. PICK n, m : Shifted(it, n, m)
      BY <2>2, <2>4, <3>1, <1>0, AcceptedShifts
    <3>3. it.cmd.op \notin Dbus
      BY <3>1
    <3> HIDE DEF it
    <3>4. \A i \in 1..(n + 1) : i \in 1..n \/ i = n + 1
      BY <3>2 DEF Shifted
    <3>5. \A i \in 1..Len(queue') : queue'[i].cmd.op \in Dbus =>
            i \in 1..n /\ m[i] \in 1..Len(queue) /\ queue'[i] = queue[m[i]]
      BY <3>2, <3>3, <3>4 DEF Shifted
    <3>6. \A i, j \in 1..n : m[i] = m[j] => i = j
      BY <3>2 DEF Shifted
    <3>7. QED
      BY <3>5, <3>6, <2>2 DEF Flight, Sole
  <2>5. QED
    BY <2>2, <2>3, <2>4
<1>6. CASE LoopProcess \/ CallProcess
  <2>1. /\ Unlocked /\ queue' = <<>> /\ gen' = gen
        /\ held' = IF queue = <<>> THEN NoHold ELSE [by |-> held'.by, items |-> queue]
    BY <1>6 DEF LoopProcess, CallProcess, TakeQueue, domain
  <2>2. held'.items = queue
    BY <2>1 DEF NoHold
  <2>3. QED
    BY <2>1, <2>2 DEF Flight, Sole
<1>7. CASE ProcessItem
  <2>1. /\ ~Unlocked /\ UNCHANGED <<queue, gen>>
        /\ held' = IF Len(held.items) = 1 THEN NoHold ELSE [held EXCEPT !.items = Tail(@)]
    BY <1>7 DEF ProcessItem
  <2>2. held \in [by : {"loop", "caller"}, items : Seq(Item) \ {<<>>}] /\ Len(queue) = 0
    BY <2>1, <1>0, MailFields DEF Unlocked, Mailed
  <2>3. held'.items = <<>> \/ held'.items = Tail(held.items)
    BY <2>1, <2>2 DEF NoHold
  <2>4. Sole(held.items)'
    <3>1. CASE held'.items = <<>>
      BY <3>1 DEF Sole
    <3>2. CASE held'.items = Tail(held.items)
      <4>1. \A i \in 1..Len(held'.items) :
              i \in Nat /\ i + 1 \in 1..Len(held.items) /\ held'.items[i] = held.items[i + 1]
        BY <3>2, <2>2
      <4>2. \A i, j \in Nat : i + 1 = j + 1 => i = j
        OBVIOUS
      <4>3. QED
        BY <4>1, <4>2, <2>1 DEF Flight, Sole
    <3>3. QED
      BY <2>3, <3>1, <3>2
  <2>5. QED
    BY <2>1, <2>2, <2>4 DEF Flight, Sole
<1>8. CASE TickRead \/ TickFail \/ HandleEvent \/ PortReset \/ Clients \/ Wayland \/ UserMoves
           \/ Advance \/ UNCHANGED vars
  <2>1. UNCHANGED <<queue, held, gen>> /\ (pc # "process" \/ pc' = pc)
    BY <1>8 DEF TickRead, TickFail, HandleEvent, PortReset, Clients, ClientInhibit,
                ClientUnInhibit, ClientGone, LogindChange, Send, Wayland, WaylandApply,
                WaylandEvent, WaylandLost, WaylandConnect, Emit, UserMoves, Advance, vars, tasks,
                domain
  <2>2. QED
    BY <2>1, <1>1
<1>9. QED
  BY <1>3, <1>4, <1>5, <1>6, <1>7, <1>8 DEF Next, SupervisorTask, Shell
\* What the commands that clients sent, and signals caused, leave in force.
InForce == Held \ undone

\* Nothing is released on one path and held on another for logind.
Whole == Logind \notin undone

LEMMA NextKeepsWhole == Whole /\ [Next]_vars => Whole'
<1> SUFFICES ASSUME Whole, [Next]_vars PROVE Logind \notin undone'
  BY DEF Whole
<1>1. CASE Clients
  BY <1>1 DEF Clients, ClientInhibit, ClientUnInhibit, ClientGone, LogindChange, Whole
<1>2. CASE SupervisorTask \/ Shell \/ ProcessItem \/ Wayland \/ UserMoves \/ Advance
           \/ UNCHANGED vars
  <2>1. UNCHANGED undone
    BY <1>2 DEF SupervisorTask, Start, BeginStart, MarkReady, TickRead, TickFail, TickTick,
                HandleEvent, LoopSubmit, LoopProcess, Shell, CallSubmit, CallProcess, PortReset,
                ProcessItem, Wayland, WaylandApply, WaylandEvent, WaylandLost, WaylandConnect,
                Emit, UserMoves, Advance, vars, clients
  <2>2. QED
    BY <2>1 DEF Whole
<1>3. QED
  BY <1>1, <1>2 DEF Next

\* The commands that add, remove or clear src.
Affects(cmd, src) ==
  \/ cmd.op \in {"inhibit", "uninhibit"} /\ cmd.arg = src
  \/ cmd.op = "clear" /\ cmd.arg = src.sender

\* cmd leaves src as it is to be.
Due(cmd, src) == src \in InForce <=> cmd.op = "inhibit"

\* The last command on its way that concerns src leaves it as it is to be, and if
\* there is none the service has it so.
AgreesOn(src) ==
  /\ \A i \in 1..Len(cmdChan) :
       Affects(cmdChan[i], src) /\ (\A j \in (i + 1)..Len(cmdChan) : ~Affects(cmdChan[j], src))
         => Due(cmdChan[i], src)
  /\ (\A i \in 1..Len(cmdChan) : ~Affects(cmdChan[i], src)) =>
       /\ \A c \in InFlight : Affects(c, src) => Due(c, src)
       /\ (\A c \in InFlight : ~Affects(c, src)) =>
            (src \in inhibitors <=> src \in InForce)

Agree == ~refused => \A src \in Source : AgreesOn(src)

\* A client's call or signal puts its command behind all others.
LEMMA SentAgrees ==
  ASSUME cmdChan \in Seq(DbusCommand), NEW c \in DbusCommand, cmdChan' = Append(cmdChan, c),
         InFlight' = InFlight, inhibitors' = inhibitors, NEW src \in Source, AgreesOn(src),
         Affects(c, src) => Due(c, src)', ~Affects(c, src) => (src \in InForce' <=> src \in InForce)
  PROVE  AgreesOn(src)'
<1> DEFINE n == Len(cmdChan)
<1>1. /\ n \in Nat /\ Len(cmdChan') = n + 1 /\ cmdChan'[n + 1] = c
      /\ \A i \in 1..n : cmdChan'[i] = cmdChan[i]
      /\ \A i \in 1..(n + 1) : i \in 1..n \/ i = n + 1
      /\ \A i \in 1..n : i \in 1..(n + 1) /\ n + 1 \in (i + 1)..(n + 1)
      /\ n + 1 \in 1..(n + 1)
      /\ \A i \in 1..n : (i + 1)..n \subseteq (i + 1)..(n + 1)
  OBVIOUS
<1>2. CASE Affects(c, src)
  <2>1. ASSUME NEW i \in 1..(n + 1), Affects(cmdChan'[i], src),
               \A j \in (i + 1)..(n + 1) : ~Affects(cmdChan'[j], src)
        PROVE  cmdChan'[i] = c
    BY <2>1, <1>1, <1>2
  <2>2. ~\A i \in 1..(n + 1) : ~Affects(cmdChan'[i], src)
    BY <1>1, <1>2
  <2> HIDE DEF n
  <2>3. QED
    BY <2>1, <2>2, <1>1, <1>2 DEF AgreesOn
<1>3. CASE ~Affects(c, src)
  <2>1. ASSUME NEW i \in 1..(n + 1), Affects(cmdChan'[i], src),
               \A j \in (i + 1)..(n + 1) : ~Affects(cmdChan'[j], src)
        PROVE  Due(cmdChan[i], src)'
    <3>1. i \in 1..n /\ cmdChan'[i] = cmdChan[i]
      BY <2>1, <1>1, <1>3
    <3>2. \A j \in (i + 1)..n : cmdChan'[j] = cmdChan[j] /\ ~Affects(cmdChan'[j], src)
      BY <2>1, <3>1, <1>1
    <3>3. Due(cmdChan[i], src)
      BY <2>1, <3>1, <3>2 DEF AgreesOn
    <3>4. QED
      BY <3>1, <3>3, <1>3 DEF Due
  <2>2. (\A i \in 1..(n + 1) : ~Affects(cmdChan'[i], src)) =>
          \A i \in 1..n : ~Affects(cmdChan[i], src)
    BY <1>1
  <2>3. \A d : Due(d, src) => Due(d, src)'
    BY <1>3 DEF Due
  <2> HIDE DEF n
  <2>4. QED
    BY <2>1, <2>2, <2>3, <1>1, <1>3 DEF AgreesOn, n
<1>4. QED
  BY <1>2, <1>3

\* A command that is taken from the channel concerns src first.
LEMMA TakenAgrees ==
  ASSUME cmdChan \in Seq(DbusCommand), cmdChan # <<>>, cmdChan' = Tail(cmdChan),
         InFlight = {}, InFlight' = {Head(cmdChan)}, inhibitors' = inhibitors,
         UNCHANGED <<granted, undone>>, NEW src \in Source, AgreesOn(src)
  PROVE  AgreesOn(src)'
<1> DEFINE n == Len(cmdChan) - 1
           c == Head(cmdChan)
<1>1. /\ n \in Nat /\ Len(cmdChan) = n + 1 /\ Len(cmdChan') = n /\ c = cmdChan[1]
      /\ \A i \in 1..n : cmdChan'[i] = cmdChan[i + 1]
  OBVIOUS
<1>2. /\ \A i \in 1..(n + 1) : i = 1 \/ (i - 1 \in 1..n /\ i = (i - 1) + 1)
      /\ \A i \in 1..n : i + 1 \in 1..(n + 1)
      /\ 1 \in 1..(n + 1)
      /\ \A i \in 1..n : \A j \in (i + 2)..(n + 1) : j - 1 \in (i + 1)..n /\ j = (j - 1) + 1
      /\ \A j \in 2..(n + 1) : j - 1 \in 1..n /\ j = (j - 1) + 1
      /\ \A i \in 1..n : i + 1 + 1 = i + 2
      /\ \A i \in 1..n : \A j \in (i + 1)..n : j \in 1..n
  BY <1>1
<1>3. InForce' = InForce /\ \A d : Due(d, src)' <=> Due(d, src)
  BY DEF InForce, Held, Due
<1> HIDE DEF n, c
<1>4. ASSUME NEW i \in 1..n, Affects(cmdChan'[i], src),
             \A j \in (i + 1)..n : ~Affects(cmdChan'[j], src)
      PROVE  Due(cmdChan'[i], src)
  <2>1. i + 1 \in 1..Len(cmdChan) /\ Affects(cmdChan[i + 1], src)
    BY <1>1, <1>2, <1>4
  <2>2. ASSUME NEW j \in (i + 2)..(n + 1)
        PROVE  ~Affects(cmdChan[j], src)
    <3>1. j - 1 \in (i + 1)..n /\ j = (j - 1) + 1 /\ j - 1 \in 1..n
      BY <1>2
    <3>2. cmdChan'[j - 1] = cmdChan[j]
      BY <3>1, <1>1
    <3>3. QED
      BY <3>1, <3>2, <1>4
  <2>3. QED
    BY <2>1, <2>2, <1>1, <1>2 DEF AgreesOn
<1>5. ASSUME \A i \in 1..n : ~Affects(cmdChan'[i], src)
      PROVE  /\ Affects(c, src) => Due(c, src)
             /\ ~Affects(c, src) => \A i \in 1..(n + 1) : ~Affects(cmdChan[i], src)
  <2>1. ASSUME NEW j \in 2..(n + 1)
        PROVE  ~Affects(cmdChan[j], src)
    <3>1. j - 1 \in 1..n /\ j = (j - 1) + 1
      BY <1>2
    <3>2. cmdChan'[j - 1] = cmdChan[j]
      BY <3>1, <1>1
    <3>3. QED
      BY <3>1, <3>2, <1>5
  <2>2. Affects(c, src) => Due(c, src)
    BY <2>1, <1>1, <1>2 DEF AgreesOn
  <2>3. QED
    BY <2>1, <2>2, <1>1, <1>2, <1>5
<1>6. InFlight' = {c}
  BY DEF c
<1>7. QED
  BY <1>1, <1>3, <1>4, <1>5, <1>6 DEF AgreesOn

\* Where nothing concerns the D-Bus commands, nothing changes.
LEMMA SameAgrees ==
  ASSUME UNCHANGED <<cmdChan, inhibitors, granted, undone>>, InFlight' = InFlight,
         NEW src \in Source, AgreesOn(src)
  PROVE  AgreesOn(src)'
<1>1. InForce' = InForce /\ \A d : Due(d, src)' <=> Due(d, src)
  BY DEF InForce, Held, Due
<1>2. QED
  BY <1>1 DEF AgreesOn

\* What happens to the command that has left the channel.
LEMMA FlightOfSubmit ==
  ASSUME Control, Data, Flight, Unlocked, UNCHANGED held, NEW cmd \in Command, Accepted(cmd)
  PROVE  InFlight' = IF cmd.op \in Dbus THEN InFlight \cup {cmd} ELSE InFlight
<1> DEFINE it == [id |-> nextId, cmd |-> cmd, gen |-> gen]
<1>0. Mailed
  BY DEF Data
<1>1. PICK n, m : Shifted(it, n, m)
  BY <1>0, AcceptedShifts
<1>2. it.cmd = cmd
  OBVIOUS
<1> HIDE DEF it
<1>3. Len(held.items) = 0
  BY <1>0, MailFields
<1>4. \A i \in 1..(n + 1) : i \in 1..n \/ i = n + 1
  BY <1>1 DEF Shifted
<1>5. n + 1 \in 1..(n + 1) /\ \A i \in 1..n : i \in 1..(n + 1)
  BY <1>1 DEF Shifted
<1>6. ASSUME NEW c \in DbusCommand
      PROVE  (\E i \in 1..Len(queue') : queue'[i].cmd = c)
               <=> (c = cmd \/ \E i \in 1..Len(queue) : queue[i].cmd = c)
  <2>1. ASSUME NEW i \in 1..Len(queue'), queue'[i].cmd = c
        PROVE  c = cmd \/ \E j \in 1..Len(queue) : queue[j].cmd = c
    <3>1. CASE i = n + 1
      BY <3>1, <2>1, <1>1, <1>2 DEF Shifted
    <3>2. CASE i \in 1..n
      BY <3>2, <2>1, <1>1 DEF Shifted
    <3>3. QED
      BY <3>1, <3>2, <1>1, <1>4 DEF Shifted
  <2>2. ASSUME NEW j \in 1..Len(queue), queue[j].cmd = c
        PROVE  \E i \in 1..Len(queue') : queue'[i].cmd = c
    <3>1. c.op # "configure"
      BY DEF DbusCommand, Dbus
    <3>2. PICK i \in 1..n : m[i] = j
      BY <2>2, <3>1, <1>1 DEF Shifted
    <3>3. QED
      BY <3>2, <2>2, <1>1, <1>5 DEF Shifted
  <2>3. c = cmd => \E i \in 1..Len(queue') : queue'[i].cmd = c
    BY <1>1, <1>2, <1>5 DEF Shifted
  <2>4. QED
    BY <2>1, <2>2, <2>3
<1>7. cmd \in DbusCommand <=> cmd.op \in Dbus
  BY DEF DbusCommand
<1>8. QED
  BY <1>3, <1>6, <1>7 DEF InFlight

\* The lock is taken over everything that waits.
LEMMA FlightOfTake ==
  ASSUME Data, Unlocked, NEW who, TakeQueue(who)
  PROVE  InFlight' = InFlight
<1>1. queue' = <<>> /\ Len(held.items) = 0
  BY MailFields DEF TakeQueue, Data
<1>2. held'.items = queue
  BY DEF TakeQueue, NoHold
<1>3. QED
  BY <1>1, <1>2 DEF InFlight

\* One item is processed: a D-Bus command was the only one, and is applied.
LEMMA FlightOfProcess ==
  ASSUME Data, Flight, ProcessItem
  PROVE  /\ Head(held.items) \in Item
         /\ Head(held.items).cmd.op \in Dbus =>
              /\ InFlight = {Head(held.items).cmd} /\ InFlight' = {}
              /\ Head(held.items).gen = gen
         /\ Head(held.items).cmd.op \notin Dbus => InFlight' = InFlight
<1> DEFINE h == held.items
<1>1. /\ ~Unlocked /\ UNCHANGED queue
      /\ held' = IF Len(h) = 1 THEN NoHold ELSE [held EXCEPT !.items = Tail(@)]
  BY DEF ProcessItem
<1>2. /\ held \in [by : {"loop", "caller"}, items : Seq(Item) \ {<<>>}]
      /\ Len(queue) = 0 /\ Len(queue') = 0
      /\ \A i \in 1..Len(h) : h[i].cmd \in Command
  BY <1>1, MailFields DEF Data, Mailed, Unlocked
<1>3. h \in Seq(Item) /\ h # <<>> /\ Len(h) \in Nat
  BY <1>2
<1>4. held'.items = Tail(h)
  <2>1. CASE Len(h) = 1
    <3>1. Tail(h) \in Seq(Item) /\ Len(Tail(h)) = 0
      <4>1. Tail(h) \in Seq(Item) /\ Len(Tail(h)) = Len(h) - 1
        BY <1>3
      <4>2. QED
        BY <4>1, <2>1
    <3>2. \A t \in Seq(Item) : Len(t) = 0 => t = <<>>
      OBVIOUS
    <3>3. QED
      BY <2>1, <3>1, <3>2, <1>1 DEF NoHold
  <2>2. QED
    BY <2>1, <1>1, <1>2
<1> HIDE DEF h
<1>5. /\ Head(h) = h[1] /\ Head(h) \in Item /\ 1 \in 1..Len(h)
      /\ \A i \in 1..Len(h) : i = 1 \/ (i - 1 \in 1..Len(Tail(h)) /\ Tail(h)[i - 1] = h[i])
      /\ \A i \in 1..Len(Tail(h)) : i + 1 \in 1..Len(h) /\ Tail(h)[i] = h[i + 1] /\ i + 1 # 1
  BY <1>3
<1>6. CASE Head(h).cmd.op \in Dbus
  <2>1. Head(h).gen = gen /\ \A i \in 1..Len(h) : h[i].cmd.op \in Dbus => i = 1
    BY <1>5, <1>6 DEF Flight, Sole, h
  <2>2. Head(h).cmd \in DbusCommand
    BY <1>2, <1>5, <1>6 DEF DbusCommand
  <2>3. InFlight = {Head(h).cmd}
    BY <2>1, <2>2, <1>2, <1>5 DEF InFlight, DbusCommand, h
  <2>4. InFlight' = {}
    BY <2>1, <1>2, <1>4, <1>5 DEF InFlight, DbusCommand
  <2>5. QED
    BY <2>1, <2>3, <2>4, <1>5, <1>6 DEF h
<1>7. CASE Head(h).cmd.op \notin Dbus
  <2>1. ASSUME NEW c \in DbusCommand
        PROVE  (\E i \in 1..Len(h) : h[i].cmd = c) <=> (\E i \in 1..Len(Tail(h)) : Tail(h)[i].cmd = c)
    <3>1. h[1].cmd # c
      BY <1>5, <1>7 DEF DbusCommand
    <3>2. QED
      BY <3>1, <1>5
  <2>2. InFlight' = InFlight
    BY <2>1, <1>2, <1>4 DEF InFlight, h
  <2>3. QED
    BY <2>2, <1>5, <1>7 DEF h
<1>8. QED
  BY <1>6, <1>7 DEF h

\* What each client's or signal's command does to what is held.
LEMMA ClientsAreDue ==
  ASSUME Data, Whole, Clients
  PROVE  \E c \in DbusCommand :
           /\ cmdChan' = Append(cmdChan, c)
           /\ \A src \in Source : /\ Affects(c, src) => Due(c, src)'
                                  /\ ~Affects(c, src) => (src \in InForce' <=> src \in InForce)
<1>0. /\ \A g \in granted : g.src \in Source
      /\ \A s \in Source : s.sender \in Senders \cup {"logind"}
      /\ Logind \in Source
      /\ nextCookie \in [Paths -> Nat \ {0}]
      /\ "logind" \notin Senders
  BY IdleConstants DEF Data, Surroundings, Grant, Source, Logind
<1>1. CASE \E p \in Paths, s \in Senders : ClientInhibit(p, s)
  <2>1. PICK p \in Paths, s \in Senders : ClientInhibit(p, s)
    BY <1>1
  <2> DEFINE own == [cookie |-> nextCookie[p], sender |-> s]
             new == [path |-> p, src |-> own]
             c == Cmd("inhibit", own)
  <2>2. /\ granted' = granted \cup {new} /\ cmdChan' = Append(cmdChan, c)
        /\ undone' = undone \ {own} /\ c.op = "inhibit" /\ c.arg = own /\ new.src = own
    BY <2>1 DEF ClientInhibit, Send, Cmd
  <2>3. c \in DbusCommand
    <3>1. own \in Source
      BY <1>0 DEF Source
    <3>2. QED
      BY <3>1, CommandForms
  <2> HIDE DEF own, new, c
  <2>4. \A src : src \in InForce' <=> (src \in InForce \/ src = own)
    BY <2>2 DEF InForce, Held
  <2>5. QED
    BY <2>2, <2>3, <2>4 DEF Affects, Due
<1>2. CASE \E g \in granted : g.src # Logind /\ ClientUnInhibit(g)
  <2>1. PICK g \in granted : g.src # Logind /\ ClientUnInhibit(g)
    BY <1>2
  <2> DEFINE c == Cmd("uninhibit", g.src)
  <2>2. /\ granted' = granted \ {g} /\ cmdChan' = Append(cmdChan, c)
        /\ undone' = {src \in undone \cup {g.src} : src \in Held'}
        /\ c.op = "uninhibit" /\ c.arg = g.src
    BY <2>1 DEF ClientUnInhibit, Send, Cmd, Held
  <2>3. c \in DbusCommand
    BY <1>0, CommandForms
  <2> HIDE DEF c
  <2>4. \A src : src # g.src => (src \in Held' <=> src \in Held)
    BY <2>2 DEF Held
  <2>5. \A src : src \in InForce' <=> (src \in InForce /\ src # g.src)
    BY <2>2, <2>4 DEF InForce
  <2>6. QED
    BY <2>2, <2>3, <2>5 DEF Affects, Due
<1>3. CASE \E s \in Senders : ClientGone(s)
  <2>1. PICK s \in Senders : ClientGone(s)
    BY <1>3
  <2> DEFINE c == Cmd("clear", s)
  <2>2. /\ granted' = {g \in granted : g.src.sender # s} /\ cmdChan' = Append(cmdChan, c)
        /\ undone' = {src \in undone : src.sender # s}
        /\ c.op = "clear" /\ c.arg = s
    BY <2>1 DEF ClientGone, Send, Cmd
  <2>3. c \in DbusCommand
    BY CommandForms
  <2> HIDE DEF c
  <2>4. \A src : src \in InForce' <=> (src \in InForce /\ src.sender # s)
    BY <2>2 DEF InForce, Held
  <2>5. QED
    BY <2>2, <2>3, <2>4 DEF Affects, Due
<1>4. CASE LogindChange
  <2>1. CASE Logind \in Held
    <3> DEFINE c == Cmd("uninhibit", Logind)
    <3>1. /\ granted' = {g \in granted : g.src # Logind} /\ cmdChan' = Append(cmdChan, c)
          /\ undone' = undone /\ c.op = "uninhibit" /\ c.arg = Logind
      BY <1>4, <2>1 DEF LogindChange, Send, Cmd, Held
    <3>2. c \in DbusCommand
      BY <1>0, CommandForms
    <3> HIDE DEF c
    <3>3. \A src : src \in InForce' <=> (src \in InForce /\ src # Logind)
      BY <3>1 DEF InForce, Held
    <3>4. QED
      BY <3>1, <3>2, <3>3 DEF Affects, Due
  <2>2. CASE Logind \notin Held
    <3> DEFINE c == Cmd("inhibit", Logind)
               new == [path |-> "logind", src |-> Logind]
    <3>1. /\ granted' = granted \cup {new} /\ cmdChan' = Append(cmdChan, c)
          /\ undone' = undone /\ c.op = "inhibit" /\ c.arg = Logind /\ new.src = Logind
      BY <1>4, <2>2 DEF LogindChange, Send, Cmd, Held
    <3>2. c \in DbusCommand
      BY <1>0, CommandForms
    <3> HIDE DEF c, new
    <3>3. \A src : src \in InForce' <=> (src \in InForce \/ src = Logind)
      BY <3>1 DEF InForce, Held, Whole
    <3>4. QED
      BY <3>1, <3>2, <3>3 DEF Affects, Due
  <2>3. QED
    BY <2>1, <2>2
<1>5. QED
  BY <1>1, <1>2, <1>3, <1>4 DEF Clients

\* What applying a D-Bus command does to the inhibitors.
LEMMA AppliedIsDue ==
  ASSUME NEW cmd \in DbusCommand, NEW src \in Source,
         ApplyConfigure(cmd) \/ ApplyInhibit(cmd) \/ ApplyRelease(cmd) \/ ApplyDone(cmd)
           \/ ApplyOther(cmd)
  PROVE  IF Affects(cmd, src) THEN src \in inhibitors' <=> cmd.op = "inhibit"
                              ELSE src \in inhibitors' <=> src \in inhibitors
<1>1. CASE cmd.op = "inhibit"
  <2>1. ApplyInhibit(cmd)
    BY <1>1 DEF ApplyConfigure, ApplyRelease, ApplyDone, ApplyOther
  <2>2. QED
    BY <2>1, <1>1 DEF ApplyInhibit, Affects
<1>2. CASE cmd.op \in {"uninhibit", "clear"}
  <2>1. ApplyRelease(cmd)
    BY <1>2 DEF ApplyConfigure, ApplyInhibit, ApplyDone, ApplyOther
  <2>2. \/ cmd.op = "uninhibit" /\ inhibitors' = inhibitors \ {cmd.arg}
        \/ cmd.op = "clear" /\ inhibitors' = {i \in inhibitors : i.sender # cmd.arg}
    BY <2>1 DEF ApplyRelease, Inhibited, ClearedOf
  <2>3. QED
    BY <2>2 DEF Affects
<1>3. QED
  BY <1>1, <1>2 DEF DbusCommand, Dbus

LEMMA NextKeepsAgree ==
  Control /\ Data /\ Whole /\ Flight /\ Agree /\ [Next]_vars => Agree'
<1> SUFFICES ASSUME Control, Data, Whole, Flight, Agree, [Next]_vars, ~refused',
                    NEW src \in Source
             PROVE  AgreesOn(src)'
  BY DEF Agree
<1>0. Mailed /\ cmdChan \in Seq(DbusCommand)
  BY DEF Data, Mailed
<1>1. refused' = refused \/ refused'
  BY DEF Next, SupervisorTask, Start, BeginStart, MarkReady, TickRead, TickFail, TickTick,
         HandleEvent, LoopSubmit, LoopProcess, Shell, CallSubmit, CallProcess, PortReset,
         ProcessItem, Clients, ClientInhibit, ClientUnInhibit, ClientGone, LogindChange, Send,
         Wayland, WaylandApply, WaylandEvent, WaylandLost, WaylandConnect, Emit, UserMoves,
         Advance, vars
<1>2. AgreesOn(src)
  BY <1>1 DEF Agree
<1>3. CASE LoopSubmit
  <2>1. /\ pc = "select" /\ Unlocked /\ cmdChan # <<>> /\ cmdChan' = Tail(cmdChan)
        /\ UNCHANGED <<held, granted, undone, inhibitors>> /\ Accepted(Head(cmdChan))
    BY <1>3 DEF LoopSubmit, tasks, clients
  <2>2. Head(cmdChan) \in DbusCommand /\ Head(cmdChan) \in Command /\ Head(cmdChan).op \in Dbus
    BY <2>1, <1>0 DEF DbusCommand
  <2>3. InFlight' = InFlight \cup {Head(cmdChan)}
    BY <2>1, <2>2, FlightOfSubmit
  <2>4. InFlight = {}
    <3>1. Len(held.items) = 0 /\ \A i \in 1..Len(queue) : queue[i].cmd.op \notin Dbus
      BY <2>1, <1>0, MailFields DEF Flight
    <3>2. QED
      BY <3>1 DEF InFlight, DbusCommand
  <2>5. QED
    BY <2>1, <2>3, <2>4, <1>0, <1>2, TakenAgrees
<1>4. CASE \E cmd \in Calls : CallSubmit(cmd)
  <2>1. PICK cmd \in Calls : CallSubmit(cmd)
    BY <1>4
  <2>2. /\ Unlocked /\ UNCHANGED <<held, cmdChan, granted, undone, inhibitors>>
        /\ Accepted(cmd) \/ UNCHANGED queue
    BY <2>1 DEF CallSubmit, clients
  <2>3. cmd \in Command /\ cmd.op \notin Dbus
    BY CallsAreCommands
  <2>4. CASE Accepted(cmd)
    BY <2>2, <2>3, <2>4, <1>2, FlightOfSubmit, SameAgrees
  <2>5. CASE UNCHANGED queue
    <3>1. InFlight' = InFlight
      BY <2>2, <2>5 DEF InFlight
    <3>2. QED
      BY <2>2, <3>1, <1>2, SameAgrees
  <2>6. QED
    BY <2>2, <2>4, <2>5
<1>5. CASE LoopProcess \/ CallProcess
  <2>1. /\ Unlocked /\ (TakeQueue("loop") \/ TakeQueue("caller"))
        /\ UNCHANGED <<cmdChan, granted, undone, inhibitors>>
    BY <1>5 DEF LoopProcess, CallProcess, clients
  <2>2. QED
    BY <2>1, <1>2, FlightOfTake, SameAgrees
<1>6. CASE ProcessItem
  <2> DEFINE cmd == Head(held.items).cmd
  <2>1. UNCHANGED <<cmdChan, granted, undone>>
    BY <1>6 DEF ProcessItem, clients
  <2>2. /\ Head(held.items) \in Item
        /\ cmd.op \in Dbus =>
             InFlight = {cmd} /\ InFlight' = {} /\ Head(held.items).gen = gen
        /\ cmd.op \notin Dbus => InFlight' = InFlight
    BY <1>6, FlightOfProcess
  <2>3. CASE cmd.op \notin Dbus
    <3>1. inhibitors' = inhibitors
      BY <1>6, <2>3
      DEF ProcessItem, ApplyConfigure, ApplyInhibit, ApplyRelease, ApplyDone, ApplyOther, Dbus
    <3>2. QED
      BY <2>1, <2>2, <2>3, <3>1, <1>2, SameAgrees
  <2>4. CASE cmd.op \in Dbus
    <3>1. cmd \in DbusCommand
      BY <2>2, <2>4 DEF Item, DbusCommand
    <3>2. ApplyConfigure(cmd) \/ ApplyInhibit(cmd) \/ ApplyRelease(cmd) \/ ApplyDone(cmd)
            \/ ApplyOther(cmd)
      BY <1>6, <2>2, <2>4 DEF ProcessItem
    <3>3. IF Affects(cmd, src) THEN src \in inhibitors' <=> cmd.op = "inhibit"
                               ELSE src \in inhibitors' <=> src \in inhibitors
      BY <3>1, <3>2, AppliedIsDue
    <3>4. InFlight = {cmd} /\ InFlight' = {}
      BY <2>2, <2>4
    <3>5. InForce' = InForce /\ \A d : Due(d, src)' <=> Due(d, src)
      BY <2>1 DEF InForce, Held, Due
    <3> HIDE DEF cmd
    <3>6. QED
      BY <2>1, <3>3, <3>4, <3>5, <1>2 DEF AgreesOn, Due
  <2>5. QED
    BY <2>3, <2>4
<1>7. CASE Clients
  <2>1. UNCHANGED <<queue, held, inhibitors>>
    BY <1>7 DEF Clients, ClientInhibit, ClientUnInhibit, ClientGone, LogindChange, Send, tasks
  <2>2. InFlight' = InFlight
    BY <2>1 DEF InFlight
  <2>3. QED
    BY <1>7, <2>1, <2>2, <1>0, <1>2, ClientsAreDue, SentAgrees
<1>8. CASE Start \/ TickTick
  <2>1. /\ Unlocked /\ UNCHANGED <<held, cmdChan, granted, undone, inhibitors>> /\ pc # "process"
        /\ queue' \in {<<>>, queue}
    BY <1>8 DEF Start, BeginStart, MarkReady, TickTick, clients
  <2>2. \A i \in 1..Len(queue) : queue[i].cmd.op \notin Dbus
    BY <2>1 DEF Flight
  <2>3. InFlight' = InFlight
    <3>1. CASE queue' = <<>>
      BY <2>1, <2>2, <3>1 DEF InFlight, DbusCommand
    <3>2. CASE queue' = queue
      BY <2>1, <3>2 DEF InFlight
    <3>3. QED
      BY <2>1, <3>1, <3>2
  <2>4. QED
    BY <2>1, <2>3, <1>2, SameAgrees
<1>9. CASE TickRead \/ TickFail \/ HandleEvent \/ PortReset \/ Wayland \/ UserMoves \/ Advance
           \/ UNCHANGED vars
  <2>1. UNCHANGED <<queue, held, cmdChan, granted, undone, inhibitors>>
    BY <1>9 DEF TickRead, TickFail, HandleEvent, PortReset, Wayland, WaylandApply, WaylandEvent,
                WaylandLost, WaylandConnect, Emit, UserMoves, Advance, vars, tasks, clients
  <2>2. InFlight' = InFlight
    BY <2>1 DEF InFlight
  <2>3. QED
    BY <2>1, <2>2, <1>2, SameAgrees
<1>10. QED
  BY <1>3, <1>4, <1>5, <1>6, <1>7, <1>8, <1>9 DEF Next, SupervisorTask, Shell

LEMMA InhibitsFromStart == Init => TypeInv /\ Whole /\ Flight /\ Agree
<1> SUFFICES ASSUME Init PROVE TypeInv /\ Whole /\ Flight /\ Agree
  OBVIOUS
<1>1. /\ queue = <<>> /\ held.items = <<>> /\ cmdChan = <<>>
      /\ inhibitors = {} /\ granted = {} /\ undone = {}
  BY DEF Init, NoHold
<1>2. Whole /\ Flight /\ InFlight = {} /\ InForce = {}
  BY <1>1 DEF Whole, Flight, Sole, InFlight, InForce, Held
<1>3. QED
  BY <1>1, <1>2, InitTypeInv DEF Agree, AgreesOn

\* Once no command is on its way the service holds exactly the inhibitors that
\* clients, or logind, hold, however clients share paths and whatever restarts
\* have come between, save those released on the other path.
THEOREM InhibitorsExactHolds == Spec => []InhibitorsExact
<1> DEFINE All == TypeInv /\ Whole /\ Flight /\ Agree
<1>1. Init => All
  BY InhibitsFromStart
<1>2. All /\ [Next]_vars => All'
  BY NextKeepsTypeInv, NextKeepsWhole, NextKeepsFlight, NextKeepsAgree DEF TypeInv
<1>3. All => InhibitorsExact
  <2> SUFFICES ASSUME All, cmdChan = <<>>, queue = <<>>, Unlocked, ~refused
               PROVE  inhibitors = Held \ undone
    BY DEF InhibitorsExact, Delivered
  <2>1. inhibitors \subseteq Source /\ InForce \subseteq Source
    BY DEF TypeInv, Data, Surroundings, Grant, Held, InForce
  <2>2. InFlight = {}
    BY DEF Unlocked, NoHold, InFlight
  <2>3. \A src \in Source : src \in inhibitors <=> src \in InForce
    BY <2>2 DEF Agree, AgreesOn
  <2>4. QED
    BY <2>1, <2>3 DEF InForce
<1>4. QED
  BY <1>1, <1>2, <1>3, PTL DEF Spec
-----------------------------------------------------------------------------
(***************************************************************************)
(* The mailbox.  The port implements CommandMailbox with the commands of   *)
(* the queue and of the locked loop as the open ones: a ticket's id is     *)
(* given out once, waits in one place, and has an outcome only after it    *)
(* left it.                                                                *)
(***************************************************************************)
OneEach(q) ==
  /\ \A i \in 1..Len(q) : q[i].id \in 1..(nextId - 1)
  /\ \A i, j \in 1..Len(q) : q[i].id = q[j].id => i = j

Ticketed ==
  /\ OneEach(queue) /\ OneEach(held.items)
  /\ \A o \in outcomes : o.id \in 1..(nextId - 1) /\ o.id \notin Unresolved

LEMMA WaitingIds ==
  ASSUME NEW q \in Seq(Item)
  PROVE  DOMAIN q = 1..Len(q) /\ Len(q) \in Nat
  OBVIOUS

\* Where the unresolved tickets are, by the state of the lock.
LEMMA UnresolvedIds ==
  ASSUME Mailed
  PROVE  /\ Unlocked => Unresolved = {queue[i].id : i \in 1..Len(queue)}
         /\ ~Unlocked => Unresolved = {held.items[i].id : i \in 1..Len(held.items)}
<1>1. DOMAIN queue = 1..Len(queue) /\ DOMAIN held.items = 1..Len(held.items)
  BY MailFields, WaitingIds
<1>2. /\ Unlocked => 1..Len(held.items) = {}
      /\ ~Unlocked => 1..Len(queue) = {}
  BY MailFields
<1>3. QED
  BY <1>1, <1>2 DEF Unresolved

Outcome == {"Applied", "OwnerReplaced", "Superseded"}

\* The bound on the tickets: what the calls, the cookies and the flips allow.
MaxTickets == MaxCalls + 2 * Cardinality(Paths) * MaxCookies + MaxFlips

\* Steps that answer all of S with one outcome, or take a command in.
LEMMA AnswersOne ==
  ASSUME NEW S, S \subseteq Unresolved, S # {}, NEW o \in Outcome,
         Unresolved' = Unresolved \ S,
         outcomes' = outcomes \cup {[id |-> i, out |-> o] : i \in S}
  PROVE  Mailbox!MailboxNext
<1> DEFINE f == [i \in S |-> o]
<1>1. f \in [S -> Outcome]
  OBVIOUS
<1>2. outcomes' = outcomes \cup Mailbox!Given(S, f)
  BY DEF Mailbox!Given
<1> HIDE DEF f
<1>3. Mailbox!Answer
  BY <1>1, <1>2 DEF Mailbox!Answer, Outcome
<1>4. QED
  BY <1>3 DEF Mailbox!MailboxNext

LEMMA TakesOne ==
  ASSUME NEW k \in 1..MaxTickets, k \notin Unresolved, \A a \in outcomes : a.id # k,
         NEW S, S \subseteq Unresolved,
         Unresolved' = (Unresolved \cup {k}) \ S,
         outcomes' = outcomes \cup {[id |-> i, out |-> "Superseded"] : i \in S}
  PROVE  Mailbox!MailboxNext
<1> DEFINE f == [i \in S |-> "Superseded"]
<1>1. f \in [S -> Outcome]
  BY DEF Outcome
<1>2. outcomes' = outcomes \cup Mailbox!Given(S, f)
  BY DEF Mailbox!Given
<1>3. Mailbox!Fresh(k)
  BY DEF Mailbox!Fresh
<1> HIDE DEF f
<1>4. Mailbox!Take(k)
  BY <1>1, <1>2, <1>3 DEF Mailbox!Take, Outcome
<1>5. QED
  BY <1>4 DEF Mailbox!MailboxNext, MaxTickets

\* What a step of the port does to the tickets: nothing, or it takes one in,
\* or it gives an outcome to some that wait.
MailStep ==
  \/ UNCHANGED <<Unresolved, outcomes>>
  \/ Mailbox!MailboxNext

\* A command is accepted: what it replaced is gone and has its outcome.
LEMMA AcceptTickets ==
  ASSUME Control, Mailed, Ticketed, Unlocked, held' = held, NEW cmd \in Command, Accepted(cmd),
         nextId \in 1..MaxTickets
  PROVE  Ticketed' /\ MailStep
<1> DEFINE it == [id |-> nextId, cmd |-> cmd, gen |-> gen]
<1>0. /\ queue \in Seq(Item) /\ Len(queue) \in Nat /\ nextId \in Nat \ {0}
      /\ nextId' = nextId + 1 /\ held.items = <<>> /\ it \in Item /\ it.id = nextId
  BY DEF Mailed, Control, Item, Accepted, Unlocked, NoHold
<1> HIDE DEF it
<1>1. PICK q \in Seq(Item) : \E m, S : Kept(it, q, m, S)
  BY AcceptedMails DEF it
<1>2. PICK m, S : Kept(it, q, m, S)
  BY <1>1
<1> DEFINE T == {queue[j].id : j \in S}
           open == {queue[i].id : i \in 1..Len(queue)}
<1>3. /\ Len(q) \in Nat /\ queue' = Append(q, it) /\ Len(queue') = Len(q) + 1
      /\ queue'[Len(q) + 1] = it
      /\ \A i \in 1..Len(q) : queue'[i] = queue[m[i]] /\ m[i] \in (1..Len(queue)) \ S
      /\ \A i, j \in 1..Len(q) : m[i] = m[j] => i = j
      /\ \A j \in (1..Len(queue)) \ S : \E i \in 1..Len(q) : m[i] = j
      /\ S \subseteq 1..Len(queue)
  <2>1. Len(q) \in Nat
    OBVIOUS
  <2>2. /\ queue' = Append(q, it)
        /\ \A i \in 1..Len(q) : q[i] = queue[m[i]] /\ m[i] \in (1..Len(queue)) \ S
        /\ \A i, j \in 1..Len(q) : m[i] = m[j] => i = j
        /\ \A j \in (1..Len(queue)) \ S : \E i \in 1..Len(q) : m[i] = j
        /\ S \subseteq 1..Len(queue)
    BY <1>2 DEF Kept
  <2>3. /\ Len(queue') = Len(q) + 1 /\ queue'[Len(q) + 1] = it
        /\ \A i \in 1..Len(q) : queue'[i] = q[i]
    BY <2>1, <2>2, <1>0
  <2>4. QED
    BY <2>1, <2>2, <2>3
<1>4. /\ \A i \in 1..Len(queue) : queue[i].id \in 1..(nextId - 1)
      /\ \A i, j \in 1..Len(queue) : queue[i].id = queue[j].id => i = j
      /\ \A o \in outcomes : o.id \in 1..(nextId - 1) /\ o.id \notin open
  BY UnresolvedIds DEF Ticketed, OneEach
<1>5. Unresolved = open
  BY UnresolvedIds
<1>6. Unresolved' = {queue'[i].id : i \in 1..Len(queue')}
  <2>1. queue' \in Seq(Item) /\ held'.items = <<>> /\ <<>> \in Seq(Item)
    BY <1>0, <1>3
  <2>2. DOMAIN (queue') = 1..Len(queue') /\ DOMAIN (held'.items) = {}
    BY <2>1, WaitingIds
  <2>3. QED
    BY <2>2 DEF Unresolved
<1>7. \A i \in 1..(Len(q) + 1) : i \in 1..Len(q) \/ i = Len(q) + 1
  BY <1>3
<1>8. Len(q) + 1 \in 1..(Len(q) + 1) /\ \A i \in 1..Len(q) : i \in 1..(Len(q) + 1)
  BY <1>3
<1>9. nextId \notin 1..(nextId - 1) /\ nextId \in 1..(nextId' - 1)
      /\ 1..(nextId - 1) \subseteq 1..(nextId' - 1)
  BY <1>0
<1>10. \A c : c \in Unresolved' <=> c = nextId \/ c \in open \ T
  <2>1. TAKE c
  <2>2. ASSUME c \in Unresolved' PROVE c = nextId \/ c \in open \ T
    <3>1. PICK i \in 1..(Len(q) + 1) : queue'[i].id = c
      BY <2>2, <1>3, <1>6
    <3>2. CASE i = Len(q) + 1
      BY <3>1, <3>2, <1>0, <1>3
    <3>3. CASE i \in 1..Len(q)
      <4>1. m[i] \in 1..Len(queue) /\ m[i] \notin S /\ queue[m[i]].id = c
        BY <3>1, <3>3, <1>3
      <4>2. c \notin T
        BY <4>1, <1>3, <1>4
      <4>3. QED
        BY <4>1, <4>2
    <3>4. QED
      BY <3>2, <3>3, <1>7
  <2>3. ASSUME c = nextId \/ c \in open \ T PROVE c \in Unresolved'
    <3>1. CASE c = nextId
      BY <3>1, <1>0, <1>3, <1>6, <1>8
    <3>2. CASE c \in open \ T
      <4>1. PICK j \in (1..Len(queue)) \ S : queue[j].id = c
        BY <3>2
      <4>2. PICK i \in 1..Len(q) : m[i] = j
        BY <1>3
      <4>3. i \in 1..Len(queue') /\ queue'[i].id = c
        BY <4>1, <4>2, <1>3, <1>8
      <4>4. QED
        BY <4>3, <1>6
    <3>3. QED
      BY <2>3, <3>1, <3>2
  <2>4. QED
    BY <2>2, <2>3
<1>11. T \subseteq open /\ nextId \notin open
  BY <1>3, <1>4, <1>9
<1>12. outcomes' = outcomes \cup {[id |-> i, out |-> "Superseded"] : i \in T}
  BY <1>2 DEF Kept, Result
<1>13. MailStep
  <2> HIDE DEF T, open
  <2>1. Unresolved' = (Unresolved \cup {nextId}) \ T
    BY <1>5, <1>10, <1>11
  <2>2. \A a \in outcomes : a.id # nextId
    BY <1>4, <1>9
  <2>3. QED
    BY <2>1, <2>2, <1>5, <1>11, <1>12, TakesOne DEF MailStep
<1>14. OneEach(queue)'
  <2>1. ASSUME NEW i \in 1..(Len(q) + 1)
        PROVE  queue'[i].id \in 1..(nextId' - 1) /\ (queue'[i].id = nextId => i = Len(q) + 1)
    <3>1. CASE i = Len(q) + 1
      BY <3>1, <1>0, <1>3, <1>9
    <3>2. CASE i \in 1..Len(q)
      BY <3>2, <1>3, <1>4, <1>9
    <3>3. QED
      BY <3>1, <3>2, <1>7
  <2>2. ASSUME NEW i \in 1..Len(q), NEW j \in 1..Len(q), queue'[i].id = queue'[j].id
        PROVE  i = j
    <3>1. /\ m[i] \in 1..Len(queue) /\ m[j] \in 1..Len(queue)
          /\ queue[m[i]].id = queue[m[j]].id
      BY <2>2, <1>3
    <3>2. m[i] = m[j]
      BY <3>1, <1>4
    <3>3. QED
      BY <3>2, <1>3
  <2>3. \A i, j \in 1..(Len(q) + 1) : queue'[i].id = queue'[j].id => i = j
    <3>1. TAKE i, j \in 1..(Len(q) + 1)
    <3>2. CASE i = Len(q) + 1 \/ j = Len(q) + 1
      BY <3>2, <2>1, <1>0, <1>3
    <3>3. CASE i \in 1..Len(q) /\ j \in 1..Len(q)
      BY <3>3, <2>2
    <3>4. QED
      BY <3>2, <3>3, <1>7
  <2>4. QED
    BY <2>1, <2>3, <1>3 DEF OneEach
<1>15. \A o \in outcomes' : o.id \in 1..(nextId' - 1) /\ o.id \notin Unresolved'
  <2>1. TAKE o \in outcomes'
  <2>2. CASE o \in outcomes
    BY <2>2, <1>4, <1>9, <1>10
  <2>3. CASE o.id \in T
    BY <2>3, <1>3, <1>4, <1>9, <1>10, <1>11
  <2>4. QED
    BY <2>2, <2>3, <1>12
<1>16. OneEach(held.items)'
  BY <1>0 DEF OneEach
<1>17. QED
  BY <1>13, <1>14, <1>15, <1>16 DEF Ticketed
\* All that waits is cancelled.
LEMMA WipeTickets ==
  ASSUME Mailed, Ticketed, Unlocked, held' = held, queue' = <<>>, nextId' = nextId,
         outcomes' = outcomes \cup Cancelled(queue)
  PROVE  Ticketed' /\ MailStep
<1> DEFINE open == {queue[i].id : i \in 1..Len(queue)}
<1>1. /\ Unresolved = open /\ held.items = <<>> /\ nextId \in Nat \ {0}
      /\ \A i \in 1..Len(queue) : queue[i].id \in 1..(nextId - 1)
      /\ \A o \in outcomes : o.id \in 1..(nextId - 1)
  BY UnresolvedIds DEF Unlocked, NoHold, Ticketed, OneEach, Mailed
<1>2. Unresolved' = {}
  BY <1>1 DEF Unresolved
<1>3. outcomes' = outcomes \cup {[id |-> i, out |-> "OwnerReplaced"] : i \in open}
  BY DEF Cancelled, Result
<1>4. Ticketed'
  <2>1. \A o \in outcomes' : o.id \in 1..(nextId' - 1)
    BY <1>1, <1>3
  <2>2. OneEach(queue)' /\ OneEach(held.items)'
    BY <1>1 DEF OneEach
  <2>3. QED
    BY <2>1, <2>2, <1>2 DEF Ticketed
<1> HIDE DEF open
<1>5. MailStep
  <2>1. CASE open = {}
    BY <2>1, <1>1, <1>2, <1>3 DEF MailStep
  <2>2. CASE open # {}
    BY <2>2, <1>1, <1>2, <1>3, AnswersOne DEF MailStep, Outcome
  <2>3. QED
    BY <2>1, <2>2
<1>6. QED
  BY <1>4, <1>5

\* The lock is taken over all that waits; nothing is resolved by that.
LEMMA TakeTickets ==
  ASSUME Mailed, Ticketed, Unlocked, NEW who, TakeQueue(who), UNCHANGED tickets
  PROVE  Ticketed' /\ MailStep
<1>1. queue' = <<>> /\ held.items = <<>> /\ held'.items = queue
      /\ UNCHANGED <<nextId, outcomes>>
  BY DEF TakeQueue, Unlocked, NoHold, tickets
<1>2. Unresolved' = Unresolved
  BY <1>1 DEF Unresolved
<1>3. QED
  BY <1>1, <1>2 DEF Ticketed, OneEach, MailStep

\* The head of what is held leaves it with its outcome.
LEMMA ProcessTickets ==
  ASSUME Mailed, Ticketed, ProcessItem
  PROVE  Ticketed' /\ MailStep
<1> DEFINE h == held.items
<1>1. /\ ~Unlocked /\ UNCHANGED <<queue, nextId>>
      /\ held' = IF Len(h) = 1 THEN NoHold ELSE [held EXCEPT !.items = Tail(@)]
  BY DEF ProcessItem
<1>2. held \in [by : {"loop", "caller"}, items : Seq(Item) \ {<<>>}] /\ queue = <<>>
  BY <1>1 DEF Mailed, Unlocked
<1>3. h \in Seq(Item) /\ h # <<>> /\ Len(h) \in Nat
  BY <1>2
<1>4. held'.items = Tail(h)
  <2>1. CASE Len(h) = 1
    <3>1. Tail(h) \in Seq(Item) /\ Len(Tail(h)) = 0
      <4>1. Tail(h) \in Seq(Item) /\ Len(Tail(h)) = Len(h) - 1
        BY <1>3
      <4>2. QED
        BY <4>1, <2>1
    <3>2. \A t \in Seq(Item) : Len(t) = 0 => t = <<>>
      OBVIOUS
    <3>3. QED
      BY <2>1, <3>1, <3>2, <1>1 DEF NoHold
  <2>2. QED
    BY <2>1, <1>1, <1>2
<1>5. PICK o \in Outcome : outcomes' = outcomes \cup {Result(Head(h), o)}
  BY DEF ProcessItem, Outcome
<1>6. /\ Unresolved = {h[i].id : i \in 1..Len(h)}
      /\ \A i \in 1..Len(h) : h[i].id \in 1..(nextId - 1)
      /\ \A i, j \in 1..Len(h) : h[i].id = h[j].id => i = j
      /\ \A r \in outcomes : r.id \in 1..(nextId - 1) /\ r.id \notin Unresolved
  BY <1>1, UnresolvedIds DEF Ticketed, OneEach
<1> DEFINE t == Tail(h)
<1> HIDE DEF h
<1>7. /\ Head(h) = h[1] /\ 1 \in 1..Len(h) /\ t \in Seq(Item)
      /\ \A i \in 1..Len(h) : i = 1 \/ (i - 1 \in 1..Len(t) /\ t[i - 1] = h[i])
      /\ \A i \in 1..Len(t) : i \in Nat /\ i + 1 \in 1..Len(h) /\ t[i] = h[i + 1] /\ i + 1 # 1
  BY <1>3
<1> HIDE DEF t
<1>8. Unresolved' = {t[i].id : i \in 1..Len(t)}
  <2>1. held'.items = t /\ queue' = <<>>
    BY <1>1, <1>2, <1>4 DEF t
  <2>2. DOMAIN t = 1..Len(t)
    BY <1>7, WaitingIds
  <2>3. QED
    BY <2>1, <2>2 DEF Unresolved
<1>9. Unresolved' = Unresolved \ {Head(h).id} /\ Head(h).id \in Unresolved
  <2>1. ASSUME NEW c \in Unresolved' PROVE c \in Unresolved /\ c # Head(h).id
    <3>1. PICK i \in 1..Len(t) : t[i].id = c
      BY <1>8
    <3>2. i + 1 \in 1..Len(h) /\ h[i + 1].id = c /\ i + 1 # 1
      BY <3>1, <1>7
    <3>3. QED
      BY <3>2, <1>6, <1>7
  <2>2. ASSUME NEW c \in Unresolved, c # Head(h).id PROVE c \in Unresolved'
    <3>1. PICK i \in 1..Len(h) : h[i].id = c
      BY <1>6
    <3>2. i - 1 \in 1..Len(t) /\ t[i - 1].id = c
      BY <3>1, <2>2, <1>7
    <3>3. QED
      BY <3>2, <1>8
  <2>3. QED
    BY <2>1, <2>2, <1>6, <1>7
<1>10. MailStep
  <2>1. outcomes' = outcomes \cup {[id |-> i, out |-> o] : i \in {Head(h).id}}
    BY <1>5 DEF Result, h
  <2>2. QED
    BY <1>9, <2>1, AnswersOne DEF MailStep
<1>11. \A r \in outcomes' : r.id \in 1..(nextId' - 1) /\ r.id \notin Unresolved'
  <2>1. TAKE r \in outcomes'
  <2>2. r \in outcomes \/ r.id = Head(h).id
    BY <1>5 DEF Result, h
  <2>3. QED
    BY <2>2, <1>1, <1>6, <1>7, <1>9
<1>12. OneEach(held.items)'
  <2>1. held'.items = t
    BY <1>4 DEF t, h
  <2>2. \A i \in 1..Len(t) : t[i].id \in 1..(nextId' - 1)
    BY <1>1, <1>6, <1>7
  <2>3. ASSUME NEW i \in 1..Len(t), NEW j \in 1..Len(t), t[i].id = t[j].id
        PROVE  i + 1 = j + 1
    <3>1. /\ i + 1 \in 1..Len(h) /\ j + 1 \in 1..Len(h)
          /\ h[i + 1].id = h[j + 1].id
      BY <2>3, <1>7
    <3>2. QED
      BY <3>1, <1>6
  <2>4. \A i, j \in Nat : i + 1 = j + 1 => i = j
    OBVIOUS
  <2>5. QED
    BY <2>1, <2>2, <2>3, <2>4, <1>7 DEF OneEach
<1>13. OneEach(queue)'
  BY <1>1 DEF Ticketed, OneEach
<1>14. QED
  BY <1>10, <1>11, <1>12, <1>13 DEF Ticketed

LEMMA FrameTickets ==
  ASSUME Ticketed, UNCHANGED <<queue, held, nextId, outcomes>>
  PROVE  Ticketed' /\ MailStep
<1>1. Unresolved' = Unresolved
  BY DEF Unresolved
<1>2. QED
  BY <1>1 DEF Ticketed, OneEach, MailStep

\* The cookies that were given out, and what the clients have of them.
GivenOut == {x \in Paths \X (1..MaxCookies) : x[2] < nextCookie[x[1]]}

ClientHeld == {g \in granted : g.src # Logind}

\* There are no more tickets than calls, flips, cookies and their releases.
Counted ==
  /\ IsFiniteSet(granted) /\ calls \in 0..MaxCalls /\ flips \in 0..MaxFlips
  /\ nextId + Len(cmdChan) + Cardinality(ClientHeld)
       <= 1 + calls + 2 * Cardinality(GivenOut) + flips

LEMMA CountsAreNat ==
  ASSUME IsFiniteSet(granted)
  PROVE  /\ IsFiniteSet(ClientHeld) /\ Cardinality(ClientHeld) \in Nat
         /\ IsFiniteSet(GivenOut) /\ Cardinality(GivenOut) \in Nat
         /\ Cardinality(GivenOut) <= Cardinality(Paths) * MaxCookies
         /\ Cardinality(Paths) \in Nat
<1>1. ClientHeld \in SUBSET granted /\ GivenOut \in SUBSET (Paths \X (1..MaxCookies))
  BY DEF ClientHeld, GivenOut
<1>2. IsFiniteSet(1..MaxCookies) /\ Cardinality(1..MaxCookies) = MaxCookies
  BY IdleConstants, FS_Interval
<1>3. /\ IsFiniteSet(Paths \X (1..MaxCookies))
      /\ Cardinality(Paths \X (1..MaxCookies)) = Cardinality(Paths) * MaxCookies
  BY <1>2, IdleConstants, FS_Product
<1>4. IsFiniteSet(ClientHeld) /\ IsFiniteSet(GivenOut)
      /\ Cardinality(GivenOut) <= Cardinality(Paths) * MaxCookies
  BY <1>1, <1>3, FS_Subset
<1>5. QED
  BY <1>4, IdleConstants, FS_CardinalityType

\* So the next ticket is within the bound whenever a command can be accepted.
LEMMA TicketsSuffice ==
  ASSUME Mailed, Counted, cmdChan # <<>> \/ calls < MaxCalls
  PROVE  nextId \in 1..MaxTickets
<1>1. /\ Cardinality(ClientHeld) \in Nat /\ Cardinality(GivenOut) \in Nat
      /\ Cardinality(GivenOut) <= Cardinality(Paths) * MaxCookies
      /\ Cardinality(Paths) * MaxCookies \in Nat /\ Cardinality(Paths) \in Nat
  BY CountsAreNat, IdleConstants DEF Counted
<1>2. Len(cmdChan) \in Nat /\ (cmdChan # <<>> => Len(cmdChan) >= 1) /\ nextId \in Nat \ {0}
  BY DEF Mailed
<1>3. PICK k \in Nat : k = Cardinality(Paths) * MaxCookies
  BY <1>1
<1>4. MaxTickets = MaxCalls + 2 * k + MaxFlips
  BY <1>1, <1>3, IdleConstants DEF MaxTickets
<1>5. /\ nextId + Len(cmdChan) + Cardinality(ClientHeld)
           <= 1 + calls + 2 * Cardinality(GivenOut) + flips
      /\ calls \in Nat /\ calls <= MaxCalls /\ flips \in Nat /\ flips <= MaxFlips
      /\ MaxCalls \in Nat /\ MaxFlips \in Nat
  BY IdleConstants DEF Counted
<1>6. nextId <= MaxCalls + 2 * k + MaxFlips
  <2>1. Cardinality(GivenOut) <= k /\ Cardinality(GivenOut) \in Nat /\ Cardinality(ClientHeld) \in Nat
    BY <1>1, <1>3
  <2>2. nextId + Len(cmdChan) <= 1 + calls + 2 * k + flips
    BY <2>1, <1>2, <1>5
  <2>3. Len(cmdChan) >= 1 \/ calls < MaxCalls
    BY <1>2
  <2>4. QED
    BY <2>2, <2>3, <1>2, <1>5
<1>7. QED
  BY <1>2, <1>4, <1>6
LEMMA NextKeepsCounted == Control /\ Data /\ Counted /\ [Next]_vars => Counted'
<1> SUFFICES ASSUME Control, Data, Counted, [Next]_vars PROVE Counted'
  OBVIOUS
<1>0. /\ cmdChan \in Seq(DbusCommand) /\ Len(cmdChan) \in Nat /\ nextId \in Nat \ {0}
      /\ calls \in Nat /\ calls <= MaxCalls /\ flips \in Nat /\ flips <= MaxFlips
      /\ MaxCalls \in Nat /\ MaxFlips \in Nat /\ IsFiniteSet(granted)
      /\ Cardinality(ClientHeld) \in Nat /\ Cardinality(GivenOut) \in Nat
      /\ nextId + Len(cmdChan) + Cardinality(ClientHeld)
           <= 1 + calls + 2 * Cardinality(GivenOut) + flips
  BY CountsAreNat, IdleConstants DEF Data, Mailed, Counted
<1>1. ASSUME UNCHANGED <<granted, nextCookie, flips>>, NEW dc \in 0..1, calls' = calls + dc,
             calls' <= MaxCalls, NEW dn \in 0..1, nextId' = nextId + dn,
             NEW len \in Nat, Len(cmdChan') = len, dn + len <= dc + Len(cmdChan)
      PROVE  Counted'
  <2>1. GivenOut' = GivenOut /\ ClientHeld' = ClientHeld
    BY <1>1 DEF GivenOut, ClientHeld
  <2>2. PICK h \in Nat, d \in Nat, l \in Nat :
          h = Cardinality(ClientHeld) /\ d = Cardinality(GivenOut) /\ l = Len(cmdChan)
    BY <1>0
  <2>3. nextId + l + h <= 1 + calls + 2 * d + flips
    BY <2>2, <1>0
  <2>4. (nextId + dn) + len + h <= 1 + (calls + dc) + 2 * d + flips
    <3>1. dn + len <= dc + l /\ dn \in Nat /\ dc \in Nat
      BY <2>2, <1>1
    <3>2. nextId \in Nat /\ calls \in Nat /\ flips \in Nat
      BY <1>0
    <3>3. QED
      BY <3>1, <3>2, <2>3
  <2>5. nextId' + Len(cmdChan') + Cardinality(ClientHeld')
          <= 1 + calls' + 2 * Cardinality(GivenOut') + flips'
    <3>1. Cardinality(ClientHeld') = h /\ Cardinality(GivenOut') = d
      BY <2>1, <2>2
    <3>2. nextId' = nextId + dn /\ Len(cmdChan') = len /\ calls' = calls + dc /\ flips' = flips
      BY <1>1
    <3>3. QED
      BY <3>1, <3>2, <2>4
  <2>6. calls' \in 0..MaxCalls
    BY <1>0, <1>1
  <2>7. QED
    BY <2>5, <2>6, <1>0, <1>1 DEF Counted
<1>2. CASE LoopSubmit
  <2>1. /\ cmdChan # <<>> /\ cmdChan' = Tail(cmdChan)
        /\ nextId' = nextId \/ nextId' = nextId + 1
        /\ UNCHANGED <<granted, nextCookie, flips, calls>>
    BY <1>2 DEF LoopSubmit, Accepted, clients, tickets, shell
  <2>2. PICK dn \in 0..1 : nextId' = nextId + dn
    BY <2>1, <1>0
  <2>3. PICK len \in Nat : Len(cmdChan') = len /\ len = Len(cmdChan) - 1
    <3>1. Len(Tail(cmdChan)) = Len(cmdChan) - 1 /\ Len(cmdChan) # 0
      BY <2>1, <1>0
    <3>2. Len(cmdChan) - 1 \in Nat
      BY <3>1, <1>0
    <3>3. QED
      BY <3>1, <3>2, <2>1
  <2>4. dn + len <= 0 + Len(cmdChan) /\ calls' = calls + 0 /\ 0 \in 0..1
    BY <2>1, <2>3, <1>0
  <2>5. QED
    BY <2>1, <2>2, <2>3, <2>4, <1>0, <1>1
<1>3. CASE \E cmd \in Calls : CallSubmit(cmd)
  <2>1. /\ calls < MaxCalls /\ calls' = calls + 1
        /\ nextId' = nextId \/ nextId' = nextId + 1
        /\ UNCHANGED <<granted, nextCookie, flips, cmdChan>>
    BY <1>3 DEF CallSubmit, Accepted, clients, tickets
  <2>2. PICK dn \in 0..1 : nextId' = nextId + dn
    BY <2>1, <1>0
  <2>3. dn + Len(cmdChan) <= 1 + Len(cmdChan) /\ calls' <= MaxCalls /\ 1 \in 0..1
    BY <2>1, <1>0
  <2>4. QED
    BY <2>1, <2>2, <2>3, <1>0, <1>1
<1>4. CASE PortReset
  <2>1. /\ calls < MaxCalls /\ calls' = calls + 1
        /\ UNCHANGED <<granted, nextCookie, flips, cmdChan, nextId>>
    BY <1>4 DEF PortReset, clients, tickets
  <2>2. /\ 0 + Len(cmdChan) <= 1 + Len(cmdChan) /\ calls' <= MaxCalls /\ nextId' = nextId + 0
        /\ 0 \in 0..1 /\ 1 \in 0..1
    BY <2>1, <1>0
  <2>3. QED
    BY <2>1, <2>2, <1>0, <1>1
<1>5. CASE Clients
  <2>1. UNCHANGED <<nextId, calls>>
    BY <1>5 DEF Clients, ClientInhibit, ClientUnInhibit, ClientGone, LogindChange, Send, tickets,
                shell
  <2>2. PICK c \in DbusCommand : cmdChan' = Append(cmdChan, c)
    BY <1>5, <2>1, ChannelGrows
  <2>3. Len(cmdChan') = Len(cmdChan) + 1
    BY <2>2, <1>0
  <2>4. CASE \E p \in Paths, s \in Senders : ClientInhibit(p, s)
    <3>1. PICK p \in Paths, s \in Senders : ClientInhibit(p, s)
      BY <2>4
    <3> DEFINE new == [path |-> p, src |-> [cookie |-> nextCookie[p], sender |-> s]]
    <3>2. /\ granted' = granted \cup {new} /\ flips' = flips /\ nextCookie[p] <= MaxCookies
          /\ nextCookie' = [nextCookie EXCEPT ![p] = nextCookie[p] + 1]
      BY <3>1 DEF ClientInhibit
    <3> HIDE DEF new
    <3>3. IsFiniteSet(granted')
      BY <3>2, <1>0, FS_AddElement
    <3>4. Cardinality(ClientHeld') <= Cardinality(ClientHeld) + 1 /\ Cardinality(ClientHeld') \in Nat
      <4>1. ClientHeld' \in SUBSET (ClientHeld \cup {new})
        BY <3>2 DEF ClientHeld
      <4>2. /\ IsFiniteSet(ClientHeld \cup {new})
            /\ Cardinality(ClientHeld \cup {new}) <= Cardinality(ClientHeld) + 1
            /\ Cardinality(ClientHeld \cup {new}) \in Nat
        <5>1. IsFiniteSet(ClientHeld) /\ Cardinality(ClientHeld) \in Nat
          BY <1>0, CountsAreNat
        <5>2. /\ IsFiniteSet(ClientHeld \cup {new})
              /\ Cardinality(ClientHeld \cup {new}) =
                   IF new \in ClientHeld THEN Cardinality(ClientHeld) ELSE Cardinality(ClientHeld) + 1
          BY <5>1, FS_AddElement
        <5>3. QED
          BY <5>1, <5>2
      <4>3. /\ IsFiniteSet(ClientHeld')
            /\ Cardinality(ClientHeld') <= Cardinality(ClientHeld \cup {new})
        BY <4>1, <4>2, FS_Subset
      <4>4. Cardinality(ClientHeld') \in Nat
        BY <4>3, FS_CardinalityType
      <4>5. QED
        BY <4>2, <4>3, <4>4, <1>0
    <3>5. Cardinality(GivenOut') = Cardinality(GivenOut) + 1
      <4>1. nextCookie \in [Paths -> Nat \ {0}] /\ MaxCookies \in Nat
        BY IdleConstants DEF Data, Surroundings
      <4>2. nextCookie[p] \in 1..MaxCookies /\ nextCookie[p] \in Nat
        BY <3>2, <4>1
      <4>3. <<p, nextCookie[p]>> \notin GivenOut
        BY <4>2 DEF GivenOut
      <4>4. ASSUME NEW x \in Paths \X (1..MaxCookies)
            PROVE  x[2] < nextCookie'[x[1]]
                     <=> (x[2] < nextCookie[x[1]] \/ x = <<p, nextCookie[p]>>)
        <5>1. x[1] \in Paths /\ x[2] \in Nat /\ x = <<x[1], x[2]>>
          BY <4>1
        <5>2. CASE x[1] = p
          <6>1. nextCookie'[x[1]] = nextCookie[p] + 1
            BY <5>2, <3>2, <4>1
          <6>2. x[2] < nextCookie[p] + 1 <=> (x[2] < nextCookie[p] \/ x[2] = nextCookie[p])
            BY <5>1, <4>2
          <6>3. QED
            BY <5>1, <5>2, <6>1, <6>2
        <5>3. CASE x[1] # p
          BY <5>1, <5>3, <3>2, <4>1
        <5>4. QED
          BY <5>2, <5>3
      <4>5. <<p, nextCookie[p]>> \in Paths \X (1..MaxCookies)
        BY <4>2
      <4>6. GivenOut' = GivenOut \cup {<<p, nextCookie[p]>>}
        BY <4>4, <4>5 DEF GivenOut
      <4>7. IsFiniteSet(GivenOut)
        BY <1>0, CountsAreNat
      <4>8. QED
        BY <4>3, <4>6, <4>7, FS_AddElement
    <3>6. nextId + (Len(cmdChan) + 1) + Cardinality(ClientHeld')
            <= 1 + calls + 2 * Cardinality(GivenOut') + flips
      <4>1. PICK h \in Nat, d \in Nat, l \in Nat, i \in Nat :
              /\ h = Cardinality(ClientHeld) /\ d = Cardinality(GivenOut) /\ l = Len(cmdChan)
              /\ i = Cardinality(ClientHeld')
        BY <3>4, <1>0
      <4>2. nextId + l + h <= 1 + calls + 2 * d + flips /\ i <= h + 1
        BY <4>1, <3>4, <1>0
      <4>3. nextId + (l + 1) + i <= 1 + calls + 2 * (d + 1) + flips
        BY <4>2, <1>0
      <4>4. QED
        BY <4>1, <4>3, <3>5
    <3>7. QED
      BY <2>1, <2>3, <3>2, <3>3, <3>6, <1>0 DEF Counted
  <2>5. ASSUME granted' \subseteq granted, UNCHANGED <<nextCookie, flips>>,
               NEW g \in granted, g.src # Logind, g \notin granted'
        PROVE  Counted'
    <3>1. ClientHeld' \in SUBSET (ClientHeld \ {g}) /\ g \in ClientHeld /\ GivenOut' = GivenOut
          /\ granted' \in SUBSET granted
      BY <2>5 DEF ClientHeld, GivenOut
    <3>2. IsFiniteSet(ClientHeld) /\ IsFiniteSet(granted')
      BY <3>1, <1>0, CountsAreNat, FS_Subset
    <3>3. /\ IsFiniteSet(ClientHeld \ {g})
          /\ Cardinality(ClientHeld \ {g}) = Cardinality(ClientHeld) - 1
      BY <3>1, <3>2, FS_RemoveElement
    <3>4. /\ IsFiniteSet(ClientHeld')
          /\ Cardinality(ClientHeld') <= Cardinality(ClientHeld) - 1
      BY <3>1, <3>3, FS_Subset
    <3>5. Cardinality(ClientHeld') \in Nat
      BY <3>4, FS_CardinalityType
    <3>6. nextId + (Len(cmdChan) + 1) + Cardinality(ClientHeld')
            <= 1 + calls + 2 * Cardinality(GivenOut) + flips
      BY <3>4, <3>5, <1>0
    <3>7. QED
      BY <2>1, <2>3, <2>5, <3>1, <3>2, <3>6, <1>0 DEF Counted
  <2>6. CASE \E g \in granted : g.src # Logind /\ ClientUnInhibit(g)
    BY <2>5, <2>6 DEF ClientUnInhibit
  <2>7. CASE \E s \in Senders : ClientGone(s)
    <3>1. PICK s \in Senders : ClientGone(s)
      BY <2>7
    <3>2. PICK g \in granted : g.src.sender = s
      BY <3>1 DEF ClientGone
    <3>3. g.src # Logind
      BY <3>2, IdleConstants DEF Logind
    <3>4. QED
      BY <3>1, <3>2, <3>3, <2>5 DEF ClientGone
  <2>8. CASE LogindChange
    <3> DEFINE new == [path |-> "logind", src |-> Logind]
    <3>1. /\ flips < MaxFlips /\ flips' = flips + 1 /\ nextCookie' = nextCookie
          /\ granted' \in {{g \in granted : g.src # Logind}, granted \cup {new}}
          /\ new.src = Logind
      BY <2>8 DEF LogindChange
    <3> HIDE DEF new
    <3>2. ClientHeld' = ClientHeld /\ GivenOut' = GivenOut
      BY <3>1 DEF ClientHeld, GivenOut
    <3>3. IsFiniteSet(granted')
      <4>1. {g \in granted : g.src # Logind} \in SUBSET granted
        OBVIOUS
      <4>2. IsFiniteSet({g \in granted : g.src # Logind}) /\ IsFiniteSet(granted \cup {new})
        BY <4>1, <1>0, FS_Subset, FS_AddElement
      <4>3. QED
        BY <3>1, <4>2
    <3>4. nextId + (Len(cmdChan) + 1) + Cardinality(ClientHeld)
            <= 1 + calls + 2 * Cardinality(GivenOut) + (flips + 1)
      BY <1>0
    <3>5. QED
      BY <2>1, <2>3, <3>1, <3>2, <3>3, <3>4, <1>0 DEF Counted
  <2>9. QED
    BY <1>5, <2>4, <2>6, <2>7, <2>8 DEF Clients
<1>6. CASE Start \/ TickRead \/ TickFail \/ TickTick \/ HandleEvent \/ LoopProcess \/ CallProcess
           \/ ProcessItem \/ Wayland \/ UserMoves \/ Advance \/ UNCHANGED vars
  <2>1. UNCHANGED <<granted, nextCookie, flips, calls, nextId, cmdChan>>
    BY <1>6 DEF Start, BeginStart, MarkReady, TickRead, TickFail, TickTick, HandleEvent,
                LoopProcess, CallProcess, ProcessItem, Wayland, WaylandApply, WaylandEvent,
                WaylandLost, WaylandConnect, Emit, UserMoves, Advance, vars, clients, tickets, shell
  <2>2. /\ 0 + Len(cmdChan) <= 0 + Len(cmdChan) /\ calls' = calls + 0 /\ nextId' = nextId + 0
        /\ calls' <= MaxCalls /\ 0 \in 0..1
    BY <2>1, <1>0
  <2>3. QED
    BY <2>1, <2>2, <1>0, <1>1
<1>7. QED
  BY <1>2, <1>3, <1>4, <1>5, <1>6 DEF Next, SupervisorTask, Shell

\* Every step keeps the tickets and maps to a step of the contract.
LEMMA NextMails ==
  Control /\ Data /\ Ticketed /\ Counted /\ [Next]_vars => Ticketed' /\ MailStep
<1> SUFFICES ASSUME Control, Data, Ticketed, Counted, [Next]_vars PROVE Ticketed' /\ MailStep
  OBVIOUS
<1>0. Mailed /\ cmdChan \in Seq(DbusCommand)
  BY DEF Data, Mailed
<1>1. CASE Start \/ TickTick
  <2>1. /\ Unlocked /\ UNCHANGED <<held, nextId>>
        /\ \/ queue' = <<>> /\ outcomes' = outcomes \cup Cancelled(queue)
           \/ UNCHANGED <<queue, outcomes>>
    BY <1>1 DEF Start, BeginStart, MarkReady, TickTick, tickets
  <2>2. QED
    BY <2>1, <1>0, WipeTickets, FrameTickets
<1>2. CASE LoopSubmit
  <2>1. /\ cmdChan # <<>> /\ Unlocked /\ held' = held
        /\ Accepted(Head(cmdChan)) \/ UNCHANGED <<queue, tickets>>
    BY <1>2 DEF LoopSubmit
  <2>2. Head(cmdChan) \in Command /\ nextId \in 1..MaxTickets
    BY <2>1, <1>0, TicketsSuffice DEF DbusCommand
  <2>3. QED
    BY <2>1, <2>2, <1>0, AcceptTickets, FrameTickets DEF tickets
<1>3. CASE \E cmd \in Calls : CallSubmit(cmd)
  <2>1. PICK cmd \in Calls : CallSubmit(cmd)
    BY <1>3
  <2>2. /\ calls < MaxCalls /\ Unlocked /\ held' = held
        /\ Accepted(cmd) \/ UNCHANGED <<queue, tickets>>
    BY <2>1 DEF CallSubmit
  <2>3. cmd \in Command /\ nextId \in 1..MaxTickets
    BY <2>2, <1>0, TicketsSuffice, CallsAreCommands
  <2>4. QED
    BY <2>2, <2>3, <1>0, AcceptTickets, FrameTickets DEF tickets
<1>4. CASE LoopProcess \/ CallProcess
  <2>1. Unlocked /\ UNCHANGED tickets /\ (TakeQueue("loop") \/ TakeQueue("caller"))
    BY <1>4 DEF LoopProcess, CallProcess
  <2>2. QED
    BY <2>1, <1>0, TakeTickets
<1>5. CASE ProcessItem
  BY <1>0, <1>5, ProcessTickets
<1>6. CASE TickRead \/ TickFail \/ HandleEvent \/ PortReset \/ Clients \/ Wayland \/ UserMoves
           \/ Advance \/ UNCHANGED vars
  <2>1. UNCHANGED <<queue, held, nextId, outcomes>>
    BY <1>6 DEF TickRead, TickFail, HandleEvent, PortReset, Clients, ClientInhibit,
                ClientUnInhibit, ClientGone, LogindChange, Send, Wayland, WaylandApply,
                WaylandEvent, WaylandLost, WaylandConnect, Emit, UserMoves, Advance, vars, tasks,
                tickets
  <2>2. QED
    BY <2>1, FrameTickets
<1>7. QED
  BY <1>1, <1>2, <1>3, <1>4, <1>5, <1>6 DEF Next, SupervisorTask, Shell

\* The idle port implements the mailbox contract of ADR-0006: a ticket is given
\* out once and gets one outcome, whichever thread processes its command and
\* whichever owner is replaced between the two lockings of a call.
THEOREM IdleImplementsMailbox == Spec => MailboxImplemented
<1> DEFINE All == TypeInv /\ Ticketed /\ Counted
<1>1. Init => All /\ Mailbox!MailboxInit
  <2> SUFFICES ASSUME Init PROVE All /\ Mailbox!MailboxInit
    OBVIOUS
  <2>1. /\ queue = <<>> /\ held.items = <<>> /\ cmdChan = <<>> /\ granted = {} /\ outcomes = {}
        /\ nextId = 1 /\ calls = 0 /\ flips = 0
    BY DEF Init, NoHold
  <2>2. Unresolved = {}
    BY <2>1 DEF Unresolved
  <2>3. Ticketed
    BY <2>1 DEF Ticketed, OneEach
  <2>4. Cardinality(ClientHeld) = 0 /\ Cardinality(GivenOut) \in Nat /\ IsFiniteSet(granted)
    BY <2>1, CountsAreNat, FS_EmptySet DEF ClientHeld
  <2>5. nextId + Len(cmdChan) + Cardinality(ClientHeld)
          <= 1 + calls + 2 * Cardinality(GivenOut) + flips
    BY <2>1, <2>4
  <2>6. Counted
    BY <2>1, <2>4, <2>5, IdleConstants DEF Counted
  <2>7. QED
    BY <2>1, <2>2, <2>3, <2>6, InitTypeInv DEF Mailbox!MailboxInit
<1>2. All /\ [Next]_vars => All' /\ [Mailbox!MailboxNext]_(Mailbox!mailboxVars)
  <2>1. MailStep => [Mailbox!MailboxNext]_(Mailbox!mailboxVars)
    BY DEF MailStep, Mailbox!mailboxVars
  <2>2. QED
    BY <2>1, NextKeepsTypeInv, NextKeepsCounted, NextMails DEF TypeInv
<1>3. QED
  BY <1>1, <1>2, PTL DEF Spec, MailboxImplemented, Mailbox!MailboxSpec
=============================================================================

--------------------------- MODULE DeviceConnection ---------------------------
(***************************************************************************)
(* The device client's connection (DeviceClient): the maintain_connection  *)
(* loop that drives the domain supervisor, the signal listeners and the    *)
(* closed watcher that every connection leaves behind, the version gate in *)
(* front of the client's projection, and shutdown.  One domain is          *)
(* modelled; the others have listeners and entries of their own.           *)
(*                                                                         *)
(* The loop, each listener, each watcher, shutdown and reset_quarantine    *)
(* are tasks of their own; a step ends where a lock is released or an      *)
(* await suspends.  The bus and the daemon are the environment.            *)
(***************************************************************************)
EXTENDS DomainSupervisor, Sequences

CONSTANTS
  Values,        \* payloads of the domain
  MaxConns,      \* bound: transports opened
  MaxChanges,    \* bound: changes of the daemon's projection
  MaxRestarts,   \* bound: restarts of the daemon
  MaxTime,       \* bound: the clock
  MaxShutdowns   \* bound: 0 leaves shutdown out, 1 lets it happen

ASSUME ConnectionConstants ==
  /\ Values # {}
  /\ MaxConns \in Nat /\ MaxChanges \in Nat /\ MaxRestarts \in Nat
  /\ MaxTime \in Nat /\ MaxShutdowns \in {0, 1}

Conns == 1..MaxConns
NoConn == 0

Lifecycle == {"Unavailable", "Reconnecting", "Ready"}

\* A published state of the daemon; its lifecycle is Ready here.
Published == [rev : Nat, val : Values]

VARIABLES
  now,         \* time_source
  sup,         \* supervisor
  conn,        \* connection
  identity,    \* connection_identity: the unique name of a transport
  gen,         \* installed_owner_generation
  dom,         \* domains[domain]
  loop,        \* the maintain_connection task: pc and locals
  listener,    \* per transport: the generation it stamps and the undelivered signals
  watcher,     \* per transport: where its closed watcher is
  resetting,   \* reset_quarantine has released the supervisor
  shut,        \* where shutdown is
  open,        \* transports that are open
  opened,      \* number of transports opened so far
  daemon       \* its projection, what it has still to emit, changes and restarts

tasks  == <<loop, listener, watcher, resetting, shut>>
client == <<sup, conn, identity, gen, dom>>
bus    == <<open, opened, daemon>>
vars == <<now, client, tasks, bus>>

Idle == [pc |-> "tick", c |-> NoConn, at |-> 0, life |-> "Reconnecting", snap |-> {}]

NoListener == [gen |-> 0, on |-> FALSE, loaded |-> FALSE, queue |-> <<>>]

Init ==
  /\ now = 0
  /\ sup = NewSupervisor
  /\ conn = NoConn /\ identity = NoConn /\ gen = 0
  /\ loop = Idle
  /\ listener = [c \in Conns |-> NoListener]
  /\ watcher = [c \in Conns |-> "none"]
  /\ resetting = FALSE /\ shut = "none"
  /\ open = {} /\ opened = 0
  /\ dom = [gen |-> 0, rev |-> 0, life |-> "Unavailable", val |-> CHOOSE v \in Values : TRUE]
  /\ daemon = [rev |-> 1, val |-> dom.val, unsent |-> <<>>, changes |-> 0, restarts |-> 0]

-----------------------------------------------------------------------------
(***************************************************************************)
(* update_local_domain_state: an update is accepted only when its version  *)
(* is strictly newer than the projection's and its generation installed.   *)
(***************************************************************************)
\* Mutant: only the revision is compared.
NewerRevision(g, r) == r > dom.rev

\* Mutant: within a generation anything is accepted.
NewerGeneration(g, r) == g >= dom.gen

Newer(g, r) == g > dom.gen \/ (g = dom.gen /\ r > dom.rev)

Updated(g, s) ==
  IF g <= gen /\ Newer(g, s.rev)
  THEN [gen |-> g, rev |-> s.rev, life |-> "Ready", val |-> s.val]
  ELSE dom

\* The lifecycle report_owner_failure writes after record_failure.
FailedLifecycle(s) == IF s.st = "Quarantined" THEN "Unavailable" ELSE "Reconnecting"

At(pc) == [loop EXCEPT !.pc = pc]

-----------------------------------------------------------------------------
(***************************************************************************)
(* maintain_connection and connect_on.                                     *)
(***************************************************************************)
LoopTick ==
  /\ loop.pc = "tick"
  /\ sup' = Tick(sup, now)
  /\ loop' = [Idle EXCEPT !.pc = "match", !.at = now]
  /\ UNCHANGED <<now, conn, identity, gen, dom, listener, watcher, resetting, shut, bus>>

\* A sleep is the time until the next step of the loop.
LoopMatch ==
  /\ loop.pc = "match"
  /\ loop' = At(CASE sup.st = "Running"  -> "check"
                  [] sup.st = "Starting" -> "dial"
                  [] sup.st \in {"Backoff", "Quarantined"} -> "tick"
                  [] OTHER -> "exit")
  /\ sup' = IF sup.st = "Backoff" THEN Tick(sup, now) ELSE sup
  /\ UNCHANGED <<now, conn, identity, gen, dom, listener, watcher, resetting, shut, bus>>

LoopCheck ==
  /\ loop.pc = "check"
  /\ loop' = At(IF conn = NoConn THEN "report" ELSE "tick")
  /\ UNCHANGED <<now, client, listener, watcher, resetting, shut, bus>>

\* report_owner_failure by the loop: the supervisor, then the projection.
LoopReport ==
  /\ loop.pc = "report"
  /\ sup' = RecordFailure(sup, loop.at)
  /\ loop' = [At("degrade") EXCEPT !.life = FailedLifecycle(sup')]
  /\ UNCHANGED <<now, conn, identity, gen, dom, listener, watcher, resetting, shut, bus>>

LoopDegrade ==
  /\ loop.pc = "degrade"
  /\ dom' = [dom EXCEPT !.life = loop.life]
  /\ loop' = At("tick")
  /\ UNCHANGED <<now, sup, conn, identity, gen, listener, watcher, resetting, shut, bus>>

\* The session bus, the proxy or the protocol negotiation fails, or a new
\* transport is there.
LoopDial ==
  /\ loop.pc = "dial"
  /\ \/ /\ loop' = [At("report") EXCEPT !.at = now]
        /\ UNCHANGED <<open, opened>>
     \/ /\ opened < MaxConns
        /\ opened' = opened + 1
        /\ open' = open \cup {opened'}
        /\ loop' = [At("identify") EXCEPT !.c = opened']
  /\ UNCHANGED <<now, client, listener, watcher, resetting, shut, daemon>>

\* Mutant: only the first transport installs a generation.
InstalledOnce(c) == IF identity = NoConn THEN gen + 1 ELSE gen

Installed(c) == IF identity # c THEN gen + 1 ELSE gen

\* A unique name that differs from the last one installs a generation.
LoopIdentify ==
  /\ loop.pc = "identify"
  /\ identity' = loop.c
  /\ gen' = Installed(loop.c)
  /\ loop' = At("subscribe")
  /\ UNCHANGED <<now, sup, conn, dom, listener, watcher, resetting, shut, bus>>

\* Every listener is subscribed, or all are aborted and the transport dropped.
LoopSubscribe ==
  /\ loop.pc = "subscribe"
  /\ \/ /\ loop.c \in open
        /\ listener' = [listener EXCEPT ![loop.c].on = TRUE, ![loop.c].gen = gen]
        /\ loop' = At("load")
        /\ UNCHANGED open
     \/ /\ loop' = [At("report") EXCEPT !.at = now]
        /\ open' = open \ {loop.c}
        /\ UNCHANGED listener
  /\ UNCHANGED <<now, client, watcher, resetting, shut, opened, daemon>>

\* The answer to get_*_state leaves the daemon; a failed call is passed over.
LoopLoad ==
  /\ loop.pc = "load"
  /\ \/ loop.c \in open /\ loop' = [At("apply") EXCEPT !.snap = {[rev |-> daemon.rev, val |-> daemon.val]}]
     \/ loop' = At("publish")
  /\ UNCHANGED <<now, client, listener, watcher, resetting, shut, bus>>

LoopApply ==
  /\ loop.pc = "apply"
  /\ \E s \in loop.snap : dom' = Updated(listener[loop.c].gen, s)
  /\ listener' = [listener EXCEPT ![loop.c].loaded = TRUE]
  /\ loop' = [At("publish") EXCEPT !.snap = {}]
  /\ UNCHANGED <<now, sup, conn, identity, gen, watcher, resetting, shut, bus>>

LoopPublish ==
  /\ loop.pc = "publish"
  /\ conn' = loop.c
  /\ loop' = At("ready")
  /\ UNCHANGED <<now, sup, identity, gen, dom, listener, watcher, resetting, shut, bus>>

\* mark_ready in connect_on, which then spawns the watcher, and once more in
\* the loop.
LoopReady ==
  /\ loop.pc = "ready"
  /\ sup' = MarkRunning(sup, now)
  /\ watcher' = [watcher EXCEPT ![loop.c] = "waiting"]
  /\ loop' = At("ready again")
  /\ UNCHANGED <<now, conn, identity, gen, dom, listener, resetting, shut, bus>>

LoopReadyAgain ==
  /\ loop.pc = "ready again"
  /\ sup' = MarkRunning(sup, now)
  /\ loop' = At("tick")
  /\ UNCHANGED <<now, conn, identity, gen, dom, listener, watcher, resetting, shut, bus>>

Loop ==
  \/ LoopTick \/ LoopMatch \/ LoopCheck \/ LoopReport \/ LoopDegrade
  \/ LoopDial \/ LoopIdentify \/ LoopSubscribe \/ LoopLoad \/ LoopApply
  \/ LoopPublish \/ LoopReady \/ LoopReadyAgain

-----------------------------------------------------------------------------
(***************************************************************************)
(* What a connection leaves behind.                                        *)
(***************************************************************************)
\* A listener stamps a signal with the generation it captured.
ListenerDeliver(c) ==
  /\ listener[c].queue # <<>>
  /\ dom' = Updated(listener[c].gen, Head(listener[c].queue))
  /\ listener' = [listener EXCEPT ![c].queue = Tail(@)]
  /\ UNCHANGED <<now, sup, conn, identity, gen, loop, watcher, resetting, shut, bus>>

\* Mutant: the connection is cleared only while the supervisor says Running.
ClearedWhenRunning == IF sup.st = "Running" THEN NoConn ELSE conn

Cleared == NoConn

\* The watcher clears the connection, whichever it is, and reports a failure.
WatcherClear(c) ==
  /\ watcher[c] = "waiting" /\ c \notin open
  /\ conn' = Cleared
  /\ watcher' = [watcher EXCEPT ![c] = "report"]
  /\ UNCHANGED <<now, sup, identity, gen, dom, loop, listener, resetting, shut, bus>>

WatcherReport(c) ==
  /\ watcher[c] = "report"
  /\ sup' = RecordFailure(sup, now)
  /\ watcher' = [watcher EXCEPT ![c] = FailedLifecycle(sup')]
  /\ UNCHANGED <<now, conn, identity, gen, dom, loop, listener, resetting, shut, bus>>

WatcherDegrade(c) ==
  /\ watcher[c] \in {"Unavailable", "Reconnecting"}
  /\ dom' = [dom EXCEPT !.life = watcher[c]]
  /\ watcher' = [watcher EXCEPT ![c] = "done"]
  /\ UNCHANGED <<now, sup, conn, identity, gen, loop, listener, resetting, shut, bus>>

Watcher(c) == WatcherClear(c) \/ WatcherReport(c) \/ WatcherDegrade(c)

-----------------------------------------------------------------------------
(***************************************************************************)
(* reset_quarantine and shutdown.                                          *)
(***************************************************************************)
ResetSupervisor ==
  /\ ~resetting /\ sup.st = "Quarantined"
  /\ sup' = ResetQuarantine(sup)
  /\ resetting' = TRUE
  /\ UNCHANGED <<now, conn, identity, gen, dom, loop, listener, watcher, shut, bus>>

ResetProjection ==
  /\ resetting
  /\ dom' = [dom EXCEPT !.life = "Reconnecting"]
  /\ resetting' = FALSE
  /\ UNCHANGED <<now, sup, conn, identity, gen, loop, listener, watcher, shut, bus>>

ShutdownStopping ==
  /\ shut = "none" /\ MaxShutdowns = 1
  /\ sup' = EnterStopping(sup)
  /\ shut' = "snapshot"
  /\ UNCHANGED <<now, conn, identity, gen, dom, loop, listener, watcher, resetting, bus>>

ShutdownSnapshot ==
  /\ shut = "snapshot"
  /\ dom' = [dom EXCEPT !.life = "Unavailable"]
  /\ shut' = "disconnect"
  /\ UNCHANGED <<now, sup, conn, identity, gen, loop, listener, watcher, resetting, bus>>

\* The listeners and the watchers hold clones: the transport stays open.
ShutdownDisconnect ==
  /\ shut = "disconnect"
  /\ conn' = NoConn
  /\ shut' = "stop"
  /\ UNCHANGED <<now, sup, identity, gen, dom, loop, listener, watcher, resetting, bus>>

ShutdownStopped ==
  /\ shut = "stop"
  /\ sup' = EnterStopped(sup)
  /\ shut' = "done"
  /\ UNCHANGED <<now, conn, identity, gen, dom, loop, listener, watcher, resetting, bus>>

Shutdown == ShutdownStopping \/ ShutdownSnapshot \/ ShutdownDisconnect \/ ShutdownStopped

-----------------------------------------------------------------------------
(***************************************************************************)
(* The environment: time, the bus and the daemon.  The daemon publishes    *)
(* with a greater revision and emits afterwards; a restarted daemon begins *)
(* again at its first revision.                                            *)
(***************************************************************************)
TimePasses ==
  /\ now < MaxTime
  /\ now' = now + 1
  /\ UNCHANGED <<client, tasks, bus>>

TransportCloses(c) ==
  /\ c \in open
  /\ open' = open \ {c}
  /\ UNCHANGED <<now, client, tasks, opened, daemon>>

DaemonChange ==
  \E v \in Values \ {daemon.val} :
    /\ daemon.changes < MaxChanges
    /\ daemon' = [daemon EXCEPT !.rev = @ + 1, !.val = v, !.changes = @ + 1,
                                !.unsent = Append(@, [rev |-> daemon.rev + 1, val |-> v])]
    /\ UNCHANGED <<now, client, tasks, open, opened>>

DaemonEmit ==
  /\ daemon.unsent # <<>>
  /\ listener' = [c \in Conns |->
       IF listener[c].on /\ c \in open
       THEN [listener[c] EXCEPT !.queue = Append(@, Head(daemon.unsent))]
       ELSE listener[c]]
  /\ daemon' = [daemon EXCEPT !.unsent = Tail(@)]
  /\ UNCHANGED <<now, client, loop, watcher, resetting, shut, open, opened>>

DaemonRestart ==
  \E v \in Values :
    /\ daemon.restarts < MaxRestarts
    /\ daemon' = [daemon EXCEPT !.rev = 1, !.val = v, !.unsent = <<>>, !.restarts = @ + 1]
    /\ UNCHANGED <<now, client, tasks, open, opened>>

Environment ==
  \/ TimePasses \/ (\E c \in Conns : TransportCloses(c))
  \/ DaemonChange \/ DaemonEmit \/ DaemonRestart

Next ==
  \/ Loop
  \/ \E c \in Conns : ListenerDeliver(c) \/ Watcher(c)
  \/ ResetSupervisor \/ ResetProjection
  \/ Shutdown
  \/ Environment

Spec == Init /\ [][Next]_vars

-----------------------------------------------------------------------------
(***************************************************************************)
(* Properties.                                                             *)
(***************************************************************************)
LoopPCs == {"tick", "match", "check", "report", "degrade", "dial", "identify", "subscribe",
            "load", "apply", "publish", "ready", "ready again", "exit"}

\* Every variable of the client's connection keeps its type.
TypeOK ==
  /\ now \in Nat /\ sup \in Supervisor
  /\ conn \in Conns \cup {NoConn} /\ identity \in Conns \cup {NoConn} /\ gen \in Nat
  /\ dom \in [gen : Nat, rev : Nat, life : Lifecycle, val : Values]
  /\ loop \in [pc : LoopPCs, c : Conns \cup {NoConn}, at : Nat, life : Lifecycle,
               snap : SUBSET Published]
  /\ listener \in [Conns -> [gen : Nat, on : BOOLEAN, loaded : BOOLEAN, queue : Seq(Published)]]
  /\ watcher \in [Conns -> {"none", "waiting", "report", "Unavailable", "Reconnecting", "done"}]
  /\ resetting \in BOOLEAN /\ shut \in {"none", "snapshot", "disconnect", "stop", "done"}
  /\ open \subseteq Conns /\ opened \in 0..MaxConns
  /\ daemon \in [rev : Nat, val : Values, unsent : Seq(Published), changes : Nat, restarts : Nat]

\* The projection's version never goes back, whichever of the listeners of
\* old and new connections and the initial load comes last.
ProjectionNeverRegresses ==
  [][dom'.gen > dom.gen \/ (dom'.gen = dom.gen /\ dom'.rev >= dom.rev)]_dom

\* The initial load of the latest connection was applied, its transport is up
\* and no signal is under way.
Quiet(c) ==
  /\ c = identity /\ c \in open /\ listener[c].loaded
  /\ listener[c].queue = <<>> /\ daemon.unsent = <<>>

\* Subscribing before loading leaves no gap (the comment in connect_on): with
\* nothing under way the projection is the daemon's, wherever its changes fell
\* between the subscription, the snapshot and the signals.  The exception is a
\* daemon that has restarted: RestartedOwnerIsFollowed below.
CurrentWhenQuiet ==
  daemon.restarts = 0 =>
    \A c \in Conns : Quiet(c) =>
      dom.gen = listener[c].gen /\ dom.rev = daemon.rev /\ dom.val = daemon.val

\* A generation belongs to one transport: two connections never stamp their
\* updates alike, so that the gate can tell a late signal from a current one.
GenerationPerTransport ==
  \A c, d \in Conns :
    listener[c].on /\ listener[d].on /\ c < d => listener[c].gen < listener[d].gen

\* A connection that is gone is noticed: while the client holds a closed
\* transport, that transport's watcher has still to clear it, also when it
\* closed during the set-up, before there was a watcher.
ClosedIsNoticed ==
  conn # NoConn /\ conn \notin open =>
    \/ watcher[conn] = "waiting"
    \/ watcher[conn] = "none" /\ loop.pc = "ready" /\ loop.c = conn

-----------------------------------------------------------------------------
(***************************************************************************)
(* What the documents and comments say and the client does not do.         *)
(***************************************************************************)
\* ADR-0006, 10: a new owner of the well-known name sets the generation, so
\* what a restarted daemon has published since is followed.
RestartedOwnerIsFollowed ==
  \A c \in Conns :
    Quiet(c) /\ daemon.restarts > 0 /\ daemon.rev > 1 => dom.val = daemon.val

\* The terminal Stopped state is terminal.
StoppedIsTerminal == [][sup.st = "Stopped" => sup'.st = "Stopped"]_sup
=============================================================================

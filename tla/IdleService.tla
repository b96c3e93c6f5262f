----------------------------- MODULE IdleService -----------------------------
(***************************************************************************)
(* The idle service: which configured behaviours (lock, suspend, ...) fire *)
(* when the user is away.  IdleDomainState keeps everything behind one     *)
(* mutex; what runs concurrently around it is                              *)
(*   the supervisor task     start-up, the 500 ms tick, backend events and *)
(*                           the D-Bus command channel, one at a time      *)
(*   a port caller           the shell thread: configuration and the       *)
(*                           completion of the grace overlay; it enqueues  *)
(*                           and processes under two separate lockings     *)
(*   the Wayland thread      applies registrations, reports Idled/Resumed, *)
(*                           loses and regains its connection              *)
(*   D-Bus clients           org.freedesktop.ScreenSaver and logind        *)
(*                                                                         *)
(* Left out: live_idle_seconds and the heartbeat flag (a displayed number),*)
(* idled_while_inhibited (written and never read), unsupported_actions and *)
(* the counters of the telemetry.                                          *)
(***************************************************************************)
EXTENDS DomainSupervisor, Sequences

CONSTANTS
  Behaviors,       \* names of behaviours, ordered as the BTreeMap orders them
  Configs,         \* the configurations that the shell submits
  Senders,         \* D-Bus unique names
  Paths,           \* object paths that serve org.freedesktop.ScreenSaver
  Capacity,        \* capacity of the mailbox
  GraceMs,         \* fade_ms + FALLBACK_GRACE_BUFFER_MS
  MaxAway,         \* bound: how often the user leaves
  MaxCalls,        \* bound: calls of the shell
  MaxCookies,      \* bound: cookies given out
  MaxFlips,        \* bound: changes of logind's BlockInhibited
  MaxLosses        \* bound: losses of the Wayland connection

ASSUME IdleConstants ==
  /\ Behaviors \subseteq Nat \ {0} /\ IsFiniteSet(Behaviors) /\ Behaviors # {}
  /\ IsFiniteSet(Paths)
  /\ Configs \subseteq [on : SUBSET Behaviors, fade : BOOLEAN] /\ "logind" \notin Senders
  /\ Capacity \in Nat \ {0} /\ GraceMs \in Nat \ {0}
  /\ MaxAway \in Nat /\ MaxCalls \in Nat /\ MaxCookies \in Nat
  /\ MaxFlips \in Nat /\ MaxLosses \in Nat

-----------------------------------------------------------------------------
(***************************************************************************)
(* Data.  A configuration is the set of enabled behaviours and whether     *)
(* grace_seconds is positive; behaviours that are disabled are never       *)
(* registered and so never fire.                                           *)
(***************************************************************************)
Config == [on : SUBSET Behaviors, fade : BOOLEAN]

\* The defaults of new: one enabled behaviour and two seconds of grace.
DefaultConfig == [on |-> {CHOOSE b \in Behaviors : TRUE}, fade |-> TRUE]

\* InhibitSource as same_identity sees it; 0 is LogindBlockInhibited.
Source == [cookie : Nat, sender : Senders \cup {"logind"}]
Logind == [cookie |-> 0, sender |-> "logind"]

\* IdleCommand; the fields that an operation does not use are fixed.
Cmd(op, arg) == [op |-> op, arg |-> arg]

HeartbeatId == 0

\* Notification ids: 1, 2, ... in the order of the behaviours' names.
IdsOf(on) ==
  [i \in 1..Cardinality(on) |->
     CHOOSE b \in on : Cardinality({c \in on : c <= b}) = i]

NoGrace == [gen |-> 0, members |-> {}, deadline |-> 0]
NoBatch == {-1}

VARIABLES
  sup, life, gen, prior,  \* supervisor, lifecycle, owner_generation, had_prior_readiness
  queue,                  \* the mailbox
  config, idMap,          \* behaviors with grace_seconds, behavior_id_map
  grace, graceGen,        \* active_grace with fallback_deadline_ms, grace_generation
  inhibitors,             \* inhibit_sources
  held,                   \* the mutex, inside process_pending_commands: who and what is left
  pc,                     \* where the supervisor task is
  caller,                 \* where the port caller is
  cmdChan,                \* the D-Bus command channel
  up, lossSeen,           \* the backend's available flag; a tick ran since it went down
  late,                   \* history: the connection came up under a Ready domain
  batch, notes,           \* registrations sent and not applied; live notifications
  events,                 \* the backend event channel
  away,                   \* the user is away
  now,
  nextCookie,             \* next_cookie of every ScreenSaver object
  granted,                \* history: inhibits that their clients still hold
  undone,                 \* history: held inhibits whose like was released on another path
  refused,                \* history: a D-Bus command was refused
  calls, aways, flips, losses,   \* history: the bounded counters
  nextId, outcomes,       \* history: tickets and their outcomes
  fired, started, reports \* history: firings, start of the latest grace, overlay reports

domain  == <<sup, life, gen, prior>>
conf    == <<config, idMap>>
graces  == <<grace, graceGen, started>>
tasks   == <<held, pc, caller>>
watched == <<idMap, late, batch>>
wayland == <<up, lossSeen, late, batch, notes, losses>>
user    == <<away, aways, now>>
clients == <<nextCookie, granted, undone, flips>>
tickets == <<nextId, outcomes>>
shell   == <<calls, reports>>
vars == <<domain, queue, conf, graces, inhibitors, tasks, cmdChan, refused, wayland,
          events, user, clients, tickets, shell, fired>>

NoHold == [by |-> "none", items |-> <<>>]
Unlocked == held = NoHold

Init ==
  /\ sup = NewSupervisor /\ life = "Unavailable" /\ gen = 0 /\ prior = FALSE
  /\ queue = <<>> /\ config = DefaultConfig
  /\ idMap = <<>> /\ grace = NoGrace /\ graceGen = 0 /\ inhibitors = {}
  /\ held = NoHold /\ pc = "boot" /\ caller = "none" /\ cmdChan = <<>>
  /\ up \in BOOLEAN /\ lossSeen = TRUE /\ late = FALSE
  /\ batch = NoBatch /\ notes = <<>> /\ losses = 0
  /\ events = <<>> /\ away = FALSE /\ now = 0
  /\ nextCookie = [p \in Paths |-> 1] /\ granted = {} /\ undone = {} /\ refused = FALSE
  /\ calls = 0 /\ aways = 0 /\ flips = 0
  /\ nextId = 1 /\ outcomes = {}
  /\ fired = <<>> /\ started = 0 /\ reports = {}

-----------------------------------------------------------------------------
(***************************************************************************)
(* Helpers of IdleDomainState, as conjuncts of the locked operations.      *)
(***************************************************************************)
Result(it, out) == [id |-> it.id, out |-> out]

\* Mutant: the queue is emptied and its tickets are forgotten.
CancelledNever(q) == {}

\* Every command of a replaced owner is cancelled.
Cancelled(q) == {Result(q[i], "OwnerReplaced") : i \in 1..Len(q)}

NotReady == IF prior THEN "Reconnecting" ELSE "Connecting"

\* Mutant: notifications are recreated from the ids that are known already.
RegisteredIdsKept(c) == DOMAIN idMap \cup {HeartbeatId}

\* The ids that register_all_notifications_locked sends to the backend.
RegisteredIds(c) == {HeartbeatId} \cup 1..Cardinality(c.on)

\* register_all_notifications_locked: UnregisterAll, then one Register each,
\* which the backend refuses while it is unavailable.  The availability is
\* read once here and once per registration in the code.  The Wayland thread
\* applies all it has been sent before it dispatches, so that a later batch
\* replaces one not yet applied.
RegisterAll(l, c) ==
  /\ late' = FALSE
  /\ idMap' = IF l = "Ready" THEN IdsOf(c.on) ELSE <<>>
  /\ batch' = IF l = "Ready" /\ up THEN RegisteredIds(c) ELSE {}

\* A firing as the history keeps it: of which grace period (0 without one), by
\* what, and whether the time of that grace period was over.
Firing(g, by) == [gen |-> g, by |-> by, over |-> now >= started + GraceMs]

\* Mutant: nothing watches the deadline of a grace period.
ExpiredNever == FALSE

\* The overlay of the active grace period did not report in time.
Expired == grace # NoGrace /\ now >= grace.deadline

-----------------------------------------------------------------------------
(***************************************************************************)
(* The supervisor task: start-up and tick.                                 *)
(***************************************************************************)
BeginStart(from, to) ==
  /\ pc = from /\ Unlocked
  /\ sup' = MarkStarting(sup)
  /\ gen' = gen + 1
  /\ life' = NotReady
  /\ outcomes' = outcomes \cup Cancelled(queue)
  /\ queue' = <<>>
  /\ grace' = NoGrace
  /\ pc' = to
  /\ UNCHANGED <<prior, conf, graceGen, started, inhibitors, held, caller, cmdChan, refused,
                 wayland, events, user, clients, nextId, shell, fired>>

MarkReady(from, to) ==
  /\ pc = from /\ Unlocked
  /\ sup' = MarkRunning(sup, now)
  /\ prior' = TRUE
  /\ life' = "Ready"
  /\ RegisterAll("Ready", config)
  /\ pc' = to
  /\ UNCHANGED <<gen, queue, config, graces, inhibitors, held, caller, cmdChan, refused,
                 up, lossSeen, notes, losses, events, user, clients, tickets, shell, fired>>

\* Mutant: a domain that is reconnecting is not recovered.
ReconcileUnavailableOnly ==
  CASE ~up /\ life = "Ready" -> "fail"
    [] up /\ life \in {"Unavailable", "Connecting"} /\ sup.st = "Starting" -> "recover"
    [] OTHER -> "tick"

\* reconcile_backend_availability.
Reconcile ==
  CASE ~up /\ life = "Ready" -> "fail"
    [] up /\ life \in {"Unavailable", "Reconnecting", "Connecting"}
          /\ sup.st = "Starting" -> "recover"
    [] OTHER -> "tick"

\* The tick branch of the select!: what it reads is used in the next steps.
TickRead ==
  /\ pc = "select" /\ Unlocked
  /\ pc' = Reconcile
  /\ lossSeen' = TRUE
  /\ UNCHANGED <<domain, queue, conf, graces, inhibitors, held, caller, cmdChan, refused,
                 up, late, batch, notes, losses, events, user, clients, tickets, shell, fired>>

\* report_owner_failure.
TickFail ==
  /\ pc = "fail" /\ Unlocked
  /\ sup' = RecordFailure(sup, now)
  /\ life' = IF sup'.st = "Quarantined" \/ ~prior THEN "Unavailable" ELSE "Reconnecting"
  /\ batch' = {} /\ idMap' = <<>>
  /\ grace' = NoGrace
  /\ pc' = "tick"
  /\ UNCHANGED <<gen, prior, queue, config, graceGen, started, inhibitors, held, caller, cmdChan,
                 refused, up, lossSeen, late, notes, losses, events, user, clients, tickets,
                 shell, fired>>

\* tick: a backoff that has elapsed replaces the owner, and a grace period
\* whose overlay never reported is completed by its deadline.
TickTick ==
  /\ pc = "tick" /\ Unlocked
  /\ sup' = Tick(sup, now)
  /\ LET restart == sup.st = "Backoff" /\ sup'.st = "Starting"
         expired == ~restart /\ Expired
     IN /\ gen' = IF restart THEN gen + 1 ELSE gen
        /\ life' = IF restart THEN NotReady ELSE life
        /\ outcomes' = IF restart THEN outcomes \cup Cancelled(queue) ELSE outcomes
        /\ queue' = IF restart THEN <<>> ELSE queue
        /\ grace' = IF restart \/ expired THEN NoGrace ELSE grace
        /\ fired' = IF expired THEN Append(fired, Firing(grace.gen, "deadline")) ELSE fired
  /\ pc' = "select"
  /\ UNCHANGED <<prior, conf, graceGen, started, inhibitors, held, caller, cmdChan, refused,
                 wayland, events, user, clients, nextId, shell>>

-----------------------------------------------------------------------------
(***************************************************************************)
(* handle_backend_event.  An event carries an id and nothing of the        *)
(* registration it belongs to.                                             *)
(***************************************************************************)
Joined(b) ==
  /\ grace' = [grace EXCEPT !.members = @ \cup {b}]
  /\ UNCHANGED <<graceGen, started>>

StartedGrace(b) ==
  /\ graceGen' = graceGen + 1
  /\ grace' = [gen |-> graceGen + 1, members |-> {b}, deadline |-> now + GraceMs]
  /\ started' = now

HandleIdled(id) ==
  LET known == id \in DOMAIN idMap /\ inhibitors = {}
  IN \/ /\ known /\ ~config.fade
        /\ fired' = Append(fired, Firing(0, "now"))
        /\ UNCHANGED graces
     \/ /\ known /\ config.fade
        /\ IF grace # NoGrace THEN Joined(idMap[id]) ELSE StartedGrace(idMap[id])
        /\ UNCHANGED fired
     \/ /\ ~known
        /\ UNCHANGED <<graces, fired>>

\* Any Resumed cancels the grace period.
HandleResumed ==
  /\ grace' = NoGrace
  /\ UNCHANGED <<graceGen, started, fired>>

HandleEvent ==
  /\ pc = "select" /\ Unlocked /\ events # <<>>
  /\ LET e == Head(events)
     IN IF e.kind = "idled" THEN HandleIdled(e.id) ELSE HandleResumed
  /\ events' = Tail(events)
  /\ UNCHANGED <<domain, queue, conf, inhibitors, tasks, cmdChan, refused, wayland, user,
                 clients, tickets, shell>>

-----------------------------------------------------------------------------
(***************************************************************************)
(* submit_command and process_pending_commands.                            *)
(***************************************************************************)
\* The waiting commands that cmd replaces: a configuration, its like.
Replaceable(cmd) ==
  {i \in 1..Len(queue) : cmd.op = "configure" /\ queue[i].cmd.op = "configure"}

Without(i) == [j \in 1..(Len(queue) - 1) |-> IF j < i THEN queue[j] ELSE queue[j + 1]]

\* ReplaceLatest: the first of them is removed; the new item goes to the back.
Enqueued(item) ==
  \/ /\ Replaceable(item.cmd) = {}
     /\ queue' = Append(queue, item)
     /\ UNCHANGED outcomes
  \/ \E i \in Replaceable(item.cmd) :
       /\ \A j \in Replaceable(item.cmd) : i <= j
       /\ queue' = Append(Without(i), item)
       /\ outcomes' = outcomes \cup {Result(queue[i], "Superseded")}

Refuses(cmd) ==
  life = "Unavailable" \/ (cmd.op # "configure" /\ Len(queue) >= Capacity)

Accepted(cmd) ==
  /\ ~Refuses(cmd)
  /\ Enqueued([id |-> nextId, cmd |-> cmd, gen |-> gen])
  /\ nextId' = nextId + 1

\* The supervisor task takes a D-Bus command; a refusal is dropped.
LoopSubmit ==
  /\ pc = "select" /\ Unlocked /\ cmdChan # <<>>
  /\ cmdChan' = Tail(cmdChan)
  /\ \/ Accepted(Head(cmdChan)) /\ UNCHANGED refused
     \/ /\ Refuses(Head(cmdChan))
        /\ refused' = TRUE
        /\ UNCHANGED <<queue, tickets>>
  /\ pc' = "process"
  /\ UNCHANGED <<domain, conf, graces, inhibitors, held, caller, wayland, events, user, clients,
                 shell, fired>>

\* IdleService::submit_command: a refusal ends the call.
CallSubmit(cmd) ==
  /\ caller = "none" /\ Unlocked /\ calls < MaxCalls
  /\ calls' = calls + 1
  /\ reports' = IF cmd.op = "done" THEN reports \cup {cmd.arg} ELSE reports
  /\ \/ Accepted(cmd) /\ caller' = "submitted"
     \/ Refuses(cmd) /\ UNCHANGED <<caller, queue, tickets>>
  /\ UNCHANGED <<domain, conf, graces, inhibitors, held, pc, cmdChan, refused, wayland, events,
                 user, clients, fired>>

\* Mutant: the call enqueues and nobody drains the queue.
TakeQueueNever(who) == UNCHANGED <<queue, held>>

\* std::mem::take(&mut guard.queue); an empty queue leaves nothing to do.
TakeQueue(who) ==
  /\ queue' = <<>>
  /\ held' = IF queue = <<>> THEN NoHold ELSE [by |-> who, items |-> queue]

LoopProcess ==
  /\ pc = "process" /\ Unlocked
  /\ TakeQueue("loop")
  /\ pc' = "select"
  /\ UNCHANGED <<domain, conf, graces, inhibitors, caller, cmdChan, refused, wayland, events,
                 user, clients, tickets, shell, fired>>

CallProcess ==
  /\ caller = "submitted" /\ Unlocked
  /\ TakeQueue("caller")
  /\ caller' = "none"
  /\ UNCHANGED <<domain, conf, graces, inhibitors, pc, cmdChan, refused, wayland, events,
                 user, clients, tickets, shell, fired>>

\* The inhibitors that are left; the last release recreates the notifications.
Inhibited(rest) ==
  /\ inhibitors' = rest
  /\ IF inhibitors # {} /\ rest = {} THEN RegisterAll(life, config) ELSE UNCHANGED watched

\* Mutant: the overlay's report completes whatever grace period is active.
CompletesAny(g) == grace # NoGrace

\* The report is about the active grace period.
Completes(g) == grace # NoGrace /\ grace.gen = g

\* Mutant: a new configuration leaves the grace period of the old one running.
ApplyConfigureKeepsGrace(cmd) ==
  /\ cmd.op = "configure"
  /\ config' = cmd.arg
  /\ RegisterAll(life, cmd.arg)
  /\ UNCHANGED <<grace, inhibitors, sup, fired>>

\* Mutant: a new configuration starts without inhibitors.
ApplyConfigureForgets(cmd) ==
  /\ cmd.op = "configure"
  /\ config' = cmd.arg
  /\ grace' = NoGrace /\ inhibitors' = {}
  /\ RegisterAll(life, cmd.arg)
  /\ UNCHANGED <<sup, fired>>

ApplyConfigure(cmd) ==
  /\ cmd.op = "configure"
  /\ config' = cmd.arg
  /\ grace' = NoGrace
  /\ RegisterAll(life, cmd.arg)
  /\ UNCHANGED <<inhibitors, sup, fired>>

\* AddInhibit leaves an active grace period alone.
ApplyInhibit(cmd) ==
  /\ cmd.op = "inhibit"
  /\ inhibitors' = inhibitors \cup {cmd.arg}
  /\ UNCHANGED <<config, grace, watched, sup, fired>>

\* Mutant: the retain of ClearInhibitsForSender is inverted.
ClearedInverted(s) == {i \in inhibitors : i.sender = s}

\* The inhibitors of others than the client that is gone.
ClearedOf(s) == {i \in inhibitors : i.sender # s}

ApplyRelease(cmd) ==
  /\ \/ cmd.op = "uninhibit" /\ Inhibited(inhibitors \ {cmd.arg})
     \/ cmd.op = "clear" /\ Inhibited(ClearedOf(cmd.arg))
  /\ UNCHANGED <<config, grace, sup, fired>>

ApplyDone(cmd) ==
  /\ cmd.op = "done"
  /\ IF Completes(cmd.arg)
     THEN grace' = NoGrace /\ fired' = Append(fired, Firing(grace.gen, "overlay"))
     ELSE UNCHANGED <<grace, fired>>
  /\ UNCHANGED <<config, watched, inhibitors, sup>>

ApplyOther(cmd) ==
  /\ \/ cmd.op = "cancel" /\ grace' = NoGrace /\ UNCHANGED sup
     \/ cmd.op = "reset" /\ sup' = ResetQuarantine(sup) /\ UNCHANGED grace
  /\ UNCHANGED <<config, watched, inhibitors, fired>>

\* One turn of the loop of process_pending_commands, under the lock.
ProcessItem ==
  /\ ~Unlocked
  /\ LET it == Head(held.items)
     IN \/ /\ it.gen # gen
           /\ outcomes' = outcomes \cup {Result(it, "OwnerReplaced")}
           /\ UNCHANGED <<config, grace, watched, inhibitors, sup, fired>>
        \/ /\ it.gen = gen
           /\ outcomes' = outcomes \cup {Result(it, "Applied")}
           /\ \/ ApplyConfigure(it.cmd) \/ ApplyInhibit(it.cmd) \/ ApplyRelease(it.cmd)
              \/ ApplyDone(it.cmd) \/ ApplyOther(it.cmd)
  /\ held' = IF Len(held.items) = 1 THEN NoHold ELSE [held EXCEPT !.items = Tail(@)]
  /\ UNCHANGED <<life, gen, prior, queue, graceGen, started, pc, caller, cmdChan, refused, up,
                 lossSeen, notes, losses, events, user, clients, nextId, shell>>

\* IdlePort::reset_quarantine.
PortReset ==
  /\ Unlocked /\ sup.st = "Quarantined" /\ calls < MaxCalls
  /\ sup' = ResetQuarantine(sup)
  /\ life' = NotReady
  /\ calls' = calls + 1
  /\ UNCHANGED <<gen, prior, queue, conf, graces, inhibitors, tasks, cmdChan, refused, wayland,
                 events, user, clients, tickets, reports, fired>>

-----------------------------------------------------------------------------
(***************************************************************************)
(* org.freedesktop.ScreenSaver (one object per path, each counting its own *)
(* cookies), NameOwnerChanged and logind's BlockInhibited.                 *)
(***************************************************************************)
Send(cmd) ==
  /\ cmdChan' = Append(cmdChan, cmd)
  /\ UNCHANGED <<domain, queue, conf, graces, inhibitors, tasks, refused, wayland, events, user,
                 tickets, shell, fired>>

ClientInhibit(p, s) ==
  LET src == [cookie |-> nextCookie[p], sender |-> s]
  IN /\ nextCookie[p] <= MaxCookies
     /\ nextCookie' = [nextCookie EXCEPT ![p] = @ + 1]
     /\ granted' = granted \cup {[path |-> p, src |-> src]}
     /\ undone' = undone \ {src}
     /\ UNCHANGED flips
     /\ Send(Cmd("inhibit", src))

ClientUnInhibit(g) ==
  /\ granted' = granted \ {g}
  /\ undone' = {src \in undone \cup {g.src} : \E h \in granted' : h.src = src}
  /\ UNCHANGED <<nextCookie, flips>>
  /\ Send(Cmd("uninhibit", g.src))

ClientGone(s) ==
  /\ \E g \in granted : g.src.sender = s
  /\ granted' = {g \in granted : g.src.sender # s}
  /\ undone' = {src \in undone : src.sender # s}
  /\ UNCHANGED <<nextCookie, flips>>
  /\ Send(Cmd("clear", s))

LogindChange ==
  LET blocked == \E g \in granted : g.src = Logind
  IN /\ flips < MaxFlips
     /\ flips' = flips + 1
     /\ granted' = IF blocked THEN {g \in granted : g.src # Logind}
                              ELSE granted \cup {[path |-> "logind", src |-> Logind]}
     /\ UNCHANGED <<nextCookie, undone>>
     /\ Send(Cmd(IF blocked THEN "uninhibit" ELSE "inhibit", Logind))

-----------------------------------------------------------------------------
(***************************************************************************)
(* The Wayland thread, the compositor behind it and the user.              *)
(***************************************************************************)
WaylandApply ==
  /\ up /\ batch # NoBatch
  /\ notes' = [i \in batch |-> "armed"]
  /\ batch' = NoBatch
  /\ UNCHANGED <<domain, queue, conf, graces, inhibitors, tasks, cmdChan, refused, up, lossSeen,
                 late, losses, events, user, clients, tickets, shell, fired>>

Emit(i, from, to, kind) ==
  /\ notes[i] = from
  /\ notes' = [notes EXCEPT ![i] = to]
  /\ events' = Append(events, [kind |-> kind, id |-> i])
  /\ UNCHANGED <<domain, queue, conf, graces, inhibitors, tasks, cmdChan, refused, up, lossSeen,
                 late, batch, losses, user, clients, tickets, shell, fired>>

WaylandEvent ==
  \E i \in DOMAIN notes :
    \/ away /\ Emit(i, "armed", "idled", "idled")
    \/ ~away /\ Emit(i, "idled", "armed", "resumed")

WaylandLost ==
  /\ up /\ losses < MaxLosses
  /\ losses' = losses + 1
  /\ up' = FALSE /\ lossSeen' = FALSE /\ late' = FALSE
  /\ notes' = <<>> /\ batch' = NoBatch
  /\ UNCHANGED <<domain, queue, conf, graces, inhibitors, tasks, cmdChan, refused, events, user,
                 clients, tickets, shell, fired>>

\* RECONNECT_BACKOFF is six times the tick interval, so that a tick sees
\* every loss; only the first connection may come up unseen.
WaylandConnect ==
  /\ ~up /\ lossSeen
  /\ up' = TRUE /\ late' = (life = "Ready")
  /\ UNCHANGED <<domain, queue, conf, graces, inhibitors, tasks, cmdChan, refused, lossSeen,
                 batch, notes, losses, events, user, clients, tickets, shell, fired>>

UserMoves ==
  /\ away' = ~away
  /\ aways' = IF away THEN aways ELSE aways + 1
  /\ away \/ aways < MaxAway
  /\ UNCHANGED <<domain, queue, conf, graces, inhibitors, tasks, cmdChan, refused, wayland,
                 events, now, clients, tickets, shell, fired>>

\* Time matters only while something waits for it.
Waiting ==
  \/ grace # NoGrace /\ now < grace.deadline
  \/ sup.st = "Backoff" /\ now < sup.retryAt

Advance ==
  /\ Waiting
  /\ now' = now + 1
  /\ UNCHANGED <<domain, queue, conf, graces, inhibitors, tasks, cmdChan, refused, wayland,
                 events, away, aways, clients, tickets, shell, fired>>

-----------------------------------------------------------------------------
Calls ==
  {Cmd("configure", c) : c \in Configs} \cup {Cmd("done", g) : g \in 1..graceGen}
    \cup {Cmd("cancel", 0), Cmd("reset", 0)}

Start ==
  \/ BeginStart("boot", "booting") \/ MarkReady("booting", "select")
  \/ BeginStart("recover", "started") \/ MarkReady("started", "tick")

SupervisorTask ==
  Start \/ TickRead \/ TickFail \/ TickTick \/ HandleEvent \/ LoopSubmit \/ LoopProcess

Shell == (\E cmd \in Calls : CallSubmit(cmd)) \/ CallProcess \/ PortReset

Clients ==
  \/ \E p \in Paths, s \in Senders : ClientInhibit(p, s)
  \/ \E g \in granted : g.src # Logind /\ ClientUnInhibit(g)
  \/ \E s \in Senders : ClientGone(s)
  \/ LogindChange

Wayland == WaylandApply \/ WaylandEvent \/ WaylandLost \/ WaylandConnect

Next ==
  \/ SupervisorTask \/ Shell \/ ProcessItem \/ Clients \/ Wayland \/ UserMoves \/ Advance

Spec == Init /\ [][Next]_vars

(***************************************************************************)
(* tokio polls the supervisor task, select! picks fairly among the ready   *)
(* branches (it starts at a random one), the 500 ms interval keeps firing, *)
(* a call that enqueued goes on to process, and time passes.               *)
(***************************************************************************)
LiveSpec ==
  /\ Spec
  /\ WF_vars(Start \/ TickFail \/ TickTick \/ LoopProcess)
  /\ SF_vars(TickRead) /\ SF_vars(HandleEvent) /\ SF_vars(LoopSubmit)
  /\ WF_vars(ProcessItem) /\ WF_vars(CallProcess)
  /\ WF_vars(WaylandApply) /\ WF_vars(Advance)

-----------------------------------------------------------------------------
(***************************************************************************)
(* Properties.                                                             *)
(***************************************************************************)
CommandType(cmd) ==
  \/ cmd.op = "configure" /\ cmd.arg \in Config
  \/ cmd.op \in {"inhibit", "uninhibit"} /\ cmd.arg \in Source
  \/ cmd.op = "clear" /\ cmd.arg \in Senders
  \/ cmd.op \in {"done", "cancel", "reset"} /\ cmd.arg \in Nat

ItemsType(q) ==
  \A i \in 1..Len(q) : q[i].id \in Nat /\ q[i].gen \in Nat /\ CommandType(q[i].cmd)

\* Every variable keeps its type; a grace period has members and a deadline.
TypeOK ==
  /\ sup \in Supervisor /\ gen \in Nat /\ prior \in BOOLEAN
  /\ life \in {"Unavailable", "Connecting", "Reconnecting", "Ready"}
  /\ ItemsType(queue) /\ ItemsType(held.items)
  /\ config \in Config /\ \A i \in DOMAIN idMap : idMap[i] \in config.on
  /\ grace = NoGrace \/ (grace.gen = graceGen /\ grace.members # {}
                         /\ grace.members \subseteq config.on)
  /\ inhibitors \subseteq Source
  /\ pc \in {"boot", "booting", "select", "fail", "recover", "started", "tick", "process"}
  /\ caller \in {"none", "submitted"}
  /\ \A i \in DOMAIN notes : notes[i] \in {"armed", "idled"}

\* A grace period fires at most once, whatever the overlay's report and the
\* fallback timer do around each other, and only because its own overlay
\* reported (never the overlay of an earlier one) or its own deadline passed.
GraceFiresOnce ==
  /\ \A i, j \in DOMAIN fired : fired[i].gen # 0 /\ fired[i].gen = fired[j].gen => i = j
  /\ \A i \in DOMAIN fired :
       /\ fired[i].by = "overlay" => fired[i].gen \in reports
       /\ fired[i].by = "deadline" => fired[i].over

\* No command is on its way and none was refused.
Delivered == cmdChan = <<>> /\ queue = <<>> /\ Unlocked /\ ~refused

\* The sources that clients hold.
Held == {g.src : g \in granted}

\* The service holds exactly the inhibitors that clients hold once no command
\* is on its way, through disconnects of clients and restarts of the owner.
\* The exceptions are what follows a refused command, and a cookie number that
\* both ScreenSaver objects gave to one client: its release on one path takes
\* away what the client still holds on the other (inhibits.rs:88).
InhibitorsExact == Delivered => inhibitors = Held \ undone

\* The domain is Ready, its backend up and all registrations applied.
Settled == life = "Ready" /\ up /\ pc = "select" /\ Unlocked /\ batch = NoBatch

\* The compositor watches exactly the enabled behaviours, under the ids the
\* service knows them by, after any reconfiguration, release, loss of the
\* connection and restart.  The exception is a connection that comes up when the
\* domain is Ready already (service.rs:285): it watches nothing until the next
\* registration.  Only the first connection can be that late.
ArmedWhenReady ==
  Settled => /\ idMap = IdsOf(config.on)
             /\ DOMAIN notes = IF late THEN {} ELSE {HeartbeatId} \cup DOMAIN idMap
             /\ late => losses = 0

\* The commands that hold an unresolved ticket.
Unresolved == {queue[i].id : i \in DOMAIN queue} \cup {held.items[i].id : i \in DOMAIN held.items}

Mailbox ==
  INSTANCE CommandMailbox
    WITH Ids <- 1..(MaxCalls + 2 * Cardinality(Paths) * MaxCookies + MaxFlips),
         Outcomes <- {"Applied", "OwnerReplaced", "Superseded"},
         open <- Unresolved, answers <- outcomes

\* The idle port implements the mailbox contract of ADR-0006: accepted commands
\* are resolved once, also when the owner is replaced between the two lockings
\* of a call or another thread processes them.
MailboxImplemented == Mailbox!MailboxSpec

\* No accepted command keeps its ticket open.
EveryTicketResolved == Mailbox!NothingStaysOpen

\* A grace period ends: by the overlay, by activity or by the fallback timer.
GraceEnds == (grace # NoGrace) ~> (grace = NoGrace)

\* A domain that failed and is not quarantined comes back to Ready once its
\* backend stays available, instead of sitting in Reconnecting.
RecoversWhenAvailable ==
  (sup.st # "Quarantined") ~> (life = "Ready" \/ ~up \/ sup.st = "Quarantined")

-----------------------------------------------------------------------------
(***************************************************************************)
(* What one would expect, and the service does not do.                     *)
(***************************************************************************)
\* A Ready domain watches for its behaviours, also after a late connection.
AlwaysArmed == Settled => DOMAIN notes = {HeartbeatId} \cup DOMAIN idMap

\* What a client holds inhibits, whichever paths it uses.
HeldInhibits == Delivered => Held \subseteq inhibitors
=============================================================================

# Shilpo: a TLA+ verification project

Shilpo is a desktop shell for Linux: a set of processes and long-lived service
ports that hold the state of the session (audio, brightness, network, the lock,
idle, authentication, the compositor) and show it to the shell's views. The views
are GPUI code; what is hard to get right lies below them, in the ports. This
project models those ports in TLA+, checks them with TLC on small instances and
proves the most important properties with TLAPS for every instance.

The authority is the source under `src/`. `src/docs/adr/0006-revisioned-service-domain-ports.md`
(ADR-0006 below) says what the ports promise; the project takes its *properties*
from there and from comments in the code, and its *definitions* from the code.

## 1. Inventory

### 1.1 The parts

| part | state | operations | hard behaviours |
|---|---|---|---|
| **domain supervisor** (`desktop/domain/src/lib.rs`) | state (Starting, Running, Backoff, Quarantined, Stopping, Stopped), failure timestamps, since when it runs | `mark_starting`, `mark_running`, `record_failure`, `tick`, `reset_quarantine`, `enter_stopping`, `enter_stopped` | any order of calls; window boundaries |
| **device daemon** (`desktop/services/src/device_daemon`) | per domain: bounded queue, `in_flight`, projection, timed-out commands; owner generation; adapter revisions | `submit_command`, worker / `execute_single`, `refresh_domain_states`, `increment_owner_generation` | four concurrent actors, atomics outside locks, timeouts, late effects |
| **device client, debounce queue** (`desktop/device/src/client.rs`) | map and vector of debounced commands, depth counter, `is_shutdown` | `send_command_debounced`, worker, `shutdown` | check-then-lock, drain against submit |
| **device client, connection** (same file) | supervisor, connection, identity, installed generation, projection | `maintain_connection`, `connect_on`, listeners, closed watcher, `reset_quarantine`, `shutdown` | tasks that outlive a connection, reordering, restarts |
| **lock supervisor** (`desktop/services/src/lock_supervisor.rs`) | registered readiness slot, its result, recorded pid | `spawn`, `spawn_and_wait_until_locked`, reader thread, reaper thread | triggers that overlap, process death at any point |
| **idle service** (`desktop/services/src/idle`) | behaviours and their notification ids, inhibitors, the active grace and its generation, fallback deadline, command queue | backend events, commands, `tick`, owner failure and restart | late events after re-registration, completion against fallback timer, two lockings per command |
| **polkit agent** (`.../polkit`) | active session with its helper and its open D-Bus call, dialog, command queue, supervisor | begin, cancel, select, respond, dismiss, helper events, `tick`, loss of the bus, `shutdown` | two mutexes in both orders, stale helper events, cancellation by the Authority |
| **authentication port** (`.../auth`) and **lock screen** (`desktop/shilpo/src/lock`) | active attempt with its PAM helper, prompt and last outcome, one view per display | begin, respond, cancel, helper events, `tick`, following the snapshots | two mutexes in both orders, a success or failure that meets a new attempt, views that subscribe late |
| **compositor port** (`.../compositor`) | revisioned workspace/window projection, commands under way | commands, backend events, reconnect | events against command results |
| **notifications** (`.../notifications`) | live notifications, history, timers | notify, replace, close, expire, action | expiry against replacement |
| **extension worker supervision** (`desktop/ext-runtime`) | circuit breaker, worker process state, effects | spawn, restart, failure, reset | restarts, half-open state |
| **configuration** (`desktop/shilpo/src/config`), **theme daemon**, **session store** | layered values; apply queue; stored session | watch, write override, migrate; apply; save, restore | debounce, atomic replacement of files |
| **shell, settings, setup, locale, observability, extension API** | views, text, logging, schemas | - | none that a model would show |

### 1.2 How they interact

A view submits a debounced command to the *device client* (call); the client's
worker sends it over D-Bus to the *device daemon* (message), whose worker executes
it through the adapter and answers. The daemon's refresh loop publishes projections
as signals; the client's listeners put them through the version gate into the
client's own projection. The client's connection loop drives a *domain supervisor*,
as do the idle, authentication, polkit, compositor and notification ports. The idle
service's Lock action, a D-Bus call and logind's PrepareForSleep all end in the
*lock supervisor*, which starts the `shilpo-lock` process and hears from it through
a socket.

### 1.3 What makes each part correct

* Supervisor: exactly the failures of the rolling window count; a crash loop trips
  the quarantine at the limit; nothing but time, stability or a reset forgets a failure.
* Daemon: every command is answered, once; one pending command per coalescing key;
  the bound of the mailbox; a late confirmation only after a timeout, once;
  versions that never go back.
* Debounce queue: an accepted command has exactly one fate; nothing is accepted
  behind the drain of shutdown; the counter is the number of entries.
* Connection: the projection equals the daemon's when nothing is under way, never
  goes back, and a dead connection is noticed.
* Lock supervisor: one locker at a time; readiness means locked; an attempt ends.
* Idle: a grace fires once and for its own reason, and ends; the compositor watches
  what is configured; the inhibitors are those that clients hold; a failed domain
  recovers.
* Polkit: a request is granted only by its own helper and answered once; nothing
  runs on behind a request that is over; the dialog belongs to the session; a call
  of the Authority is answered.
* Lock screen: only the success of the latest attempt unlocks; an attempt that can be
  answered is shown; an idle attempt ends; a success unlocks and a failure is retried.
* All ports: the mailbox contract of ADR-0006 - a command that was accepted gets one
  outcome, once and for good.

`PROJECT.json` lists the hazards, each at its line, with the properties that catch it.

## 2. The modules and the code

Every definition that models code has its lines in the `map` of `PROJECT.json`.
A step of a model ends where the code releases a lock or suspends at an `await`,
or between two accesses of an atomic that other threads use.

### DomainSupervisor, SupervisorWindow

`DomainSupervisor` gives each method of the Rust type as an operator from record to
record, so that the ports call it as their code does (`DeviceConnection` does).
`SupervisorWindow` is one supervisor whose methods are called in any order at any
time. `failure_timestamps_ms` is a vector, in which two failures of one millisecond
count twice; the model gives each failure an ordinal. `hist` and `lastFailure` are
history variables for the properties.

### DeviceDaemon

One domain: the domains share only the generation and the mutex of the projections.
`SubmitArrive` is the part of `submit_command` before the queue's lock (sequence
number, generation), `SubmitEnqueue` the part under it (coalescing, capacity, push,
notify). The worker is a program counter over its `await`s and locks: pop, mark
`in_flight`, the check of the generation and reading `before`, execution raced with
the timeout and with `owner_generation_notify`, the confirmation loop, the write of
the projection, clearing `in_flight`, the reply. `RefreshBegin`/`RefreshApply` is
`refresh_domain_states`, whose generation is loaded before its lock.
`IncrementBump/Drain/Reset/Notify` is `increment_owner_generation`. The adapter
(`SystemDeviceAdapter::state`) counts its own revision whenever an observation
differs from the last. Behind it the device applies a command at once, late or
never, and may change by itself.

Abstractions: a payload is a function from fields to values; a command is an
absolute set (coalescible, confirmed by value) or a toggle (neither); error texts
are four constants; telemetry counters are left out, nothing reads them back; the
adapter reports Ready.

### DeviceDebounce

`send_command_debounced` in three steps (load of `is_shutdown`, check of the
supervisor, the locked part with its second look at the flag); the worker's wake,
`take_due`, and sending one command at a time; `shutdown` as flag, drain, one
cancellation at a time, stop. Deadlines are an input: any entries of the map and any
positions of the vector may be due; the map is drained in any order (it is a HashMap),
the vector in its own (`At` is its partition). Connection and supervisor are inputs too, that change between any two steps.

### DeviceConnection

`maintain_connection` and `connect_on` as one program counter; a listener and a
closed watcher per transport, which outlive it; `update_local_domain_state` as the
operator `Updated`; `report_owner_failure` as two steps (supervisor, then
projection), for the loop and for the watcher; `reset_quarantine`; `shutdown`. The
clock, the bus and the daemon are the environment; the daemon publishes first and
emits the signal later, and may restart. One domain: each has its own listener and
its own entry. Sleeps of the loop are the time until its next step. `begin_start`,
`set_domain_lifecycle` and `set_installed_owner_generation` are called by tests only.

### LockSupervisor

Callers in `spawn` or `spawn_and_wait_until_locked`; an attempt is a slot with its
process and its two threads. `acquire_or_join_slot`, the start with its failure
path, `resolve`, `clear_readiness_if_matches`, the reaper's three steps and the
reader's two are actions. The locker locks, signals, unlocks, and may exit at any
point; a session that was locked stays locked when its locker dies (that is
ext-session-lock-v1). A wait may end by its time-out at any moment. Each of the two
threads may fail to start: the code drops that error (`.ok()`).

### CommandMailbox

The contract of ADR-0006 in the abstract: `open` are the commands taken in and not
answered, `answers` the outcomes given; a step takes commands in, answers some, or
both. `DeviceDaemon`, `IdleService` and `PolkitAgent` each have an `INSTANCE` of it
and check `MailboxImplemented == Mailbox!MailboxSpec` as a property. The mapping:
`open` is the submitting calls, the queue and the worker's hands in the daemon, the
queue and the items that a thread has taken out of it in the idle port, the queue in
the polkit port; `answers` are the replies, or the outcomes of the tickets.

### IdleService, MCIdleService

One mutex guards `IdleDomainState`; the interleaving comes from those who lock it
more than once. The supervisor task is `Start`, the branches of its `select!`
(`TickRead`/`TickFail`/`TickTick`, `HandleEvent`, `LoopSubmit`/`LoopProcess`) and the
reads of availability, lifecycle and supervisor state that the tick makes before it
acts on them. A caller of the port enqueues and processes in two lockings
(`CallSubmit`, `CallProcess`), and a command may be processed by another thread in
between; the commands are applied one at a time (`ProcessItem`), all under the lock.
A submission takes the first waiting command of its key out of the queue, and no other
(`Enqueued`; the polkit port does the same).
The Wayland thread applies registrations, reports events and loses or regains its
connection; D-Bus clients inhibit, un-inhibit and disappear, and logind's flag flips.
History variables: `fired` and `reports` (graces), `late` (the connection came up under
a domain that was Ready already), `undone` (what a client holds on one ScreenSaver
object although its like was released on the other). `MCIdleService` gives the
configurations. Left out: displayed idle seconds, the execution of actions (I/O).

### PolkitAgent, MCPolkitAgent

`inner` and `active_session` are two mutexes that the code takes in both orders, so
every operation is split at its lockings; `InnerFree` and `SessionFree` say who holds
them, from where each thread is. `Turn` to `PollWipe` are the supervisor task
(connect, register, tick, poll of the helper), `BeginLock`/`BeginWork` and
`CancelTake`/`CancelClear` the methods that the Authority calls, `CallSubmit`/
`CallProcess`/`ProcessItem` the port, `StopLock`/`StopWork` shutdown. A helper has a
channel of events; its reader appends to it (`HelperEmits`). `strays` are helpers
that were dropped without being killed, `answers` what the Authority's calls
returned, `proven` the requests whose own helper succeeded. Texts, identities and the
parsing of lines are left out. Time stands still where nothing waits for it.
`MCPolkitAgent` adds the symmetry of the cookies: no definition looks at which one it has.

### LockScreen

The process `shilpo-lock`: the UI thread opens the views, runs their poll tasks and
is the only caller of the port (`Submit`, `Process`, `DoBegin`, `DoRespond`,
`DoCancel`), so that the mailbox never holds more than one command; the supervisor
task ticks and polls, split at the two mutexes as in `PolkitAgent`; the helper
appends to its channel. A view's `watch::Receiver` is the flag `unseen[v]`:
`OpenView` subscribes without a change to report, `Notice` is `changed()` and
`ApplySnapshot` reads `borrow()` later. `proven` is a history variable: the helper
of the latest attempt said SUCCESS, and nothing has cancelled it or timed it out.
A helper that says nothing, and one whose reader failed, look the same to the port.

## 3. Runs

| run | module | checks | bounds |
|---|---|---|---|
| supervisor | SupervisorWindow | TypeOK, PruningIsExact, TripsExactlyAtLimit, WindowSurvivesRestart | clock to 8 with a window of 3 and a stability time of 4; 5 failures with a limit of 3 |
| daemon_owner | DeviceDaemon | TypeOK, ExactlyOnePlace, MailboxBounded, EveryCommandAnswered, MailboxImplemented | two commands, capacity one, one replacement of the owner |
| daemon_reconcile | DeviceDaemon | OnePendingPerKey, ReconciledAtMostOnceAndOnlyAfterTimeout | two commands, two values, one change of the device by itself, one more poll |
| debounce | DeviceDebounce | OneFate, NothingBehindDrain, DepthIsExact, EveryAcceptedLeaves | two callers, one key and keyless commands, three accepted |
| connection | DeviceConnection | CurrentWhenQuiet, ProjectionNeverRegresses | two transports, two changes of the daemon, one restart of it |
| connection_stop | DeviceConnection | GenerationPerTransport, ClosedIsNoticed | two transports, quarantine at the second failure, reset, daemon restart, shutdown |
| lock | LockSupervisor | OneLocker, ResultStands, AttemptEnds | two callers, two attempts, threads that fail to start |
| idle_owner | MCIdleService | TypeOK, GraceFiresOnce, ArmedWhenReady, InhibitorsExact, MailboxImplemented | two behaviours, two configurations besides the default, one call, one flip of logind's flag (no other inhibitors), a first Wayland connection at any moment and one loss of it |
| idle_inhibit | MCIdleService | InhibitorsExact, EveryTicketResolved, GraceEnds, RecoversWhenAvailable | two ScreenSaver objects that each give out one cookie, one client that may vanish, a connection that comes up once |
| polkit | MCPolkitAgent | OkOnlyAfterOwnSuccess, OverMeansNoHelper, DialogShowsSession, MailboxImplemented | two requests, one prompt per helper, one call of the port, one loss of the bus that quarantines, its reset, shutdown |
| lock_screen | LockScreen | UnlockOnlyByLatestSuccess, SessionIsShown, IdleAttemptEnds, SuccessUnlocks, FailureRetried | two displays, two prompts per helper, any number of attempts |
| polkit_lockup | PolkitAgent | EveryCallAnswered, which the code does not keep | the smallest in which it fails (section 6) |

The type invariants of `DeviceDebounce`, `DeviceConnection`, `LockSupervisor`,
`PolkitAgent` and `LockScreen` are stated in the modules (`TypeOK`) and were checked in
the same instances (that of `LockSupervisor` is proved: `LockTypeOK`); the runs keep to
the properties that say more.

Some properties name an exception, at the code where the system does not do what one
would expect: `CurrentWhenQuiet` a daemon that restarted, `AttemptEnds` a reaper thread
that was not started, `ArmedWhenReady` a first connection that comes up late,
`InhibitorsExact` what follows a refused command or a cookie number shared by two
paths. The runs have every one of these; the statements without the exception are in
section 6.

Why the bounds are enough. *Two of everything that races*: two commands with
capacity one give a full mailbox, a replacement and an overload; two values make a
command confirmable, refutable and confirmable late; two transports give an old and
a new listener and watcher; two changes of the daemon are the least in which a
signal is older than the snapshot; two attempts let a new locker start while the
old one is reaped. *One past a limit*: the supervisor records more failures than
trip it and the clock goes past the window. Where a property is also proved
(section 5) the bound no longer matters. In `connection` and `connection_stop` the
backoff is one unit and the clock has one, so that one failure is followed by a
retry; longer waits only delay the same steps.

For the idle port the least is two behaviours, so that one grace has a member that
another configuration removes, a single loss, which the tick meets at each of its
reads, and a client that gets cookie 1 from both ScreenSaver objects; for polkit two requests, so that one can replace the other's session while
the helper of the first has an event in its channel. A time-out of one or two units
is enough where a timer only has to be able to come before, between and after the
other steps. `lock_screen` has no bound on attempts at all: its state space is finite.

Deadlock is checked in `supervisor`, `daemon_*`, `debounce`, `connection` and
`idle_*`. It is not in `connection_stop` and `polkit`, where the system ends after
shutdown, nor in `lock`, which stops when every attempt is used, `lock_screen`, which
ends with the process, and `polkit_lockup`, whose subject it is.

## 4. Fairness

* `DeviceDaemon.LiveSpec`: weak fairness of the worker (tokio polls a task that can
  move; the adapter call is raced with `tokio::time::timeout`, so it always ends)
  and of `SubmitEnqueue` (a call that has its sequence number goes on to take the
  lock). Nothing is assumed of the refresh loop, of replacement or of the device.
* `DeviceDebounce.LiveSpec`: weak fairness of the worker; strong fairness of a
  `take_due` that finds everything due, because deadlines are absolute and pass,
  while the worker comes back to `take_due` every 20 ms; weak fairness of a
  shutdown that began. Nothing is assumed of callers or of the connection. That the
  call over D-Bus returns is what `EveryCommandAnswered` shows of the daemon.
* `LockSupervisor.LiveSpec`: weak fairness of the steps of a caller after
  `acquire_or_join_slot` and of an attempt's two threads: the operating system runs
  them, and the waits have time-outs. Nothing is assumed of the locker.

* `IdleService.LiveSpec`: weak fairness of the steps that the supervisor task takes
  once it has begun something, of a caller between its two lockings, of the Wayland
  thread's reading of its command channel, and of time; strong fairness of each
  branch of the `select!`, because tokio starts at a random branch and the interval
  keeps firing. Nothing is assumed of clients, user, compositor or connection.
* `PolkitAgent.LiveSpec`: strong fairness of the supervisor task, of a call of the
  Authority that has begun, of a thread that is in the port and of a shutdown that
  has begun: they wait for mutexes which the others take and release again and again,
  and the supervisor task sleeps in between. Weak fairness of time. Nothing is
  assumed of the helper, the user and the Authority.
* `LockScreen.LiveSpec`: strong fairness of the supervisor task, of the command under
  way, of opening each view and of each view's poll task (the executor of the UI
  thread comes to every task that is ready), weak fairness of `apply_snapshot` and of
  time. Nothing is assumed of the helper, the user and the compositor.

## 5. Proofs

Every safety property that a run checks is also proved, and so are the three
refinements of `CommandMailbox`. The theorems hold for every value of the constants
under the named assumptions of the modules: limits are positive, bounds are natural
numbers, sets that the code enumerates are not empty. `IdleConstants` also says what
the code fixes: some behaviour is enabled in the default configuration, there are
finitely many ScreenSaver objects (two), no bus name is "logind". No theorem about a
property has a hypothesis of its own: where the code makes an exception, the property
names it.

**SupervisorWindowProofs** - `SupervisorTypeOK`, `WindowIsExact`, `TripIsExact`,
`RestartKeepsWindow`. The code prunes as it goes, so that pruning is exact needs the
order of time: the inductive invariant adds that every recorded failure is no later
than the last one, that the last failure and the start of a run are not in the
future, and that the history is finite, which gives the cardinalities their meaning.

**DeviceDaemonProofs** - `DaemonTypeOK`, `NoCommandLost`, `CoalescingHolds`,
`MailboxStaysBounded`. The invariant `IInv` relates the four places of a command to the
worker's program counter (the worker holds a command exactly between pop and
reply) and `in_flight` to both; it also says that ids are below the next sequence
number, without which a fresh command could collide with an old one. Replacement is
treated by two lemmas on sequences: what `VecDeque::remove` leaves, and that
coalescing takes out exactly the commands of the submitted key. Each action that
moves a command has a lemma of its own (`ArriveKeepsPlaces`, `EnqueueKeepsPlaces`,
`PopKeepsPlaces`, `ReplyKeepsPlaces`, `DrainKeepsPlaces`); all the others share
`FrameKeepsPlaces`.

`ReconciliationIsExact` adds `ReconInv`: `timed_out` holds a command once, only after
its timeout was decided, and no longer once its late confirmation was announced; an
outcome is decided only when the worker settles. That a command is executed once,
which this needs, is `IInv`.

`DaemonImplementsMailbox`: the open commands are those with a sequence number and no
reply. A step that gives out no number and takes back no reply therefore answers
exactly the commands it takes from their place, so that it is enough to know of each
action what it does to numbers and replies (`RepliesOnlyGrow`); the initial state and
every step are then mapped.

**DeviceDebounceProofs** - `OneFateHolds`, `NothingBehindDrainHolds`,
`DepthStaysExact`, `DebounceTypeOK`. `DebounceInv` speaks of ids: each of the five
places (map, vector, batch, drained, fates) holds an id once, no two hold the same
one, and together they hold those that were given out (`Spread`); the map has one
command per key, the worker has a batch exactly while it sends, and the flag is up
before the drain. The operators have lemmas: what an append, a tail and a
concatenation do to ids; that an arrangement of a set has each element once; that
`Vec::partition` splits the ids (`PartitionIds`), for which the due positions are
numbered by a bijection (`PositionsNumbered`). A step then only moves ids
(`AcceptedSpread`, `MovedSpread`).

**DeviceConnectionProofs** - `GenerationPerTransportHolds`, `ClosedIsNoticedHolds` and
the action property `ProjectionNeverRegressesHolds` follow from `ConnInv`: transports
are numbered in order, the installed identity is one that was opened, no stamp on a
listener, snapshot or projection is newer than the installed generation, and the
connection's watcher has not fired or is about to be started. `CurrentUntilRestart`:
until the daemon restarts, a quiet client shows the daemon's current state (after a
restart it may not follow: section 6, item 3). `FollowInv`
says why: everything under way was published by this daemon, its latest publication
is on its way to every listener that is subscribed or in the snapshot that will be
applied (`LatestUnderWay`), and once it has arrived the gate has let it in (`Caught`).

**LockSupervisorProofs** - `LockTypeOK`, `OneLockerAlways`, `ResultStandsAlways`.
One locker follows from: a locker that is alive, and an attempt that is starting,
is the registered one. That is inductive only with who starts an attempt (one
caller, before any process runs), the order of the reaper (the registration goes
last, after the process), and that attempts beyond `used` are untouched.
`ResultStandsAlways` is an action property: it needs that only the reader says yes,
and only after it read the byte.

**IdleServiceProofs**. The service has many threads behind one lock, and the
invariant is built in layers, each proved from the ones before:

* `Control` and `Data` (`IdleTypeOK`): the types, and that grace members and
  notification ids belong to enabled behaviours, also in events that are still in a
  channel. The ids are ranks, and that they are 1 to n is a counting argument
  (`IdsOfProperties`).
* `Reported` and `Fires` (`GraceFiresOnceHolds`): a completion that waits anywhere in
  the mailbox was reported by the overlay of that grace; the latest grace ends
  `GraceMs` after its start and has not fired while it runs.
* `Arms` (`ArmedUnlessLate`): a domain that is Ready knows the ids of its configuration,
  and the backend was sent them since it came up last, or nothing if it came up late.
  Only the first connection can be late: a loss is seen by a tick, which fails the
  owner, before the backend is up again.
* `Flight`, `Whole`, `Agree` (`InhibitorsExactHolds`): at most one D-Bus command is
  between the channel and its application, and the last command on its way that
  concerns a source leaves it as it is to be, that is held and not undone through the
  other path; logind's is never undone.
* `Ticketed`, `Counted` (`IdleImplementsMailbox`): every ticket is in one of the places
  that the mapping calls open, or has its one outcome; and there are no more tickets
  than calls, flips, cookies and their releases, which bounds the abstract ids.

**PolkitAgentProofs** - `GrantedByOwnHelperOnce`, `NothingRunsBehind`. One step may end
a session, begin another and take an event of its helper. The invariant `RequestInv`
is therefore a predicate `Fits` of the values that make up a request's state: a helper
belongs to the request it was spawned for, a success in its channel is known to the
history, `completion_tx` is there only while its call has no answer, and a request
that is over has neither session nor stray helper. Each elementary change (end, drop,
forget, start, refuse, take, apply) has a lemma; an action puts them together.

`DialogIsTheSession` adds `Shown`: every step that writes the dialog holds
`active_session` as well; a cancellation between its two lockings keeps others from
beginning a session, and only a failure, which lets go of `active_session` before it
takes the session, leaves one that is not shown. `PolkitImplementsMailbox` rests on
`MailInv`: ids are given out once, a waiting command has no outcome, and one caller
at a time processes, so that the head it reads is the one it removes.

**LockScreenProofs** - `UnlockedByLatestAttempt`, `AttemptIsShown`. What unlocks is
`last_outcome`, and it travels: helper, channel, the poll's hand, snapshot, view. The
invariant `ScreenInv` follows it: a success at any of these places is known to the
history; a terminal event is the last of its channel; while the poll holds an event,
the session it came from is there and not completed. Without the last part a success
could be applied to an attempt that it does not belong to.

Only model-checked: liveness, which the prover does not reach (`EveryCommandAnswered`,
`EveryAcceptedLeaves`, `AttemptEnds`, `EveryTicketResolved`, `GraceEnds`,
`RecoversWhenAvailable`, `IdleAttemptEnds`, `SuccessUnlocks`, `FailureRetried`), and
`TypeOK` of `DeviceConnection`, `PolkitAgent` and `LockScreen`, of which the invariants
above contain what their proofs need. The inductive invariants were themselves checked
with TLC on the instances of the runs, except those that quantify over an infinite set
(`IInv` and `ReconInv` of the daemon, `Flight` and `Agree` of the idle service).

## 6. Where code and documents disagree

With a run and a finding in `PROJECT.json`:

* `polkit_lockup`: `poll_active_helper_event` takes `active_session` and then `inner`
  (polkit/state.rs:738, 745), `process_pending_commands` takes `inner` and then
  `active_session` (551, 571). An answer of the user that meets an event of the helper
  blocks the supervisor task and the thread of the dialog for good, and the open
  `BeginAuthentication` is never answered; the comment at line 734 says "Never
  blocks". The authentication port has the same two orders (auth/state.rs:268-273
  against 411-468), where it leaves a lock screen that cannot be unlocked: `LockedUp`
  in `LockScreen`, which its liveness properties have to exclude.

Without a run. Each is a definition in its module; put it in place of the properties
of the named cfg, with the constants given, and TLC shows the counterexample:

1. `VersionNeverRegresses` (DeviceDaemon; `Values = {0, 1}`, `Capacity = 1`,
   `MaxPolls = 0`, `MaxCommands = 2`, `MaxGen = 1`, `MaxChanges = 1`): *Applied*
   installs the adapter's revision over one that a refresh had raised, so the published
   revision can go back (ADR-0006: a revision "increases"); the client's gate then
   rejects what follows as stale until the revision has caught up.
2. `SupersederIsAccepted` (DeviceDaemon; one value, `Capacity = 1`, `MaxPolls = 0`,
   `MaxCommands = 3`, `MaxGen = 1`, `MaxChanges = 0`): a submission cancels the command
   it replaces and is then rejected as Overloaded when the worker raised `in_flight`
   meanwhile: both are gone.
3. `RestartedOwnerIsFollowed` (DeviceConnection; `MaxConns = 1`, `MaxChanges = 2`,
   `MaxRestarts = 1`): the client's generation follows its *own* bus name, not the
   daemon's, so what a restarted daemon publishes is rejected until its revision
   overtakes the old one.
4. `StoppedIsTerminal` (DeviceConnection; `MaxConns = 1`, `MaxShutdowns = 1`): a
   connection attempt that ends after `shutdown` moves the supervisor out of the
   terminal `Stopped`.
5. `ReadyMeansLocked` (LockSupervisor; two callers, one attempt): a caller that joins
   the attempt of a locker that has already unlocked and is exiting is told at once
   that the session is locked.
6. `AuthenticatingMeansHelper` and `AlwaysAnotherAttempt` (LockScreen, as it is). The
   poll publishes a failure, releases both mutexes and only then drops the session
   (auth/state.rs:278-283). The view's automatic retry may begin a new attempt in
   between, which is dropped: the prompt is shown, `authenticating` is true ("a helper
   child is running", auth/types.rs:43), no helper runs, and nothing retries
   (lock/mod.rs:309 "Retry automatically"). Also, a first attempt that fails before
   the first view subscribes is not a change to any view and is never retried, and a
   success that was shown and dismissed before then is lost.
7. `HeldInhibits` (IdleServiceInhibit, as it is): the two ScreenSaver objects count
   cookies from one each (inhibits.rs:88), and an inhibitor is identified by cookie and
   sender: a client that uses both paths releases both with one call.
8. `AlwaysArmed` (IdleServiceOwner, as it is): when the first Wayland connection comes
   up between `mark_ready` and the first tick (service.rs:285), the domain is Ready with
   nothing registered until the next configuration.
9. `ClearedOnceExited` (LockSupervisor; one caller, one attempt): `readiness` is
   "cleared once the locker exits" (lock_supervisor.rs:88-89), but the failure to start
   the reaper thread is dropped (line 233), and then nobody waits for the child or
   clears the registration: every later trigger joins that attempt, and is told that
   the session is locked if its slot said so.

Observations of the same kind, from reading the code for the models:

* A worker or refresh that read the generation before `increment_owner_generation`
  writes the projection with the old generation after it. At this commit only tests
  call `increment_owner_generation`.
* A command can be answered TimedOut and be announced as ReconciledApplied later,
  although ADR-0006 lists both among outcomes of which a command has one.
* The debounce queue drops a replaced command, and one taken without a connection,
  without an outcome; ADR-0006 asks for `Cancelled::Superseded` for the former.
* A listener outlives `shutdown` and may make the domain Ready again; the second
  `mark_ready` of the loop may overwrite a quarantine that a closed watcher entered
  since the first, until the loop finds the connection gone.

* `increment_owner_generation` does not clear `timed_out`: a command of the old owner
  may be reconciled under the new one. One disconnect of the client is reported by the
  loop and by the watcher, and so counts twice towards the quarantine. A locker that
  needs more than 60 s resolves its slot to false for good.
* Idle: an inhibitor that is added during a grace does not cancel it. Notification ids
  are given out anew at each registration and events carry nothing else, so that a
  late Idled may be attributed to another behaviour. A RemoveInhibit or Clear that is
  refused while the domain is Unavailable leaves its inhibitor for good. A
  ConfigureBehaviors that is submitted before `begin_start`, or cancelled by
  OwnerReplaced, is not repeated (shell/runtime/mod.rs:302, 396). The hub's
  `reset_quarantine` (service_hub.rs:378-382) leaves out the idle domain.
* Polkit: the wipe of item 6 exists here too; the dropped session's call gets the error
  of a closed channel and its helper is not killed. A choice of identity in that window
  restores the dialog of a failed request; a begin that cannot spawn its helper leaves
  the dialog of the request before; a choice after the success spawns a helper that is
  dropped without being killed. CancelAuthentication runs in a task of its own and may
  overtake the Begin it is about; the request then runs until a timer ends it. `kill`
  signals a pid that the reader may have reaped already (helper.rs:211-214, 178-180).
  A shutdown while the supervisor task connects is undone by `begin_start` and
  `mark_ready`. `mark_next_internal` is consumed by whichever request comes next.
* Authentication: the comment at auth/state.rs:16-18 says that `tick()` clears
  `last_outcome` after the delay; it clears `prompt_state` only.

## 7. Not modelled, and the plan

`PROJECT.json` lists the parts that are not modelled with the reason: views, text,
command lines, logging, schemas and thin clients of system services have no state
that a model would say something about.

The map covers a small share of the repository's lines. Most of them are views,
text, the extension tool chain around Wasmtime, parsers of compositor and system
protocols, and the theme work; the modules cover the stateful core of the ports.

Read and left for later, in order of importance:

1. Extension circuit breaker (`ext-runtime/src/circuit_breaker.rs`): Closed, Open,
   HalfOpen, PermanentlyDisabled, trips and probe permits, and the restarts of the
   host process that use it.
2. Notifications: two id counters that are not synchronised, a `replaces_id` that does
   not replace, repeated NotificationClosed, a shutdown in two lockings.
3. Compositor broker: commands, revisions and reconnects.
4. Configuration watcher, theme daemon (apply queue, atomic persistence), session store.
5. `DeviceSystem`: client and daemon composed over a bus, with the version gate
   against the daemon's own revisions.
6. Proofs: the full type invariants of `DeviceConnection`, `PolkitAgent` and
   `LockScreen`; the contract of ADR-0006 for the debounce queue and for the mailbox of
   the authentication port; the conditions under which the properties of section 6 that
   fail do hold, as `CurrentUntilRestart` does for the connection.

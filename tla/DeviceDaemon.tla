----------------------------- MODULE DeviceDaemon -----------------------------
(***************************************************************************)
(* The device daemon (DeviceDaemonService): one domain's command mailbox,  *)
(* its worker task, the projection the daemon publishes, the 250 ms        *)
(* refresh loop and owner replacement.  The domains share the generation   *)
(* counter and the mutex of the projections and nothing else, so one       *)
(* domain is modelled.                                                     *)
(*                                                                         *)
(* What runs concurrently: any number of D-Bus submissions (each reads its *)
(* sequence number and the generation before it takes the queue's lock),   *)
(* the worker, the refresh loop, increment_owner_generation, and the       *)
(* device behind the adapter, which applies a command at once, late or     *)
(* never and may change by itself.                                         *)
(***************************************************************************)
EXTENDS Integers, Sequences, FiniteSets

CONSTANTS
  Keys,          \* coalescing keys of the domain, the settable fields of it
  Values,        \* values of a field
  Capacity,      \* DOMAIN_QUEUE_CAPACITY
  MaxPolls,      \* confirmation_timeout over the 100 ms poll interval
  MaxCommands,   \* bound: submissions
  MaxGen,        \* bound: owner generations
  MaxChanges     \* bound: changes of the device by itself

ASSUME DaemonConstants ==
  /\ Keys # {} /\ Values # {}
  /\ Capacity \in Nat \ {0}
  /\ MaxPolls \in Nat
  /\ MaxCommands \in Nat /\ MaxGen \in Nat \ {0} /\ MaxChanges \in Nat

-----------------------------------------------------------------------------
(***************************************************************************)
(* Data.  A payload gives every field a value.  A set command is           *)
(* coalescible, a toggle is not.                                           *)
(***************************************************************************)
Payload == [Keys -> Values]

NoVal == "none"

Command ==
  [op : {"set"}, key : Keys, val : Values] \cup
  [op : {"toggle"}, key : Keys, val : {NoVal}]

\* coalescing_key of a and b are both Some and equal.
SameCoalescingKey(a, b) == a.op = "set" /\ b.op = "set" /\ a.key = b.key

\* command_confirmed: absolute setters look at the new state only, relative
\* commands compare it with the projection read before execution.
CommandConfirmed(cmd, before, after) ==
  IF cmd.op = "set" THEN after[cmd.key] = cmd.val
                    ELSE after[cmd.key] # before[cmd.key]

\* PendingDeviceCommand; the reply channel is the id's entry in replies.
Item == [id : Nat, gen : Nat, cmd : Command]

Outcome ==
  {"Applied", "Overloaded", "Unavailable", "TimedOut", "OwnerReplaced", "Superseded"}

Lifecycle == {"Ready", "Degraded", "Reconnecting"}
ErrorText == {"none", "replaced", "rejected", "timed out"}

Projection ==
  [gen : Nat, rev : Nat, life : Lifecycle, err : ErrorText, val : Payload]

\* Without(s, i): VecDeque::remove(i).
Without(s, i) == [j \in 1..(Len(s) - 1) |-> IF j < i THEN s[j] ELSE s[j + 1]]

\* Mutant: the front of the queue is taken to be executing and is left alone.
ReplaceableBehindFront(s, cmd) == {i \in 2..Len(s) : SameCoalescingKey(s[i].cmd, cmd)}

\* The pending commands that a submission of cmd would replace.
Replaceable(s, cmd) == {i \in 1..Len(s) : SameCoalescingKey(s[i].cmd, cmd)}

VARIABLES
  gen,        \* owner_generation
  nextSeq,    \* next_arrival_sequence
  arriving,   \* submissions between their atomic reads and the queue's lock
  pending,    \* DomainQueueHandle::pending
  permit,     \* the permit of DomainQueueHandle::notify
  inFlight,   \* DomainQueueHandle::in_flight
  pc,         \* where the worker task is
  item,       \* the worker's popped command, as a set of at most one
  wk,         \* the worker's locals: captured generation, before, observed, ...
  woken,      \* the worker's registration with owner_generation_notify has fired
  inc,        \* where increment_owner_generation is
  refreshGen, \* the generation a running refresh loaded, 0 when none runs
  proj,       \* domain_states[domain]
  adapter,    \* revisions[domain], last_payloads[domain] of the adapter
  device,     \* the device: its payload, effects still to come, changes so far
  timedOut,   \* timed_out[domain]
  replies,    \* what every reply channel carried
  broadcasts, \* what outcome_tx carried, in order
  superseded  \* history: which submission replaced which

mailbox == <<arriving, pending, permit>>
worker  == <<pc, item, wk, woken>>
state   == <<proj, adapter, device, timedOut>>
history == <<replies, broadcasts, superseded>>
vars == <<gen, nextSeq, mailbox, inFlight, worker, inc, refreshGen, state, history>>

PCs == {"poll", "parked", "popped", "marked", "exec", "ran", "observe", "observed",
        "sleep", "publish", "degrade", "degradeTimeout", "announce", "settled", "reply"}

Idle == [gen |-> 0, before |-> [k \in Keys |-> CHOOSE v \in Values : TRUE],
         obs |-> [k \in Keys |-> CHOOSE v \in Values : TRUE], rev |-> 0,
         res |-> "none", polls |-> 0, out |-> "none"]

\* The locals that still matter once the outcome is decided.
Settled(out) == [Idle EXCEPT !.out = out]

Reply(id, out) == [id |-> id, out |-> out]

-----------------------------------------------------------------------------
(***************************************************************************)
(* The adapter (SystemDeviceAdapter::state): observing the device bumps    *)
(* the adapter's own revision when the payload differs from the last one.  *)
(***************************************************************************)
ObservedRev == IF device.val = adapter.last THEN adapter.rev ELSE adapter.rev + 1
AdapterObserved == [rev |-> ObservedRev, last |-> device.val]

Init ==
  /\ gen = 1 /\ nextSeq = 1
  /\ arriving = {} /\ pending = <<>> /\ permit = FALSE /\ inFlight = FALSE
  /\ pc = "poll" /\ item = {} /\ wk = Idle /\ woken = FALSE
  /\ inc = "none" /\ refreshGen = 0
  /\ device = [val |-> Idle.before, effects |-> {}, changes |-> 0]
  /\ adapter = [rev |-> 1, last |-> device.val]
  /\ proj = [gen |-> 1, rev |-> 1, life |-> "Ready", err |-> "none", val |-> device.val]
  /\ timedOut = {}
  /\ replies = {} /\ broadcasts = <<>> /\ superseded = {}

-----------------------------------------------------------------------------
(***************************************************************************)
(* submit_command.  The sequence number and the generation are read first, *)
(* the rest happens under the queue's lock.                                *)
(***************************************************************************)
SubmitArrive(cmd) ==
  /\ nextSeq <= MaxCommands
  /\ nextSeq' = nextSeq + 1
  /\ arriving' = arriving \cup {[id |-> nextSeq, gen |-> gen, cmd |-> cmd]}
  /\ UNCHANGED <<gen, pending, permit, inFlight, worker, inc, refreshGen, state, history>>

\* Mutant: the replaced command is answered and left in the queue.
CoalescedInPlace(q, cmd) == q

\* The queue after replace-latest, and what was taken out of it.
Coalesced(q, cmd) ==
  IF Replaceable(q, cmd) = {} THEN q
  ELSE Without(q, CHOOSE i \in Replaceable(q, cmd) :
                    \A j \in Replaceable(q, cmd) : i <= j)

Replaced(q, cmd) ==
  {q[i] : i \in {i \in Replaceable(q, cmd) : \A j \in Replaceable(q, cmd) : i <= j}}

Depth(q) == Len(q) + (IF inFlight THEN 1 ELSE 0)

\* Mutant: the capacity check admits one command too many.
OverloadedLate(q) == Depth(q) > Capacity

Overloaded(q) == Depth(q) >= Capacity

\* Mutant: a push does not wake the worker.
NotifiedNever(accepted) == permit

\* notify_one after a push.
Notified(accepted) == permit \/ accepted

SubmitEnqueue(s) ==
  LET q   == Coalesced(pending, s.cmd)
      old == Replaced(pending, s.cmd)
      rejected == Overloaded(q)
  IN /\ arriving' = arriving \ {s}
     /\ superseded' = superseded \cup {[old |-> o.id, new |-> s.id] : o \in old}
     /\ replies' = replies \cup {Reply(o.id, "Superseded") : o \in old}
                           \cup (IF rejected THEN {Reply(s.id, "Overloaded")} ELSE {})
     /\ pending' = IF rejected THEN q ELSE Append(q, s)
     /\ permit' = Notified(~rejected)
     /\ UNCHANGED <<gen, nextSeq, inFlight, worker, inc, refreshGen, state, broadcasts>>

-----------------------------------------------------------------------------
(***************************************************************************)
(* The worker task of the domain and execute_single.                       *)
(***************************************************************************)
WorkerPop ==
  /\ pc = "poll"
  /\ IF pending = <<>>
     THEN pc' = "parked" /\ UNCHANGED <<item, pending>>
     ELSE pc' = "popped" /\ item' = {Head(pending)} /\ pending' = Tail(pending)
  /\ UNCHANGED <<gen, nextSeq, arriving, permit, inFlight, wk, woken, inc, refreshGen,
                 state, history>>

\* notify.notified().await consumes the permit that notify_one left.
WorkerWake ==
  /\ pc = "parked" /\ permit
  /\ permit' = FALSE
  /\ pc' = "poll"
  /\ UNCHANGED <<gen, nextSeq, arriving, pending, inFlight, item, wk, woken, inc,
                 refreshGen, state, history>>

WorkerMark ==
  /\ pc = "popped"
  /\ inFlight' = TRUE
  /\ wk' = [wk EXCEPT !.gen = gen]
  /\ pc' = "marked"
  /\ UNCHANGED <<gen, nextSeq, mailbox, item, woken, inc, refreshGen, state, history>>

\* A command of an older generation is cancelled; any other one is handed to
\* the adapter, which applies it to the device now, later or never.
WorkerBegin ==
  /\ pc = "marked"
  /\ \E it \in item :
       \/ /\ it.gen # wk.gen
          /\ inFlight' = FALSE
          /\ wk' = Settled("OwnerReplaced")
          /\ pc' = "reply"
          /\ UNCHANGED <<woken, device>>
       \/ /\ it.gen = wk.gen
          /\ wk' = [wk EXCEPT !.before = proj.val, !.polls = 0]
          /\ woken' = FALSE
          /\ pc' = "exec"
          /\ \/ device' = [device EXCEPT !.effects = @ \cup {[id |-> it.id, cmd |-> it.cmd]}]
             \/ UNCHANGED device
          /\ UNCHANGED inFlight
  /\ UNCHANGED <<gen, nextSeq, mailbox, item, inc, refreshGen, proj, adapter, timedOut, history>>

\* The adapter's future resolves, or the confirmation timeout does.  A
\* result of the adapter carries a fresh observation.
WorkerExecuted ==
  /\ pc = "exec"
  /\ \E r \in {"ok", "err", "timeout"} :
       /\ wk' = [wk EXCEPT !.res = r]
       /\ adapter' = IF r = "ok" THEN AdapterObserved ELSE adapter
  /\ pc' = "ran"
  /\ UNCHANGED <<gen, nextSeq, mailbox, inFlight, item, woken, inc, refreshGen, proj, device,
                 timedOut, history>>

\* owner_generation_notify fires in one of the two select!s.
WorkerCancelled ==
  /\ pc \in {"exec", "sleep"} /\ woken
  /\ wk' = Settled("OwnerReplaced")
  /\ pc' = "settled"
  /\ UNCHANGED <<gen, nextSeq, mailbox, inFlight, item, woken, inc, refreshGen, state, history>>

\* The generation check after execution; what follows it is not atomic with it.
WorkerRan ==
  /\ pc = "ran"
  /\ IF gen # wk.gen
     THEN pc' = "settled" /\ wk' = Settled("OwnerReplaced")
     ELSE /\ pc' = CASE wk.res = "ok" -> "observe"
                     [] wk.res = "err" -> "degrade"
                     [] OTHER -> "degradeTimeout"
          /\ UNCHANGED wk
  /\ UNCHANGED <<gen, nextSeq, mailbox, inFlight, item, woken, inc, refreshGen, state, history>>

WorkerObserve ==
  /\ pc = "observe"
  /\ adapter' = AdapterObserved
  /\ wk' = [wk EXCEPT !.obs = device.val, !.rev = ObservedRev]
  /\ pc' = "observed"
  /\ UNCHANGED <<gen, nextSeq, mailbox, inFlight, item, woken, inc, refreshGen, proj, device,
                 timedOut, history>>

\* Mutant: one poll more than the timeout allows.
MayPollOnceMore == wk.polls <= MaxPolls

\* started.elapsed() < timeout_duration: the loop may sleep again.
MayPoll == wk.polls < MaxPolls

\* The body of the confirmation loop after the observation.
WorkerObserved ==
  /\ pc = "observed"
  /\ \E it \in item :
       LET confirmed == CommandConfirmed(it.cmd, wk.before, wk.obs)
       IN \/ /\ gen # wk.gen
             /\ pc' = "settled" /\ wk' = Settled("OwnerReplaced")
             /\ UNCHANGED <<woken, timedOut>>
          \/ /\ gen = wk.gen /\ confirmed
             /\ pc' = "publish"
             /\ UNCHANGED <<wk, woken, timedOut>>
          \/ /\ gen = wk.gen /\ ~confirmed
             /\ pc' = "announce"
             /\ timedOut' = timedOut \cup {[id |-> it.id, cmd |-> it.cmd, before |-> wk.before]}
             /\ UNCHANGED <<wk, woken>>
          \/ /\ gen = wk.gen /\ ~confirmed /\ MayPoll
             /\ pc' = "sleep" /\ wk' = [wk EXCEPT !.polls = @ + 1]
             /\ woken' = FALSE
             /\ UNCHANGED timedOut
  /\ UNCHANGED <<gen, nextSeq, mailbox, inFlight, item, inc, refreshGen, proj, adapter, device,
                 history>>

WorkerSleep ==
  /\ pc = "sleep"
  /\ pc' = "observe"
  /\ UNCHANGED <<gen, nextSeq, mailbox, inFlight, item, wk, woken, inc, refreshGen, state, history>>

\* Applied: the projection takes the adapter's revision.
WorkerPublish ==
  /\ pc = "publish"
  /\ proj' = [gen |-> wk.gen, rev |-> wk.rev, life |-> "Ready", err |-> "none", val |-> wk.obs]
  /\ wk' = Settled("Applied")
  /\ pc' = "settled"
  /\ UNCHANGED <<gen, nextSeq, mailbox, inFlight, item, woken, inc, refreshGen, adapter, device,
                 timedOut, history>>

\* The adapter refused: the projection is degraded in place.
WorkerDegrade ==
  /\ pc = "degrade"
  /\ proj' = [proj EXCEPT !.life = "Degraded", !.err = "rejected"]
  /\ wk' = Settled("Unavailable")
  /\ pc' = "settled"
  /\ UNCHANGED <<gen, nextSeq, mailbox, inFlight, item, woken, inc, refreshGen, adapter, device,
                 timedOut, history>>

\* The adapter did not answer in time: degraded, and kept for reconciliation.
WorkerDegradeTimeout ==
  /\ pc = "degradeTimeout"
  /\ adapter' = AdapterObserved
  /\ proj' = [proj EXCEPT !.life = "Degraded", !.err = "timed out"]
  /\ timedOut' = timedOut \cup
       {[id |-> it.id, cmd |-> it.cmd, before |-> wk.before] : it \in item}
  /\ wk' = Settled("TimedOut")
  /\ pc' = "settled"
  /\ UNCHANGED <<gen, nextSeq, mailbox, inFlight, item, woken, inc, refreshGen, device, history>>

\* The convergence timeout is also broadcast, after timed_out was updated.
WorkerAnnounce ==
  /\ pc = "announce"
  /\ \E it \in item : broadcasts' = Append(broadcasts, Reply(it.id, "TimedOut"))
  /\ wk' = Settled("TimedOut")
  /\ pc' = "settled"
  /\ UNCHANGED <<gen, nextSeq, mailbox, inFlight, item, woken, inc, refreshGen, state, replies,
                 superseded>>

WorkerSettle ==
  /\ pc = "settled"
  /\ inFlight' = FALSE
  /\ pc' = "reply"
  /\ UNCHANGED <<gen, nextSeq, mailbox, item, wk, woken, inc, refreshGen, state, history>>

WorkerReply ==
  /\ pc = "reply"
  /\ replies' = replies \cup {Reply(it.id, wk.out) : it \in item}
  /\ item' = {} /\ wk' = Idle /\ woken' = FALSE /\ pc' = "poll"
  /\ UNCHANGED <<gen, nextSeq, mailbox, inFlight, inc, refreshGen, state, broadcasts,
                 superseded>>

Worker ==
  \/ WorkerPop \/ WorkerWake \/ WorkerMark \/ WorkerBegin \/ WorkerExecuted
  \/ WorkerCancelled \/ WorkerRan \/ WorkerObserve \/ WorkerObserved \/ WorkerSleep
  \/ WorkerPublish \/ WorkerDegrade \/ WorkerDegradeTimeout \/ WorkerAnnounce
  \/ WorkerSettle \/ WorkerReply

-----------------------------------------------------------------------------
(***************************************************************************)
(* refresh_domain_states, called by the daemon's loop every 250 ms.  The   *)
(* generation is loaded before the mutex is taken.                         *)
(***************************************************************************)
RefreshBegin ==
  /\ refreshGen = 0
  /\ refreshGen' = gen
  /\ UNCHANGED <<gen, nextSeq, mailbox, inFlight, worker, inc, state, history>>

\* The timed-out commands that the new state confirms; the order in which one
\* refresh announces several of them is left open.
Reconcilable(val) == {t \in timedOut : CommandConfirmed(t.cmd, t.before, val)}

\* Mutant: a reconciled command is announced and kept.
KeptForReconciliationForever(val) == timedOut

KeptForReconciliation(val) == timedOut \ Reconcilable(val)

RefreshApply ==
  /\ refreshGen # 0
  /\ refreshGen' = 0
  /\ adapter' = AdapterObserved
  /\ IF proj.val # device.val \/ proj.life # "Ready" \/ proj.err # "none"
     THEN /\ proj' = [gen |-> refreshGen, rev |-> proj.rev + 1, life |-> "Ready",
                      err |-> "none", val |-> device.val]
          /\ timedOut' = KeptForReconciliation(device.val)
          /\ \E order \in [1..Cardinality(Reconcilable(device.val)) -> Reconcilable(device.val)] :
               /\ \A i, j \in DOMAIN order : order[i] = order[j] => i = j
               /\ broadcasts' = broadcasts \o
                    [i \in DOMAIN order |-> Reply(order[i].id, "ReconciledApplied")]
     ELSE UNCHANGED <<proj, timedOut, broadcasts>>
  /\ UNCHANGED <<gen, nextSeq, mailbox, inFlight, worker, inc, device, replies, superseded>>

-----------------------------------------------------------------------------
(***************************************************************************)
(* increment_owner_generation: four steps, each atomic by itself.          *)
(***************************************************************************)
IncrementBump ==
  /\ inc = "none" /\ gen < MaxGen
  /\ gen' = gen + 1
  /\ inc' = "drain"
  /\ UNCHANGED <<nextSeq, mailbox, inFlight, worker, refreshGen, state, history>>

IncrementDrain ==
  /\ inc = "drain"
  /\ replies' = replies \cup {Reply(pending[i].id, "OwnerReplaced") : i \in 1..Len(pending)}
  /\ pending' = <<>>
  /\ inc' = "reset"
  /\ UNCHANGED <<gen, nextSeq, arriving, permit, inFlight, worker, refreshGen, state, broadcasts,
                 superseded>>

IncrementReset ==
  /\ inc = "reset"
  /\ proj' = [proj EXCEPT !.gen = gen, !.rev = 0, !.life = "Reconnecting", !.err = "replaced"]
  /\ inc' = "notify"
  /\ UNCHANGED <<gen, nextSeq, mailbox, inFlight, worker, refreshGen, adapter, device, timedOut,
                 history>>

\* notify_waiters reaches only the futures that exist.
IncrementNotify ==
  /\ inc = "notify"
  /\ woken' = (woken \/ pc \in {"exec", "sleep"})
  /\ inc' = "none"
  /\ UNCHANGED <<gen, nextSeq, mailbox, inFlight, pc, item, wk, refreshGen, state, history>>

Increment == IncrementBump \/ IncrementDrain \/ IncrementReset \/ IncrementNotify

-----------------------------------------------------------------------------
(***************************************************************************)
(* The device: a command's effect arrives, or a field changes by itself.   *)
(***************************************************************************)
DeviceEffect ==
  \E e \in device.effects, v \in Values :
    /\ IF e.cmd.op = "set" THEN v = e.cmd.val ELSE v # device.val[e.cmd.key]
    /\ device' = [device EXCEPT !.val[e.cmd.key] = v, !.effects = @ \ {e}]
    /\ UNCHANGED <<gen, nextSeq, mailbox, inFlight, worker, inc, refreshGen, proj, adapter,
                   timedOut, history>>

DeviceChange ==
  \E k \in Keys, v \in Values :
    /\ device.changes < MaxChanges /\ v # device.val[k]
    /\ device' = [device EXCEPT !.val[k] = v, !.changes = @ + 1]
    /\ UNCHANGED <<gen, nextSeq, mailbox, inFlight, worker, inc, refreshGen, proj, adapter,
                   timedOut, history>>

Submit == (\E cmd \in Command : SubmitArrive(cmd)) \/ (\E s \in arriving : SubmitEnqueue(s))

Next ==
  \/ Submit \/ Worker
  \/ RefreshBegin \/ RefreshApply
  \/ Increment
  \/ DeviceEffect \/ DeviceChange

Spec == Init /\ [][Next]_vars

(***************************************************************************)
(* The worker task is polled by tokio whenever it can move, and a          *)
(* submission that holds its sequence number goes on to take the lock.     *)
(***************************************************************************)
LiveSpec ==
  Spec /\ WF_vars(Worker) /\ WF_vars(\E s \in arriving : SubmitEnqueue(s))

-----------------------------------------------------------------------------
(***************************************************************************)
(* Properties.                                                             *)
(***************************************************************************)
TimedOutCommand == [id : Nat, cmd : Command, before : Payload]

WorkerLocals ==
  [gen : Nat, before : Payload, obs : Payload, rev : Nat,
   res : {"none", "ok", "err", "timeout"}, polls : 0..MaxPolls,
   out : Outcome \cup {"none"}]

MailboxType ==
  /\ gen \in Nat \ {0} /\ nextSeq \in Nat \ {0}
  /\ arriving \subseteq Item /\ pending \in Seq(Item) /\ item \subseteq Item
  /\ replies \subseteq [id : Nat, out : Outcome]
  /\ superseded \subseteq [old : Nat, new : Nat]

ControlType ==
  /\ permit \in BOOLEAN /\ inFlight \in BOOLEAN /\ woken \in BOOLEAN
  /\ pc \in PCs
  /\ inc \in {"none", "drain", "reset", "notify"}

StateType ==
  /\ refreshGen \in Nat
  /\ proj \in Projection
  /\ adapter \in [rev : Nat, last : Payload]
  /\ device \in [val : Payload, effects : SUBSET [id : Nat, cmd : Command], changes : Nat]
  /\ timedOut \subseteq TimedOutCommand
  /\ broadcasts \in Seq([id : Nat, out : {"TimedOut", "ReconciledApplied"}])

\* Every variable of the daemon keeps its type.
TypeOK == MailboxType /\ ControlType /\ wk \in WorkerLocals /\ StateType

\* The places a submitted command can be in.
InQueue(c)   == \E i \in 1..Len(pending) : pending[i].id = c
Arriving(c)  == \E s \in arriving : s.id = c
Executing(c) == \E it \in item : it.id = c
Answered(c)  == \E r \in replies : r.id = c

\* No command is lost and none is answered twice: at every moment a command
\* that was given a sequence number is in exactly one of the submitting call,
\* the queue, the worker's hands and the answered ones, once, and it has one
\* outcome - through coalescing, overload, owner replacement and timeouts.
ExactlyOnePlace ==
  /\ \A c \in 1..(nextSeq - 1) :
       /\ Arriving(c) \/ InQueue(c) \/ Executing(c) \/ Answered(c)
       /\ Arriving(c)  => ~InQueue(c) /\ ~Executing(c) /\ ~Answered(c)
       /\ InQueue(c)   => ~Executing(c) /\ ~Answered(c)
       /\ Executing(c) => ~Answered(c)
  /\ \A i, j \in 1..Len(pending) : pending[i].id = pending[j].id => i = j
  /\ \A r, q \in replies : r.id = q.id => r = q

\* ReplaceLatest holds at most one pending command per key (ADR-0006, 9).
OnePendingPerKey ==
  \A i, j \in 1..Len(pending) :
    SameCoalescingKey(pending[i].cmd, pending[j].cmd) => i = j

Announced(out) == {i \in 1..Len(broadcasts) : broadcasts[i].out = out}

\* A late confirmation is announced only for a command whose outcome is
\* TimedOut, answered or about to be, and only once, whatever the refresh loop
\* and the worker do around the moment the timeout is recorded.
ReconciledAtMostOnceAndOnlyAfterTimeout ==
  /\ \A i, j \in Announced("ReconciledApplied") :
       broadcasts[i].id = broadcasts[j].id => i = j
  /\ \A i \in Announced("ReconciledApplied") :
       LET c == broadcasts[i].id
       IN \/ Reply(c, "TimedOut") \in replies
          \/ Executing(c) /\ (pc = "announce" \/ wk.out = "TimedOut")

\* in_flight tracks the worker: it is raised while a command executes, and
\* the mailbox never holds more than its capacity besides the executing one.
MailboxBounded ==
  /\ Len(pending) <= Capacity
  /\ pc \in {"exec", "ran", "observe", "observed", "sleep", "publish", "degrade",
            "degradeTimeout", "announce", "settled"} => inFlight
  /\ inFlight => item # {}

\* Every submitted command is eventually answered: no wake-up is lost between
\* the worker's empty pop and its wait, and no timeout is missed.
EveryCommandAnswered ==
  \A c \in 1..MaxCommands : (nextSeq > c) ~> Answered(c)

\* The commands that are somewhere on their way through the daemon.
Unanswered == {c \in 1..MaxCommands : Arriving(c) \/ InQueue(c) \/ Executing(c)}

Mailbox ==
  INSTANCE CommandMailbox
    WITH Ids <- 1..MaxCommands, Outcomes <- Outcome, open <- Unanswered, answers <- replies

\* The daemon implements the mailbox contract: in every step the commands that
\* leave the submitting calls, the queue and the worker are exactly the ones
\* that are answered in it, and an answer that was given is never touched again.
MailboxImplemented == Mailbox!MailboxSpec

-----------------------------------------------------------------------------
(***************************************************************************)
(* What ADR-0006 says and the daemon does not do.                          *)
(***************************************************************************)
VersionBelow(a, b) == a.gen < b.gen \/ (a.gen = b.gen /\ a.rev < b.rev)

\* The version of the published projection never goes back.
VersionNeverRegresses == [][~VersionBelow(proj', proj)]_proj

\* A command that superseded an accepted one is itself accepted.
SupersederIsAccepted ==
  \A p \in superseded : Reply(p.new, "Overloaded") \notin replies
=============================================================================

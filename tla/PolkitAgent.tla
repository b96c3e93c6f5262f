----------------------------- MODULE PolkitAgent -----------------------------
(***************************************************************************)
(* The PolicyKit authentication agent: the Authority asks it to            *)
(* authenticate a user (BeginAuthentication stays open until that is       *)
(* decided), it talks to polkit-agent-helper-1 and shows a dialog.         *)
(*                                                                         *)
(* PolkitDomainState has two mutexes, inner and active_session, and its    *)
(* operations take them in different orders:                               *)
(*   inner, then active_session   tick, begin_authentication,              *)
(*                                process_pending_commands, shutdown       *)
(*   active_session, then inner   cancel_authentication,                   *)
(*                                poll_active_helper_event                 *)
(* Each operation is modelled as the steps between its lockings.  Whoever  *)
(* is past its first step holds the first mutex and needs the second, so   *)
(* that the holders follow from where the threads are (InnerFree,          *)
(* SessionFree).  The threads are the supervisor task, one task per call   *)
(* of the Authority, the callers of the port and the one that shuts down;  *)
(* the helper process and its reader thread run beside them.               *)
(*                                                                         *)
(* Left out: revision, last_error, helper_path and telemetry, the texts of *)
(* prompt_state and the selected identity (displayed only).                *)
(***************************************************************************)
EXTENDS DomainSupervisor, Sequences

CONSTANTS
  Cookies,         \* cookies of the Authority's requests
  Callers,         \* threads that call the port
  Capacity,        \* capacity of the mailbox
  InactivityMs,    \* inactivity_timeout_ms
  DismissMs,       \* SUCCESS_DISMISS_DELAY_MS
  MaxCalls,        \* bound: calls of the port
  MaxPrompts,      \* bound: prompts of one helper
  MaxLosses,       \* bound: losses of, and failures to get, the bus connection
  MaxStops         \* bound: 1 if the port may be shut down

ASSUME PolkitConstants ==
  /\ Capacity \in Nat \ {0} /\ InactivityMs \in Nat \ {0} /\ DismissMs \in Nat \ {0}
  /\ MaxCalls \in Nat /\ MaxPrompts \in Nat /\ MaxLosses \in Nat /\ MaxStops \in {0, 1}

-----------------------------------------------------------------------------
NoCookie == "none"

ASSUME NoCookieIsNone == NoCookie \notin Cookies

\* A helper process with the cookie it was given and its event channel, as its
\* session owns it.  It ends with a terminal event.
NoHelper == [on |-> FALSE, cookie |-> NoCookie, running |-> FALSE, out |-> <<>>, prompts |-> 0]

NewHelper(c) == [on |-> TRUE, cookie |-> c, running |-> TRUE, out |-> <<>>, prompts |-> 0]

\* ActiveSession: whether completion_tx is still there, whether Success was
\* seen, and the time since then or else since the last interaction.
NoSession == [cookie |-> NoCookie, helper |-> NoHelper, tx |-> FALSE, done |-> FALSE, age |-> 0]

NewSession(c, h) == [cookie |-> c, helper |-> h, tx |-> TRUE, done |-> FALSE, age |-> 0]

\* last_interaction_ms = now; the age of a session that is done is not touched.
Touched(s) == IF s.done THEN s ELSE [s EXCEPT !.age = 0]

Terminal == {"success", "failure"}

\* How many identities a request names, as far as begin_authentication cares.
Kinds == {"no identity", "one", "many"}

Cmd(op, c) == [op |-> op, cookie |-> c]

VARIABLES
  sup, life, gen, prior,   \* supervisor, lifecycle, owner_generation, had_prior_readiness
  mark,                    \* mark_next_internal
  dialog,                  \* the cookie of request, which the shell displays
  queue,                   \* the mailbox
  session,                 \* active_session
  strays,                  \* requests whose helper runs on and has no session
  pc, event,               \* where the supervisor task is; the event its poll took
  conn,                    \* the bus connection is alive and the agent registered
  begins,                  \* BeginAuthentication tasks; at work: how many identities they name
  cancels,                 \* CancelAuthentication tasks
  caller,                  \* where the callers of the port are
  stop,                    \* where the shutdown is
  now,
  answers,                 \* history: how the BeginAuthentication calls were answered
  proven,                  \* history: requests that a helper of theirs authenticated
  nextId, outcomes,        \* history: tickets and their outcomes
  losses, calls            \* history: the bounded counters

domain  == <<sup, life, gen, prior>>
request == <<dialog, session, strays, answers, proven>>
loop    == <<pc, event>>
bus     == <<conn, losses>>
tasks   == <<begins, cancels>>
port    == <<caller, calls>>
tickets == <<nextId, outcomes>>
vars == <<domain, mark, request, queue, loop, bus, tasks, port, stop, now, tickets>>

Init ==
  /\ sup = NewSupervisor /\ life = "Unavailable" /\ gen = 0 /\ prior = FALSE
  /\ mark = FALSE /\ dialog = NoCookie /\ queue = <<>>
  /\ session = NoSession /\ strays = {} /\ proven = {}
  /\ pc = "turn" /\ event = "none" /\ conn = FALSE
  /\ begins = [c \in Cookies |-> "none"]
  /\ cancels = [c \in Cookies |-> "none"]
  /\ caller = [u \in Callers |-> "none"] /\ stop = "none" /\ now = 0
  /\ answers = {} /\ nextId = 1 /\ outcomes = {} /\ losses = 0 /\ calls = 0

-----------------------------------------------------------------------------
(***************************************************************************)
(* The mutexes.                                                            *)
(***************************************************************************)
InnerFree ==
  /\ pc \notin {"ticking", "tickingOnly"}
  /\ \A c \in Cookies : begins[c] \notin Kinds
  /\ \A u \in Callers : caller[u] # "processing"
  /\ stop # "stopping"

SessionFree == pc # "applying" /\ \A c \in Cookies : cancels[c] # "clearing"

\* The holder of inner needs active_session for its next step.
InnerNeedsSession ==
  ~InnerFree /\ ~(\E u \in Callers : caller[u] = "processing"
                     /\ (Head(queue).gen # gen \/ Head(queue).cmd.op = "mark"))

\* Two threads wait for each other, each with the mutex that the other needs.
LockedUp == InnerNeedsSession /\ ~SessionFree

-----------------------------------------------------------------------------
(***************************************************************************)
(* The end of a session and the events of its helper.                      *)
(***************************************************************************)
\* What completion_tx sends, if it was not used before.
Answer(s, out) == IF s.tx THEN {[id |-> s.cookie, out |-> out]} ELSE {}

Stray(s) == IF s.helper.running THEN {s.cookie} ELSE {}

\* Mutant: the session is taken and answered, its helper goes on.
EndedRunning ==
  /\ answers' = answers \cup Answer(session, "over")
  /\ strays' = strays \cup Stray(session)

\* A session is taken, its helper killed and its call answered with an error.
Ended ==
  /\ answers' = answers \cup Answer(session, "over")
  /\ UNCHANGED strays

\* The session is overwritten: its helper is dropped, not killed, and a call
\* still waiting gets the error of a closed channel.
Dropped ==
  /\ answers' = answers \cup Answer(session, "dropped")
  /\ strays' = strays \cup Stray(session)

Emits(h) ==
  IF ~h.running THEN {}
  ELSE Terminal \cup (IF h.prompts < MaxPrompts THEN {"prompt"} ELSE {})

\* The reader thread has parsed an event; a terminal one is the last.
Emitted(h, e) ==
  [h EXCEPT !.running = e \notin Terminal, !.prompts = IF e = "prompt" THEN @ + 1 ELSE @]

\* ... and sent into the channel of the session.
Sent(h, e) == [Emitted(h, e) EXCEPT !.out = Append(h.out, e)]

\* try_recv_event: the oldest event, which may have just been produced, if any.
Received(h) ==
  IF h.out # <<>> THEN {[ev |-> Head(h.out), left |-> [h EXCEPT !.out = Tail(@)]]}
  ELSE {[ev |-> "none", left |-> h]}
         \cup {[ev |-> e, left |-> Emitted(h, e)] : e \in Emits(h)}

\* apply_helper_event.  Success leaves the dialog to tick; completed_at_ms is the
\* time at which the event was taken, like last_interaction_ms.
AfterEvent(s, e) ==
  CASE e = "success" -> [s EXCEPT !.tx = FALSE, !.helper = NoHelper, !.done = TRUE]
    [] e = "failure" -> [s EXCEPT !.tx = FALSE]
    [] OTHER -> s

Verdict(s, e) ==
  CASE e = "success" -> Answer(s, "ok")
    [] e = "failure" -> Answer(s, "failed")
    [] OTHER -> {}

\* The history's side of a success: the request that helper h was spawned for.
Proof(h, e) == IF e = "success" THEN {h.cookie} ELSE {}

HelperEmits ==
  \E e \in Emits(session.helper) :
    /\ session' = [session EXCEPT !.helper = Sent(@, e)]
    /\ proven' = proven \cup Proof(session.helper, e)
    /\ UNCHANGED <<domain, mark, dialog, strays, answers, queue, loop, bus, tasks, port, stop,
                   now, tickets>>

-----------------------------------------------------------------------------
(***************************************************************************)
(* The supervisor task.  One turn reads the supervisor's state and acts on *)
(* it after the lock is gone; between two turns it sleeps.                 *)
(***************************************************************************)
NotReady == IF prior THEN "Reconnecting" ELSE "Connecting"

Turn ==
  /\ pc = "turn" /\ InnerFree
  /\ pc' = CASE sup.st = "Running" -> IF conn THEN "tick" ELSE "fail"
             [] sup.st \in {"Backoff", "Quarantined"} -> "tickOnly"
             [] sup.st = "Starting" -> "connect"
             [] OTHER -> "ended"
  /\ conn' = (conn /\ pc' \notin {"connect", "ended"})
  /\ UNCHANGED <<domain, mark, request, queue, event, losses, tasks, port, stop, now, tickets>>

\* report_owner_failure, for a lost connection and for one that never came.
ReportFailure ==
  /\ InnerFree
  /\ \/ pc = "fail" /\ UNCHANGED losses
     \/ pc = "connect" /\ losses < MaxLosses /\ losses' = losses + 1
  /\ life' = "Degraded"
  /\ sup' = RecordFailure(sup, now)
  /\ pc' = "turn"
  /\ UNCHANGED <<gen, prior, mark, request, queue, event, conn, tasks, port, stop, now, tickets>>

\* Connected, the object served and the agent registered with the Authority,
\* whose calls may come from here on.
Registered ==
  /\ pc = "connect"
  /\ conn' = TRUE
  /\ pc' = "start"
  /\ UNCHANGED <<domain, mark, request, queue, event, losses, tasks, port, stop, now, tickets>>

BeginStart ==
  /\ pc = "start" /\ InnerFree
  /\ gen' = gen + 1
  /\ life' = NotReady
  /\ sup' = MarkStarting(sup)
  /\ pc' = "ready"
  /\ UNCHANGED <<prior, mark, request, queue, event, bus, tasks, port, stop, now, tickets>>

MarkReady ==
  /\ pc = "ready" /\ InnerFree
  /\ life' = "Ready" /\ prior' = TRUE
  /\ sup' = MarkRunning(sup, now)
  /\ pc' = "turn"
  /\ UNCHANGED <<gen, mark, request, queue, event, bus, tasks, port, stop, now, tickets>>

TickLock ==
  /\ pc \in {"tick", "tickOnly"} /\ InnerFree
  /\ pc' = IF pc = "tick" THEN "ticking" ELSE "tickingOnly"
  /\ UNCHANGED <<domain, mark, request, queue, event, bus, tasks, port, stop, now, tickets>>

DismissDue ==
  session # NoSession /\ session.done /\ session.age >= DismissMs

InactivityDue ==
  session # NoSession /\ ~session.done /\ session.age >= InactivityMs

TickSession ==
  \/ /\ DismissDue
     /\ Dropped
     /\ session' = NoSession /\ dialog' = NoCookie
     /\ UNCHANGED proven
  \/ /\ InactivityDue
     /\ Ended
     /\ session' = NoSession /\ dialog' = NoCookie
     /\ UNCHANGED proven
  \/ /\ ~DismissDue /\ ~InactivityDue
     /\ UNCHANGED request

TickWork ==
  /\ pc \in {"ticking", "tickingOnly"} /\ SessionFree
  /\ sup' = Tick(sup, now)
  /\ TickSession
  /\ pc' = IF pc = "ticking" THEN "poll" ELSE "turn"
  /\ UNCHANGED <<life, gen, prior, mark, queue, event, bus, tasks, port, stop, now, tickets>>

\* poll_active_helper_event: take an event under active_session, ...
PollTake ==
  /\ pc = "poll" /\ SessionFree
  /\ \E r \in Received(session.helper) :
       /\ session' = IF r.ev = "none" THEN session ELSE [Touched(session) EXCEPT !.helper = r.left]
       /\ pc' = IF r.ev = "none" THEN "turn" ELSE "applying"
       /\ event' = r.ev
       /\ proven' = proven \cup Proof(r.left, r.ev)
  /\ UNCHANGED <<domain, mark, dialog, strays, answers, queue, bus, tasks, port, stop, now, tickets>>

\* ... apply it under both, ...
PollApply ==
  /\ pc = "applying" /\ InnerFree
  /\ session' = AfterEvent(session, event)
  /\ answers' = answers \cup Verdict(session, event)
  /\ dialog' = IF event = "failure" THEN NoCookie ELSE dialog
  /\ pc' = IF event = "failure" THEN "wipe" ELSE "turn"
  /\ event' = "none"
  /\ UNCHANGED <<domain, mark, strays, proven, queue, bus, tasks, port, stop, now, tickets>>

\* ... and, after both were released, clear whatever session is there.
PollWipe ==
  /\ pc = "wipe" /\ SessionFree
  /\ Dropped
  /\ session' = NoSession
  /\ pc' = "turn"
  /\ UNCHANGED <<domain, mark, dialog, proven, queue, event, bus, tasks, port, stop, now, tickets>>

-----------------------------------------------------------------------------
(***************************************************************************)
(* The calls of the Authority.  Each runs in a task of its own, behind an  *)
(* await that checks the caller, so that they may overtake one another.    *)
(***************************************************************************)
\* A call that came before the connection was lost may still be waiting for
\* that check, and the cancellation of a request may pass the request.
Reachable == conn \/ prior

BeginLock(c, k) ==
  /\ Reachable /\ begins[c] = "none" /\ InnerFree
  /\ begins' = [begins EXCEPT ![c] = k]
  /\ UNCHANGED <<domain, mark, request, queue, loop, bus, cancels, port, stop, now, tickets>>

\* No identity, or no helper: the call fails and the dialog is left alone.
BeginFails(c) ==
  /\ begins[c] \in {"no identity", "one"}
  /\ answers' = answers \cup Answer(session, "over") \cup {[id |-> c, out |-> "refused"]}
  /\ session' = NoSession
  /\ UNCHANGED <<dialog, strays, proven>>

\* Mutant: the helper of the previous request is kept for the new one.
BeginOneKeepsHelper(c) ==
  /\ begins[c] = "one"
  /\ \E r \in Received(IF session.helper.on THEN session.helper ELSE NewHelper(c)) :
       LET s == NewSession(c, r.left)
       IN /\ answers' = answers \cup Answer(session, "over") \cup Verdict(s, r.ev)
          /\ proven' = proven \cup Proof(r.left, r.ev)
          /\ session' = IF r.ev = "failure" THEN NoSession ELSE AfterEvent(s, r.ev)
          /\ dialog' = IF r.ev = "failure" THEN NoCookie ELSE c
  /\ UNCHANGED strays

\* One identity: the helper is spawned and its first event taken.
BeginOne(c) ==
  /\ begins[c] = "one"
  /\ \E r \in Received(NewHelper(c)) :
       LET s == NewSession(c, r.left)
       IN /\ answers' = answers \cup Answer(session, "over") \cup Verdict(s, r.ev)
          /\ proven' = proven \cup Proof(r.left, r.ev)
          /\ session' = IF r.ev = "failure" THEN NoSession ELSE AfterEvent(s, r.ev)
          /\ dialog' = IF r.ev = "failure" THEN NoCookie ELSE c
  /\ UNCHANGED strays

\* Several identities: the helper waits for the choice.
BeginMany(c) ==
  /\ begins[c] = "many"
  /\ Ended
  /\ session' = NewSession(c, NoHelper)
  /\ dialog' = c
  /\ UNCHANGED proven

BeginWork(c) ==
  /\ begins[c] \in Kinds /\ SessionFree
  /\ BeginFails(c) \/ BeginOne(c) \/ BeginMany(c)
  /\ mark' = FALSE
  /\ begins' = [begins EXCEPT ![c] = "begun"]
  /\ UNCHANGED <<domain, queue, loop, bus, cancels, port, stop, now, tickets>>

\* There is a session and it is that of request c.
Matches(c) == session # NoSession /\ session.cookie = c

\* Mutant: the dialog is cleared for a request that is not the session's too.
CancelTakeAny(c) ==
  /\ Reachable /\ cancels[c] = "none" /\ SessionFree
  /\ \/ Matches(c) /\ Ended /\ session' = NoSession
     \/ ~Matches(c) /\ UNCHANGED <<session, strays, answers>>
  /\ cancels' = [cancels EXCEPT ![c] = "clearing"]
  /\ UNCHANGED <<domain, mark, dialog, proven, queue, loop, bus, begins, port, stop, now, tickets>>

\* cancel_authentication: the session goes under active_session, ...
CancelTake(c) ==
  /\ Reachable /\ cancels[c] = "none" /\ SessionFree
  /\ \/ /\ Matches(c)
        /\ Ended
        /\ session' = NoSession
        /\ cancels' = [cancels EXCEPT ![c] = "clearing"]
     \/ /\ ~Matches(c)
        /\ cancels' = [cancels EXCEPT ![c] = "done"]
        /\ UNCHANGED <<session, strays, answers>>
  /\ UNCHANGED <<domain, mark, dialog, proven, queue, loop, bus, begins, port, stop, now, tickets>>

\* ... the dialog under both.
CancelClear(c) ==
  /\ cancels[c] = "clearing" /\ InnerFree
  /\ dialog' = NoCookie
  /\ cancels' = [cancels EXCEPT ![c] = "done"]
  /\ UNCHANGED <<domain, mark, session, strays, answers, proven, queue, loop, bus, begins, port,
                 stop, now, tickets>>

-----------------------------------------------------------------------------
(***************************************************************************)
(* The port: submit_command enqueues and then processes, each under inner. *)
(***************************************************************************)
Result(it, out) == [id |-> it.id, out |-> out]

Refuses(cmd) == life = "Unavailable" \/ (cmd.op # "mark" /\ Len(queue) >= Capacity)

\* The waiting commands that cmd replaces: MarkNextRequestInternal, its like.
Replaceable(cmd) == {i \in 1..Len(queue) : cmd.op = "mark" /\ queue[i].cmd.op = "mark"}

Without(i) == [j \in 1..(Len(queue) - 1) |-> IF j < i THEN queue[j] ELSE queue[j + 1]]

\* The first of them is removed; the new item goes to the back.
Enqueued(item) ==
  \/ /\ Replaceable(item.cmd) = {}
     /\ queue' = Append(queue, item)
     /\ UNCHANGED outcomes
  \/ \E i \in Replaceable(item.cmd) :
       /\ \A j \in Replaceable(item.cmd) : i <= j
       /\ queue' = Append(Without(i), item)
       /\ outcomes' = outcomes \cup {Result(queue[i], "Superseded")}

CallSubmit(u, cmd) ==
  /\ caller[u] = "none" /\ InnerFree /\ calls < MaxCalls
  /\ calls' = calls + 1
  /\ \/ /\ Refuses(cmd)
        /\ UNCHANGED <<caller, queue, tickets>>
     \/ /\ ~Refuses(cmd)
        /\ Enqueued([id |-> nextId, cmd |-> cmd, gen |-> gen])
        /\ nextId' = nextId + 1
        /\ caller' = [caller EXCEPT ![u] = "queued"]
  /\ UNCHANGED <<domain, mark, request, loop, bus, tasks, stop, now>>

CallProcess(u) ==
  /\ caller[u] = "queued" /\ InnerFree
  /\ caller' = [caller EXCEPT ![u] = IF queue = <<>> THEN "none" ELSE "processing"]
  /\ UNCHANGED <<domain, mark, request, queue, calls, loop, bus, tasks, stop, now, tickets>>

ApplyMark(cmd, out) ==
  /\ cmd.op = "mark" /\ out = "Applied"
  /\ mark' = TRUE
  /\ UNCHANGED request

\* The session is gone or belongs to another request.
ApplyNotFound(cmd, out) ==
  /\ cmd.op \in {"select", "respond", "cancel"} /\ ~Matches(cmd.cookie)
  /\ out = "Rejected"
  /\ UNCHANGED <<mark, request>>

\* The first choice of an identity spawns the helper.
ApplySelect(cmd, out) ==
  LET s == Touched(session)
  IN /\ cmd.op = "select" /\ Matches(cmd.cookie)
     /\ \/ /\ s.helper.on /\ out = "Applied"
           /\ session' = s /\ dialog' = s.cookie
           /\ UNCHANGED <<answers, proven>>
        \/ /\ ~s.helper.on /\ out = "Rejected"
           /\ session' = [s EXCEPT !.tx = FALSE]
           /\ answers' = answers \cup Answer(s, "refused")
           /\ UNCHANGED <<dialog, proven>>
        \/ /\ ~s.helper.on /\ out = "Applied"
           /\ \E r \in Received(NewHelper(s.cookie)) :
                LET t == [s EXCEPT !.helper = r.left]
                IN /\ answers' = answers \cup Verdict(t, r.ev)
                   /\ proven' = proven \cup Proof(r.left, r.ev)
                   /\ session' = IF r.ev = "failure" THEN NoSession ELSE AfterEvent(t, r.ev)
                   /\ dialog' = IF r.ev = "failure" THEN NoCookie ELSE t.cookie
     /\ UNCHANGED <<mark, strays>>

\* The response is written to the helper and an event taken.  Without a
\* helper, or with one that has ended, it is refused; the pipe of one that
\* has just ended may still take it.
ApplyRespond(cmd, out) ==
  LET s == Touched(session)
  IN /\ cmd.op = "respond" /\ Matches(cmd.cookie)
     /\ \/ /\ ~s.helper.running /\ out = "Rejected"
           /\ session' = s
           /\ UNCHANGED <<dialog, answers, proven>>
        \/ /\ s.helper.on /\ out = "Applied"
           /\ \E r \in Received(s.helper) :
                LET t == [s EXCEPT !.helper = r.left]
                IN /\ answers' = answers \cup Verdict(t, r.ev)
                   /\ proven' = proven \cup Proof(r.left, r.ev)
                   /\ session' = IF r.ev = "failure" THEN NoSession ELSE AfterEvent(t, r.ev)
                   /\ dialog' = IF r.ev = "failure" THEN NoCookie ELSE dialog
     /\ UNCHANGED <<mark, strays>>

\* Cancel of the request that is shown, and Dismiss of whatever is shown.
ApplyCancel(cmd, out) ==
  /\ (cmd.op = "cancel" /\ Matches(cmd.cookie)) \/ cmd.op = "dismiss"
  /\ out = "Applied"
  /\ Ended
  /\ session' = NoSession /\ dialog' = NoCookie
  /\ UNCHANGED <<mark, proven>>

\* One turn of the loop of process_pending_commands.
ProcessItem(u) ==
  /\ caller[u] = "processing"
  /\ LET it == Head(queue)
     IN \/ /\ it.gen # gen
           /\ outcomes' = outcomes \cup {Result(it, "OwnerReplaced")}
           /\ UNCHANGED <<mark, request>>
        \/ \E out \in {"Applied", "Rejected"} :
             /\ it.gen = gen
             /\ it.cmd.op # "mark" => SessionFree
             /\ outcomes' = outcomes \cup {Result(it, out)}
             /\ \/ ApplyMark(it.cmd, out) \/ ApplyNotFound(it.cmd, out)
                \/ ApplySelect(it.cmd, out) \/ ApplyRespond(it.cmd, out)
                \/ ApplyCancel(it.cmd, out)
  /\ queue' = Tail(queue)
  /\ caller' = [caller EXCEPT ![u] = IF Len(queue) = 1 THEN "none" ELSE @]
  /\ UNCHANGED <<domain, loop, bus, tasks, calls, stop, now, nextId>>

PortReset ==
  /\ InnerFree /\ sup.st = "Quarantined"
  /\ sup' = ResetQuarantine(sup)
  /\ UNCHANGED <<life, gen, prior, mark, request, queue, loop, bus, tasks, port, stop, now, tickets>>

\* Mutant: the queue is emptied and its tickets are forgotten.
ShutDownNone == {}

\* shutdown resolves what waits in the mailbox.
ShutDown == {Result(queue[i], "Shutdown") : i \in DOMAIN queue}

StopLock ==
  /\ stop = "none" /\ InnerFree /\ MaxStops = 1
  /\ stop' = "stopping"
  /\ UNCHANGED <<domain, mark, request, queue, loop, bus, tasks, port, now, tickets>>

StopWork ==
  /\ stop = "stopping" /\ SessionFree
  /\ life' = "Unavailable" /\ sup' = EnterStopped(sup)
  /\ dialog' = NoCookie
  /\ Ended /\ session' = NoSession
  /\ outcomes' = outcomes \cup ShutDown
  /\ queue' = <<>>
  /\ stop' = "done"
  /\ UNCHANGED <<gen, prior, mark, proven, loop, bus, tasks, port, now, nextId>>

-----------------------------------------------------------------------------
ConnLost ==
  /\ conn /\ losses < MaxLosses
  /\ conn' = FALSE /\ losses' = losses + 1
  /\ UNCHANGED <<domain, mark, request, queue, loop, tasks, port, stop, now, tickets>>

\* Time matters only while something waits for it.  The supervisor reads the
\* clock while it backs off, and nothing else does: now stands still at other
\* times, so that failures are as close to one another as they can be.
SessionWaits == session # NoSession /\ ~DismissDue /\ ~InactivityDue
BackoffWaits == sup.st = "Backoff" /\ now < sup.retryAt

Advance ==
  /\ SessionWaits \/ BackoffWaits
  /\ session' = IF SessionWaits THEN [session EXCEPT !.age = @ + 1] ELSE session
  /\ now' = IF BackoffWaits THEN now + 1 ELSE now
  /\ UNCHANGED <<domain, mark, dialog, strays, answers, proven, queue, loop, bus, tasks, port, stop,
                 tickets>>

Commands ==
  {Cmd(op, NoCookie) : op \in {"mark", "dismiss"}}
    \cup {Cmd(op, c) : op \in {"select", "respond", "cancel"},
                       c \in {d \in Cookies : begins[d] = "begun"}}

SupervisorTask ==
  \/ Turn \/ ReportFailure \/ Registered \/ BeginStart \/ MarkReady
  \/ TickLock \/ TickWork \/ PollTake \/ PollApply \/ PollWipe

AuthorityTask(c) == BeginWork(c) \/ CancelClear(c)

Authority(c) == (\E k \in Kinds : BeginLock(c, k)) \/ CancelTake(c)

PortTask(u) == CallProcess(u) \/ ProcessItem(u)

Next ==
  \/ SupervisorTask
  \/ \E c \in Cookies : AuthorityTask(c) \/ Authority(c)
  \/ \E u \in Callers : PortTask(u) \/ \E cmd \in Commands : CallSubmit(u, cmd)
  \/ PortReset \/ StopLock \/ StopWork
  \/ HelperEmits \/ ConnLost \/ Advance

Spec == Init /\ [][Next]_vars

(***************************************************************************)
(* tokio polls its tasks and the threads run; the supervisor task sleeps   *)
(* between two turns, so that a thread waiting for a mutex that is free    *)
(* again and again gets it.  Nothing is assumed of the helper, the user    *)
(* and the Authority.                                                      *)
(***************************************************************************)
LiveSpec ==
  /\ Spec
  /\ SF_vars(SupervisorTask) /\ WF_vars(Advance)
  /\ \A c \in Cookies : SF_vars(AuthorityTask(c))
  /\ \A u \in Callers : SF_vars(PortTask(u))
  /\ SF_vars(StopWork)

-----------------------------------------------------------------------------
(***************************************************************************)
(* Properties.                                                             *)
(***************************************************************************)
\* Every variable keeps its type.
TypeOK ==
  /\ sup \in Supervisor /\ gen \in Nat /\ prior \in BOOLEAN /\ mark \in BOOLEAN
  /\ life \in {"Unavailable", "Connecting", "Reconnecting", "Ready", "Degraded"}
  /\ dialog \in Cookies \cup {NoCookie}
  /\ session = NoSession \/ (session.cookie \in Cookies /\ session.age <= InactivityMs)
  /\ session.done => ~session.tx
  /\ event \in Terminal \cup {"none", "prompt"} /\ (event # "none" <=> pc = "applying")
  /\ \A i \in DOMAIN queue : queue[i].gen \in Nat /\ queue[i].id \in Nat

\* A request is reported as authenticated only if a helper that was spawned
\* for this very request succeeded, and it is answered once, whatever replaces,
\* cancels, times out or stops its session meanwhile.
OkOnlyAfterOwnSuccess ==
  \A a \in answers :
    /\ a.out = "ok" => a.id \in proven
    /\ \A b \in answers : a.id = b.id => a = b

\* Once a request was cancelled, dismissed, superseded or timed out, its helper
\* does not go on behind it.
OverMeansNoHelper == \A a \in answers : a.out = "over" => a.id \notin strays

\* Whenever neither mutex is held, a session that is there is the one that the
\* dialog shows, also when a cancellation, an event of the helper and a new
\* request overlap.
DialogShowsSession ==
  InnerFree /\ SessionFree /\ pc # "wipe" /\ session # NoSession => dialog = session.cookie

\* The commands that hold an unresolved ticket.
Unresolved == {queue[i].id : i \in DOMAIN queue}

Mailbox ==
  INSTANCE CommandMailbox
    WITH Ids <- 1..MaxCalls,
         Outcomes <- {"Applied", "Rejected", "OwnerReplaced", "Superseded", "Shutdown"},
         open <- Unresolved, answers <- outcomes

\* The polkit port implements the mailbox contract of ADR-0006: accepted
\* commands are resolved once, through restarts of the owner and shutdown.
MailboxImplemented == Mailbox!MailboxSpec

\* A call of BeginAuthentication is answered.
EveryCallAnswered ==
  \A c \in Cookies : (begins[c] \in Kinds) ~> (\E a \in answers : a.id = c)
=============================================================================

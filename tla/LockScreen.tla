------------------------------ MODULE LockScreen ------------------------------
(***************************************************************************)
(* The shilpo-lock process: the PAM authentication port (auth/) and the    *)
(* views of the lock screen (shilpo/src/lock/mod.rs), one per display.     *)
(*                                                                         *)
(* Three threads meet here.  The UI thread opens the views, runs their     *)
(* poll tasks, which follow the port's snapshots through a watch channel,  *)
(* and submits the commands of views and user; it is the only caller of    *)
(* the port, so that the mailbox never holds more than the command it is   *)
(* about to process.  The supervisor task ticks and polls the helper.  The *)
(* helper, a child process that talks to PAM, has a reader thread.         *)
(*                                                                         *)
(* As in PolkitAgent an operation is split at its lockings: the UI thread  *)
(* and tick take inner and then active_session, the poll takes them the    *)
(* other way round.                                                        *)
(*                                                                         *)
(* Left out: texts, the input field, version, telemetry, the clock and the *)
(* refocus tasks.  The lifecycle is Ready and the supervisor Running from  *)
(* the construction on: only tests report a failure of this owner.         *)
(***************************************************************************)
EXTENDS Naturals, Sequences

CONSTANTS
  Displays,        \* one view each
  InactivityMs,    \* DEFAULT_INACTIVITY_TIMEOUT_MS
  DismissMs,       \* SUCCESS_DISMISS_DELAY_MS
  MaxPrompts       \* bound: prompts of one helper

ASSUME LockScreenConstants ==
  /\ InactivityMs \in Nat /\ DismissMs \in 1..InactivityMs /\ MaxPrompts \in Nat

-----------------------------------------------------------------------------
Terminal == {"success", "failure"}

\* ActiveSession with its helper: whether that runs, the events in its channel,
\* completed_at_ms as a flag, and the time since then or else since the last
\* interaction.
NoSession == [on |-> FALSE, running |-> FALSE, out |-> <<>>, prompts |-> 0, done |-> FALSE, age |-> 0]

NewSession == [NoSession EXCEPT !.on = TRUE, !.running = TRUE]

\* last_interaction_ms = now; a completed session is timed from its completion.
Touched(s) == IF s.done THEN s ELSE [s EXCEPT !.age = 0]

VARIABLES
  session,           \* active_session
  prompt, outcome,   \* whether there is a prompt_state; last_outcome
  pc, event,         \* where the supervisor task is; the event its poll took
  ui, cmd,           \* where the UI thread is; the command it submits
  unseen,            \* per open view: its receiver has a change to report
  proven             \* history: the helper of the latest attempt said SUCCESS

port == <<session, prompt, outcome, proven>>
loop == <<pc, event>>
vars == <<port, loop, ui, cmd, unseen>>

\* AuthService::new has made the port ready and run_lock is about to submit the
\* first BeginAuthentication.
Init ==
  /\ session = NoSession /\ prompt = FALSE /\ outcome = "none" /\ proven = FALSE
  /\ pc = "tick" /\ event = "none"
  /\ ui = "calling" /\ cmd = "begin"
  /\ unseen = [v \in {} |-> FALSE]

-----------------------------------------------------------------------------
(***************************************************************************)
(* The mutexes, and the watch channel of the snapshots.                    *)
(***************************************************************************)
InnerFree == pc # "ticking" /\ ui # "processing"

SessionFree == pc # "applying"

\* The UI thread has inner and needs active_session, the poll has it and needs
\* inner: the lock screen is dead and the session stays locked.
LockedUp == ui = "processing" /\ pc = "applying"

\* publish_snapshot_locked.  The snapshot holds prompt and outcome, which change
\* only in steps that publish; a view that is not open yet has no receiver.
Publish == unseen' = [v \in DOMAIN unseen |-> TRUE]

-----------------------------------------------------------------------------
(***************************************************************************)
(* The helper.                                                             *)
(***************************************************************************)
Emits(s) ==
  IF ~s.running THEN {}
  ELSE Terminal \cup (IF s.prompts < MaxPrompts THEN {"prompt"} ELSE {})

\* The reader thread has parsed a line, or invents a failure at the end of the
\* file; a terminal event is the last.  (A read error ends the reader without an
\* event, which the port cannot tell from a helper that says nothing.)
Emitted(s, e) ==
  [s EXCEPT !.running = e \notin Terminal, !.prompts = IF e = "prompt" THEN @ + 1 ELSE @]

HelperEmits ==
  \E e \in Emits(session) :
    /\ session' = [Emitted(session, e) EXCEPT !.out = Append(session.out, e)]
    /\ proven' = (proven \/ e = "success")
    /\ UNCHANGED <<prompt, outcome, loop, ui, cmd, unseen>>

\* apply_helper_event on the session: completed_at_ms is the time at which the
\* event was taken, like last_interaction_ms.
AfterEvent(s, e) == IF e = "success" THEN [s EXCEPT !.done = TRUE] ELSE s

\* ... and on what the snapshot shows.
Shown(e) ==
  /\ prompt' = (e # "failure")
  /\ outcome' = CASE e = "success" -> "ok" [] e = "failure" -> "failed" [] OTHER -> outcome

-----------------------------------------------------------------------------
(***************************************************************************)
(* The supervisor task: tick, then poll until there is no event (or 32     *)
(* were taken: a helper has fewer here).                                   *)
(***************************************************************************)
TickLock ==
  /\ pc = "tick" /\ InnerFree
  /\ pc' = "ticking"
  /\ UNCHANGED <<port, event, ui, cmd, unseen>>

DismissDue == session.on /\ session.done /\ session.age >= DismissMs

InactivityDue == session.on /\ ~session.done /\ session.age >= InactivityMs

\* Mutant: the end of a success is not published.
DismissQuietly ==
  /\ DismissDue
  /\ session' = NoSession /\ prompt' = FALSE
  /\ UNCHANGED <<outcome, proven, unseen>>

Dismiss ==
  /\ DismissDue
  /\ session' = NoSession /\ prompt' = FALSE
  /\ Publish
  /\ UNCHANGED <<outcome, proven>>

TimeOut ==
  /\ InactivityDue
  /\ session' = NoSession /\ prompt' = FALSE /\ outcome' = "failed"
  /\ proven' = FALSE
  /\ Publish

TickWork ==
  /\ pc = "ticking" /\ SessionFree
  /\ pc' = "poll"
  /\ \/ Dismiss
     \/ TimeOut
     \/ ~DismissDue /\ ~InactivityDue /\ UNCHANGED <<port, unseen>>
  /\ UNCHANGED <<event, ui, cmd>>

\* Mutant: every poll counts as an interaction.
PollTakeTouches ==
  /\ pc = "poll" /\ SessionFree
  /\ \/ /\ session.out = <<>>
        /\ session' = Touched(session)
        /\ pc' = "tick"
        /\ UNCHANGED event
     \/ /\ session.out # <<>>
        /\ event' = Head(session.out)
        /\ session' = [Touched(session) EXCEPT !.out = Tail(session.out)]
        /\ pc' = "applying"
  /\ UNCHANGED <<prompt, outcome, proven, ui, cmd, unseen>>

\* poll_active_helper_event: take an event under active_session, ...
PollTake ==
  /\ pc = "poll" /\ SessionFree
  /\ \/ /\ session.out = <<>>
        /\ pc' = "tick"
        /\ UNCHANGED <<session, event>>
     \/ /\ session.out # <<>>
        /\ event' = Head(session.out)
        /\ session' = [Touched(session) EXCEPT !.out = Tail(session.out)]
        /\ pc' = "applying"
  /\ UNCHANGED <<prompt, outcome, proven, ui, cmd, unseen>>

\* ... apply it under both, ...
PollApply ==
  /\ pc = "applying" /\ InnerFree
  /\ session' = AfterEvent(session, event)
  /\ Shown(event)
  /\ Publish
  /\ pc' = IF event = "failure" THEN "wipe" ELSE "poll"
  /\ event' = "none"
  /\ UNCHANGED <<proven, ui, cmd>>

\* ... and, after both were released, drop whatever session is there.
PollWipe ==
  /\ pc = "wipe" /\ SessionFree
  /\ session' = NoSession
  /\ pc' = "poll"
  /\ UNCHANGED <<prompt, outcome, proven, event, ui, cmd, unseen>>

-----------------------------------------------------------------------------
(***************************************************************************)
(* The UI thread.                                                          *)
(***************************************************************************)
\* submit_command puts the command into the empty mailbox, ...
Submit ==
  /\ ui = "calling" /\ InnerFree
  /\ ui' = "queued"
  /\ UNCHANGED <<port, loop, cmd, unseen>>

\* ... process_pending_commands locks inner again and takes it, ...
Process ==
  /\ ui = "queued" /\ InnerFree
  /\ ui' = "processing"
  /\ UNCHANGED <<port, loop, cmd, unseen>>

\* ... and returns when it is done.
Returns == ui' = "idle" /\ cmd' = "none"

\* Mutant: last_outcome of the attempt before stays.
BeginKeepsOutcome(e) ==
  /\ session' = IF e = "failure" THEN NoSession
                ELSE AfterEvent(IF e = "none" THEN NewSession ELSE Emitted(NewSession, e), e)
  /\ proven' = (e = "success")
  /\ prompt' = (e # "failure")
  /\ outcome' = CASE e = "success" -> "ok" [] e = "failure" -> "failed" [] OTHER -> outcome

\* BeginAuthentication kills the helper of the attempt before, spawns one and
\* takes its first event if there is one.  Failing to spawn it counts like a
\* helper that fails at once.
Begin(e) ==
  /\ session' = IF e = "failure" THEN NoSession
                ELSE AfterEvent(IF e = "none" THEN NewSession ELSE Emitted(NewSession, e), e)
  /\ proven' = (e = "success")
  /\ prompt' = (e # "failure")
  /\ outcome' = CASE e = "success" -> "ok" [] e = "failure" -> "failed" [] OTHER -> "none"

DoBegin ==
  /\ ui = "processing" /\ cmd = "begin" /\ SessionFree
  /\ \E e \in {"none"} \cup Emits(NewSession) : Begin(e)
  /\ Publish
  /\ Returns
  /\ UNCHANGED loop

\* ProvideResponse: the helper gets it, if there is one.
DoRespond ==
  /\ ui = "processing" /\ cmd = "respond" /\ SessionFree
  /\ \/ session.on /\ session' = Touched(session) /\ Publish
     \/ ~session.on /\ UNCHANGED <<session, unseen>>
  /\ Returns
  /\ UNCHANGED <<prompt, outcome, proven, loop>>

\* Mutant: last_outcome survives the cancellation.
DoCancelKeepsOutcome ==
  /\ ui = "processing" /\ cmd = "cancel" /\ SessionFree
  /\ session' = NoSession /\ prompt' = FALSE /\ proven' = FALSE
  /\ Publish
  /\ Returns
  /\ UNCHANGED <<outcome, loop>>

\* CancelAuthentication.
DoCancel ==
  /\ ui = "processing" /\ cmd = "cancel" /\ SessionFree
  /\ session' = NoSession /\ prompt' = FALSE /\ outcome' = "failed"
  /\ proven' = FALSE
  /\ Publish
  /\ Returns
  /\ UNCHANGED loop

\* LockView::new subscribes: what was published before is not a change.
OpenView(v) ==
  /\ ui = "idle" /\ v \notin DOMAIN unseen
  /\ unseen' = [w \in DOMAIN unseen \cup {v} |-> w \in DOMAIN unseen /\ unseen[w]]
  /\ UNCHANGED <<port, loop, ui, cmd>>

\* The windows are open: the application's event loop runs.
Running == ui = "idle" /\ DOMAIN unseen = Displays

\* rx.changed() ...
Notice(v) ==
  /\ Running /\ unseen[v]
  /\ unseen' = [unseen EXCEPT ![v] = FALSE]
  /\ ui' = "noticed"
  /\ UNCHANGED <<port, loop, cmd>>

\* Mutant: the view shows the failure and waits for the user.
ApplySnapshotNoRetry ==
  /\ ui = "noticed"
  /\ \/ outcome = "ok" /\ ui' = "unlocked"
     \/ outcome # "ok" /\ ui' = "idle"
  /\ UNCHANGED <<port, loop, cmd, unseen>>

\* ... and apply_snapshot on what rx.borrow() has by then: unlock, retry, or
\* only show it.
ApplySnapshot ==
  /\ ui = "noticed"
  /\ \/ outcome = "ok" /\ ui' = "unlocked" /\ UNCHANGED cmd
     \/ outcome = "failed" /\ ui' = "calling" /\ cmd' = "begin"
     \/ outcome = "none" /\ ui' = "idle" /\ UNCHANGED cmd
  /\ UNCHANGED <<port, loop, unseen>>

\* The user answers the prompt.  CancelAuthentication is offered by the port as
\* well; no view submits it today.
UserActs(c) ==
  /\ Running
  /\ ui' = "calling" /\ cmd' = c
  /\ UNCHANGED <<port, loop, unseen>>

\* The compositor denies or ends the lock: the process exits.
LockFinished ==
  /\ ui = "idle"
  /\ ui' = "gone"
  /\ UNCHANGED <<port, loop, cmd, unseen>>

Ended == ui \in {"unlocked", "gone"}

\* Time matters only while a session waits for it.
Advance ==
  /\ session.on /\ ~DismissDue /\ ~InactivityDue
  /\ session' = [session EXCEPT !.age = @ + 1]
  /\ UNCHANGED <<prompt, outcome, proven, loop, ui, cmd, unseen>>

SupervisorTask == TickLock \/ TickWork \/ PollTake \/ PollApply \/ PollWipe

Command == Submit \/ Process \/ DoBegin \/ DoRespond \/ DoCancel

Next ==
  /\ ~Ended
  /\ \/ SupervisorTask \/ Command \/ ApplySnapshot
     \/ \E v \in Displays : OpenView(v) \/ Notice(v)
     \/ \E c \in {"respond", "cancel"} : UserActs(c)
     \/ HelperEmits \/ LockFinished \/ Advance

Spec == Init /\ [][Next]_vars

(***************************************************************************)
(* The two threads run: tick has an interval of 100 ms, so that neither    *)
(* mutex is kept from the other for good, and the executor of the UI       *)
(* thread comes to every task that is ready, whatever the user does.       *)
(* Nothing is assumed of the helper, the user and the compositor.          *)
(***************************************************************************)
LiveSpec ==
  /\ Spec
  /\ SF_vars(~Ended /\ SupervisorTask)
  /\ SF_vars(~Ended /\ Command) /\ WF_vars(~Ended /\ ApplySnapshot)
  /\ \A v \in Displays : SF_vars(~Ended /\ OpenView(v)) /\ SF_vars(~Ended /\ Notice(v))
  /\ WF_vars(~Ended /\ Advance)

-----------------------------------------------------------------------------
(***************************************************************************)
(* Properties.                                                             *)
(***************************************************************************)
\* Every variable keeps its type.
TypeOK ==
  /\ session.age \in 0..InactivityMs /\ (session.running => session.on)
  /\ Len(session.out) <= MaxPrompts + 1
  /\ {prompt, proven} \subseteq BOOLEAN /\ outcome \in {"none", "ok", "failed"}
  /\ pc \in {"tick", "ticking", "poll", "applying", "wipe"}
  /\ event \in Terminal \cup {"none", "prompt"} /\ (event # "none" <=> pc = "applying")
  /\ ui \in {"idle", "calling", "queued", "processing", "noticed", "unlocked", "gone"}
  /\ cmd \in {"none", "begin", "respond", "cancel"}
  /\ (cmd # "none" <=> ui \in {"calling", "queued", "processing"})
  /\ DOMAIN unseen \subseteq Displays /\ \A v \in DOMAIN unseen : unseen[v] \in BOOLEAN

\* The session is unlocked only if the helper of the latest attempt said
\* SUCCESS: never by one that was replaced, cancelled or timed out before its
\* success was applied.
UnlockOnlyByLatestSuccess == ui = "unlocked" => proven

\* An attempt that can still be answered is on the screen, and neither a
\* failure nor a success of another attempt, whenever the attempt before is
\* wiped away.
SessionIsShown ==
  pc # "wipe" /\ session.on => prompt /\ outcome = IF session.done THEN "ok" ELSE "none"

\* What DEFAULT_INACTIVITY_TIMEOUT_MS waits for.
Interaction == HelperEmits \/ UserActs("respond")

\* An attempt ends, and so makes way for a fresh one, unless user or helper do
\* something again and again.
IdleAttemptEnds == []<>(~session.on \/ LockedUp \/ Ended) \/ []<><<Interaction>>_vars

\* A success unlocks, also when it came before there was a view to see it, if
\* there is one before SUCCESS_DISMISS_DELAY_MS is over.
SuccessUnlocks ==
  (outcome = "ok" /\ session.on /\ DOMAIN unseen # {}) ~> (outcome # "ok" \/ LockedUp \/ Ended)

\* A failure that a view has still to see is followed by a new attempt.
FailureRetried ==
  (outcome = "failed" /\ \E v \in DOMAIN unseen : unseen[v])
    ~> ((ui = "processing" /\ cmd = "begin") \/ outcome # "failed" \/ LockedUp \/ Ended)

-----------------------------------------------------------------------------
(***************************************************************************)
(* What the documents say and the port does not keep.                      *)
(***************************************************************************)
\* AuthSnapshot.authenticating: "true while a PAM conversation is in flight (a
\* helper child is running)".
AuthenticatingMeansHelper ==
  InnerFree /\ SessionFree /\ pc # "wipe" /\ prompt /\ outcome = "none" => session.on

\* lock/mod.rs: "Retry automatically: a fresh PAM conversation for the next
\* attempt".
AlwaysAnotherAttempt == (~session.on) ~> (session.on \/ Ended)
=============================================================================

---------------------------- MODULE LockSupervisor ----------------------------
(***************************************************************************)
(* The lock supervisor (LockSupervisor): every trigger of the screen lock  *)
(* goes through it, so that one locker process runs at a time and whoever  *)
(* must know that the session is locked joins the attempt in flight.       *)
(*                                                                         *)
(* Callers are threads in spawn or spawn_and_wait_until_locked.  An        *)
(* attempt is a readiness slot together with the locker process, the       *)
(* socket reader and the reaper started for it.  The locker and the        *)
(* compositor's session lock are the environment.                          *)
(***************************************************************************)
EXTENDS Naturals, FiniteSets

CONSTANTS
  Callers,       \* threads that trigger the lock
  MaxAttempts    \* bound: attempts

ASSUME LockConstants == MaxAttempts \in Nat

Attempts == 1..MaxAttempts
NoAttempt == 0

VARIABLES
  readiness,   \* readiness: the attempt whose slot is registered
  slot,        \* ReadinessSlot::result of each attempt
  active,      \* active: the attempt whose pid is recorded
  used,        \* number of attempts so far
  caller,      \* where each caller is, its attempt, whether it waits, its result
  locker,      \* the locker process of each attempt
  reader,      \* the shilpo-lock-ready-wait thread of each attempt
  reaper,      \* the shilpo-lock-reaper thread of each attempt
  byte,        \* the byte of each attempt's socket: the locker signalled
  locked,      \* the session is locked
  saw          \* history: the session was locked since the caller's call began

env  == <<locker, byte, locked>>
vars == <<readiness, slot, active, used, caller, reader, reaper, env, saw>>

Results == {"none", "yes", "no"}
Idle == [at |-> "idle", a |-> NoAttempt, waits |-> FALSE, got |-> "none"]

Init ==
  /\ readiness = NoAttempt /\ active = NoAttempt /\ used = 0
  /\ slot = [a \in Attempts |-> "none"]
  /\ caller = [c \in Callers |-> Idle]
  /\ locker = [a \in Attempts |-> "none"]
  /\ reader = [a \in Attempts |-> "none"]
  /\ reaper = [a \in Attempts |-> "none"]
  /\ byte = [a \in Attempts |-> FALSE]
  /\ locked = FALSE /\ saw = [c \in Callers |-> FALSE]

-----------------------------------------------------------------------------
\* Mutant: the last writer wins.
ResolvedAgain(a, value) == [slot EXCEPT ![a] = value]

\* ReadinessSlot::resolve: the first result stays.
Resolved(a, value) == [slot EXCEPT ![a] = IF @ = "none" THEN value ELSE @]

\* Mutant: the registration is matched by the recorded pid.
ClearedIfActive(a) == IF active = a THEN NoAttempt ELSE readiness

\* clear_readiness_if_matches.
Cleared(a) == IF readiness = a THEN NoAttempt ELSE readiness

Move(c, at) == [caller EXCEPT ![c].at = at]

\* The caller is done with starting the attempt: it waits or it returns.
Released(c) == [caller EXCEPT ![c] = IF @.waits THEN [@ EXCEPT !.at = "wait"] ELSE Idle]

FreshAttempt == used + 1

\* Mutant: an attempt that has its result is not joined any more.
JoinableUnresolved == readiness # NoAttempt /\ slot[readiness] = "none"

Joinable == readiness # NoAttempt

-----------------------------------------------------------------------------
(***************************************************************************)
(* spawn and spawn_and_wait_until_locked.                                  *)
(***************************************************************************)
\* acquire_or_join_slot.
CallerAcquire(c, waits) ==
  /\ caller[c].at = "idle"
  /\ saw' = [saw EXCEPT ![c] = waits /\ locked]
  /\ \/ /\ Joinable
        /\ caller' = [caller EXCEPT ![c] =
             IF waits THEN [Idle EXCEPT !.at = "wait", !.a = readiness, !.waits = TRUE] ELSE Idle]
        /\ UNCHANGED <<readiness, used>>
     \/ /\ ~Joinable /\ used < MaxAttempts
        /\ used' = used + 1
        /\ readiness' = FreshAttempt
        /\ caller' = [caller EXCEPT ![c] =
             [Idle EXCEPT !.at = "start", !.a = FreshAttempt, !.waits = waits]]
  /\ UNCHANGED <<slot, active, reader, reaper, env>>

\* start_locker: the executable, the socket pair or the spawn fails, or the
\* process runs.
CallerStart(c) ==
  /\ caller[c].at = "start"
  /\ \/ /\ caller' = Move(c, "failed")
        /\ UNCHANGED locker
     \/ /\ caller' = Move(c, "started")
        /\ locker' = [locker EXCEPT ![caller[c].a] = "running"]
  /\ UNCHANGED <<readiness, slot, active, used, reader, reaper, byte, locked, saw>>

\* The pid is recorded and the two threads are started, each of which may fail
\* without a word (`.ok()`): it is then never there.
CallerStarted(c) ==
  LET a == caller[c].a
  IN /\ caller[c].at = "started"
     /\ active' = a
     /\ \E thread \in {"waiting", "none"} : reader' = [reader EXCEPT ![a] = thread]
     /\ \E thread \in {"waiting", "none"} : reaper' = [reaper EXCEPT ![a] = thread]
     /\ caller' = Released(c)
     /\ UNCHANGED <<readiness, slot, used, env, saw>>

CallerFailed(c) ==
  /\ caller[c].at = "failed"
  /\ slot' = Resolved(caller[c].a, "no")
  /\ caller' = Move(c, "clear")
  /\ UNCHANGED <<readiness, active, used, reader, reaper, env, saw>>

CallerClear(c) ==
  /\ caller[c].at = "clear"
  /\ readiness' = Cleared(caller[c].a)
  /\ caller' = Released(c)
  /\ UNCHANGED <<slot, active, used, reader, reaper, env, saw>>

\* ReadinessSlot::wait: the slot's result, or false when the time is up.
CallerReturn(c) ==
  /\ caller[c].at = "wait"
  /\ caller' = [caller EXCEPT ![c] =
       [Idle EXCEPT !.got = IF slot[caller[c].a] = "yes" THEN "yes" ELSE "no"]]
  /\ UNCHANGED <<readiness, slot, active, used, reader, reaper, env, saw>>

Caller(c) ==
  \/ \E waits \in BOOLEAN : CallerAcquire(c, waits)
  \/ CallerStart(c) \/ CallerStarted(c) \/ CallerFailed(c) \/ CallerClear(c)
  \/ CallerReturn(c)

-----------------------------------------------------------------------------
(***************************************************************************)
(* The two threads of an attempt.                                          *)
(***************************************************************************)
\* wait_for_readiness_signal returns: the byte, or without one the end of file
\* once the locker is gone or, before that, the read timeout.
ReaderRead(a) ==
  /\ reader[a] = "waiting"
  /\ reader' = [reader EXCEPT ![a] = IF byte[a] THEN "yes" ELSE "no"]
  /\ UNCHANGED <<readiness, slot, active, used, caller, reaper, env, saw>>

ReaderResolve(a) ==
  /\ reader[a] \in {"yes", "no"}
  /\ slot' = Resolved(a, reader[a])
  /\ reader' = [reader EXCEPT ![a] = "done"]
  /\ UNCHANGED <<readiness, active, used, caller, reaper, env, saw>>

\* The reaper: child.wait, then active, the slot and the registration in turn.
ReaperActive(a) ==
  /\ reaper[a] = "waiting" /\ locker[a] = "exited"
  /\ active' = IF active = a THEN NoAttempt ELSE active
  /\ reaper' = [reaper EXCEPT ![a] = "resolve"]
  /\ UNCHANGED <<readiness, slot, used, caller, reader, env, saw>>

ReaperResolve(a) ==
  /\ reaper[a] = "resolve"
  /\ slot' = Resolved(a, "no")
  /\ reaper' = [reaper EXCEPT ![a] = "clear"]
  /\ UNCHANGED <<readiness, active, used, caller, reader, env, saw>>

ReaperClear(a) ==
  /\ reaper[a] = "clear"
  /\ readiness' = Cleared(a)
  /\ reaper' = [reaper EXCEPT ![a] = "done"]
  /\ UNCHANGED <<slot, active, used, caller, reader, env, saw>>

Threads(a) ==
  ReaderRead(a) \/ ReaderResolve(a) \/ ReaperActive(a) \/ ReaperResolve(a) \/ ReaperClear(a)

-----------------------------------------------------------------------------
(***************************************************************************)
(* The locker process: it locks the session, signals through the socket,   *)
(* unlocks and leaves; it may be denied the lock or crash at any point, in *)
(* which case the compositor keeps a session that was locked locked.       *)
(***************************************************************************)
LockerLocks(a) ==
  /\ locker[a] = "running"
  /\ locker' = [locker EXCEPT ![a] = "locked"]
  /\ locked' = TRUE /\ saw' = [c \in Callers |-> saw[c] \/ caller[c].at # "idle"]
  /\ UNCHANGED <<readiness, slot, active, used, caller, reader, reaper, byte>>

LockerSignals(a) ==
  /\ locker[a] = "locked"
  /\ locker' = [locker EXCEPT ![a] = "signalled"] /\ byte' = [byte EXCEPT ![a] = TRUE]
  /\ UNCHANGED <<readiness, slot, active, used, caller, reader, reaper, locked, saw>>

LockerUnlocks(a) ==
  /\ locker[a] = "signalled"
  /\ locker' = [locker EXCEPT ![a] = "leaving"] /\ locked' = FALSE
  /\ UNCHANGED <<readiness, slot, active, used, caller, reader, reaper, byte, saw>>

Alive == {"running", "locked", "signalled", "leaving"}

LockerExits(a) ==
  /\ locker[a] \in Alive
  /\ locker' = [locker EXCEPT ![a] = "exited"]
  /\ UNCHANGED <<readiness, slot, active, used, caller, reader, reaper, byte, locked, saw>>

Locker(a) == LockerLocks(a) \/ LockerSignals(a) \/ LockerUnlocks(a) \/ LockerExits(a)

Next ==
  \/ \E c \in Callers : Caller(c)
  \/ \E a \in Attempts : Threads(a) \/ Locker(a)

Spec == Init /\ [][Next]_vars

(***************************************************************************)
(* The operating system runs every thread: a caller inside start_locker,   *)
(* the timers of the waits, the reader and the reaper.                     *)
(***************************************************************************)
LiveSpec ==
  /\ Spec
  /\ \A c \in Callers :
       WF_vars(CallerStart(c) \/ CallerStarted(c) \/ CallerFailed(c) \/ CallerClear(c)
               \/ CallerReturn(c))
  /\ \A a \in Attempts : WF_vars(Threads(a))

-----------------------------------------------------------------------------
(***************************************************************************)
(* Properties.                                                             *)
(***************************************************************************)
CallerPCs == {"idle", "start", "started", "failed", "clear", "wait"}
CallerState ==
  [at : CallerPCs, a : Attempts \cup {NoAttempt}, waits : BOOLEAN, got : Results]

\* Every variable of the supervisor keeps its type.
TypeOK ==
  /\ readiness \in Attempts \cup {NoAttempt} /\ active \in Attempts \cup {NoAttempt}
  /\ used \in 0..MaxAttempts
  /\ slot \in [Attempts -> Results]
  /\ caller \in [Callers -> CallerState]
  /\ locker \in [Attempts -> Alive \cup {"none", "exited"}]
  /\ reader \in [Attempts -> {"none", "waiting", "yes", "no", "done"}]
  /\ reaper \in [Attempts -> {"none", "waiting", "resolve", "clear", "done"}]
  /\ byte \in [Attempts -> BOOLEAN] /\ locked \in BOOLEAN /\ saw \in [Callers -> BOOLEAN]

\* One locker at a time: ext-session-lock-v1 denies a second lock, so two
\* processes never run together, whatever triggers arrive while an attempt
\* starts, runs, fails or is being reaped.
OneLocker == \A a, b \in Attempts : locker[a] \in Alive /\ locker[b] \in Alive => a = b

\* A slot that reports readiness belongs to a locker that did lock the session
\* and said so, and a result once given never changes: a late reader does not
\* turn a reaped attempt into a locked one, nor the reaper a locked one into a
\* failure.
ResultStands ==
  [][\A a \in Attempts :
       /\ slot[a] # "none" => slot'[a] = slot[a]
       /\ slot'[a] = "yes" => byte[a]]_slot

\* Somebody is there to end the attempt: its reaper, once the locker is gone, or
\* the caller that could not start it.
Ends(a) ==
  \/ locker[a] = "exited" /\ reaper[a] # "none"
  \/ \E c \in Callers : caller[c].a = a /\ caller[c].at = "failed"

\* The supervisor's telemetry and its registration do not outlive an attempt:
\* after its locker is gone, or could not be started, active and readiness stop
\* naming it, so that the next trigger starts a new one.  The exception is a
\* locker whose reaper thread could not be started (lock_supervisor.rs:233).
AttemptEnds == \A a \in Attempts : Ends(a) ~> (active # a /\ readiness # a)

-----------------------------------------------------------------------------
\* The comment on spawn_and_wait_until_locked: its caller lets suspend proceed
\* only once the session is actually locked, or it gave up waiting.  So a call
\* that reports readiness has seen the session locked since it began.
ReadyMeansLocked ==
  \A c \in Callers : caller[c].at = "idle" /\ caller[c].got = "yes" => saw[c]

\* The comment on the field readiness: it is cleared once the locker exits.  No
\* exception is made for a locker that has no reaper.
ClearedOnceExited == \A a \in Attempts : (locker[a] = "exited") ~> (readiness # a)
=============================================================================

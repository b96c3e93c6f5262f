--------------------------- MODULE DomainSupervisor ---------------------------
(***************************************************************************)
(* The domain supervisor of the shilpo-domain crate: the state machine     *)
(* that every long-lived service port (device client, idle, polkit, auth,  *)
(* compositor, notifications) embeds to decide between retrying and        *)
(* quarantining a failing owner.                                           *)
(*                                                                         *)
(* The operations are operators from a supervisor record to a supervisor   *)
(* record, so that the modules of the ports call them as the ports'        *)
(* methods do.  SupervisorWindow specifies one supervisor on its own.      *)
(***************************************************************************)
EXTENDS Integers, FiniteSets

CONSTANTS
  InitialBackoffMs,    \* INITIAL_BACKOFF_MS
  MaxBackoffMs,        \* MAX_BACKOFF_MS
  FailureWindowMs,     \* FAILURE_WINDOW_MS
  StableResetMs,       \* STABLE_RESET_MS
  QuarantineFailures   \* QUARANTINE_FAILURES

ASSUME SupervisorConstants ==
  /\ InitialBackoffMs \in Nat \ {0}
  /\ MaxBackoffMs \in Nat \ {0}
  /\ FailureWindowMs \in Nat
  /\ StableResetMs \in Nat
  /\ QuarantineFailures \in Nat \ {0}

-----------------------------------------------------------------------------
(***************************************************************************)
(* The supervisor record.                                                  *)
(*   st        SupervisorState, without the fields of Backoff              *)
(*   attempt   the attempt field of Backoff (0 outside Backoff)            *)
(*   retryAt   the retry_at_ms field of Backoff (0 outside Backoff)        *)
(*   failures  failure_timestamps_ms; two failures of the same millisecond *)
(*             are two entries of the Rust Vec, so an entry carries the    *)
(*             ordinal n of the failure beside its time                    *)
(*   recorded  the number of failures recorded so far, the source of n     *)
(*   since     last_running_timestamp_ms, NoTime for None                  *)
(***************************************************************************)
NoTime == -1

SupervisorStates ==
  {"Starting", "Running", "Backoff", "Quarantined", "Stopping", "Stopped"}

Failure == [n : Nat, at : Nat]

Supervisor ==
  [st : SupervisorStates, attempt : Nat, retryAt : Nat,
   failures : SUBSET Failure, recorded : Nat, since : Nat \cup {NoTime}]

NewSupervisor ==
  [st |-> "Starting", attempt |-> 0, retryAt |-> 0,
   failures |-> {}, recorded |-> 0, since |-> NoTime]

\* saturating_sub on u64.
SatSub(a, b) == IF a >= b THEN a - b ELSE 0

\* 2u64.saturating_pow(e) for the exponents 0..7 that reach it.
PowersOfTwo == <<1, 2, 4, 8, 16, 32, 64, 128>>

ReconnectBackoffMs(attempt) ==
  LET e     == IF SatSub(attempt, 1) < 7 THEN SatSub(attempt, 1) ELSE 7
      delay == InitialBackoffMs * PowersOfTwo[e + 1]
  IN IF delay < MaxBackoffMs THEN delay ELSE MaxBackoffMs

MarkRunning(s, now) ==
  [s EXCEPT !.st = "Running", !.attempt = 0, !.retryAt = 0, !.since = now]

\* Mutant: a restart also empties the failure window.
MarkStartingForgets(s) ==
  [s EXCEPT !.st = "Starting", !.attempt = 0, !.retryAt = 0, !.failures = {}]

MarkStarting(s) ==
  [s EXCEPT !.st = "Starting", !.attempt = 0, !.retryAt = 0]

\* Mutant: the age of a failure is compared strictly with the window.
RetainedStrictly(s, now) ==
  {f \in s.failures : SatSub(now, f.at) < FailureWindowMs}

\* The failures that record_failure retains before it pushes the new one.
Retained(s, now) ==
  {f \in s.failures : SatSub(now, f.at) <= FailureWindowMs}

\* Mutant: the limit is compared with >, one failure too late.
RecordFailureLate(s, now) ==
  LET kept  == Retained(s, now) \cup {[n |-> s.recorded + 1, at |-> now]}
      count == Cardinality(kept)
      trip  == count > QuarantineFailures
  IN [st       |-> IF trip THEN "Quarantined" ELSE "Backoff",
      attempt  |-> IF trip THEN 0 ELSE count,
      retryAt  |-> IF trip THEN 0 ELSE now + ReconnectBackoffMs(count),
      failures |-> kept,
      recorded |-> s.recorded + 1,
      since    |-> NoTime]

\* Mutant: the deadline is computed in the past.
RecordFailureEarly(s, now) ==
  LET kept  == Retained(s, now) \cup {[n |-> s.recorded + 1, at |-> now]}
      count == Cardinality(kept)
      trip  == count >= QuarantineFailures
  IN [st       |-> IF trip THEN "Quarantined" ELSE "Backoff",
      attempt  |-> IF trip THEN 0 ELSE count,
      retryAt  |-> IF trip THEN 0 ELSE now - ReconnectBackoffMs(count),
      failures |-> kept,
      recorded |-> s.recorded + 1,
      since    |-> NoTime]

RecordFailure(s, now) ==
  LET kept  == Retained(s, now) \cup {[n |-> s.recorded + 1, at |-> now]}
      count == Cardinality(kept)
      trip  == count >= QuarantineFailures
  IN [st       |-> IF trip THEN "Quarantined" ELSE "Backoff",
      attempt  |-> IF trip THEN 0 ELSE count,
      retryAt  |-> IF trip THEN 0 ELSE now + ReconnectBackoffMs(count),
      failures |-> kept,
      recorded |-> s.recorded + 1,
      since    |-> NoTime]

\* A supervisor has been Running without a failure for STABLE_RESET_MS.
StableFor(s, now) ==
  s.st = "Running" /\ s.since # NoTime /\ SatSub(now, s.since) >= StableResetMs

Tick(s, now) ==
  CASE s.st = "Backoff" /\ now >= s.retryAt -> MarkStarting(s)
    [] StableFor(s, now) -> [s EXCEPT !.failures = {}]
    [] OTHER -> s

ResetQuarantine(s) ==
  IF s.st = "Quarantined"
  THEN [MarkStarting(s) EXCEPT !.failures = {}, !.since = NoTime]
  ELSE s

EnterStopping(s) ==
  [s EXCEPT !.st = "Stopping", !.attempt = 0, !.retryAt = 0, !.since = NoTime]

EnterStopped(s) ==
  [s EXCEPT !.st = "Stopped", !.attempt = 0, !.retryAt = 0, !.since = NoTime]
=============================================================================

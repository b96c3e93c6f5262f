--------------------------- MODULE SupervisorWindow ---------------------------
(***************************************************************************)
(* One domain supervisor whose public operations are called in any order.  *)
(* The clock is the monotonic TimeSource.  hist and lastFailure are        *)
(* history variables: the failures recorded since the window was last      *)
(* cleared, and the time of the last of them.                              *)
(***************************************************************************)
EXTENDS DomainSupervisor

CONSTANTS
  MaxTime,       \* bound on the clock
  MaxRecorded    \* bound on the number of failures recorded

ASSUME SupervisorBounds == MaxTime \in Nat /\ MaxRecorded \in Nat

VARIABLES sup, now, hist, lastFailure

vars == <<sup, now, hist, lastFailure>>

Init ==
  /\ sup = NewSupervisor
  /\ now = 0
  /\ hist = {}
  /\ lastFailure = 0

Advance ==
  /\ now < MaxTime
  /\ now' = now + 1
  /\ UNCHANGED <<sup, hist, lastFailure>>

MarkRunningCall ==
  /\ sup' = MarkRunning(sup, now)
  /\ UNCHANGED <<now, hist, lastFailure>>

MarkStartingCall ==
  /\ sup' = MarkStarting(sup)
  /\ UNCHANGED <<now, hist, lastFailure>>

RecordFailureCall ==
  /\ sup.recorded < MaxRecorded
  /\ sup' = RecordFailure(sup, now)
  /\ hist' = hist \cup {[n |-> sup.recorded + 1, at |-> now]}
  /\ lastFailure' = now
  /\ UNCHANGED now

TickCall ==
  /\ sup' = Tick(sup, now)
  /\ hist' = IF StableFor(sup, now) THEN {} ELSE hist
  /\ UNCHANGED <<now, lastFailure>>

ResetQuarantineCall ==
  /\ sup' = ResetQuarantine(sup)
  /\ hist' = IF sup.st = "Quarantined" THEN {} ELSE hist
  /\ UNCHANGED <<now, lastFailure>>

EnterStoppingCall ==
  /\ sup' = EnterStopping(sup)
  /\ UNCHANGED <<now, hist, lastFailure>>

EnterStoppedCall ==
  /\ sup' = EnterStopped(sup)
  /\ UNCHANGED <<now, hist, lastFailure>>

Next ==
  \/ Advance
  \/ MarkRunningCall
  \/ MarkStartingCall
  \/ RecordFailureCall
  \/ TickCall
  \/ ResetQuarantineCall
  \/ EnterStoppingCall
  \/ EnterStoppedCall

Spec == Init /\ [][Next]_vars

-----------------------------------------------------------------------------
\* The supervisor record and the clock stay in their types.
TypeOK ==
  /\ sup \in Supervisor
  /\ now \in Nat
  /\ lastFailure \in Nat
  /\ hist \subseteq Failure

\* The failures of the rolling window, by its definition: those of the
\* whole history that are at most FAILURE_WINDOW_MS older than the last one.
Window == {f \in hist : lastFailure - f.at <= FailureWindowMs}

\* record_failure prunes failure_timestamps_ms as it goes and never looks at
\* the history again; what it keeps is nevertheless exactly the rolling
\* window, across restarts (mark_starting), recoveries and resets.
PruningIsExact == sup.failures = Window

\* The supervisor is quarantined by the last failure exactly when the window
\* holds QUARANTINE_FAILURES failures; otherwise it backs off with an attempt
\* number equal to the failures in the window and a deadline computed from it.
TripsExactlyAtLimit ==
  /\ sup.st = "Quarantined" => Cardinality(Window) >= QuarantineFailures
  /\ sup.st = "Backoff" =>
       /\ Cardinality(Window) < QuarantineFailures
       /\ sup.attempt = Cardinality(Window)
       /\ sup.retryAt = lastFailure + ReconnectBackoffMs(Cardinality(Window))

\* Failures are forgotten only when they leave the window, by an explicit
\* reset of a quarantine, or after STABLE_RESET_MS of running: a restart
\* (mark_starting, mark_running) or a stop never empties the window.
WindowSurvivesRestart ==
  [][\A f \in sup.failures :
        \/ f \in sup'.failures
        \/ now - f.at > FailureWindowMs
        \/ sup.st = "Quarantined" /\ sup'.st = "Starting"
        \/ sup.st = "Running" /\ now - sup.since >= StableResetMs]_vars
=============================================================================

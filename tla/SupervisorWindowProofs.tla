------------------------ MODULE SupervisorWindowProofs ------------------------
(***************************************************************************)
(* The rolling failure window and the trip decision of the domain          *)
(* supervisor, proved for every window, limit, backoff and clock.          *)
(***************************************************************************)
EXTENDS SupervisorWindow, FiniteSetTheorems, TLAPS

-----------------------------------------------------------------------------
\* reconnect_backoff_ms returns a natural number of milliseconds whatever
\* attempt it is given: the exponent is clamped before the multiplication.
LEMMA BackoffIsNat ==
  ASSUME NEW attempt \in Nat
  PROVE  ReconnectBackoffMs(attempt) \in Nat
<1> DEFINE e == IF SatSub(attempt, 1) < 7 THEN SatSub(attempt, 1) ELSE 7
<1>1. e \in 0..7
  BY DEF SatSub
<1>2. PowersOfTwo[e + 1] \in Nat
  BY <1>1 DEF PowersOfTwo
<1>3. InitialBackoffMs * PowersOfTwo[e + 1] \in Nat
  BY <1>2, SupervisorConstants
<1>4. QED
  BY <1>3, SupervisorConstants DEF ReconnectBackoffMs

\* The invariant is inductive only together with the order of the clock: the
\* last failure and the last start are never in the future, so a failure that has left the window
\* at one failure has left it at every later one.
IInv ==
  /\ TypeOK
  /\ PruningIsExact
  /\ TripsExactlyAtLimit
  /\ lastFailure <= now
  /\ sup.since <= now
  /\ \A f \in hist : f.at <= lastFailure
  /\ IsFiniteSet(hist)

\* A new supervisor is Starting with no failures, and no history.
LEMMA InitEstablishesIInv == Init => IInv
<1> SUFFICES ASSUME Init PROVE IInv
  OBVIOUS
<1>1. TypeOK
  BY DEF Init, TypeOK, NewSupervisor, Supervisor, SupervisorStates, NoTime
<1>2. Window = {} /\ sup.failures = {} /\ sup.st = "Starting"
  BY DEF Init, Window, NewSupervisor
<1>3. lastFailure <= now /\ hist = {} /\ sup.since <= now
  BY DEF Init, NewSupervisor, NoTime
<1>4. IsFiniteSet(hist)
  BY <1>3, FS_EmptySet
<1>5. QED
  BY <1>1, <1>2, <1>3, <1>4 DEF IInv, PruningIsExact, TripsExactlyAtLimit

\* A failure: the entries that record_failure retains are the window of the
\* longer history, because the clock has not gone back since the last failure.
LEMMA RecordFailureKeepsIInv ==
  IInv /\ RecordFailureCall => IInv'
<1> SUFFICES ASSUME IInv, RecordFailureCall PROVE IInv'
  OBVIOUS
<1> DEFINE new  == [n |-> sup.recorded + 1, at |-> now]
           kept == Retained(sup, now) \cup {new}
<1>1. /\ sup \in Supervisor /\ now \in Nat /\ lastFailure \in Nat
      /\ hist \subseteq Failure /\ new \in Failure
      /\ sup.recorded \in Nat /\ sup.failures \subseteq Failure
  BY DEF IInv, TypeOK, Supervisor, Failure
<1>2. /\ hist' = hist \cup {new} /\ lastFailure' = now /\ now' = now
      /\ sup' = RecordFailure(sup, now)
  BY DEF RecordFailureCall
<1>3. kept = Window'
  <2>1. Retained(sup, now) = {f \in hist : now - f.at <= FailureWindowMs}
    <3>1. \A f \in hist : f.at \in Nat /\ f.at <= lastFailure /\ lastFailure <= now
      BY <1>1 DEF IInv, Failure
    <3>2. \A f \in hist : SatSub(now, f.at) = now - f.at
      BY <3>1, <1>1 DEF SatSub
    <3>3. sup.failures = {f \in hist : lastFailure - f.at <= FailureWindowMs}
      BY DEF IInv, PruningIsExact, Window
    <3>4. QED
      BY <3>1, <3>2, <3>3, <1>1, SupervisorConstants DEF Retained
  <2>2. Window' = {f \in hist \cup {new} : now - f.at <= FailureWindowMs}
    BY <1>2 DEF Window
  <2>3. now - new.at <= FailureWindowMs
    BY <1>1, SupervisorConstants
  <2>4. QED
    BY <2>1, <2>2, <2>3
<1>4. /\ sup'.failures = kept
      /\ sup'.st = IF Cardinality(kept) >= QuarantineFailures
                   THEN "Quarantined" ELSE "Backoff"
      /\ sup'.st = "Backoff" =>
           /\ sup'.attempt = Cardinality(kept)
           /\ sup'.retryAt = now + ReconnectBackoffMs(Cardinality(kept))
  BY <1>2 DEF RecordFailure
<1>5. IsFiniteSet(hist')
  BY <1>2, FS_AddElement DEF IInv
<1>6. Cardinality(kept) \in Nat
  <2>1. IsFiniteSet(Window')
    BY <1>5, FS_Subset DEF Window
  <2>2. QED
    BY <2>1, <1>3, FS_CardinalityType
<1>7. TypeOK'
  <2>1. ReconnectBackoffMs(Cardinality(kept)) \in Nat
    BY <1>6, BackoffIsNat
  <2>2. kept \subseteq Failure
    BY <1>1 DEF Retained
  <2>3. sup' \in Supervisor
    BY <2>1, <2>2, <1>1, <1>2, <1>6
    DEF RecordFailure, Supervisor, SupervisorStates, NoTime
  <2>4. QED
    BY <2>3, <1>1, <1>2 DEF TypeOK
<1>8. PruningIsExact'
  BY <1>3, <1>4 DEF PruningIsExact
<1>9. TripsExactlyAtLimit'
  BY <1>2, <1>3, <1>4, <1>6, SupervisorConstants DEF TripsExactlyAtLimit
<1>10. sup'.since <= now'
  BY <1>1, <1>2 DEF RecordFailure, NoTime
<1>11. lastFailure' <= now' /\ \A f \in hist' : f.at <= lastFailure'
  BY <1>1, <1>2 DEF IInv, Failure
<1>12. QED
  BY <1>5, <1>7, <1>8, <1>9, <1>10, <1>11 DEF IInv

\* Every other operation leaves the failures alone or clears them together
\* with the history, and enters Backoff or Quarantined from neither.
LEMMA NextKeepsIInv == IInv /\ [Next]_vars => IInv'
<1> SUFFICES ASSUME IInv, [Next]_vars PROVE IInv'
  OBVIOUS
<1> USE DEF IInv
<1>0. /\ sup \in Supervisor /\ now \in Nat /\ lastFailure \in Nat
      /\ sup.failures = Window /\ hist \subseteq Failure
      /\ sup.since \in Int /\ sup.since <= now
  BY DEF TypeOK, PruningIsExact, Supervisor, NoTime
<1>1. CASE Advance
  BY <1>1, <1>0 DEF Advance, TypeOK, PruningIsExact, TripsExactlyAtLimit, Window
<1>2. CASE MarkRunningCall
  <2>1. UNCHANGED <<now, hist, lastFailure>> /\ Window' = Window
    BY <1>2 DEF MarkRunningCall, Window
  <2>2. sup' \in Supervisor /\ sup'.failures = sup.failures /\ sup'.st = "Running"
    BY <1>2, <1>0 DEF MarkRunningCall, MarkRunning, Supervisor, SupervisorStates, NoTime
  <2>3. sup'.since = now
    BY <1>2, <1>0 DEF MarkRunningCall, MarkRunning, Supervisor
  <2>4. sup'.since <= now'
    BY <2>1, <2>3, <1>0
  <2>5. QED
    BY <2>1, <2>2, <2>4, <1>0 DEF TypeOK, PruningIsExact, TripsExactlyAtLimit
<1>3. CASE MarkStartingCall
  <2>1. UNCHANGED <<now, hist, lastFailure>> /\ Window' = Window
    BY <1>3 DEF MarkStartingCall, Window
  <2>2. sup' \in Supervisor /\ sup'.failures = sup.failures /\ sup'.st = "Starting"
          /\ sup'.since <= now
    BY <1>3, <1>0 DEF MarkStartingCall, MarkStarting, Supervisor, SupervisorStates, NoTime
  <2>3. QED
    BY <2>1, <2>2, <1>0 DEF TypeOK, PruningIsExact, TripsExactlyAtLimit
<1>4. CASE RecordFailureCall
  BY <1>4, RecordFailureKeepsIInv
<1>5. CASE TickCall
  <2>1. CASE sup.st = "Backoff" /\ now >= sup.retryAt
    <3>1. sup' = MarkStarting(sup)
      BY <1>5, <2>1 DEF TickCall, Tick, StableFor
    <3>2. UNCHANGED <<now, hist, lastFailure>> /\ Window' = Window
      BY <1>5, <2>1 DEF TickCall, StableFor, Window
    <3>3. sup' \in Supervisor /\ sup'.failures = sup.failures /\ sup'.st = "Starting"
          /\ sup'.since <= now
      BY <3>1, <1>0 DEF MarkStarting, Supervisor, SupervisorStates, NoTime
    <3>4. QED
      BY <3>2, <3>3, <1>0 DEF TypeOK, PruningIsExact, TripsExactlyAtLimit
  <2>2. CASE StableFor(sup, now)
    <3>1. sup.st = "Running" /\ sup' = [sup EXCEPT !.failures = {}] /\ hist' = {}
      BY <1>5, <2>2 DEF TickCall, Tick, StableFor
    <3>2. UNCHANGED <<now, lastFailure>> /\ Window' = {}
      BY <1>5, <3>1 DEF TickCall, Window
    <3>3. sup' \in Supervisor /\ sup'.failures = {} /\ sup'.st = "Running"
          /\ sup'.since <= now
      BY <3>1, <1>0 DEF Supervisor, SupervisorStates, NoTime
    <3>4. QED
      BY <3>1, <3>2, <3>3, <1>0, FS_EmptySet
      DEF TypeOK, PruningIsExact, TripsExactlyAtLimit
  <2>3. CASE ~(sup.st = "Backoff" /\ now >= sup.retryAt) /\ ~StableFor(sup, now)
    <3>1. UNCHANGED vars
      BY <1>5, <2>3 DEF TickCall, Tick, vars
    <3>2. QED
      BY <3>1 DEF vars, TypeOK, PruningIsExact, TripsExactlyAtLimit, Window
  <2>4. QED
    BY <2>1, <2>2, <2>3
<1>6. CASE ResetQuarantineCall
  <2>1. CASE sup.st = "Quarantined"
    <3>1. hist' = {} /\ UNCHANGED <<now, lastFailure>> /\ Window' = {}
      BY <1>6, <2>1 DEF ResetQuarantineCall, Window
    <3>2. sup' \in Supervisor /\ sup'.failures = {} /\ sup'.st = "Starting"
      BY <1>6, <2>1, <1>0
      DEF ResetQuarantineCall, ResetQuarantine, MarkStarting, Supervisor,
          SupervisorStates, NoTime
    <3>3. sup'.since = NoTime
      BY <1>6, <2>1, <1>0
      DEF ResetQuarantineCall, ResetQuarantine, MarkStarting, Supervisor
    <3>4. sup'.since <= now'
      BY <3>1, <3>3, <1>0 DEF NoTime
    <3>5. QED
      BY <3>1, <3>2, <3>4, <1>0, FS_EmptySet
      DEF TypeOK, PruningIsExact, TripsExactlyAtLimit
  <2>2. CASE sup.st # "Quarantined"
    <3>1. UNCHANGED vars
      BY <1>6, <2>2 DEF ResetQuarantineCall, ResetQuarantine, vars
    <3>2. QED
      BY <3>1 DEF vars, TypeOK, PruningIsExact, TripsExactlyAtLimit, Window
  <2>3. QED
    BY <2>1, <2>2
<1>7. CASE EnterStoppingCall
  <2>1. UNCHANGED <<now, hist, lastFailure>> /\ Window' = Window
    BY <1>7 DEF EnterStoppingCall, Window
  <2>2. sup' \in Supervisor /\ sup'.failures = sup.failures /\ sup'.st = "Stopping"
    BY <1>7, <1>0 DEF EnterStoppingCall, EnterStopping, Supervisor, SupervisorStates, NoTime
  <2>3. sup'.since = NoTime
    BY <1>7, <1>0 DEF EnterStoppingCall, EnterStopping, Supervisor
  <2>4. sup'.since <= now'
    BY <2>1, <2>3, <1>0 DEF NoTime
  <2>5. QED
    BY <2>1, <2>2, <2>4, <1>0 DEF TypeOK, PruningIsExact, TripsExactlyAtLimit
<1>8. CASE EnterStoppedCall
  <2>1. UNCHANGED <<now, hist, lastFailure>> /\ Window' = Window
    BY <1>8 DEF EnterStoppedCall, Window
  <2>2. sup' \in Supervisor /\ sup'.failures = sup.failures /\ sup'.st = "Stopped"
    BY <1>8, <1>0 DEF EnterStoppedCall, EnterStopped, Supervisor, SupervisorStates, NoTime
  <2>3. sup'.since = NoTime
    BY <1>8, <1>0 DEF EnterStoppedCall, EnterStopped, Supervisor
  <2>4. sup'.since <= now'
    BY <2>1, <2>3, <1>0 DEF NoTime
  <2>5. QED
    BY <2>1, <2>2, <2>4, <1>0 DEF TypeOK, PruningIsExact, TripsExactlyAtLimit
<1>9. CASE UNCHANGED vars
  BY <1>9 DEF vars, TypeOK, PruningIsExact, TripsExactlyAtLimit, Window
<1>10. QED
  BY <1>1, <1>2, <1>3, <1>4, <1>5, <1>6, <1>7, <1>8, <1>9 DEF Next

\* The supervisor record keeps its type under every sequence of calls.
THEOREM SupervisorTypeOK == Spec => []TypeOK
<1>1. IInv => TypeOK
  BY DEF IInv
<1>2. QED
  BY <1>1, InitEstablishesIInv, NextKeepsIInv, PTL DEF Spec

\* record_failure's pruned vector is the rolling window of the whole history.
THEOREM WindowIsExact == Spec => []PruningIsExact
<1>1. IInv => PruningIsExact
  BY DEF IInv
<1>2. QED
  BY <1>1, InitEstablishesIInv, NextKeepsIInv, PTL DEF Spec

\* Quarantine and backoff are decided by that window and by nothing else.
THEOREM TripIsExact == Spec => []TripsExactlyAtLimit
<1>1. IInv => TripsExactlyAtLimit
  BY DEF IInv
<1>2. QED
  BY <1>1, InitEstablishesIInv, NextKeepsIInv, PTL DEF Spec

\* No operation other than a reset or a stable run drops a failure that is
\* still inside the window (the comment on mark_starting).
THEOREM RestartKeepsWindow == Spec => WindowSurvivesRestart
<1> DEFINE A == \A f \in sup.failures :
        \/ f \in sup'.failures
        \/ now - f.at > FailureWindowMs
        \/ sup.st = "Quarantined" /\ sup'.st = "Starting"
        \/ sup.st = "Running" /\ now - sup.since >= StableResetMs
<1>1. IInv /\ [Next]_vars => [A]_vars
  <2> SUFFICES ASSUME IInv, Next, NEW f \in sup.failures
               PROVE  \/ f \in sup'.failures
                      \/ now - f.at > FailureWindowMs
                      \/ sup.st = "Quarantined" /\ sup'.st = "Starting"
                      \/ sup.st = "Running" /\ now - sup.since >= StableResetMs
    BY DEF Next
  <2>0. /\ sup \in Supervisor /\ f.at \in Nat /\ now \in Nat
        /\ sup.since \in Nat \cup {NoTime} /\ sup.since <= now
    BY DEF IInv, TypeOK, Supervisor, Failure
  <2>1. CASE RecordFailureCall
    <3>1. f \in Retained(sup, now) => f \in sup'.failures
      BY <2>1 DEF RecordFailureCall, RecordFailure
    <3>2. f \notin Retained(sup, now) => now - f.at > FailureWindowMs
      BY <2>0, SupervisorConstants DEF Retained, SatSub
    <3>3. QED
      BY <3>1, <3>2
  <2>2. CASE TickCall
    <3>1. CASE StableFor(sup, now) /\ sup.st = "Running"
      BY <3>1, <2>0, SupervisorConstants DEF StableFor, SatSub, NoTime
    <3>2. CASE ~StableFor(sup, now)
      BY <3>2, <2>2, <2>0 DEF TickCall, Tick, MarkStarting, Supervisor
    <3>3. QED
      BY <3>1, <3>2 DEF StableFor
  <2>3. CASE ResetQuarantineCall
    <3>1. CASE sup.st = "Quarantined"
      BY <3>1, <2>3, <2>0
      DEF ResetQuarantineCall, ResetQuarantine, MarkStarting, Supervisor
    <3>2. CASE sup.st # "Quarantined"
      BY <3>2, <2>3 DEF ResetQuarantineCall, ResetQuarantine
    <3>3. QED
      BY <3>1, <3>2
  <2>4. CASE Advance \/ MarkRunningCall \/ MarkStartingCall
    BY <2>4, <2>0
    DEF Advance, MarkRunningCall, MarkRunning, MarkStartingCall, MarkStarting, Supervisor
  <2>5. CASE EnterStoppingCall \/ EnterStoppedCall
    BY <2>5, <2>0
    DEF EnterStoppingCall, EnterStopping, EnterStoppedCall, EnterStopped, Supervisor
  <2>6. QED
    BY <2>1, <2>2, <2>3, <2>4, <2>5 DEF Next
<1>2. QED
  BY <1>1, InitEstablishesIInv, NextKeepsIInv, PTL DEF Spec, WindowSurvivesRestart
=============================================================================

------------------------- MODULE LockSupervisorProofs -------------------------
(***************************************************************************)
(* Proofs about LockSupervisor, for any set of callers and any number of   *)
(* attempts: one locker runs at a time, and the result of an attempt       *)
(* stands.                                                                 *)
(*                                                                         *)
(* OneLocker is not inductive.  What makes it true is that an attempt is   *)
(* registered in readiness from before its process exists until after it   *)
(* was reaped, that at most one caller is starting an attempt, and that    *)
(* the reaper exists only once that caller is done.                        *)
(***************************************************************************)
EXTENDS LockSupervisor, TLAPS

\* The caller created the attempt and has not finished starting it.
Starting(c) == caller[c].at \in {"start", "started", "failed", "clear"}

AliveIsRegistered == \A a \in Attempts : locker[a] \in Alive => readiness = a

OneStarter ==
  /\ \A c \in Callers : Starting(c) => caller[c].a = readiness /\ readiness \in Attempts
  /\ \A c, d \in Callers : Starting(c) /\ Starting(d) => c = d

\* Before the process runs, and when it could not be started, there is none.
NotYetRunning ==
  \A c \in Callers :
    caller[c].at \in {"start", "failed", "clear"} => locker[caller[c].a] = "none"

ReapedLast ==
  /\ \A c \in Callers : Starting(c) => reaper[caller[c].a] = "none"
  /\ \A a \in Attempts : reaper[a] \in {"resolve", "clear", "done"} => locker[a] = "exited"

\* Attempts are numbered in order.
RegisteredIsUsed == readiness <= used

FreshIsUnused == \A a \in Attempts : a > used => reaper[a] = "none" /\ locker[a] = "none"

WaitersHaveSlots == \A c \in Callers : caller[c].at = "wait" => caller[c].a \in Attempts

\* A positive result was read from the socket.
ReadFromSocket ==
  \A a \in Attempts : (reader[a] = "yes" => byte[a]) /\ (slot[a] = "yes" => byte[a])

IInv ==
  /\ TypeOK
  /\ AliveIsRegistered /\ OneStarter /\ NotYetRunning /\ ReapedLast /\ FreshIsUnused
  /\ RegisteredIsUsed /\ WaitersHaveSlots /\ ReadFromSocket

LEMMA IdleState == Idle \in CallerState
BY DEF Idle, CallerState, CallerPCs, Results

\* Nothing runs and nobody starts at first.
LEMMA InitIInv == Init => IInv
<1> SUFFICES ASSUME Init PROVE IInv
  OBVIOUS
<1>1. TypeOK
  <2>1. caller \in [Callers -> CallerState] /\ saw \in [Callers -> BOOLEAN]
    BY IdleState DEF Init
  <2>2. used \in 0..MaxAttempts /\ readiness = NoAttempt /\ active = NoAttempt
    BY LockConstants DEF Init
  <2>3. /\ slot \in [Attempts -> Results] /\ byte \in [Attempts -> BOOLEAN] /\ locked \in BOOLEAN
        /\ locker \in [Attempts -> Alive \cup {"none", "exited"}]
        /\ reader \in [Attempts -> {"none", "waiting", "yes", "no", "done"}]
        /\ reaper \in [Attempts -> {"none", "waiting", "resolve", "clear", "done"}]
    BY DEF Init, Results
  <2> QED BY <2>1, <2>2, <2>3 DEF TypeOK
<1>2. AliveIsRegistered /\ FreshIsUnused /\ ReadFromSocket /\ RegisteredIsUsed
  BY DEF Init, AliveIsRegistered, FreshIsUnused, ReadFromSocket, RegisteredIsUsed, Alive, NoAttempt
<1>3. OneStarter /\ NotYetRunning /\ ReapedLast /\ WaitersHaveSlots
  BY DEF Init, OneStarter, NotYetRunning, ReapedLast, WaitersHaveSlots, Starting, Idle
<1> QED BY <1>1, <1>2, <1>3 DEF IInv

-----------------------------------------------------------------------------
\* Joining changes nothing but the caller.
LEMMA JoinKeeps ==
  ASSUME IInv, NEW c \in Callers, NEW waits \in BOOLEAN, CallerAcquire(c, waits), Joinable
  PROVE  IInv'
<1> DEFINE to == IF waits THEN [Idle EXCEPT !.at = "wait", !.a = readiness, !.waits = TRUE] ELSE Idle
<1>1. /\ caller' = [caller EXCEPT ![c] = to]
      /\ UNCHANGED <<readiness, used, slot, active, reader, reaper, env>>
      /\ saw' = [saw EXCEPT ![c] = waits /\ locked]
  BY DEF CallerAcquire
<1>2. TypeOK /\ readiness \in Attempts
  BY DEF IInv, TypeOK, Joinable
<1>3. to \in CallerState
  BY <1>2, IdleState DEF CallerState, CallerPCs, Results, Idle, NoAttempt
<1>4. to.at \in {"wait", "idle"} /\ (to.at = "wait" => to.a \in Attempts)
  BY <1>2 DEF Idle
<1> HIDE DEF to
<1>5. /\ caller' \in [Callers -> CallerState] /\ caller'[c] = to
      /\ \A d \in Callers : d # c => caller'[d] = caller[d]
  BY <1>1, <1>2, <1>3 DEF TypeOK
<1>6. saw' \in [Callers -> BOOLEAN]
  BY <1>1, <1>2 DEF TypeOK
<1>7. TypeOK'
  BY <1>1, <1>2, <1>5, <1>6 DEF TypeOK, env
<1>8. \A d \in Callers : Starting(d)' => Starting(d) /\ d # c
  BY <1>4, <1>5 DEF Starting
<1>9. OneStarter' /\ NotYetRunning' /\ ReapedLast'
  BY <1>1, <1>5, <1>8 DEF IInv, OneStarter, NotYetRunning, ReapedLast, Starting, env
<1>10. WaitersHaveSlots'
  BY <1>1, <1>4, <1>5 DEF IInv, WaitersHaveSlots
<1>11. AliveIsRegistered' /\ FreshIsUnused' /\ ReadFromSocket' /\ RegisteredIsUsed'
  BY <1>1 DEF IInv, AliveIsRegistered, FreshIsUnused, ReadFromSocket, RegisteredIsUsed, env
<1> QED BY <1>7, <1>9, <1>10, <1>11 DEF IInv

\* A new attempt is registered at once, and nobody else is starting one: a
\* starter's attempt would be registered.
LEMMA CreateKeeps ==
  ASSUME IInv, NEW c \in Callers, NEW waits \in BOOLEAN, CallerAcquire(c, waits), ~Joinable
  PROVE  IInv'
<1> DEFINE to == [Idle EXCEPT !.at = "start", !.a = FreshAttempt, !.waits = waits]
<1>1. /\ caller' = [caller EXCEPT ![c] = to]
      /\ used' = used + 1 /\ readiness' = FreshAttempt /\ used < MaxAttempts
      /\ readiness = NoAttempt
      /\ UNCHANGED <<slot, active, reader, reaper, env>>
      /\ saw' = [saw EXCEPT ![c] = waits /\ locked]
  BY DEF CallerAcquire, Joinable
<1>2. TypeOK
  BY DEF IInv
<1>3. FreshAttempt \in Attempts /\ used' \in 0..MaxAttempts /\ FreshAttempt = used + 1
  BY <1>1, <1>2, LockConstants DEF TypeOK, FreshAttempt, Attempts
<1>4. to \in CallerState /\ to.at = "start" /\ to.a = FreshAttempt
  BY <1>3, IdleState DEF CallerState, CallerPCs, Results, Idle
<1> HIDE DEF to
<1>5. /\ caller' \in [Callers -> CallerState] /\ caller'[c] = to
      /\ \A d \in Callers : d # c => caller'[d] = caller[d]
  BY <1>1, <1>2, <1>4 DEF TypeOK
<1>6. saw' \in [Callers -> BOOLEAN]
  BY <1>1, <1>2 DEF TypeOK
<1>7. TypeOK'
  BY <1>1, <1>2, <1>3, <1>5, <1>6 DEF TypeOK, env
<1>8. \A d \in Callers : ~Starting(d)
  BY <1>1 DEF IInv, OneStarter, Attempts, NoAttempt
<1>9. \A d \in Callers : Starting(d)' => d = c
  BY <1>5, <1>8 DEF Starting
<1>10. reaper[FreshAttempt] = "none" /\ locker[FreshAttempt] = "none"
  BY <1>2, <1>3 DEF IInv, FreshIsUnused, TypeOK
<1>11. OneStarter'
  BY <1>1, <1>3, <1>4, <1>5, <1>9 DEF OneStarter
<1>12. NotYetRunning'
  BY <1>1, <1>4, <1>5, <1>9, <1>10 DEF NotYetRunning, Starting, env
<1>13. ReapedLast'
  BY <1>1, <1>4, <1>5, <1>9, <1>10 DEF IInv, ReapedLast, env
<1>14. WaitersHaveSlots'
  BY <1>4, <1>5 DEF IInv, WaitersHaveSlots
<1>15. AliveIsRegistered'
  BY <1>1 DEF IInv, AliveIsRegistered, Attempts, NoAttempt, env
<1>16. FreshIsUnused'
  BY <1>1, <1>2 DEF IInv, FreshIsUnused, TypeOK, Attempts, env
<1>17. ReadFromSocket' /\ RegisteredIsUsed'
  BY <1>1, <1>2, <1>3 DEF IInv, ReadFromSocket, RegisteredIsUsed, TypeOK, env
<1> QED BY <1>7, <1>11, <1>12, <1>13, <1>14, <1>15, <1>16, <1>17 DEF IInv

\* The process appears while its attempt is registered.
LEMMA StartKeeps ==
  ASSUME IInv, NEW c \in Callers, CallerStart(c)
  PROVE  IInv'
<1> DEFINE a == caller[c].a
<1>1. /\ caller[c].at = "start"
      /\ UNCHANGED <<readiness, slot, active, used, reader, reaper, byte, locked, saw>>
      /\ \/ caller' = Move(c, "failed") /\ locker' = locker
         \/ caller' = Move(c, "started") /\ locker' = [locker EXCEPT ![a] = "running"]
  BY DEF CallerStart
<1>2. TypeOK
  BY DEF IInv
<1>3. /\ Starting(c) /\ a = readiness /\ a \in Attempts /\ locker[a] = "none"
      /\ reaper[a] = "none"
  BY <1>1 DEF IInv, OneStarter, NotYetRunning, ReapedLast, Starting
<1>4. PICK at \in {"failed", "started"} :
        /\ caller' = [caller EXCEPT ![c].at = at]
        /\ at = "failed" => locker' = locker
        /\ at = "started" => locker' = [locker EXCEPT ![a] = "running"]
  BY <1>1 DEF Move
<1>5. /\ caller'[c].at = at /\ caller'[c].a = a
      /\ \A d \in Callers : d # c => caller'[d] = caller[d]
  BY <1>2, <1>4 DEF TypeOK, CallerState
<1>6. caller' \in [Callers -> CallerState]
  BY <1>2, <1>4 DEF TypeOK, CallerState, CallerPCs
<1>7. /\ locker' \in [Attempts -> Alive \cup {"none", "exited"}]
      /\ \A b \in Attempts : b # a => locker'[b] = locker[b]
      /\ at = "failed" => locker'[a] = "none"
  BY <1>2, <1>3, <1>4 DEF TypeOK, Alive
<1>8. TypeOK'
  BY <1>1, <1>2, <1>6, <1>7 DEF TypeOK
<1>9. \A d \in Callers : Starting(d)' => Starting(d)
  BY <1>3, <1>5 DEF Starting
<1>10. OneStarter'
  BY <1>1, <1>5, <1>9 DEF IInv, OneStarter
<1>11. \A d \in Callers : d # c => ~Starting(d)
  BY <1>3 DEF IInv, OneStarter
<1>12. NotYetRunning'
  BY <1>4, <1>5, <1>7, <1>11 DEF NotYetRunning, Starting
<1>13. ReapedLast'
  BY <1>1, <1>3, <1>5, <1>7, <1>9 DEF IInv, ReapedLast
<1>14. WaitersHaveSlots'
  BY <1>4, <1>5 DEF IInv, WaitersHaveSlots
<1>15. AliveIsRegistered'
  BY <1>1, <1>3, <1>7 DEF IInv, AliveIsRegistered
<1>16. FreshIsUnused'
  <2>1. a <= used
    BY <1>2, <1>3 DEF IInv, RegisteredIsUsed
  <2> QED BY <1>1, <1>2, <1>3, <1>7, <2>1 DEF IInv, FreshIsUnused, TypeOK, Attempts
<1>17. ReadFromSocket' /\ RegisteredIsUsed'
  BY <1>1 DEF IInv, ReadFromSocket, RegisteredIsUsed
<1> QED BY <1>8, <1>10, <1>12, <1>13, <1>14, <1>15, <1>16, <1>17 DEF IInv

\* What a caller that lets go of its attempt leaves behind.
LEMMA ReleasedState ==
  ASSUME IInv, NEW c \in Callers, Starting(c), caller' = Released(c)
  PROVE  /\ caller' \in [Callers -> CallerState]
         /\ caller'[c].at \in {"wait", "idle"}
         /\ caller'[c].at = "wait" => caller'[c].a \in Attempts
         /\ \A d \in Callers : d # c => caller'[d] = caller[d]
         /\ \A d \in Callers : ~Starting(d)'
<1>1. TypeOK /\ caller[c].a \in Attempts /\ caller[c] \in CallerState
  BY DEF IInv, OneStarter, TypeOK
<1> DEFINE to == IF caller[c].waits THEN [caller[c] EXCEPT !.at = "wait"] ELSE Idle
<1>2. caller' = [caller EXCEPT ![c] = to]
  BY DEF Released
<1>3. to \in CallerState
  BY <1>1, IdleState DEF CallerState, CallerPCs
<1>4. to.at \in {"wait", "idle"} /\ (to.at = "wait" => to.a \in Attempts)
  BY <1>1 DEF CallerState, Idle
<1> HIDE DEF to
<1>5. /\ caller' \in [Callers -> CallerState] /\ caller'[c] = to
      /\ \A d \in Callers : d # c => caller'[d] = caller[d]
  BY <1>1, <1>2, <1>3 DEF TypeOK
<1>6. \A d \in Callers : d # c => ~Starting(d)
  BY DEF IInv, OneStarter
<1>7. \A d \in Callers : ~Starting(d)'
  BY <1>4, <1>5, <1>6 DEF Starting
<1> QED BY <1>4, <1>5, <1>7

\* The threads that could be started appear and the caller lets go.
LEMMA StartedKeeps ==
  ASSUME IInv, NEW c \in Callers, CallerStarted(c)
  PROVE  IInv'
<1> DEFINE a == caller[c].a
<1>1. /\ caller[c].at = "started" /\ caller' = Released(c) /\ active' = a
      /\ \E thread \in {"waiting", "none"} : reader' = [reader EXCEPT ![a] = thread]
      /\ \E thread \in {"waiting", "none"} : reaper' = [reaper EXCEPT ![a] = thread]
      /\ UNCHANGED <<readiness, slot, used, env, saw>>
  BY DEF CallerStarted
<1>2. TypeOK /\ Starting(c) /\ a \in Attempts /\ a = readiness
  BY <1>1 DEF IInv, OneStarter, Starting
<1>3. /\ caller' \in [Callers -> CallerState]
      /\ caller'[c].at = "wait" => caller'[c].a \in Attempts
      /\ \A d \in Callers : d # c => caller'[d] = caller[d]
      /\ \A d \in Callers : ~Starting(d)'
  BY <1>1, <1>2, ReleasedState
<1>4. /\ reader' \in [Attempts -> {"none", "waiting", "yes", "no", "done"}]
      /\ reaper' \in [Attempts -> {"none", "waiting", "resolve", "clear", "done"}]
      /\ reader'[a] \in {"waiting", "none"} /\ reaper'[a] \in {"waiting", "none"}
      /\ \A b \in Attempts : b # a => reader'[b] = reader[b] /\ reaper'[b] = reaper[b]
  BY <1>1, <1>2 DEF TypeOK
<1>5. TypeOK'
  BY <1>1, <1>2, <1>3, <1>4 DEF TypeOK, env
<1>6. OneStarter' /\ NotYetRunning' /\ WaitersHaveSlots'
  BY <1>3 DEF IInv, OneStarter, NotYetRunning, WaitersHaveSlots, Starting
<1>7. ReapedLast'
  BY <1>1, <1>3, <1>4 DEF IInv, ReapedLast, env
<1>8. AliveIsRegistered' /\ RegisteredIsUsed'
  BY <1>1 DEF IInv, AliveIsRegistered, RegisteredIsUsed, env
<1>9. FreshIsUnused'
  <2>1. a <= used
    BY <1>2 DEF IInv, RegisteredIsUsed
  <2> QED BY <1>1, <1>2, <1>4, <2>1 DEF IInv, FreshIsUnused, TypeOK, Attempts, env
<1>10. ReadFromSocket'
  BY <1>1, <1>4 DEF IInv, ReadFromSocket, env
<1> QED BY <1>5, <1>6, <1>7, <1>8, <1>9, <1>10 DEF IInv

\* A failed start resolves its own slot.
LEMMA FailedKeeps ==
  ASSUME IInv, NEW c \in Callers, CallerFailed(c)
  PROVE  IInv'
<1>1. /\ caller[c].at = "failed" /\ slot' = Resolved(caller[c].a, "no")
      /\ caller' = [caller EXCEPT ![c].at = "clear"]
      /\ UNCHANGED <<readiness, active, used, reader, reaper, env, saw>>
  BY DEF CallerFailed, Move
<1>2. TypeOK /\ Starting(c)
  BY <1>1 DEF IInv, Starting
<1>3. /\ caller' \in [Callers -> CallerState]
      /\ caller'[c].at = "clear" /\ caller'[c].a = caller[c].a
      /\ \A d \in Callers : d # c => caller'[d] = caller[d]
  BY <1>1, <1>2 DEF TypeOK, CallerState, CallerPCs
<1>4. slot' \in [Attempts -> Results]
  BY <1>1, <1>2 DEF TypeOK, Resolved, Results
<1>5. TypeOK'
  BY <1>1, <1>2, <1>3, <1>4 DEF TypeOK, env
<1>6. \A d \in Callers : Starting(d)' => Starting(d)
  BY <1>2, <1>3 DEF Starting
<1>7. OneStarter' /\ ReapedLast'
  BY <1>1, <1>3, <1>6 DEF IInv, OneStarter, ReapedLast, env
<1>8. NotYetRunning' /\ WaitersHaveSlots'
  BY <1>1, <1>3 DEF IInv, NotYetRunning, WaitersHaveSlots, env
<1>9. AliveIsRegistered' /\ FreshIsUnused' /\ RegisteredIsUsed'
  BY <1>1 DEF IInv, AliveIsRegistered, FreshIsUnused, RegisteredIsUsed, env
<1>10. ReadFromSocket'
  BY <1>1, <1>2 DEF IInv, ReadFromSocket, TypeOK, Resolved, env
<1> QED BY <1>5, <1>7, <1>8, <1>9, <1>10 DEF IInv

\* A failed start has no process when it is unregistered.
LEMMA ClearKeeps ==
  ASSUME IInv, NEW c \in Callers, CallerClear(c)
  PROVE  IInv'
<1>1. /\ caller[c].at = "clear" /\ readiness' = Cleared(caller[c].a) /\ caller' = Released(c)
      /\ UNCHANGED <<slot, active, used, reader, reaper, env, saw>>
  BY DEF CallerClear
<1>2. /\ TypeOK /\ Starting(c) /\ caller[c].a = readiness /\ readiness \in Attempts
      /\ locker[readiness] = "none" /\ readiness' = NoAttempt
  BY <1>1 DEF IInv, OneStarter, NotYetRunning, Starting, Cleared
<1>3. /\ caller' \in [Callers -> CallerState]
      /\ caller'[c].at = "wait" => caller'[c].a \in Attempts
      /\ \A d \in Callers : d # c => caller'[d] = caller[d]
      /\ \A d \in Callers : ~Starting(d)'
  BY <1>1, <1>2, ReleasedState
<1>4. TypeOK'
  BY <1>1, <1>2, <1>3 DEF TypeOK, env
<1>5. OneStarter' /\ NotYetRunning' /\ WaitersHaveSlots'
  BY <1>3 DEF IInv, OneStarter, NotYetRunning, WaitersHaveSlots, Starting
<1>6. ReapedLast'
  BY <1>1, <1>3 DEF IInv, ReapedLast, env
<1>7. AliveIsRegistered'
  BY <1>1, <1>2 DEF IInv, AliveIsRegistered, Alive, env
<1>8. FreshIsUnused' /\ ReadFromSocket' /\ RegisteredIsUsed'
  BY <1>1, <1>2 DEF IInv, FreshIsUnused, ReadFromSocket, RegisteredIsUsed, TypeOK, NoAttempt, env
<1> QED BY <1>4, <1>5, <1>6, <1>7, <1>8 DEF IInv

\* A caller that waited returns.
LEMMA ReturnKeeps ==
  ASSUME IInv, NEW c \in Callers, CallerReturn(c)
  PROVE  IInv'
<1> DEFINE to == [Idle EXCEPT !.got = IF slot[caller[c].a] = "yes" THEN "yes" ELSE "no"]
<1>1. /\ caller' = [caller EXCEPT ![c] = to]
      /\ UNCHANGED <<readiness, slot, active, used, reader, reaper, env, saw>>
  BY DEF CallerReturn
<1>2. TypeOK
  BY DEF IInv
<1>3. to \in CallerState /\ to.at = "idle"
  BY IdleState DEF CallerState, Results, Idle
<1> HIDE DEF to
<1>4. /\ caller' \in [Callers -> CallerState] /\ caller'[c] = to
      /\ \A d \in Callers : d # c => caller'[d] = caller[d]
  BY <1>1, <1>2, <1>3 DEF TypeOK
<1>5. TypeOK'
  BY <1>1, <1>2, <1>4 DEF TypeOK, env
<1>6. \A d \in Callers : Starting(d)' => Starting(d) /\ d # c
  BY <1>3, <1>4 DEF Starting
<1>7. OneStarter' /\ NotYetRunning' /\ ReapedLast' /\ WaitersHaveSlots'
  BY <1>1, <1>3, <1>4, <1>6
  DEF IInv, OneStarter, NotYetRunning, ReapedLast, WaitersHaveSlots, Starting, env
<1>8. AliveIsRegistered' /\ FreshIsUnused' /\ ReadFromSocket' /\ RegisteredIsUsed'
  BY <1>1 DEF IInv, AliveIsRegistered, FreshIsUnused, ReadFromSocket, RegisteredIsUsed, env
<1> QED BY <1>5, <1>7, <1>8 DEF IInv

-----------------------------------------------------------------------------
\* The reader reports what it read, and resolves the slot unless it has a
\* result.
LEMMA ReaderKeeps ==
  ASSUME IInv, NEW a \in Attempts, ReaderRead(a) \/ ReaderResolve(a)
  PROVE  IInv'
<1>1. /\ UNCHANGED <<readiness, active, used, caller, reaper, env, saw>>
      /\ TypeOK
  BY DEF IInv, ReaderRead, ReaderResolve
<1>2. /\ slot' \in [Attempts -> Results]
      /\ reader' \in [Attempts -> {"none", "waiting", "yes", "no", "done"}]
  BY <1>1 DEF ReaderRead, ReaderResolve, Resolved, TypeOK, Results
<1>3. ReadFromSocket'
  BY <1>1 DEF IInv, ReadFromSocket, ReaderRead, ReaderResolve, Resolved, TypeOK, env
<1>4. TypeOK'
  BY <1>1, <1>2 DEF TypeOK, env
<1>5. OneStarter' /\ NotYetRunning' /\ ReapedLast' /\ WaitersHaveSlots'
  BY <1>1 DEF IInv, OneStarter, NotYetRunning, ReapedLast, WaitersHaveSlots, Starting, env
<1>6. AliveIsRegistered' /\ FreshIsUnused' /\ RegisteredIsUsed'
  BY <1>1 DEF IInv, AliveIsRegistered, FreshIsUnused, RegisteredIsUsed, env
<1> QED BY <1>3, <1>4, <1>5, <1>6 DEF IInv

\* The reaper exists once the caller that started the attempt is done, and
\* goes on once the process is gone; it ends the registration last.
LEMMA ReaperKeeps ==
  ASSUME IInv, NEW a \in Attempts, ReaperActive(a) \/ ReaperResolve(a) \/ ReaperClear(a)
  PROVE  IInv'
<1>1. UNCHANGED <<used, caller, reader, env, saw>> /\ TypeOK
  BY DEF IInv, ReaperActive, ReaperResolve, ReaperClear
<1>2. PICK p \in {"resolve", "clear", "done"} : reaper' = [reaper EXCEPT ![a] = p]
  BY DEF ReaperActive, ReaperResolve, ReaperClear
<1>3. /\ reaper[a] # "none" /\ locker[a] = "exited"
      /\ readiness' = readiness \/ (readiness = a /\ readiness' = NoAttempt)
  BY DEF IInv, ReaperActive, ReaperResolve, ReaperClear, Cleared, ReapedLast
<1>4. /\ reaper' \in [Attempts -> {"none", "waiting", "resolve", "clear", "done"}]
      /\ \A b \in Attempts : b # a => reaper'[b] = reaper[b]
  BY <1>1, <1>2 DEF TypeOK
<1>5. /\ slot' \in [Attempts -> Results]
      /\ active' \in Attempts \cup {NoAttempt}
      /\ readiness' \in Attempts \cup {NoAttempt}
  BY <1>1, <1>3 DEF ReaperActive, ReaperResolve, ReaperClear, Resolved, TypeOK, Results
<1>6. ReadFromSocket'
  BY <1>1 DEF IInv, ReadFromSocket, ReaperActive, ReaperResolve, ReaperClear, Resolved, TypeOK, env
<1>7. TypeOK'
  BY <1>1, <1>4, <1>5 DEF TypeOK, env
<1>8. \A c \in Callers : Starting(c) => caller[c].a # a /\ readiness # a
  BY <1>3 DEF IInv, ReapedLast, OneStarter
<1>9. OneStarter'
  BY <1>1, <1>3, <1>8 DEF IInv, OneStarter, Starting
<1>10. NotYetRunning' /\ WaitersHaveSlots'
  BY <1>1 DEF IInv, NotYetRunning, WaitersHaveSlots, env
<1>11. ReapedLast'
  <2>1. \A c \in Callers : Starting(c) => caller[c].a \in Attempts
    BY DEF IInv, OneStarter
  <2> QED BY <1>1, <1>3, <1>4, <1>8, <2>1 DEF IInv, ReapedLast, Starting, env
<1>12. AliveIsRegistered'
  BY <1>1, <1>3 DEF IInv, AliveIsRegistered, Alive, env
<1>13. FreshIsUnused'
  BY <1>1, <1>3, <1>4 DEF IInv, FreshIsUnused, env
<1>14. RegisteredIsUsed'
  BY <1>1, <1>3 DEF IInv, RegisteredIsUsed, TypeOK, NoAttempt
<1> QED BY <1>6, <1>7, <1>9, <1>10, <1>11, <1>12, <1>13, <1>14 DEF IInv

\* A process only moves on from being alive.
LEMMA LockerKeeps ==
  ASSUME IInv, NEW a \in Attempts, Locker(a)
  PROVE  IInv'
<1>1. UNCHANGED <<readiness, slot, active, used, caller, reader, reaper>> /\ TypeOK
  BY DEF IInv, Locker, LockerLocks, LockerSignals, LockerUnlocks, LockerExits
<1>2. PICK p \in Alive \cup {"exited"} : locker' = [locker EXCEPT ![a] = p]
  BY DEF Locker, LockerLocks, LockerSignals, LockerUnlocks, LockerExits, Alive
<1>3. locker[a] \in Alive
  BY DEF Locker, LockerLocks, LockerSignals, LockerUnlocks, LockerExits, Alive
<1>4. byte' = byte \/ byte' = [byte EXCEPT ![a] = TRUE]
  BY DEF Locker, LockerLocks, LockerSignals, LockerUnlocks, LockerExits
<1>5. saw' = saw \/ saw' = [c \in Callers |-> saw[c] \/ caller[c].at # "idle"]
  BY DEF Locker, LockerLocks, LockerSignals, LockerUnlocks, LockerExits
<1>6. saw' \in [Callers -> BOOLEAN]
  BY <1>1, <1>5 DEF TypeOK
<1>7. locked' \in BOOLEAN
  BY <1>1 DEF Locker, LockerLocks, LockerSignals, LockerUnlocks, LockerExits, TypeOK
<1>8. byte' \in [Attempts -> BOOLEAN] /\ \A b \in Attempts : byte[b] => byte'[b]
  BY <1>1, <1>4 DEF TypeOK
<1>9. /\ locker' \in [Attempts -> Alive \cup {"none", "exited"}]
      /\ locker'[a] = p /\ \A b \in Attempts : b # a => locker'[b] = locker[b]
  BY <1>1, <1>2 DEF TypeOK
<1>10. TypeOK'
  BY <1>1, <1>6, <1>7, <1>8, <1>9 DEF TypeOK
<1>11. OneStarter' /\ WaitersHaveSlots' /\ RegisteredIsUsed'
  BY <1>1 DEF IInv, OneStarter, WaitersHaveSlots, RegisteredIsUsed, Starting
<1>12. locker[a] # "none" /\ locker[a] # "exited"
  BY <1>3 DEF Alive
<1>13. NotYetRunning'
  <2>1. \A c \in Callers : Starting(c) => caller[c].a \in Attempts
    BY DEF IInv, OneStarter
  <2> QED BY <1>1, <1>9, <1>12, <2>1 DEF IInv, NotYetRunning, Starting
<1>14. ReapedLast'
  BY <1>1, <1>9, <1>12 DEF IInv, ReapedLast, Starting
<1>15. AliveIsRegistered'
  BY <1>1, <1>3, <1>9 DEF IInv, AliveIsRegistered
<1>16. FreshIsUnused'
  BY <1>1, <1>9, <1>12 DEF IInv, FreshIsUnused
<1>17. ReadFromSocket'
  BY <1>1, <1>8 DEF IInv, ReadFromSocket
<1> QED BY <1>10, <1>11, <1>13, <1>14, <1>15, <1>16, <1>17 DEF IInv

\* Every step keeps the invariant.
LEMMA NextKeepsIInv == IInv /\ [Next]_vars => IInv'
<1> SUFFICES ASSUME IInv, [Next]_vars PROVE IInv'
  OBVIOUS
<1>1. ASSUME NEW c \in Callers, Caller(c) PROVE IInv'
  BY <1>1, JoinKeeps, CreateKeeps, StartKeeps, StartedKeeps, FailedKeeps, ClearKeeps, ReturnKeeps
  DEF Caller
<1>2. ASSUME NEW a \in Attempts, Threads(a) PROVE IInv'
  BY <1>2, ReaderKeeps, ReaperKeeps DEF Threads
<1>3. ASSUME NEW a \in Attempts, Locker(a) PROVE IInv'
  BY <1>3, LockerKeeps
<1>4. CASE UNCHANGED vars
  BY <1>4 DEF vars, env, IInv, TypeOK, AliveIsRegistered, OneStarter, NotYetRunning, ReapedLast,
              FreshIsUnused, RegisteredIsUsed, WaitersHaveSlots, ReadFromSocket, Starting
<1> QED BY <1>1, <1>2, <1>3, <1>4 DEF Next

LEMMA IInvHolds == Spec => []IInv
BY InitIInv, NextKeepsIInv, PTL DEF Spec

-----------------------------------------------------------------------------
\* The variables of the lock supervisor keep their types.
THEOREM LockTypeOK == Spec => []TypeOK
<1>1. IInv => TypeOK
  BY DEF IInv
<1> QED BY <1>1, IInvHolds, PTL

\* Never do two locker processes run together (acquire_or_join_slot, the
\* failure paths of start_locker and the reaper), for any number of triggers.
THEOREM OneLockerAlways == Spec => []OneLocker
<1>1. IInv => OneLocker
  BY DEF IInv, AliveIsRegistered, OneLocker
<1> QED BY <1>1, IInvHolds, PTL

\* Which results a step can give.
LEMMA OnlyReaderSaysYes ==
  ASSUME IInv, [Next]_vars, slot' # slot
  PROVE  \E a : \/ slot' = Resolved(a, "no")
                \/ a \in Attempts /\ byte[a] /\ slot' = Resolved(a, "yes")
<1>1. ASSUME NEW c \in Callers, Caller(c) PROVE slot' = Resolved(caller[c].a, "no")
  BY <1>1 DEF Caller, CallerAcquire, CallerStart, CallerStarted, CallerFailed, CallerClear,
              CallerReturn
<1>2. ASSUME NEW a \in Attempts, Threads(a)
      PROVE  slot' = Resolved(a, "no") \/ (byte[a] /\ slot' = Resolved(a, "yes"))
  <2>1. CASE ReaderResolve(a)
    BY <2>1 DEF ReaderResolve, IInv, ReadFromSocket
  <2> QED BY <1>2, <2>1 DEF Threads, ReaderRead, ReaperActive, ReaperResolve, ReaperClear
<1>3. ASSUME NEW a \in Attempts, Locker(a) PROVE FALSE
  BY <1>3 DEF Locker, LockerLocks, LockerSignals, LockerUnlocks, LockerExits
<1>4. CASE UNCHANGED vars
  BY <1>4 DEF vars
<1> QED BY <1>1, <1>2, <1>3, <1>4 DEF Next

\* The result of an attempt is given once, and readiness only after the locker
\* signalled it (ReadinessSlot::resolve, the reader and the reaper).
THEOREM ResultStandsAlways == Spec => ResultStands
<1>1. ASSUME IInv, [Next]_vars, slot' # slot, NEW a \in Attempts
      PROVE  (slot[a] # "none" => slot'[a] = slot[a]) /\ (slot'[a] = "yes" => byte[a])
  <2>1. /\ slot \in [Attempts -> Results]
        /\ slot[a] = "yes" => byte[a]
    BY <1>1 DEF IInv, TypeOK, ReadFromSocket
  <2>2. PICK b : \/ slot' = Resolved(b, "no")
                 \/ b \in Attempts /\ byte[b] /\ slot' = Resolved(b, "yes")
    BY <1>1, OnlyReaderSaysYes
  <2>3. CASE slot' = Resolved(b, "no")
    BY <2>1, <2>3 DEF Resolved
  <2>4. CASE b \in Attempts /\ byte[b] /\ slot' = Resolved(b, "yes")
    BY <2>1, <2>4 DEF Resolved
  <2> QED BY <2>2, <2>3, <2>4
<1>2. IInv /\ [Next]_vars =>
        [\A a \in Attempts :
           /\ slot[a] # "none" => slot'[a] = slot[a]
           /\ slot'[a] = "yes" => byte[a]]_slot
  BY <1>1
<1> QED BY <1>2, IInvHolds, PTL DEF Spec, ResultStands
=============================================================================

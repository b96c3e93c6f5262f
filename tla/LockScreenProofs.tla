--------------------------- MODULE LockScreenProofs ---------------------------
(***************************************************************************)
(* The lock screen unlocks only by its latest attempt, proved for any      *)
(* number of displays and prompts and any time-outs.                       *)
(*                                                                         *)
(* What unlocks is last_outcome, which travels: the helper says SUCCESS,   *)
(* the event waits in its channel, the poll takes it under one mutex and   *)
(* applies it under the other, a view reads the snapshot later.  The       *)
(* invariant follows it along this way, and says that nothing can replace  *)
(* the session while the poll has an event of it in hand.                  *)
(***************************************************************************)
EXTENDS LockScreen, SequenceTheorems, TLAPS

-----------------------------------------------------------------------------
Events == Terminal \cup {"prompt"}

Session ==
  [on : BOOLEAN, running : BOOLEAN, out : Seq(Events), prompts : Nat, done : BOOLEAN, age : Nat]

\* The channel of session s: a terminal event is its last, after it the helper
\* does not run, and a success in it is known to the history p.
Sound(s, p) ==
  /\ s \in Session
  /\ ~s.on => ~s.running /\ s.out = <<>> /\ ~s.done
  /\ \A i \in 1..Len(s.out) :
       /\ s.out[i] \in Terminal => i = Len(s.out) /\ ~s.running
       /\ s.out[i] = "success" => p = TRUE
  /\ s.done => s.out = <<>> /\ ~s.running

\* The event e that the poll holds is one of session s.
Taken(s, e, p) ==
  /\ e \in Events /\ s.on /\ ~s.done
  /\ e \in Terminal => s.out = <<>> /\ ~s.running
  /\ e = "success" => p = TRUE

ScreenInv ==
  /\ proven \in BOOLEAN
  /\ Sound(session, proven)
  /\ pc = "applying" => Taken(session, event, proven)
  /\ outcome = "ok" => proven = TRUE
  /\ ui = "unlocked" => proven = TRUE
  /\ SessionIsShown

-----------------------------------------------------------------------------
(***************************************************************************)
(* Elementary changes of a session.                                        *)
(***************************************************************************)
\* No session, and a fresh one, fit to any history.
LEMMA FreshIsSound ==
  ASSUME NEW p \in BOOLEAN
  PROVE  /\ Sound(NoSession, p) /\ ~NoSession.on
         /\ Sound(NewSession, p) /\ NewSession.on /\ NewSession.running
         /\ ~NewSession.done /\ NewSession.out = <<>>
<1>1. <<>> \in Seq(Events) /\ Len(<<>>) = 0
  OBVIOUS
<1>2. NoSession \in Session /\ NewSession \in Session
  BY <1>1 DEF Session, NoSession, NewSession
<1>3. /\ NewSession.on /\ NewSession.running /\ ~NewSession.done /\ NewSession.out = <<>>
      /\ ~NoSession.on /\ ~NoSession.running /\ ~NoSession.done /\ NoSession.out = <<>>
  BY DEF NoSession, NewSession
<1>4. QED
  BY <1>1, <1>2, <1>3 DEF Sound

\* The reader thread changes running and the number of prompts.
LEMMA EmittedIsSession ==
  ASSUME NEW s \in Session, NEW e
  PROVE  /\ Emitted(s, e) \in Session /\ Emitted(s, e).out = s.out
         /\ Emitted(s, e).on = s.on /\ Emitted(s, e).done = s.done
         /\ e \in Terminal => ~Emitted(s, e).running
<1>1. PICK b \in BOOLEAN : b = (e \notin Terminal)
  OBVIOUS
<1>2. PICK n \in Nat : n = IF e = "prompt" THEN s.prompts + 1 ELSE s.prompts
  BY DEF Session
<1>3. Emitted(s, e) = [s EXCEPT !.running = b, !.prompts = n]
  BY <1>1, <1>2, Zenon DEF Emitted
<1>4. QED
  BY <1>1, <1>3 DEF Session

\* A helper that runs puts an event into the channel.
LEMMA EmitIsSound ==
  ASSUME NEW s, NEW e \in Events, NEW p \in BOOLEAN, NEW q \in BOOLEAN, Sound(s, p), s.running,
         p => q, e = "success" => q
  PROVE  LET t == [Emitted(s, e) EXCEPT !.out = Append(s.out, e)]
         IN /\ Sound(t, q) /\ t.on = s.on /\ t.done = s.done
            /\ \A d : Taken(s, d, p) => Taken(t, d, q)
<1> DEFINE t == [Emitted(s, e) EXCEPT !.out = Append(s.out, e)]
<1>1. s \in Session /\ s.on /\ ~s.done
  BY DEF Sound
<1>2. /\ Emitted(s, e) \in Session /\ Emitted(s, e).on = s.on /\ Emitted(s, e).done = s.done
      /\ e \in Terminal => ~Emitted(s, e).running
  BY <1>1, EmittedIsSession
<1>3. s.out \in Seq(Events) /\ Append(s.out, e) \in Seq(Events)
  BY <1>1 DEF Session
<1>4. /\ t \in Session /\ t.out = Append(s.out, e) /\ t.on = s.on /\ t.done = s.done
      /\ e \in Terminal => ~t.running
  BY <1>2, <1>3 DEF Session
<1> HIDE DEF t
<1>5. \A i \in 1..Len(t.out) :
        \/ t.out[i] = e /\ i = Len(t.out)
        \/ i \in 1..Len(s.out) /\ t.out[i] = s.out[i]
  BY <1>3, <1>4
<1>6. \A i \in 1..Len(s.out) : s.out[i] \notin Terminal
  BY DEF Sound
<1>7. \A i \in 1..Len(t.out) :
        /\ t.out[i] \in Terminal => i = Len(t.out) /\ ~t.running
        /\ t.out[i] = "success" => q = TRUE
  BY <1>4, <1>5, <1>6 DEF Terminal
<1>8. Sound(t, q)
  BY <1>1, <1>4, <1>7 DEF Sound
<1>9. \A d : Taken(s, d, p) => Taken(t, d, q)
  BY <1>1, <1>4 DEF Taken
<1>10. QED
  BY <1>4, <1>8, <1>9 DEF t

\* Time and interactions change the age only.
LEMMA AgedIsSound ==
  ASSUME NEW s, NEW p \in BOOLEAN, Sound(s, p), NEW n \in Nat
  PROVE  LET t == [s EXCEPT !.age = n]
         IN /\ Sound(t, p) /\ t.on = s.on /\ t.done = s.done /\ t.out = s.out
            /\ \A d : Taken(s, d, p) => Taken(t, d, p)
<1> DEFINE t == [s EXCEPT !.age = n]
<1>1. /\ t \in Session /\ t.on = s.on /\ t.done = s.done /\ t.out = s.out
      /\ t.running = s.running
  BY DEF Sound, Session
<1> HIDE DEF t
<1>2. QED
  BY <1>1 DEF Sound, Taken, t

LEMMA TouchedIsSound ==
  ASSUME NEW s, NEW p \in BOOLEAN, Sound(s, p)
  PROVE  /\ Sound(Touched(s), p) /\ Touched(s).on = s.on /\ Touched(s).done = s.done
         /\ Touched(s).out = s.out
<1>1. CASE s.done
  BY <1>1 DEF Touched
<1>2. CASE ~s.done
  <2>1. Touched(s) = [s EXCEPT !.age = 0]
    BY <1>2 DEF Touched
  <2>2. QED
    BY <2>1, AgedIsSound, 0 \in Nat
<1>3. QED
  BY <1>1, <1>2

\* The poll takes the head of the channel.
LEMMA TakeIsSound ==
  ASSUME NEW s, NEW p \in BOOLEAN, Sound(s, p), s.out # <<>>
  PROVE  LET t == [s EXCEPT !.out = Tail(s.out)]
         IN /\ Sound(t, p) /\ Taken(t, Head(s.out), p) /\ t.on = s.on /\ t.done = s.done
<1> DEFINE t == [s EXCEPT !.out = Tail(s.out)]
<1>1. s \in Session /\ s.out \in Seq(Events) /\ s.on /\ ~s.done
  BY DEF Sound, Session
<1>2. /\ Head(s.out) \in Events /\ Head(s.out) = s.out[1] /\ 1 \in 1..Len(s.out)
      /\ Tail(s.out) \in Seq(Events) /\ Len(Tail(s.out)) = Len(s.out) - 1
      /\ \A i \in 1..Len(Tail(s.out)) : i + 1 \in 1..Len(s.out) /\ Tail(s.out)[i] = s.out[i + 1]
  BY <1>1
<1>3. /\ t \in Session /\ t.on = s.on /\ t.done = s.done /\ t.running = s.running
      /\ t.out = Tail(s.out)
  BY <1>1, <1>2 DEF Session
<1> HIDE DEF t
<1>4. Len(s.out) \in Nat
  BY <1>1
<1>5. \A i \in 1..Len(s.out) :
        /\ s.out[i] \in Terminal => i = Len(s.out) /\ ~s.running
        /\ s.out[i] = "success" => p = TRUE
  BY DEF Sound
<1>6. \A i \in 1..Len(t.out) :
        /\ t.out[i] \in Terminal => i = Len(t.out) /\ ~t.running
        /\ t.out[i] = "success" => p = TRUE
  <2> SUFFICES ASSUME NEW i \in 1..Len(t.out)
               PROVE  /\ t.out[i] \in Terminal => i = Len(t.out) /\ ~t.running
                      /\ t.out[i] = "success" => p = TRUE
    OBVIOUS
  <2>1. i + 1 \in 1..Len(s.out) /\ t.out[i] = s.out[i + 1] /\ Len(t.out) = Len(s.out) - 1
    BY <1>2, <1>3
  <2>2. i + 1 = Len(s.out) => i = Len(t.out)
    BY <1>4, <2>1
  <2>3. QED
    BY <1>3, <1>5, <2>1, <2>2
<1>7. Sound(t, p)
  BY <1>1, <1>3, <1>6 DEF Sound
<1>8. Head(s.out) \in Terminal => t.out = <<>> /\ ~t.running
  <2> SUFFICES ASSUME Head(s.out) \in Terminal PROVE t.out = <<>> /\ ~t.running
    OBVIOUS
  <2>1. 1 = Len(s.out) /\ ~s.running
    BY <1>2, <1>5
  <2>2. Len(Tail(s.out)) = 0
    BY <1>2, <2>1
  <2>3. Tail(s.out) = <<>>
    BY <1>2, <2>2, EmptySeq
  <2>4. QED
    BY <1>3, <2>1, <2>3
<1>9. Taken(t, Head(s.out), p)
  BY <1>1, <1>2, <1>3, <1>5, <1>8 DEF Taken
<1>10. QED
  BY <1>3, <1>7, <1>9 DEF t

\* An event that was taken is applied: the session is completed by a success.
LEMMA AppliedIsSound ==
  ASSUME NEW s, NEW p \in BOOLEAN, NEW e, Sound(s, p), Taken(s, e, p)
  PROVE  /\ Sound(AfterEvent(s, e), p)
         /\ AfterEvent(s, e).on
         /\ e = "success" <=> AfterEvent(s, e).done
<1>1. CASE e = "success"
  <2>1. AfterEvent(s, e) = [s EXCEPT !.done = TRUE]
    BY <1>1 DEF AfterEvent
  <2>2. /\ s \in Session /\ s.on /\ s.out = <<>> /\ ~s.running
    BY <1>1 DEF Sound, Taken, Terminal
  <2> DEFINE t == [s EXCEPT !.done = TRUE]
  <2>3. t \in Session /\ t.on = s.on /\ t.done /\ t.out = <<>> /\ t.running = s.running
    BY <2>2 DEF Session
  <2> HIDE DEF t
  <2>4. Sound(t, p)
    BY <2>2, <2>3 DEF Sound
  <2>5. QED
    BY <1>1, <2>1, <2>2, <2>3, <2>4 DEF t
<1>2. CASE e # "success"
  BY <1>2 DEF AfterEvent, Taken, Sound
<1>3. QED
  BY <1>1, <1>2

-----------------------------------------------------------------------------
(***************************************************************************)
(* The steps.                                                              *)
(***************************************************************************)
\* Where the poll has no event in hand, the invariant is about the session and
\* what is shown.
LEMMA Unlocked ==
  ASSUME proven' \in BOOLEAN, Sound(session', proven'), pc' # "applying",
         outcome' = "ok" => proven' = TRUE,
         ui' = "unlocked" => proven' = TRUE,
         pc' # "wipe" /\ session'.on =>
           prompt' /\ outcome' = IF session'.done THEN "ok" ELSE "none"
  PROVE  ScreenInv'
  BY DEF ScreenInv, SessionIsShown

\* A step that leaves the port alone and does not leave the wipe or unlock.
LEMMA FrameKeeps ==
  ASSUME ScreenInv, UNCHANGED port,
         ui' = "unlocked" => ui = "unlocked" \/ outcome = "ok",
         \/ UNCHANGED <<pc, event>>
         \/ pc # "wipe" /\ pc' # "applying"
  PROVE  ScreenInv'
  BY DEF ScreenInv, SessionIsShown, port

\* The two timers.
LEMMA TickWorkKeeps == ScreenInv /\ ~Ended /\ TickWork => ScreenInv'
<1> SUFFICES ASSUME ScreenInv, ~Ended, TickWork PROVE ScreenInv'
  OBVIOUS
<1>1. pc = "ticking" /\ pc' = "poll" /\ ui' = ui /\ ui # "unlocked"
  BY DEF TickWork, Ended
<1>2. CASE Dismiss
  <2>1. session' = NoSession /\ outcome' = outcome /\ proven' = proven
    BY <1>2 DEF Dismiss
  <2>2. QED
    BY <1>1, <2>1, FreshIsSound, Unlocked DEF ScreenInv
<1>3. CASE TimeOut
  <2>1. session' = NoSession /\ outcome' = "failed" /\ proven' = FALSE
    BY <1>3 DEF TimeOut
  <2>2. QED
    BY <1>1, <2>1, FreshIsSound, Unlocked
<1>4. CASE UNCHANGED <<port, unseen>>
  BY <1>1, <1>4, FrameKeeps
<1>5. QED
  BY <1>2, <1>3, <1>4 DEF TickWork

\* The poll takes an event: it is one of the session, which stays.
LEMMA PollTakeKeeps == ScreenInv /\ PollTake => ScreenInv'
<1> SUFFICES ASSUME ScreenInv, PollTake PROVE ScreenInv'
  OBVIOUS
<1>1. pc = "poll" /\ UNCHANGED <<prompt, outcome, proven, ui>>
  BY DEF PollTake
<1>2. CASE session.out = <<>>
  <2>1. session' = session /\ pc' = "tick"
    BY <1>2 DEF PollTake
  <2>2. QED
    BY <1>1, <2>1, FrameKeeps DEF port
<1>3. CASE session.out # <<>>
  <2> DEFINE s == Touched(session)
  <2>1. /\ event' = Head(session.out) /\ session' = [s EXCEPT !.out = Tail(session.out)]
        /\ pc' = "applying"
    BY <1>3 DEF PollTake
  <2>2. /\ proven \in BOOLEAN /\ Sound(s, proven) /\ s.out = session.out /\ s.on = session.on
        /\ s.done = session.done
    <3>1. proven \in BOOLEAN /\ Sound(session, proven)
      BY DEF ScreenInv
    <3>2. QED
      BY <3>1, TouchedIsSound
  <2> HIDE DEF s
  <2>3. /\ Sound(session', proven) /\ Taken(session', event', proven)
        /\ session'.on = s.on /\ session'.done = s.done
    BY <1>3, <2>1, <2>2, TakeIsSound
  <2>4. QED
    BY <1>1, <2>1, <2>2, <2>3 DEF ScreenInv, SessionIsShown
<1>4. QED
  BY <1>2, <1>3

\* The event is applied: a success of this very session, or nothing that
\* unlocks.
LEMMA PollApplyKeeps == ScreenInv /\ ~Ended /\ PollApply => ScreenInv'
<1> SUFFICES ASSUME ScreenInv, ~Ended, PollApply PROVE ScreenInv'
  OBVIOUS
<1>1. /\ pc = "applying" /\ session' = AfterEvent(session, event) /\ Shown(event)
      /\ pc' = IF event = "failure" THEN "wipe" ELSE "poll"
      /\ proven' = proven /\ ui' = ui /\ ui # "unlocked"
  BY DEF PollApply, Ended
<1>2. /\ proven \in BOOLEAN /\ Sound(session, proven) /\ Taken(session, event, proven)
      /\ session.on /\ ~session.done
  BY <1>1 DEF ScreenInv, Taken
<1>3. /\ Sound(session', proven) /\ session'.on /\ (event = "success" <=> session'.done)
  BY <1>1, <1>2, AppliedIsSound
<1>4. /\ event = "success" => outcome' = "ok" /\ prompt' /\ proven = TRUE
      /\ event = "failure" => outcome' = "failed"
      /\ event \notin Terminal => outcome' = outcome /\ prompt'
  BY <1>1, <1>2 DEF Shown, Terminal, Taken
<1>5. outcome = "none"
  BY <1>1, <1>2 DEF ScreenInv, SessionIsShown
<1>6. event \in {"success", "failure", "prompt"}
  BY <1>2 DEF Taken, Events, Terminal
<1>7. pc' # "applying"
  BY <1>1
<1>8. outcome' = "ok" => proven' = TRUE
  BY <1>1, <1>4, <1>5, <1>6 DEF Terminal
<1>9. pc' # "wipe" /\ session'.on => prompt' /\ outcome' = IF session'.done THEN "ok" ELSE "none"
  BY <1>1, <1>3, <1>4, <1>5, <1>6 DEF Terminal
<1>10. QED
  BY <1>1, <1>2, <1>3, <1>7, <1>8, <1>9, Unlocked

\* Whatever session the wipe drops, nothing is left that could unlock.
LEMMA PollWipeKeeps == ScreenInv /\ PollWipe => ScreenInv'
<1> SUFFICES ASSUME ScreenInv, PollWipe PROVE ScreenInv'
  OBVIOUS
<1>1. session' = NoSession /\ pc' = "poll" /\ UNCHANGED <<outcome, proven, ui>>
  BY DEF PollWipe
<1>2. QED
  BY <1>1, FreshIsSound, Unlocked DEF ScreenInv

\* BeginAuthentication starts a new history: only the new helper counts.
LEMMA DoBeginKeeps == ScreenInv /\ DoBegin => ScreenInv'
<1> SUFFICES ASSUME ScreenInv, DoBegin PROVE ScreenInv'
  OBVIOUS
<1>1. PICK e \in {"none"} \cup Emits(NewSession) : Begin(e)
  BY DEF DoBegin
<1>2. pc' = pc /\ pc # "applying" /\ ui' = "idle"
  BY DEF DoBegin, SessionFree, Returns, loop
<1>3. e \in {"none", "success", "failure", "prompt"}
  BY <1>1 DEF Emits, Terminal
<1>4. PICK p \in BOOLEAN : p = (e = "success")
  OBVIOUS
<1>5. proven' = p /\ (e = "success" => p = TRUE)
  BY <1>1, <1>4, Zenon DEF Begin
<1> DEFINE s == IF e = "none" THEN NewSession ELSE Emitted(NewSession, e)
<1>6. Sound(s, p) /\ s.on /\ ~s.done /\ s.out = <<>> /\ (e \in Terminal => ~s.running)
  <2>1. /\ NewSession \in Session /\ Sound(NewSession, p) /\ NewSession.on
        /\ ~NewSession.done /\ NewSession.out = <<>>
    BY FreshIsSound DEF Sound
  <2>2. CASE e = "none"
    BY <2>1, <2>2 DEF Terminal
  <2>3. CASE e # "none"
    <3>1. /\ s \in Session /\ s.out = <<>> /\ s.on /\ ~s.done
          /\ e \in Terminal => ~s.running
      BY <2>1, <2>3, EmittedIsSession
    <3> HIDE DEF s
    <3>2. QED
      BY <3>1 DEF Sound
  <2>4. QED
    BY <2>2, <2>3
<1>7. /\ session' = IF e = "failure" THEN NoSession ELSE AfterEvent(s, e)
      /\ e # "failure" => prompt'
      /\ outcome' = CASE e = "success" -> "ok" [] e = "failure" -> "failed" [] OTHER -> "none"
  BY <1>1 DEF Begin
<1> HIDE DEF s
<1>8. CASE e = "failure"
  BY <1>2, <1>5, <1>7, <1>8, FreshIsSound, Unlocked
<1>9. CASE e = "none"
  BY <1>2, <1>5, <1>6, <1>7, <1>9, Unlocked DEF AfterEvent
<1>10. CASE e \in {"success", "prompt"}
  <2>1. Taken(s, e, p)
    BY <1>5, <1>6, <1>10 DEF Taken, Events, Terminal
  <2>2. Sound(session', p) /\ session'.on /\ (e = "success" <=> session'.done)
    BY <1>6, <1>7, <1>10, <2>1, AppliedIsSound
  <2>3. prompt' /\ outcome' = IF e = "success" THEN "ok" ELSE "none"
    BY <1>7, <1>10
  <2>4. QED
    BY <1>2, <1>5, <2>2, <2>3, Unlocked
<1>11. QED
  BY <1>3, <1>8, <1>9, <1>10

\* The other commands.
LEMMA CommandKeeps == ScreenInv /\ ~Ended /\ Command => ScreenInv'
<1> SUFFICES ASSUME ScreenInv, ~Ended, Command PROVE ScreenInv'
  OBVIOUS
<1>1. CASE Submit \/ Process
  BY <1>1, FrameKeeps DEF Submit, Process, port, loop
<1>2. CASE DoRespond
  <2>1. /\ pc' = pc /\ pc # "applying" /\ ui' = "idle"
        /\ UNCHANGED <<prompt, outcome, proven>>
    BY <1>2 DEF DoRespond, SessionFree, Returns, loop
  <2>2. session' = session \/ session' = Touched(session)
    BY <1>2 DEF DoRespond
  <2>3. proven \in BOOLEAN /\ Sound(session, proven)
    BY DEF ScreenInv
  <2>4. Sound(session', proven) /\ session'.on = session.on /\ session'.done = session.done
    BY <2>2, <2>3, TouchedIsSound
  <2>5. QED
    BY <2>1, <2>3, <2>4, Unlocked DEF ScreenInv, SessionIsShown
<1>3. CASE DoCancel
  <2>1. /\ pc' = pc /\ pc # "applying" /\ ui' = "idle" /\ session' = NoSession
        /\ outcome' = "failed" /\ proven' = FALSE
    BY <1>3 DEF DoCancel, SessionFree, Returns, loop
  <2>2. QED
    BY <2>1, FreshIsSound, Unlocked
<1>4. QED
  BY <1>1, <1>2, <1>3, DoBeginKeeps DEF Command

\* The helper speaks while the poll may have an earlier event of it in hand.
LEMMA HelperEmitsKeeps == ScreenInv /\ HelperEmits => ScreenInv'
<1> SUFFICES ASSUME ScreenInv, HelperEmits PROVE ScreenInv'
  OBVIOUS
<1>1. PICK e \in Emits(session) :
        /\ session' = [Emitted(session, e) EXCEPT !.out = Append(session.out, e)]
        /\ proven' = (proven \/ e = "success")
  BY DEF HelperEmits
<1>2. UNCHANGED <<prompt, outcome, pc, event, ui>>
  BY DEF HelperEmits, loop
<1>3. proven \in BOOLEAN /\ Sound(session, proven)
  BY DEF ScreenInv
<1>4. session.running /\ e \in Events
  BY <1>1 DEF Emits, Events, Terminal
<1>5. PICK q \in BOOLEAN : q = (proven \/ e = "success")
  OBVIOUS
<1>6. proven' = q /\ (proven => q) /\ (e = "success" => q)
  BY <1>1, <1>5, Zenon
<1>7. /\ Sound(session', q) /\ session'.on = session.on /\ session'.done = session.done
      /\ \A d : Taken(session, d, proven) => Taken(session', d, q)
  BY <1>1, <1>3, <1>4, <1>6, EmitIsSound
<1>8. QED
  BY <1>2, <1>3, <1>6, <1>7 DEF ScreenInv, SessionIsShown

\* Time.
LEMMA AdvanceKeeps == ScreenInv /\ Advance => ScreenInv'
<1> SUFFICES ASSUME ScreenInv, Advance PROVE ScreenInv'
  OBVIOUS
<1>1. UNCHANGED <<prompt, outcome, proven, pc, event, ui>>
  BY DEF Advance, loop
<1>2. proven \in BOOLEAN /\ Sound(session, proven) /\ session.age + 1 \in Nat
  BY DEF ScreenInv, Sound, Session
<1>3. session' = [session EXCEPT !.age = session.age + 1]
  BY DEF Advance
<1>4. /\ Sound(session', proven) /\ session'.on = session.on /\ session'.done = session.done
      /\ \A d : Taken(session, d, proven) => Taken(session', d, proven)
  BY <1>2, <1>3, AgedIsSound
<1>5. QED
  BY <1>1, <1>2, <1>4 DEF ScreenInv, SessionIsShown

LEMMA InitScreenInv == Init => ScreenInv
<1> SUFFICES ASSUME Init PROVE ScreenInv
  OBVIOUS
<1>1. session = NoSession /\ outcome = "none" /\ proven = FALSE /\ pc = "tick" /\ ui = "calling"
  BY DEF Init
<1>2. QED
  BY <1>1, FreshIsSound DEF ScreenInv, SessionIsShown

\* Every step keeps the invariant.
LEMMA NextKeepsScreenInv == ScreenInv /\ [Next]_vars => ScreenInv'
<1> SUFFICES ASSUME ScreenInv, [Next]_vars PROVE ScreenInv'
  OBVIOUS
<1>1. CASE UNCHANGED vars
  BY <1>1, FrameKeeps DEF vars, loop
<1>2. CASE Next
  <2>1. ~Ended
    BY <1>2 DEF Next
  <2>2. CASE TickLock
    BY <2>2, FrameKeeps DEF TickLock
  <2>3. CASE ApplySnapshot
    BY <2>3, FrameKeeps DEF ApplySnapshot, loop
  <2>4. CASE \/ \E v \in Displays : OpenView(v) \/ Notice(v)
             \/ \E c \in {"respond", "cancel"} : UserActs(c)
             \/ LockFinished
    BY <2>4, FrameKeeps DEF OpenView, Notice, UserActs, LockFinished, loop
  <2>5. QED
    BY <1>2, <2>1, <2>2, <2>3, <2>4, TickWorkKeeps, PollTakeKeeps, PollApplyKeeps, PollWipeKeeps,
       CommandKeeps, HelperEmitsKeeps, AdvanceKeeps DEF Next, SupervisorTask
<1>3. QED
  BY <1>1, <1>2

-----------------------------------------------------------------------------
(***************************************************************************)
(* What the lock screen promises.                                          *)
(***************************************************************************)
\* apply_snapshot unlocks the session only if the helper of the latest attempt
\* said SUCCESS and that attempt was neither cancelled nor timed out, however
\* the UI thread, the supervisor task and the helper interleave.
THEOREM UnlockedByLatestAttempt == Spec => []UnlockOnlyByLatestSuccess
<1>1. ScreenInv => UnlockOnlyByLatestSuccess
  BY DEF ScreenInv, UnlockOnlyByLatestSuccess
<1>2. QED
  BY InitScreenInv, NextKeepsScreenInv, <1>1, PTL DEF Spec

\* A session that can be answered has its prompt in the snapshot and no verdict
\* of another attempt beside it, except while poll_active_helper_event is about
\* to drop whatever session there is.
THEOREM AttemptIsShown == Spec => []SessionIsShown
<1>1. ScreenInv => SessionIsShown
  BY DEF ScreenInv
<1>2. QED
  BY InitScreenInv, NextKeepsScreenInv, <1>1, PTL DEF Spec
=============================================================================

--------------------------- MODULE PolkitAgentProofs ---------------------------
(***************************************************************************)
(* What the polkit agent tells the Authority, proved for every set of      *)
(* requests and callers and any number of prompts, losses and calls: a     *)
(* request is granted only after a helper of its own succeeded, it is      *)
(* answered once, no helper goes on behind a request that is over, and the *)
(* dialog shows the request whose session is there.                        *)
(*                                                                         *)
(* A step may end one session, begin another and take an event of its      *)
(* helper.  The invariant is therefore a predicate of the values that make *)
(* up a request's state, Fits, and there is one lemma for each of these    *)
(* elementary changes; the actions put them together.                      *)
(***************************************************************************)
EXTENDS PolkitAgent, TLAPS

-----------------------------------------------------------------------------
Events == Terminal \cup {"prompt"}

Helper ==
  [on : BOOLEAN, cookie : Cookies \cup {NoCookie}, running : BOOLEAN, out : Seq(Events),
   prompts : Nat]

Session ==
  [cookie : Cookies \cup {NoCookie}, helper : Helper, tx : BOOLEAN, done : BOOLEAN, age : Nat]

Verdicts == {"ok", "failed", "over", "dropped", "refused"}

\* A helper belongs to request c: it was spawned for it, and a success that
\* waits in its channel is known to the history P.
Owns(c, h, P) ==
  /\ h \in Helper
  /\ h.on => h.cookie = c
  /\ h.running => h.on
  /\ ~h.on => h.out = <<>>
  /\ \A i \in 1..Len(h.out) : h.out[i] = "success" => h.cookie \in P

\* Session s fits to the answers A, the successes P, the stray helpers St and
\* the requests B: completion_tx is there only while its call has no answer,
\* and a request that is over has neither a session nor a helper.
Fits(s, A, P, St, B) ==
  /\ s \in Session /\ A \subseteq [id : Cookies, out : Verdicts] /\ St \subseteq Cookies
  /\ s = NoSession \/ s.cookie \in Cookies
  /\ s.cookie \in Cookies => B[s.cookie] = "begun"
  /\ s.tx => s.cookie \in Cookies /\ \A a \in A : a.id # s.cookie
  /\ Owns(s.cookie, s.helper, P)
  /\ \A a \in A : B[a.id] = "begun"
  /\ \A a \in A : a.out = "ok" => a.id \in P
  /\ \A a, b \in A : a.id = b.id => a = b
  /\ \A c \in St : B[c] = "begun" /\ s.cookie # c
  /\ \A a \in A : a.out = "over" => a.id # s.cookie /\ a.id \notin St

RequestInv ==
  /\ begins \in [Cookies -> {"none", "begun"} \cup Kinds]
  /\ Fits(session, answers, proven, strays, begins)
  /\ pc = "applying" => /\ event \in Events /\ session.cookie \in Cookies
                        /\ event = "success" => session.cookie \in proven

-----------------------------------------------------------------------------
(***************************************************************************)
(* Elementary changes.                                                     *)
(***************************************************************************)
\* Nobody has no session.
LEMMA NoSessionFits ==
  /\ NoSession \in Session /\ ~NoSession.tx /\ NoSession.cookie = NoCookie
  /\ \A P : Owns(NoCookie, NoHelper, P)
  /\ NoSession.helper = NoHelper
<1>1. NoHelper \in Helper
  BY DEF NoHelper, Helper
<1>2. NoSession \in Session
  BY <1>1 DEF NoSession, Session
<1>3. \A P : Owns(NoCookie, NoHelper, P)
  BY <1>1 DEF Owns, NoHelper
<1>4. QED
  BY <1>2, <1>3 DEF NoSession

\* A session is taken and its call answered with an error, its helper killed.
LEMMA EndFits ==
  ASSUME NEW s, NEW A, NEW P, NEW St, NEW B, Fits(s, A, P, St, B)
  PROVE  Fits(NoSession, A \cup Answer(s, "over"), P, St, B)
<1>1. \A a \in Answer(s, "over") : s.tx /\ a = [id |-> s.cookie, out |-> "over"]
  BY DEF Answer
<1>2. s.tx => s.cookie \in Cookies /\ (\A a \in A : a.id # s.cookie) /\ B[s.cookie] = "begun"
              /\ s.cookie \notin St
  BY DEF Fits
<1>3. A \cup Answer(s, "over") \subseteq [id : Cookies, out : Verdicts]
  BY <1>1, <1>2 DEF Fits, Verdicts
<1>4. QED
  BY <1>1, <1>2, <1>3, NoSessionFits, NoCookieIsNone DEF Fits

\* A session is overwritten, its helper and its call left to themselves.
LEMMA DropFits ==
  ASSUME NEW s, NEW A, NEW P, NEW St, NEW B, Fits(s, A, P, St, B)
  PROVE  Fits(NoSession, A \cup Answer(s, "dropped"), P, St \cup Stray(s), B)
<1>1. \A a \in Answer(s, "dropped") : s.tx /\ a = [id |-> s.cookie, out |-> "dropped"]
  BY DEF Answer
<1>2. s.tx => s.cookie \in Cookies /\ (\A a \in A : a.id # s.cookie) /\ B[s.cookie] = "begun"
  BY DEF Fits
<1>3. \A c \in Stray(s) : c = s.cookie /\ c \in Cookies /\ B[c] = "begun"
  <2>1. s.helper.running => s # NoSession
    BY NoSessionFits DEF NoHelper
  <2>2. QED
    BY <2>1 DEF Stray, Fits
<1>4. A \cup Answer(s, "dropped") \subseteq [id : Cookies, out : Verdicts]
  BY <1>1, <1>2 DEF Fits, Verdicts
<1>5. St \cup Stray(s) \subseteq Cookies
  BY <1>3 DEF Fits
<1>6. \A a \in A : a.out = "over" => a.id \notin Stray(s)
  BY <1>3 DEF Fits
<1>7. QED
  BY <1>1, <1>2, <1>3, <1>4, <1>5, <1>6, NoSessionFits, NoCookieIsNone DEF Fits

\* A session whose call was answered is forgotten.
LEMMA ForgetFits ==
  ASSUME NEW s, NEW A, NEW P, NEW St, NEW B, Fits(s, A, P, St, B)
  PROVE  Fits(NoSession, A, P, St, B)
  BY NoSessionFits, NoCookieIsNone DEF Fits

\* A request that had not begun begins, with its own helper or none.
LEMMA StartFits ==
  ASSUME NEW A, NEW P, NEW St, NEW B, Fits(NoSession, A, P, St, B),
         B \in [Cookies -> {"none", "begun"} \cup Kinds],
         NEW c \in Cookies, B[c] \in Kinds,
         NEW h, Owns(c, h, P)
  PROVE  Fits(NewSession(c, h), A, P, St, [B EXCEPT ![c] = "begun"])
<1>1. B[c] # "begun" /\ c # NoCookie
  BY NoCookieIsNone DEF Kinds
<1>2. (\A a \in A : a.id # c) /\ c \notin St
  BY <1>1 DEF Fits
<1>3. h \in Helper
  BY DEF Owns
<1>4. NewSession(c, h) \in Session /\ NewSession(c, h).cookie = c /\ NewSession(c, h).helper = h
  BY <1>3 DEF NewSession, Session
<1>5. \A d \in Cookies : B[d] = "begun" \/ d = c => [B EXCEPT ![c] = "begun"][d] = "begun"
  OBVIOUS
<1>6. QED
  BY <1>2, <1>4, <1>5 DEF Fits

\* A request fails before it has a session.
LEMMA RefuseFits ==
  ASSUME NEW A, NEW P, NEW St, NEW B, Fits(NoSession, A, P, St, B),
         B \in [Cookies -> {"none", "begun"} \cup Kinds],
         NEW c \in Cookies, B[c] \in Kinds
  PROVE  Fits(NoSession, A \cup {[id |-> c, out |-> "refused"]}, P, St,
              [B EXCEPT ![c] = "begun"])
<1>1. B[c] # "begun" /\ c # NoCookie
  BY NoCookieIsNone DEF Kinds
<1>2. (\A a \in A : a.id # c) /\ c \notin St
  BY <1>1 DEF Fits
<1>3. \A d \in Cookies : B[d] = "begun" \/ d = c => [B EXCEPT ![c] = "begun"][d] = "begun"
  OBVIOUS
<1>4. A \cup {[id |-> c, out |-> "refused"]} \subseteq [id : Cookies, out : Verdicts]
  BY DEF Fits, Verdicts
<1>5. QED
  BY <1>2, <1>3, <1>4, NoSessionFits, NoCookieIsNone DEF Fits

\* A fresh helper belongs to the request it is spawned for.
LEMMA NewHelperOwns ==
  ASSUME NEW c \in Cookies, NEW P
  PROVE  Owns(c, NewHelper(c), P)
  BY DEF Owns, NewHelper, Helper

\* The reader thread changes only running and the number of prompts.
LEMMA EmittedIsHelper ==
  ASSUME NEW h \in Helper, NEW e
  PROVE  /\ Emitted(h, e) \in Helper /\ Emitted(h, e).out = h.out
         /\ Emitted(h, e).on = h.on /\ Emitted(h, e).cookie = h.cookie
<1>1. PICK b \in BOOLEAN : b = (e \notin Terminal)
  OBVIOUS
<1>2. PICK n \in Nat : n = IF e = "prompt" THEN h.prompts + 1 ELSE h.prompts
  BY DEF Helper
<1>3. Emitted(h, e) = [h EXCEPT !.running = b, !.prompts = n]
  BY <1>1, <1>2, Zenon DEF Emitted
<1>4. QED
  BY <1>3 DEF Helper

\* An event is taken from the helper's channel.
LEMMA ReceiveOwns ==
  ASSUME NEW c, NEW h, NEW P, Owns(c, h, P), NEW r \in Received(h)
  PROVE  /\ Owns(c, r.left, P \cup Proof(r.left, r.ev))
         /\ r.ev \in Events \cup {"none"}
         /\ r.ev = "success" => c \in P \cup Proof(r.left, r.ev)
         /\ r.left.on = h.on /\ r.left.cookie = h.cookie
<1>0. /\ h \in Helper /\ h.out \in Seq(Events) /\ Len(h.out) \in Nat
      /\ h.on => h.cookie = c
      /\ h.running => h.on
      /\ ~h.on => h.out = <<>>
      /\ \A i \in 1..Len(h.out) : h.out[i] = "success" => h.cookie \in P
  BY DEF Owns, Helper
<1>1. CASE h.out # <<>>
  <2>1. r = [ev |-> Head(h.out), left |-> [h EXCEPT !.out = Tail(@)]]
    BY <1>1 DEF Received
  <2>2. /\ Tail(h.out) \in Seq(Events) /\ Len(Tail(h.out)) = Len(h.out) - 1 /\ Len(h.out) # 0
        /\ \A i \in 1..Len(Tail(h.out)) : Tail(h.out)[i] = h.out[i + 1]
        /\ Head(h.out) = h.out[1] /\ h.out[1] \in Events
    BY <1>0, <1>1
  <2>3. r.left \in Helper /\ r.left.out = Tail(h.out) /\ r.left.on = h.on
        /\ r.left.cookie = h.cookie /\ r.left.running = h.running
    BY <2>1, <2>2, <1>0 DEF Helper
  <2>4. \A i \in 1..Len(r.left.out) : r.left.out[i] = "success" => h.cookie \in P
    BY <2>2, <2>3, <1>0
  <2>5. r.ev = h.out[1] /\ (r.ev = "success" => h.cookie \in P)
    BY <2>1, <2>2, <1>0
  <2>6. QED
    BY <2>2, <2>3, <2>4, <2>5, <1>0, <1>1 DEF Owns
<1>2. CASE h.out = <<>>
  <2>1. CASE r = [ev |-> "none", left |-> h]
    BY <2>1, <1>0 DEF Owns, Proof
  <2>2. CASE \E e \in Emits(h) : r = [ev |-> e, left |-> Emitted(h, e)]
    <3>1. PICK e \in Emits(h) : r = [ev |-> e, left |-> Emitted(h, e)]
      BY <2>2
    <3>2. e \in Events /\ h.running
      BY <3>1 DEF Emits, Events
    <3>3. /\ Emitted(h, e) \in Helper /\ Emitted(h, e).out = <<>> /\ Emitted(h, e).on = h.on
          /\ Emitted(h, e).cookie = h.cookie
      BY <1>0, <1>2, EmittedIsHelper
    <3>4. Owns(c, r.left, P \cup Proof(r.left, r.ev))
      BY <3>1, <3>2, <3>3, <1>0 DEF Owns
    <3>5. QED
      BY <3>1, <3>2, <3>3, <3>4, <1>0 DEF Proof
  <2>3. QED
    BY <2>1, <2>2, <1>2 DEF Received
<1>3. QED
  BY <1>1, <1>2

\* More successes are known, and the session's helper is a later state of it
\* or another one of the same request.
LEMMA HelperFits ==
  ASSUME NEW s, NEW A, NEW P, NEW St, NEW B, Fits(s, A, P, St, B), s # NoSession,
         NEW h, NEW Q, P \subseteq Q, Owns(s.cookie, h, Q)
  PROVE  Fits([s EXCEPT !.helper = h], A, Q, St, B) /\ [s EXCEPT !.helper = h].cookie = s.cookie
<1>1. h \in Helper
  BY DEF Owns
<1>2. /\ [s EXCEPT !.helper = h] \in Session
      /\ [s EXCEPT !.helper = h].cookie = s.cookie
      /\ [s EXCEPT !.helper = h].tx = s.tx
      /\ [s EXCEPT !.helper = h].helper = h
  BY <1>1 DEF Fits, Session
<1>3. QED
  BY <1>2 DEF Fits

\* The time and the mark of completion of a session do not matter.
LEMMA TouchFits ==
  ASSUME NEW s, NEW A, NEW P, NEW St, NEW B, Fits(s, A, P, St, B), s # NoSession,
         NEW t \in Session, t.cookie = s.cookie, t.helper = s.helper, t.tx = s.tx
  PROVE  Fits(t, A, P, St, B)
  BY DEF Fits

\* completion_tx is used up: the call gets its answer, which is not "over".
LEMMA AnswerFits ==
  ASSUME NEW s, NEW A, NEW P, NEW St, NEW B, Fits(s, A, P, St, B), s # NoSession,
         NEW out \in Verdicts \ {"over"}, out = "ok" => s.cookie \in P,
         NEW t \in Session, t.cookie = s.cookie, ~t.tx, Owns(s.cookie, t.helper, P)
  PROVE  Fits(t, A \cup Answer(s, out), P, St, B)
<1>1. \A a \in Answer(s, out) : s.tx /\ a = [id |-> s.cookie, out |-> out]
  BY DEF Answer
<1>2. s.cookie \in Cookies /\ B[s.cookie] = "begun" /\ (s.tx => \A a \in A : a.id # s.cookie)
  BY DEF Fits
<1>3. A \cup Answer(s, out) \subseteq [id : Cookies, out : Verdicts]
  BY <1>1, <1>2 DEF Fits
<1>4. QED
  BY <1>1, <1>2, <1>3 DEF Fits

\* apply_helper_event.
LEMMA EventFits ==
  ASSUME NEW s, NEW A, NEW P, NEW St, NEW B, Fits(s, A, P, St, B), s # NoSession,
         NEW e \in Events \cup {"none"}, e = "success" => s.cookie \in P
  PROVE  /\ Fits(AfterEvent(s, e), A \cup Verdict(s, e), P, St, B)
         /\ AfterEvent(s, e).cookie = s.cookie
<1>1. s \in Session /\ Owns(s.cookie, s.helper, P) /\ s.cookie \in Cookies
  BY DEF Fits
<1>2. CASE e = "success"
  <2>1. /\ AfterEvent(s, e) \in Session /\ AfterEvent(s, e).cookie = s.cookie
        /\ ~AfterEvent(s, e).tx /\ AfterEvent(s, e).helper = NoHelper
    BY <1>1, <1>2, NoSessionFits DEF AfterEvent, Session, Owns
  <2>2. Owns(s.cookie, NoHelper, P)
    BY NoSessionFits DEF Owns, NoHelper
  <2>3. Verdict(s, e) = Answer(s, "ok")
    BY <1>2 DEF Verdict
  <2>4. QED
    BY <2>1, <2>2, <2>3, <1>2, AnswerFits DEF Verdicts
<1>3. CASE e = "failure"
  <2>1. /\ AfterEvent(s, e) \in Session /\ AfterEvent(s, e).cookie = s.cookie
        /\ ~AfterEvent(s, e).tx /\ AfterEvent(s, e).helper = s.helper
    BY <1>1, <1>3 DEF AfterEvent, Session
  <2>2. Verdict(s, e) = Answer(s, "failed")
    BY <1>3 DEF Verdict
  <2>3. QED
    BY <2>1, <2>2, <1>1, AnswerFits DEF Verdicts
<1>4. CASE e \notin {"success", "failure"}
  BY <1>4 DEF AfterEvent, Verdict
<1>5. QED
  BY <1>2, <1>3, <1>4
\* The reader thread puts an event into the helper's channel.
LEMMA EmitOwns ==
  ASSUME NEW c, NEW h, NEW P, Owns(c, h, P), NEW e \in Emits(h)
  PROVE  Owns(c, Sent(h, e), P \cup Proof(h, e))
<1>1. /\ h \in Helper /\ h.out \in Seq(Events) /\ Len(h.out) \in Nat
      /\ h.on => h.cookie = c
      /\ h.running => h.on
      /\ \A i \in 1..Len(h.out) : h.out[i] = "success" => h.cookie \in P
  BY DEF Owns, Helper
<1>2. e \in Events /\ h.running
  BY DEF Emits, Events
<1>3. /\ Emitted(h, e) \in Helper /\ Emitted(h, e).out = h.out
      /\ Emitted(h, e).on = h.on /\ Emitted(h, e).cookie = h.cookie
  BY <1>1, EmittedIsHelper
<1>4. /\ Sent(h, e) \in Helper /\ Sent(h, e).out = Append(h.out, e)
      /\ Sent(h, e).on = h.on /\ Sent(h, e).cookie = h.cookie
  BY <1>1, <1>2, <1>3 DEF Sent, Helper
<1>5. /\ Len(Append(h.out, e)) = Len(h.out) + 1
      /\ \A i \in 1..Len(h.out) : Append(h.out, e)[i] = h.out[i]
      /\ Append(h.out, e)[Len(h.out) + 1] = e
  BY <1>1, <1>2
<1>6. e = "success" => h.cookie \in Proof(h, e)
  BY DEF Proof
<1>7. \A i \in 1..Len(Sent(h, e).out) :
        Sent(h, e).out[i] = "success" => Sent(h, e).cookie \in P \cup Proof(h, e)
  BY <1>1, <1>4, <1>5, <1>6
<1>8. QED
  BY <1>1, <1>2, <1>4, <1>7 DEF Owns

-----------------------------------------------------------------------------
(***************************************************************************)
(* The actions.                                                            *)
(***************************************************************************)
\* Initially there is no request.
LEMMA InitRequestInv == Init => RequestInv
<1> SUFFICES ASSUME Init PROVE RequestInv
  OBVIOUS
<1>1. begins \in [Cookies -> {"none", "begun"} \cup Kinds] /\ pc = "turn"
  BY DEF Init
<1>2. session = NoSession /\ answers = {} /\ strays = {}
  BY DEF Init
<1>3. Fits(session, answers, proven, strays, begins)
  BY <1>2, NoSessionFits, NoCookieIsNone DEF Fits
<1>4. QED
  BY <1>1, <1>3 DEF RequestInv

\* A step leaves the requests alone and does not begin to apply an event.
LEMMA FrameKeeps ==
  ASSUME RequestInv, UNCHANGED <<session, answers, proven, strays, begins>>,
         pc' = "applying" => pc = "applying" /\ event' = event
  PROVE  RequestInv'
  BY DEF RequestInv

\* What a step that holds active_session must keep.
LEMMA LockedStep ==
  ASSUME RequestInv, UNCHANGED begins, pc' # "applying",
         Fits(session', answers', proven', strays', begins)
  PROVE  RequestInv'
  BY DEF RequestInv

\* More successes are known.
LEMMA KnownFits ==
  ASSUME NEW s, NEW A, NEW P, NEW St, NEW B, Fits(s, A, P, St, B), NEW Q, P \subseteq Q
  PROVE  Fits(s, A, Q, St, B)
  BY DEF Fits, Owns

\* An event is applied at once; a failure removes the session.
LEMMA ApplyFits ==
  ASSUME NEW s, NEW A, NEW P, NEW St, NEW B, Fits(s, A, P, St, B), s # NoSession,
         NEW e \in Events \cup {"none"}, e = "success" => s.cookie \in P
  PROVE  Fits(IF e = "failure" THEN NoSession ELSE AfterEvent(s, e), A \cup Verdict(s, e), P, St, B)
<1>1. Fits(AfterEvent(s, e), A \cup Verdict(s, e), P, St, B)
  BY EventFits
<1>2. Fits(NoSession, A \cup Verdict(s, e), P, St, B)
  BY <1>1, ForgetFits
<1>3. QED
  BY <1>1, <1>2

\* An event of a helper of the session's own is taken and applied at once.
LEMMA TakeFits ==
  ASSUME NEW s, NEW A, NEW P, NEW St, NEW B, Fits(s, A, P, St, B), s # NoSession,
         NEW h, Owns(s.cookie, h, P), NEW r \in Received(h), NEW t,
         t = [s EXCEPT !.helper = r.left]
  PROVE  Fits(IF r.ev = "failure" THEN NoSession ELSE AfterEvent(t, r.ev),
              A \cup Verdict(t, r.ev), P \cup Proof(r.left, r.ev), St, B)
<1> DEFINE Q == P \cup Proof(r.left, r.ev)
<1>1. /\ Owns(s.cookie, r.left, Q) /\ r.ev \in Events \cup {"none"}
      /\ r.ev = "success" => s.cookie \in Q
  BY ReceiveOwns
<1>2. Fits(t, A, Q, St, B) /\ t.cookie = s.cookie
  BY <1>1, HelperFits
<1>3. t # NoSession
  BY <1>2, NoSessionFits, NoCookieIsNone DEF Fits
<1>4. QED
  BY <1>1, <1>2, <1>3, ApplyFits

\* last_interaction_ms does not matter.
LEMMA TouchedFits ==
  ASSUME NEW s, NEW A, NEW P, NEW St, NEW B, Fits(s, A, P, St, B), s # NoSession
  PROVE  /\ Fits(Touched(s), A, P, St, B) /\ Touched(s) # NoSession
         /\ Touched(s).cookie = s.cookie /\ Touched(s).helper = s.helper /\ Touched(s).tx = s.tx
<1>1. s \in Session /\ s.cookie \in Cookies
  BY DEF Fits
<1>2. /\ Touched(s) \in Session /\ Touched(s).cookie = s.cookie
      /\ Touched(s).helper = s.helper /\ Touched(s).tx = s.tx
  BY <1>1 DEF Touched, Session
<1>3. Touched(s) # NoSession
  BY <1>1, <1>2, NoSessionFits, NoCookieIsNone
<1>4. QED
  BY <1>2, <1>3, TouchFits

\* The helper runs beside everybody, also while an event of it is applied.
LEMMA HelperEmitsKeeps == RequestInv /\ HelperEmits => RequestInv'
<1> SUFFICES ASSUME RequestInv, HelperEmits PROVE RequestInv'
  OBVIOUS
<1>1. PICK e \in Emits(session.helper) :
        /\ session' = [session EXCEPT !.helper = Sent(@, e)]
        /\ proven' = proven \cup Proof(session.helper, e)
        /\ UNCHANGED <<answers, strays, begins, pc, event>>
  BY DEF HelperEmits, tasks, loop
<1>2. session # NoSession
  BY NoSessionFits DEF Emits, NoHelper
<1>3. Owns(session.cookie, Sent(session.helper, e), proven')
  BY <1>1, EmitOwns DEF RequestInv, Fits
<1>4. proven \subseteq proven'
  BY <1>1
<1>5. Fits(session', answers, proven', strays, begins) /\ session'.cookie = session.cookie
  BY <1>1, <1>2, <1>3, <1>4, HelperFits DEF RequestInv
<1>6. QED
  BY <1>1, <1>4, <1>5 DEF RequestInv
\* Time only ages the session.
LEMMA AdvanceKeeps == RequestInv /\ Advance => RequestInv'
<1> SUFFICES ASSUME RequestInv, Advance PROVE RequestInv'
  OBVIOUS
<1>1. UNCHANGED <<answers, proven, strays, begins, pc, event>>
  BY DEF Advance, tasks, loop
<1>2. CASE session # NoSession /\ session' = [session EXCEPT !.age = @ + 1]
  <2>1. session \in Session /\ Fits(session, answers, proven, strays, begins)
    BY DEF RequestInv, Fits
  <2>2. /\ session' \in Session /\ session'.cookie = session.cookie
        /\ session'.helper = session.helper /\ session'.tx = session.tx
    BY <1>2, <2>1 DEF Session
  <2>3. Fits(session', answers, proven, strays, begins)
    BY <1>2, <2>1, <2>2, TouchFits
  <2>4. QED
    BY <1>1, <2>2, <2>3 DEF RequestInv
<1>3. CASE session' = session
  BY <1>1, <1>3, FrameKeeps
<1>4. QED
  BY <1>2, <1>3 DEF Advance, SessionWaits

\* tick: one of the two timers ends the session, or it is left alone.
LEMMA TickWorkKeeps == RequestInv /\ TickWork => RequestInv'
<1> SUFFICES ASSUME RequestInv, TickWork PROVE RequestInv'
  OBVIOUS
<1>1. UNCHANGED begins /\ pc' # "applying" /\ TickSession
  BY DEF TickWork, tasks
<1>2. Fits(session, answers, proven, strays, begins)
  BY DEF RequestInv
<1>3. CASE Dropped /\ session' = NoSession /\ proven' = proven
  BY <1>1, <1>2, <1>3, DropFits, LockedStep DEF Dropped
<1>4. CASE Ended /\ session' = NoSession /\ proven' = proven
  BY <1>1, <1>2, <1>4, EndFits, LockedStep DEF Ended
<1>5. CASE UNCHANGED request
  BY <1>1, <1>5, FrameKeeps DEF request
<1>6. QED
  BY <1>1, <1>3, <1>4, <1>5 DEF TickSession

\* An event is taken: if it is a success, the history knows.
LEMMA PollTakeKeeps == RequestInv /\ PollTake => RequestInv'
<1> SUFFICES ASSUME RequestInv, PollTake PROVE RequestInv'
  OBVIOUS
<1>1. PICK r \in Received(session.helper) :
        /\ session' = IF r.ev = "none" THEN session ELSE [Touched(session) EXCEPT !.helper = r.left]
        /\ pc' = IF r.ev = "none" THEN "turn" ELSE "applying"
        /\ event' = r.ev
        /\ proven' = proven \cup Proof(r.left, r.ev)
        /\ UNCHANGED <<answers, strays, begins>>
  BY DEF PollTake, tasks
<1>2. Fits(session, answers, proven, strays, begins)
  BY DEF RequestInv
<1>3. CASE r.ev = "none"
  <2>1. proven' = proven
    BY <1>1, <1>3 DEF Proof
  <2>2. QED
    BY <1>1, <1>3, <2>1, FrameKeeps
<1>4. CASE r.ev # "none"
  <2>1. session # NoSession
    BY <1>4, NoSessionFits DEF Received, Emits, NoHelper
  <2>2. /\ Fits(Touched(session), answers, proven, strays, begins) /\ Touched(session) # NoSession
        /\ Touched(session).cookie = session.cookie
    BY <1>2, <2>1, TouchedFits
  <2>3. /\ Owns(session.cookie, r.left, proven') /\ r.ev \in Events
        /\ r.ev = "success" => session.cookie \in proven'
    BY <1>1, <1>2, <1>4, ReceiveOwns DEF Fits
  <2>4. Fits(session', answers, proven', strays, begins) /\ session'.cookie = session.cookie
    BY <1>1, <1>4, <2>2, <2>3, HelperFits
  <2>5. session.cookie \in Cookies
    BY <1>2, <2>1 DEF Fits
  <2>6. QED
    BY <1>1, <2>3, <2>4, <2>5 DEF RequestInv
<1>5. QED
  BY <1>3, <1>4

\* It is applied to the session it was taken from: active_session was held.
LEMMA PollApplyKeeps == RequestInv /\ PollApply => RequestInv'
<1> SUFFICES ASSUME RequestInv, PollApply PROVE RequestInv'
  OBVIOUS
<1>1. /\ session' = AfterEvent(session, event)
      /\ answers' = answers \cup Verdict(session, event)
      /\ UNCHANGED <<proven, strays, begins>> /\ pc' # "applying"
  BY DEF PollApply, tasks
<1>2. /\ Fits(session, answers, proven, strays, begins)
      /\ event \in Events /\ (event = "success" => session.cookie \in proven)
      /\ session # NoSession
  BY NoSessionFits, NoCookieIsNone DEF RequestInv, PollApply
<1>3. Fits(session', answers', proven, strays, begins)
  BY <1>1, <1>2, EventFits
<1>4. QED
  BY <1>1, <1>3, LockedStep

\* Whatever session is there after a failure is dropped.
LEMMA PollWipeKeeps == RequestInv /\ PollWipe => RequestInv'
<1> SUFFICES ASSUME RequestInv, PollWipe PROVE RequestInv'
  OBVIOUS
<1>1. /\ session' = NoSession /\ Dropped /\ UNCHANGED <<proven, begins>> /\ pc' # "applying"
      /\ Fits(session, answers, proven, strays, begins)
  BY DEF PollWipe, tasks, RequestInv
<1>2. QED
  BY <1>1, DropFits, LockedStep DEF Dropped

\* begin_authentication supersedes the session and starts, or refuses, its own.
LEMMA BeginWorkKeeps ==
  ASSUME RequestInv, NEW c \in Cookies, BeginWork(c)
  PROVE  RequestInv'
<1> DEFINE A == answers \cup Answer(session, "over")
           B == [begins EXCEPT ![c] = "begun"]
<1>1. /\ begins \in [Cookies -> {"none", "begun"} \cup Kinds] /\ begins[c] \in Kinds
      /\ begins' = B /\ pc' # "applying"
      /\ Fits(session, answers, proven, strays, begins)
  BY DEF BeginWork, RequestInv, SessionFree, loop
<1>2. B \in [Cookies -> {"none", "begun"} \cup Kinds]
  BY <1>1
<1>3. Fits(NoSession, A, proven, strays, begins)
  BY <1>1, EndFits
<1>4. Fits(session', answers', proven', strays', B)
  <2>1. CASE BeginFails(c)
    BY <1>1, <1>3, <2>1, RefuseFits DEF BeginFails
  <2>2. CASE BeginOne(c)
    <3>1. PICK r \in Received(NewHelper(c)) :
            /\ answers' = A \cup Verdict(NewSession(c, r.left), r.ev)
            /\ proven' = proven \cup Proof(r.left, r.ev)
            /\ session' = IF r.ev = "failure" THEN NoSession
                          ELSE AfterEvent(NewSession(c, r.left), r.ev)
            /\ strays' = strays
      BY <2>2 DEF BeginOne
    <3>2. /\ Owns(c, r.left, proven') /\ r.ev \in Events \cup {"none"}
          /\ r.ev = "success" => c \in proven'
      BY <3>1, NewHelperOwns, ReceiveOwns
    <3>3. Fits(NoSession, A, proven', strays, begins)
      BY <1>3, <3>1, KnownFits
    <3>4. Fits(NewSession(c, r.left), A, proven', strays, B)
      BY <1>1, <3>2, <3>3, StartFits
    <3>5. NewSession(c, r.left).cookie = c /\ NewSession(c, r.left) # NoSession
      BY NoSessionFits, NoCookieIsNone DEF NewSession
    <3>6. QED
      BY <3>1, <3>2, <3>4, <3>5, ApplyFits
  <2>3. CASE BeginMany(c)
    <3>1. /\ answers' = A /\ strays' = strays /\ proven' = proven
          /\ session' = NewSession(c, NoHelper)
      BY <2>3 DEF BeginMany, Ended
    <3>2. Owns(c, NoHelper, proven)
      BY NoSessionFits DEF Owns, NoHelper
    <3>3. QED
      BY <1>1, <1>3, <3>1, <3>2, StartFits
  <2>4. QED
    BY <2>1, <2>2, <2>3 DEF BeginWork
<1>5. QED
  BY <1>1, <1>2, <1>4 DEF RequestInv

\* cancel_authentication ends the session of its own request only.
LEMMA CancelTakeKeeps ==
  ASSUME RequestInv, NEW c \in Cookies, CancelTake(c)
  PROVE  RequestInv'
<1>1. UNCHANGED <<proven, begins>> /\ pc' # "applying"
      /\ Fits(session, answers, proven, strays, begins)
  BY DEF CancelTake, SessionFree, loop, RequestInv
<1>2. CASE Ended /\ session' = NoSession
  BY <1>1, <1>2, EndFits, LockedStep DEF Ended
<1>3. CASE UNCHANGED <<session, strays, answers>>
  BY <1>1, <1>3, FrameKeeps
<1>4. QED
  BY <1>2, <1>3 DEF CancelTake
\* A command of the port: every one that finds its session changes that only.
LEMMA ProcessItemKeeps ==
  ASSUME RequestInv, NEW u \in Callers, ProcessItem(u)
  PROVE  RequestInv'
<1>1. UNCHANGED <<begins, pc, event>> /\ Fits(session, answers, proven, strays, begins)
  BY DEF ProcessItem, tasks, loop, RequestInv
<1>2. CASE UNCHANGED request
  BY <1>1, <1>2, FrameKeeps DEF request
<1>3. ASSUME NEW cmd, NEW out, SessionFree, ApplySelect(cmd, out)
      PROVE  RequestInv'
  <2> DEFINE s == Touched(session)
  <2>1. pc' # "applying" /\ session # NoSession /\ strays' = strays
    BY <1>1, <1>3 DEF SessionFree, ApplySelect, Matches
  <2>2. /\ Fits(s, answers, proven, strays, begins) /\ s # NoSession
        /\ s.cookie \in Cookies /\ s \in Session /\ Owns(s.cookie, s.helper, proven)
    <3>1. Fits(s, answers, proven, strays, begins) /\ s # NoSession
      BY <1>1, <2>1, TouchedFits
    <3> HIDE DEF s
    <3>2. QED
      BY <3>1 DEF Fits
  <2>3. CASE session' = s /\ UNCHANGED <<answers, proven>>
    BY <1>1, <2>1, <2>2, <2>3, LockedStep
  <2>4. CASE session' = [s EXCEPT !.tx = FALSE] /\ answers' = answers \cup Answer(s, "refused")
             /\ proven' = proven
    <3>1. /\ session' \in Session /\ session'.cookie = s.cookie /\ ~session'.tx
          /\ session'.helper = s.helper
      BY <2>2, <2>4 DEF Session
    <3>2. Fits(session', answers', proven, strays, begins)
      BY <2>2, <2>4, <3>1, AnswerFits DEF Verdicts
    <3>3. QED
      BY <1>1, <2>1, <2>4, <3>2, LockedStep
  <2>5. CASE \E r \in Received(NewHelper(s.cookie)) :
               LET t == [s EXCEPT !.helper = r.left]
               IN /\ answers' = answers \cup Verdict(t, r.ev)
                  /\ proven' = proven \cup Proof(r.left, r.ev)
                  /\ session' = IF r.ev = "failure" THEN NoSession ELSE AfterEvent(t, r.ev)
    <3>1. PICK r \in Received(NewHelper(s.cookie)) :
            LET t == [s EXCEPT !.helper = r.left]
            IN /\ answers' = answers \cup Verdict(t, r.ev)
               /\ proven' = proven \cup Proof(r.left, r.ev)
               /\ session' = IF r.ev = "failure" THEN NoSession ELSE AfterEvent(t, r.ev)
      BY <2>5
    <3>2. Owns(s.cookie, NewHelper(s.cookie), proven)
      BY <2>2, NewHelperOwns
    <3> HIDE DEF s
    <3>3. Fits(session', answers', proven', strays, begins)
      BY <2>2, <3>1, <3>2, TakeFits
    <3>4. QED
      BY <1>1, <2>1, <3>3, LockedStep
  <2>6. QED
    BY <1>3, <2>3, <2>4, <2>5 DEF ApplySelect
<1>4. ASSUME NEW cmd, NEW out, SessionFree, ApplyRespond(cmd, out)
      PROVE  RequestInv'
  <2> DEFINE s == Touched(session)
  <2>1. pc' # "applying" /\ session # NoSession /\ strays' = strays
    BY <1>1, <1>4 DEF SessionFree, ApplyRespond, Matches
  <2>2. /\ Fits(s, answers, proven, strays, begins) /\ s # NoSession
        /\ Owns(s.cookie, s.helper, proven)
    <3>1. Fits(s, answers, proven, strays, begins) /\ s # NoSession
      BY <1>1, <2>1, TouchedFits
    <3> HIDE DEF s
    <3>2. QED
      BY <3>1 DEF Fits
  <2>3. CASE session' = s /\ UNCHANGED <<answers, proven>>
    BY <1>1, <2>1, <2>2, <2>3, LockedStep
  <2>4. CASE \E r \in Received(s.helper) :
               LET t == [s EXCEPT !.helper = r.left]
               IN /\ answers' = answers \cup Verdict(t, r.ev)
                  /\ proven' = proven \cup Proof(r.left, r.ev)
                  /\ session' = IF r.ev = "failure" THEN NoSession ELSE AfterEvent(t, r.ev)
    <3>1. PICK r \in Received(s.helper) :
            LET t == [s EXCEPT !.helper = r.left]
            IN /\ answers' = answers \cup Verdict(t, r.ev)
               /\ proven' = proven \cup Proof(r.left, r.ev)
               /\ session' = IF r.ev = "failure" THEN NoSession ELSE AfterEvent(t, r.ev)
      BY <2>4
    <3> HIDE DEF s
    <3>2. Fits(session', answers', proven', strays, begins)
      BY <2>2, <3>1, TakeFits
    <3>3. QED
      BY <1>1, <2>1, <3>2, LockedStep
  <2>5. QED
    BY <1>4, <2>3, <2>4 DEF ApplyRespond
<1>5. ASSUME NEW cmd, NEW out, SessionFree, ApplyCancel(cmd, out)
      PROVE  RequestInv'
  <2>1. pc' # "applying" /\ Ended /\ session' = NoSession /\ proven' = proven
    BY <1>1, <1>5 DEF SessionFree, ApplyCancel
  <2>2. QED
    BY <1>1, <2>1, EndFits, LockedStep DEF Ended
<1>6. CASE \E cmd, out :
             /\ cmd.op # "mark" => SessionFree
             /\ \/ ApplyMark(cmd, out) \/ ApplyNotFound(cmd, out)
                \/ ApplySelect(cmd, out) \/ ApplyRespond(cmd, out) \/ ApplyCancel(cmd, out)
  <2>1. PICK cmd, out :
          /\ cmd.op # "mark" => SessionFree
          /\ \/ ApplyMark(cmd, out) \/ ApplyNotFound(cmd, out)
             \/ ApplySelect(cmd, out) \/ ApplyRespond(cmd, out) \/ ApplyCancel(cmd, out)
    BY <1>6
  <2>2. CASE ApplyMark(cmd, out) \/ ApplyNotFound(cmd, out)
    BY <1>2, <2>2 DEF ApplyMark, ApplyNotFound
  <2>3. CASE ApplySelect(cmd, out)
    <3>1. SessionFree
      BY <2>1, <2>3 DEF ApplySelect
    <3>2. QED
      BY <1>3, <2>3, <3>1
  <2>4. CASE ApplyRespond(cmd, out)
    <3>1. SessionFree
      BY <2>1, <2>4 DEF ApplyRespond
    <3>2. QED
      BY <1>4, <2>4, <3>1
  <2>5. CASE ApplyCancel(cmd, out)
    <3>1. SessionFree
      BY <2>1, <2>5 DEF ApplyCancel
    <3>2. QED
      BY <1>5, <2>5, <3>1
  <2>6. QED
    BY <2>1, <2>2, <2>3, <2>4, <2>5
<1>7. QED
  BY <1>2, <1>6 DEF ProcessItem

\* shutdown ends the session.
LEMMA StopWorkKeeps == RequestInv /\ StopWork => RequestInv'
<1> SUFFICES ASSUME RequestInv, StopWork PROVE RequestInv'
  OBVIOUS
<1>1. /\ session' = NoSession /\ Ended /\ UNCHANGED <<proven, begins>> /\ pc' # "applying"
      /\ Fits(session, answers, proven, strays, begins)
  BY DEF StopWork, SessionFree, tasks, loop, RequestInv
<1>2. QED
  BY <1>1, EndFits, LockedStep DEF Ended

\* A request that waits for active_session has not begun.
LEMMA BeginLockKeeps ==
  ASSUME RequestInv, NEW c \in Cookies, NEW k \in Kinds, BeginLock(c, k)
  PROVE  RequestInv'
<1>1. /\ begins[c] = "none" /\ begins' = [begins EXCEPT ![c] = k]
      /\ UNCHANGED <<session, answers, proven, strays, pc, event>>
  BY DEF BeginLock, request, loop
<1>2. begins \in [Cookies -> {"none", "begun"} \cup Kinds]
  BY DEF RequestInv
<1>3. \A d \in Cookies : begins[d] = "begun" => begins'[d] = "begun"
  BY <1>1, <1>2
<1>4. Fits(session, answers, proven, strays, begins')
  <2>1. Fits(session, answers, proven, strays, begins)
    BY DEF RequestInv
  <2>2. QED
    BY <1>3, <2>1 DEF Fits
<1>5. QED
  BY <1>1, <1>2, <1>4 DEF RequestInv

\* Every step keeps the invariant.
LEMMA NextKeepsRequestInv == RequestInv /\ [Next]_vars => RequestInv'
<1> SUFFICES ASSUME RequestInv, [Next]_vars PROVE RequestInv'
  OBVIOUS
<1>1. CASE SupervisorTask
  <2>1. CASE Turn \/ ReportFailure \/ Registered \/ BeginStart \/ MarkReady \/ TickLock
    <3>1. UNCHANGED <<session, answers, proven, strays, begins>> /\ pc' # "applying"
      BY <2>1 DEF Turn, ReportFailure, Registered, BeginStart, MarkReady, TickLock, request, tasks
    <3>2. QED
      BY <3>1, FrameKeeps
  <2>2. QED
    BY <1>1, <2>1, TickWorkKeeps, PollTakeKeeps, PollApplyKeeps, PollWipeKeeps DEF SupervisorTask
<1>2. ASSUME NEW c \in Cookies, AuthorityTask(c) \/ Authority(c)
      PROVE  RequestInv'
  <2>1. CASE CancelClear(c)
    BY <2>1, FrameKeeps DEF CancelClear, loop
  <2>2. QED
    BY <1>2, <2>1, BeginWorkKeeps, BeginLockKeeps, CancelTakeKeeps DEF AuthorityTask, Authority
<1>3. ASSUME NEW u \in Callers, PortTask(u) \/ \E cmd \in Commands : CallSubmit(u, cmd)
      PROVE  RequestInv'
  <2>1. CASE CallProcess(u) \/ \E cmd \in Commands : CallSubmit(u, cmd)
    <3>1. UNCHANGED <<session, answers, proven, strays, begins, pc, event>>
      BY <2>1 DEF CallProcess, CallSubmit, request, tasks, loop
    <3>2. QED
      BY <3>1, FrameKeeps
  <2>2. QED
    BY <1>3, <2>1, ProcessItemKeeps DEF PortTask
<1>4. CASE PortReset \/ StopLock \/ ConnLost \/ UNCHANGED vars
  <2>1. UNCHANGED <<session, answers, proven, strays, begins, pc, event>>
    BY <1>4 DEF PortReset, StopLock, ConnLost, vars, request, tasks, loop
  <2>2. QED
    BY <2>1, FrameKeeps
<1>5. QED
  BY <1>1, <1>2, <1>3, <1>4, StopWorkKeeps, HelperEmitsKeeps, AdvanceKeeps DEF Next

-----------------------------------------------------------------------------
(***************************************************************************)
(* What the Authority is told.                                             *)
(***************************************************************************)
\* A BeginAuthentication call returns Ok only if the helper that was spawned
\* for its own request reported Success, and its completion_tx is used at most
\* once, whatever supersedes, cancels, times out, drops or stops its session.
THEOREM GrantedByOwnHelperOnce == Spec => []OkOnlyAfterOwnSuccess
<1>1. RequestInv => OkOnlyAfterOwnSuccess
  BY DEF RequestInv, Fits, OkOnlyAfterOwnSuccess
<1>2. QED
  BY InitRequestInv, NextKeepsRequestInv, <1>1, PTL DEF Spec

\* The paths of the agent that take a session and answer its call with an
\* error, leave no helper of that request running; those that drop a helper
\* do so for requests with another answer.
THEOREM NothingRunsBehind == Spec => []OverMeansNoHelper
<1>1. RequestInv => OverMeansNoHelper
  BY DEF RequestInv, Fits, OverMeansNoHelper
<1>2. QED
  BY InitRequestInv, NextKeepsRequestInv, <1>1, PTL DEF Spec
-----------------------------------------------------------------------------
(***************************************************************************)
(* The dialog.  Its cookie is written under inner, the session under       *)
(* active_session, so that the two can part.  They do not, because every   *)
(* step that writes the dialog holds active_session as well: a             *)
(* cancellation between its two steps keeps others from beginning a        *)
(* session, and only a failure, which lets go of active_session before it  *)
(* takes the session, leaves one that is not shown ("wipe").               *)
(***************************************************************************)
Shown ==
  /\ cancels \in [Cookies -> {"none", "clearing", "done"}]
  /\ session # NoSession /\ pc # "wipe" => dialog = session.cookie
  /\ \A c \in Cookies : cancels[c] = "clearing" => session = NoSession /\ pc # "applying"

DialogInv == RequestInv /\ Shown

\* What a step that needs active_session must do.
LEMMA FreeStepShows ==
  ASSUME DialogInv, SessionFree, UNCHANGED cancels,
         session' = NoSession \/ dialog' = session'.cookie \/ pc' = "wipe"
  PROVE  Shown'
  BY DEF DialogInv, Shown, SessionFree

\* A step that leaves the session's request and the dialog alone.
LEMMA SameShows ==
  ASSUME DialogInv, UNCHANGED <<dialog, cancels>>,
         session' = NoSession \/ (session # NoSession /\ session'.cookie = session.cookie),
         pc' = "wipe" <=> pc = "wipe",
         pc' = "applying" => pc = "applying" \/ SessionFree
  PROVE  Shown'
  BY DEF DialogInv, Shown, SessionFree

\* Events do not change whose session it is.
LEMMA EventKeepsCookie ==
  ASSUME NEW s \in Session, NEW e
  PROVE  AfterEvent(s, e).cookie = s.cookie
<1>1. CASE e = "success"
  BY <1>1 DEF AfterEvent, Session
<1>2. CASE e = "failure"
  BY <1>2 DEF AfterEvent, Session
<1>3. CASE e \notin {"success", "failure"}
  BY <1>3 DEF AfterEvent
<1>4. QED
  BY <1>1, <1>2, <1>3

\* Nor does a helper that is put into it.
LEMMA HelperKeepsCookie ==
  ASSUME NEW s \in Session, NEW c, NEW h, NEW P, Owns(c, h, P), NEW r \in Received(h), NEW t,
         t = [s EXCEPT !.helper = r.left]
  PROVE  AfterEvent(t, r.ev).cookie = s.cookie
<1>1. r.left \in Helper
  BY ReceiveOwns DEF Owns
<1>2. t \in Session /\ t.cookie = s.cookie
  BY <1>1 DEF Session
<1>3. QED
  BY <1>2, EventKeepsCookie

\* tick closes the dialog with the session.
LEMMA TickWorkShows == DialogInv /\ TickWork => Shown'
<1> SUFFICES ASSUME DialogInv, TickWork
             PROVE  Shown'
  OBVIOUS
<1>1. SessionFree /\ UNCHANGED cancels /\ TickSession /\ pc # "wipe" /\ pc' # "wipe"
      /\ pc' # "applying"
  BY DEF TickWork, tasks
<1>2. CASE session' = NoSession
  BY <1>1, <1>2, FreeStepShows
<1>3. CASE UNCHANGED request
  BY <1>1, <1>3, SameShows DEF request
<1>4. QED
  BY <1>1, <1>2, <1>3 DEF TickSession

\* Taking an event keeps the session; active_session stays held.
LEMMA PollTakeShows == DialogInv /\ PollTake => Shown'
<1> SUFFICES ASSUME DialogInv, PollTake
             PROVE  Shown'
  OBVIOUS
<1>1. PICK r \in Received(session.helper) :
        /\ session' = IF r.ev = "none" THEN session ELSE [Touched(session) EXCEPT !.helper = r.left]
        /\ pc' = IF r.ev = "none" THEN "turn" ELSE "applying"
        /\ pc = "poll" /\ SessionFree /\ UNCHANGED <<dialog, cancels>>
  BY DEF PollTake, tasks
<1>2. Fits(session, answers, proven, strays, begins)
  BY DEF DialogInv, RequestInv
<1>3. CASE r.ev = "none"
  BY <1>1, <1>3, SameShows
<1>4. CASE r.ev # "none"
  <2>1. session # NoSession
    BY <1>4, NoSessionFits DEF Received, Emits, NoHelper
  <2>2. /\ Touched(session).cookie = session.cookie /\ Touched(session) \in Session
    <3>1. /\ Touched(session).cookie = session.cookie
          /\ Fits(Touched(session), answers, proven, strays, begins)
      BY <1>2, <2>1, TouchedFits
    <3>2. QED
      BY <3>1 DEF Fits
  <2>3. session'.cookie = session.cookie
    BY <1>1, <1>4, <2>2 DEF Session
  <2>4. QED
    BY <1>1, <1>4, <2>1, <2>3, SameShows
<1>5. QED
  BY <1>3, <1>4

\* A failure closes the dialog and leaves the session for the next step.
LEMMA PollApplyShows == DialogInv /\ PollApply => Shown'
<1> SUFFICES ASSUME DialogInv, PollApply
             PROVE  Shown'
  OBVIOUS
<1>1. /\ session' = AfterEvent(session, event) /\ UNCHANGED cancels /\ pc = "applying"
      /\ dialog' = IF event = "failure" THEN NoCookie ELSE dialog
      /\ pc' = IF event = "failure" THEN "wipe" ELSE "turn"
  BY DEF PollApply, tasks
<1>2. session \in Session /\ session # NoSession
  BY <1>1, NoSessionFits, NoCookieIsNone DEF DialogInv, RequestInv, Fits
<1>3. session'.cookie = session.cookie
  BY <1>1, <1>2, EventKeepsCookie
<1>4. QED
  BY <1>1, <1>2, <1>3 DEF DialogInv, Shown

\* begin_authentication shows the request whose session it begins.
LEMMA BeginWorkShows ==
  ASSUME DialogInv, NEW c \in Cookies, BeginWork(c)
  PROVE  Shown'
<1>1. SessionFree /\ UNCHANGED cancels
  BY DEF BeginWork
<1>2. session' = NoSession \/ dialog' = session'.cookie
  <2>1. CASE BeginFails(c)
    BY <2>1 DEF BeginFails
  <2>2. CASE BeginOne(c)
    <3>1. PICK r \in Received(NewHelper(c)) :
            /\ session' = IF r.ev = "failure" THEN NoSession
                          ELSE AfterEvent(NewSession(c, r.left), r.ev)
            /\ dialog' = IF r.ev = "failure" THEN NoCookie ELSE c
      BY <2>2 DEF BeginOne
    <3>2. r.left \in Helper
      BY NewHelperOwns, ReceiveOwns DEF Owns
    <3>3. NewSession(c, r.left) \in Session /\ NewSession(c, r.left).cookie = c
      BY <3>2 DEF NewSession, Session
    <3>4. QED
      BY <3>1, <3>3, EventKeepsCookie
  <2>3. CASE BeginMany(c)
    BY <2>3 DEF BeginMany, NewSession
  <2>4. QED
    BY <2>1, <2>2, <2>3 DEF BeginWork
<1>3. QED
  BY <1>1, <1>2, FreeStepShows

\* cancel_authentication takes the session before it closes the dialog.
LEMMA CancelTakeShows ==
  ASSUME DialogInv, NEW c \in Cookies, CancelTake(c)
  PROVE  Shown'
<1>1. /\ SessionFree /\ UNCHANGED <<dialog, pc>>
      /\ \/ session' = NoSession /\ cancels' = [cancels EXCEPT ![c] = "clearing"]
         \/ session' = session /\ cancels' = [cancels EXCEPT ![c] = "done"]
  BY DEF CancelTake, loop
<1>2. QED
  BY <1>1 DEF DialogInv, Shown, SessionFree

\* Nobody began a session between its two steps.
LEMMA CancelClearShows ==
  ASSUME DialogInv, NEW c \in Cookies, CancelClear(c)
  PROVE  Shown'
<1>1. /\ cancels[c] = "clearing" /\ cancels' = [cancels EXCEPT ![c] = "done"]
      /\ UNCHANGED <<session, pc>>
  BY DEF CancelClear, loop
<1>2. session = NoSession
  BY <1>1 DEF DialogInv, Shown
<1>3. QED
  BY <1>1, <1>2 DEF DialogInv, Shown

\* A command shows the session that it found, or closes both.
LEMMA ProcessItemShows ==
  ASSUME DialogInv, NEW u \in Callers, ProcessItem(u)
  PROVE  Shown'
<1>1. UNCHANGED <<cancels, pc>> /\ Fits(session, answers, proven, strays, begins)
  BY DEF ProcessItem, tasks, loop, DialogInv, RequestInv
<1>2. CASE UNCHANGED request
  BY <1>1, <1>2, SameShows DEF request, DialogInv, RequestInv
<1>3. ASSUME session # NoSession
      PROVE  /\ Touched(session).cookie = session.cookie /\ Touched(session) \in Session
             /\ Owns(session.cookie, Touched(session).helper, proven) /\ session.cookie \in Cookies
  <2>1. /\ Touched(session).cookie = session.cookie
        /\ Fits(Touched(session), answers, proven, strays, begins)
    BY <1>1, <1>3, TouchedFits
  <2>2. Touched(session) \in Session
        /\ Owns(Touched(session).cookie, Touched(session).helper, proven)
    BY <2>1 DEF Fits
  <2>3. session.cookie \in Cookies
    BY <1>1, <1>3 DEF Fits
  <2>4. QED
    BY <2>1, <2>2, <2>3
<1>4. ASSUME NEW cmd, NEW out, SessionFree, ApplySelect(cmd, out)
      PROVE  Shown'
  <2> DEFINE s == Touched(session)
  <2>1. session # NoSession
    BY <1>4 DEF ApplySelect, Matches
  <2>2. s \in Session /\ s.cookie = session.cookie /\ s.cookie \in Cookies
    BY <1>3, <2>1
  <2>3. CASE session' = s /\ dialog' = s.cookie
    BY <1>1, <1>4, <2>3, FreeStepShows
  <2>4. CASE session' = [s EXCEPT !.tx = FALSE] /\ dialog' = dialog
    <3>1. session'.cookie = session.cookie
      BY <2>2, <2>4 DEF Session
    <3>2. QED
      BY <1>1, <2>1, <2>4, <3>1, SameShows
  <2>5. CASE \E r \in Received(NewHelper(s.cookie)) :
               LET t == [s EXCEPT !.helper = r.left]
               IN /\ session' = IF r.ev = "failure" THEN NoSession ELSE AfterEvent(t, r.ev)
                  /\ dialog' = IF r.ev = "failure" THEN NoCookie ELSE t.cookie
    <3>1. PICK r \in Received(NewHelper(s.cookie)) :
               LET t == [s EXCEPT !.helper = r.left]
               IN /\ session' = IF r.ev = "failure" THEN NoSession ELSE AfterEvent(t, r.ev)
                  /\ dialog' = IF r.ev = "failure" THEN NoCookie ELSE t.cookie
      BY <2>5
    <3> DEFINE t == [s EXCEPT !.helper = r.left]
    <3>2. t.cookie = s.cookie
      BY <2>2 DEF Session
    <3>3. AfterEvent(t, r.ev).cookie = s.cookie
      <4>1. Owns(s.cookie, NewHelper(s.cookie), proven)
        BY <2>2, NewHelperOwns
      <4> HIDE DEF s
      <4>2. QED
        BY <2>2, <4>1, HelperKeepsCookie
    <3>4. session' = NoSession \/ dialog' = session'.cookie
      BY <3>1, <3>2, <3>3
    <3>5. QED
      BY <1>1, <1>4, <3>4, FreeStepShows
  <2>6. QED
    BY <1>4, <2>3, <2>4, <2>5 DEF ApplySelect
<1>5. ASSUME NEW cmd, NEW out, SessionFree, ApplyRespond(cmd, out)
      PROVE  Shown'
  <2> DEFINE s == Touched(session)
  <2>1. session # NoSession
    BY <1>5 DEF ApplyRespond, Matches
  <2>2. s \in Session /\ s.cookie = session.cookie /\ Owns(session.cookie, s.helper, proven)
    BY <1>3, <2>1
  <2>3. CASE session' = s /\ dialog' = dialog
    BY <1>1, <2>1, <2>2, <2>3, SameShows
  <2>4. CASE \E r \in Received(s.helper) :
               LET t == [s EXCEPT !.helper = r.left]
               IN /\ session' = IF r.ev = "failure" THEN NoSession ELSE AfterEvent(t, r.ev)
                  /\ dialog' = IF r.ev = "failure" THEN NoCookie ELSE dialog
    <3>1. PICK r \in Received(s.helper) :
               LET t == [s EXCEPT !.helper = r.left]
               IN /\ session' = IF r.ev = "failure" THEN NoSession ELSE AfterEvent(t, r.ev)
                  /\ dialog' = IF r.ev = "failure" THEN NoCookie ELSE dialog
      BY <2>4
    <3> DEFINE t == [s EXCEPT !.helper = r.left]
    <3>2. AfterEvent(t, r.ev).cookie = s.cookie
      <4> HIDE DEF s
      <4>1. QED
        BY <2>2, HelperKeepsCookie
    <3>3. CASE r.ev = "failure"
      BY <1>1, <1>5, <3>1, <3>3, FreeStepShows
    <3>4. CASE r.ev # "failure"
      BY <1>1, <2>1, <2>2, <3>1, <3>2, <3>4, SameShows
    <3>5. QED
      BY <3>3, <3>4
  <2>5. QED
    BY <1>5, <2>3, <2>4 DEF ApplyRespond
<1>6. ASSUME NEW cmd, NEW out, SessionFree, ApplyCancel(cmd, out)
      PROVE  Shown'
  BY <1>1, <1>6, FreeStepShows DEF ApplyCancel
<1>7. CASE \E cmd, out :
             /\ cmd.op # "mark" => SessionFree
             /\ \/ ApplyMark(cmd, out) \/ ApplyNotFound(cmd, out)
                \/ ApplySelect(cmd, out) \/ ApplyRespond(cmd, out) \/ ApplyCancel(cmd, out)
  <2>1. PICK cmd, out :
          /\ cmd.op # "mark" => SessionFree
          /\ \/ ApplyMark(cmd, out) \/ ApplyNotFound(cmd, out)
             \/ ApplySelect(cmd, out) \/ ApplyRespond(cmd, out) \/ ApplyCancel(cmd, out)
    BY <1>7
  <2>2. CASE ApplyMark(cmd, out) \/ ApplyNotFound(cmd, out)
    BY <1>2, <2>2 DEF ApplyMark, ApplyNotFound
  <2>3. CASE ApplySelect(cmd, out)
    <3>1. SessionFree
      BY <2>1, <2>3 DEF ApplySelect
    <3>2. QED
      BY <1>4, <2>3, <3>1
  <2>4. CASE ApplyRespond(cmd, out)
    <3>1. SessionFree
      BY <2>1, <2>4 DEF ApplyRespond
    <3>2. QED
      BY <1>5, <2>4, <3>1
  <2>5. CASE ApplyCancel(cmd, out)
    <3>1. SessionFree
      BY <2>1, <2>5 DEF ApplyCancel
    <3>2. QED
      BY <1>6, <2>5, <3>1
  <2>6. QED
    BY <2>1, <2>2, <2>3, <2>4, <2>5
<1>8. QED
  BY <1>2, <1>7 DEF ProcessItem

\* The helper and the clock change the session, never whose it is.
LEMMA EnvironmentShows ==
  DialogInv /\ (HelperEmits \/ Advance) => Shown'
<1> SUFFICES ASSUME DialogInv, HelperEmits \/ Advance
             PROVE  Shown'
  OBVIOUS
<1>1. UNCHANGED <<dialog, cancels, pc>> /\ session \in Session
  BY DEF HelperEmits, Advance, tasks, loop, DialogInv, RequestInv, Fits
<1>2. session' = session \/ (session # NoSession /\ session'.cookie = session.cookie)
  <2>1. CASE HelperEmits
    <3>1. session # NoSession
      BY <2>1, NoSessionFits DEF HelperEmits, Emits, NoHelper
    <3>2. QED
      BY <1>1, <2>1, <3>1 DEF HelperEmits, Session
  <2>2. CASE Advance
    BY <1>1, <2>2 DEF Advance, SessionWaits, Session
  <2>3. QED
    BY <2>1, <2>2
<1>3. QED
  BY <1>1, <1>2, SameShows

\* Every step keeps the invariant.
LEMMA NextKeepsDialogInv == DialogInv /\ [Next]_vars => DialogInv'
<1> SUFFICES ASSUME DialogInv, [Next]_vars PROVE DialogInv'
  OBVIOUS
<1>1. RequestInv'
  BY NextKeepsRequestInv DEF DialogInv
<1> SUFFICES Shown'
  BY <1>1 DEF DialogInv
<1>2. CASE SupervisorTask
  <2>1. CASE Turn \/ ReportFailure \/ Registered \/ BeginStart \/ MarkReady \/ TickLock
    <3>1. UNCHANGED <<session, dialog, cancels>> /\ pc' # "applying" /\ pc' # "wipe" /\ pc # "wipe"
      BY <2>1 DEF Turn, ReportFailure, Registered, BeginStart, MarkReady, TickLock, request, tasks
    <3>2. QED
      BY <3>1, SameShows
  <2>2. CASE PollWipe
    BY <2>2, FreeStepShows DEF PollWipe, tasks
  <2>3. QED
    BY <1>2, <2>1, <2>2, TickWorkShows, PollTakeShows, PollApplyShows DEF SupervisorTask
<1>3. ASSUME NEW c \in Cookies, AuthorityTask(c) \/ Authority(c)
      PROVE  Shown'
  <2>1. CASE \E k \in Kinds : BeginLock(c, k)
    <3>1. UNCHANGED <<session, dialog, cancels, pc>>
      BY <2>1 DEF BeginLock, request, loop
    <3>2. QED
      BY <3>1, SameShows
  <2>2. QED
    BY <1>3, <2>1, BeginWorkShows, CancelTakeShows, CancelClearShows DEF AuthorityTask, Authority
<1>4. ASSUME NEW u \in Callers, PortTask(u) \/ \E cmd \in Commands : CallSubmit(u, cmd)
      PROVE  Shown'
  <2>1. CASE CallProcess(u) \/ \E cmd \in Commands : CallSubmit(u, cmd)
    <3>1. UNCHANGED <<session, dialog, cancels, pc>>
      BY <2>1 DEF CallProcess, CallSubmit, request, tasks, loop
    <3>2. QED
      BY <3>1, SameShows
  <2>2. QED
    BY <1>4, <2>1, ProcessItemShows DEF PortTask
<1>5. CASE PortReset \/ StopLock \/ ConnLost \/ UNCHANGED vars
  <2>1. UNCHANGED <<session, dialog, cancels, pc>>
    BY <1>5 DEF PortReset, StopLock, ConnLost, vars, request, tasks, loop
  <2>2. QED
    BY <2>1, SameShows
<1>6. CASE StopWork
  BY <1>6, FreeStepShows DEF StopWork, tasks
<1>7. QED
  BY <1>2, <1>3, <1>4, <1>5, <1>6, EnvironmentShows DEF Next

\* The shell displays the request that can be answered: when neither mutex is
\* held, and a failure is not half applied, a session that is there is the one
\* of the dialog, whatever cancellations, events and new requests overlapped.
THEOREM DialogIsTheSession == Spec => []DialogShowsSession
<1>1. Init => DialogInv
  <2> SUFFICES ASSUME Init PROVE DialogInv
    OBVIOUS
  <2>1. session = NoSession /\ \A c \in Cookies : cancels[c] = "none"
    BY DEF Init
  <2>2. cancels \in [Cookies -> {"none", "clearing", "done"}]
    BY DEF Init
  <2>3. QED
    BY <2>1, <2>2, InitRequestInv DEF DialogInv, Shown
<1>2. DialogInv => DialogShowsSession
  BY DEF DialogInv, Shown, DialogShowsSession
<1>3. QED
  BY <1>1, NextKeepsDialogInv, <1>2, PTL DEF Spec
-----------------------------------------------------------------------------
(***************************************************************************)
(* The mailbox.  The port implements CommandMailbox with the queue as the  *)
(* open commands: a ticket's id is given out once, waits in one place of   *)
(* the queue, and has an outcome only after it left it.  That a command is *)
(* taken from a queue that is not empty rests on the mutex: whoever        *)
(* processes holds inner, and nobody else changes the queue meanwhile.     *)
(***************************************************************************)
MailOp == [op : {"mark", "dismiss", "select", "respond", "cancel"}, cookie : Cookies \cup {NoCookie}]

MailItem == [id : Nat, cmd : MailOp, gen : Nat]

MailType ==
  /\ queue \in Seq(MailItem) /\ nextId \in Nat \ {0} /\ calls \in Nat /\ gen \in Nat
  /\ nextId <= calls + 1 /\ calls <= MaxCalls
  /\ caller \in [Callers -> {"none", "queued", "processing"}]

\* Ids are given out once, and a waiting command has no outcome.
TicketsInv ==
  /\ \A i \in 1..Len(queue) : queue[i].id \in 1..(nextId - 1)
  /\ \A i, j \in 1..Len(queue) : queue[i].id = queue[j].id => i = j
  /\ \A o \in outcomes : o.id \in 1..(nextId - 1) /\ o.id \notin Unresolved

\* inner is held by one thread.
ProcessorInv ==
  \A u \in Callers : caller[u] = "processing" =>
    queue # <<>> /\ stop # "stopping" /\ \A v \in Callers : caller[v] = "processing" => v = u

MailInv == MailType /\ TicketsInv /\ ProcessorInv

\* VecDeque::remove(i): the result is a queue shorter by one, whose elements
\* are those of the old one in order, without the i-th.
LEMMA WithoutProperties ==
  ASSUME queue \in Seq(MailItem), NEW i \in 1..Len(queue)
  PROVE  /\ Without(i) \in Seq(MailItem)
         /\ Len(Without(i)) = Len(queue) - 1
         /\ \A j \in 1..(Len(queue) - 1) :
              Without(i)[j] = IF j < i THEN queue[j] ELSE queue[j + 1]
<1>1. Len(queue) - 1 \in Nat
  OBVIOUS
<1>2. \A j \in 1..(Len(queue) - 1) : (IF j < i THEN queue[j] ELSE queue[j + 1]) \in MailItem
  OBVIOUS
<1>3. Without(i) \in [1..(Len(queue) - 1) -> MailItem]
  BY <1>2 DEF Without
<1>4. QED
  BY <1>1, <1>3 DEF Without

\* The commands that wait, when the queue is a sequence.
LEMMA WaitingIds ==
  ASSUME NEW q \in Seq(MailItem)
  PROVE  DOMAIN q = 1..Len(q) /\ Len(q) \in Nat
  OBVIOUS

\* The outcome given to a set of commands, all the same one.
LEMMA GivenOne ==
  ASSUME NEW S, NEW o
  PROVE  Mailbox!Given(S, [i \in S |-> o]) = {[id |-> i, out |-> o] : i \in S}
  BY DEF Mailbox!Given

Outcome == {"Applied", "Rejected", "OwnerReplaced", "Superseded", "Shutdown"}

\* Steps that answer all of S with one outcome, or take a command in.
LEMMA AnswersOne ==
  ASSUME NEW S, S \subseteq Unresolved, S # {}, NEW o \in Outcome,
         Unresolved' = Unresolved \ S,
         outcomes' = outcomes \cup {[id |-> i, out |-> o] : i \in S}
  PROVE  Mailbox!MailboxNext
<1> DEFINE f == [i \in S |-> o]
<1>1. f \in [S -> Outcome]
  OBVIOUS
<1>2. outcomes' = outcomes \cup Mailbox!Given(S, f)
  BY GivenOne
<1> HIDE DEF f
<1>3. Mailbox!Answer
  BY <1>1, <1>2 DEF Mailbox!Answer, Outcome
<1>4. QED
  BY <1>3 DEF Mailbox!MailboxNext

LEMMA TakesOne ==
  ASSUME NEW k \in 1..MaxCalls, k \notin Unresolved, \A a \in outcomes : a.id # k,
         NEW S, S \subseteq Unresolved,
         Unresolved' = (Unresolved \cup {k}) \ S,
         outcomes' = outcomes \cup {[id |-> i, out |-> "Superseded"] : i \in S}
  PROVE  Mailbox!MailboxNext
<1> DEFINE f == [i \in S |-> "Superseded"]
<1>1. f \in [S -> Outcome]
  BY DEF Outcome
<1>2. outcomes' = outcomes \cup Mailbox!Given(S, f)
  BY GivenOne
<1>3. Mailbox!Fresh(k)
  BY DEF Mailbox!Fresh
<1> HIDE DEF f
<1>4. Mailbox!Take(k)
  BY <1>1, <1>2, <1>3 DEF Mailbox!Take, Outcome
<1>5. QED
  BY <1>4 DEF Mailbox!MailboxNext

\* enqueue_command: the new item is at the back, what it replaced is gone and
\* has its outcome.
LEMMA EnqueueMails ==
  ASSUME MailInv, NEW item \in MailItem, item.id = nextId, nextId' = nextId + 1, Enqueued(item)
  PROVE  /\ queue' \in Seq(MailItem) /\ queue' # <<>>
         /\ TicketsInv'
         /\ \E S \in SUBSET Unresolved :
              /\ Unresolved' = (Unresolved \cup {nextId}) \ S
              /\ outcomes' = outcomes \cup {[id |-> i, out |-> "Superseded"] : i \in S}
<1>0. /\ queue \in Seq(MailItem) /\ nextId \in Nat \ {0} /\ Len(queue) \in Nat
      /\ \A i \in 1..Len(queue) : queue[i] \in MailItem /\ queue[i].id \in Nat
      /\ nextId' \in Nat
  <2>1. queue \in Seq(MailItem) /\ nextId \in Nat \ {0}
    BY DEF MailInv, MailType
  <2>2. \A i \in 1..Len(queue) : queue[i] \in MailItem
    BY <2>1
  <2>3. QED
    BY <2>1, <2>2 DEF MailItem
<1>1. PICK q \in Seq(MailItem), S \in SUBSET Unresolved :
        /\ queue' = Append(q, item)
        /\ outcomes' = outcomes \cup {[id |-> i, out |-> "Superseded"] : i \in S}
        /\ \A i \in 1..Len(q) : q[i].id \in Unresolved /\ q[i].id \notin S
        /\ \A c \in Unresolved : c \in S \/ \E i \in 1..Len(q) : q[i].id = c
        /\ \A i, j \in 1..Len(q) : q[i].id = q[j].id => i = j
  <2>1. CASE queue' = Append(queue, item) /\ UNCHANGED outcomes
    <3>1. \A i \in 1..Len(queue) : queue[i].id \in Unresolved
      BY <1>0, WaitingIds DEF Unresolved
    <3>2. \A c \in Unresolved : \E i \in 1..Len(queue) : queue[i].id = c
      BY <1>0, WaitingIds DEF Unresolved
    <3>3. {} \in SUBSET Unresolved
      OBVIOUS
    <3>4. outcomes' = outcomes \cup {[id |-> i, out |-> "Superseded"] : i \in {}}
      BY <2>1
    <3>5. \A i, j \in 1..Len(queue) : queue[i].id = queue[j].id => i = j
      BY DEF MailInv, TicketsInv
    <3>6. QED
      BY <1>0, <2>1, <3>1, <3>2, <3>3, <3>4, <3>5
  <2>2. CASE \E i \in 1..Len(queue) :
               /\ queue' = Append(Without(i), item)
               /\ outcomes' = outcomes \cup {Result(queue[i], "Superseded")}
    <3>1. PICK k \in 1..Len(queue) :
            /\ queue' = Append(Without(k), item)
            /\ outcomes' = outcomes \cup {Result(queue[k], "Superseded")}
      BY <2>2
    <3> DEFINE q == Without(k)
               S == {queue[k].id}
    <3>2. /\ q \in Seq(MailItem) /\ Len(q) = Len(queue) - 1
          /\ \A j \in 1..(Len(queue) - 1) : q[j] = IF j < k THEN queue[j] ELSE queue[j + 1]
      BY <1>0, WithoutProperties
    <3> HIDE DEF q
    <3>3. \A i, j \in 1..Len(queue) : queue[i].id = queue[j].id => i = j
      BY DEF MailInv, TicketsInv
    <3>4. \A i \in 1..Len(queue) : queue[i].id \in Unresolved
      BY <1>0, WaitingIds DEF Unresolved
    <3>5. \A i \in 1..Len(q) : \E m \in 1..Len(queue) : m # k /\ q[i] = queue[m]
      <4>1. TAKE i \in 1..Len(q)
      <4>2. CASE i < k
        BY <4>2, <3>2, <1>0
      <4>3. CASE i >= k
        <5>1. q[i] = queue[i + 1] /\ i + 1 \in 1..Len(queue) /\ i + 1 # k
          BY <4>3, <3>2, <1>0
        <5>2. QED
          BY <5>1
      <4>4. QED
        BY <4>2, <4>3, <3>2, <1>0
    <3>6. \A m \in 1..Len(queue) : m # k => \E i \in 1..Len(q) : q[i] = queue[m]
      <4>1. TAKE m \in 1..Len(queue)
      <4>2. CASE m < k
        BY <4>2, <3>2, <1>0
      <4>3. CASE m > k
        <5>1. m - 1 \in 1..Len(q) /\ ~(m - 1 < k) /\ (m - 1) + 1 = m
          BY <4>3, <3>2, <1>0
        <5>2. q[m - 1] = queue[(m - 1) + 1]
          BY <5>1, <3>2
        <5>3. QED
          BY <5>1, <5>2
      <4>4. QED
        BY <4>2, <4>3, <1>0
    <3>7. \A i, j \in 1..Len(q) : q[i].id = q[j].id => i = j
      <4>1. TAKE i, j \in 1..Len(q)
      <4>2. HAVE q[i].id = q[j].id
      <4> DEFINE m == IF i < k THEN i ELSE i + 1
                 n == IF j < k THEN j ELSE j + 1
      <4>3. m \in 1..Len(queue) /\ n \in 1..Len(queue) /\ q[i] = queue[m] /\ q[j] = queue[n]
        BY <3>2, <1>0
      <4>4. m = n
        BY <4>2, <4>3, <3>3
      <4>5. QED
        BY <4>4, <3>2, <1>0
    <3>8. \A i \in 1..Len(q) : q[i].id \in Unresolved /\ q[i].id \notin S
      BY <3>3, <3>4, <3>5
    <3>9. \A c \in Unresolved : c \in S \/ \E i \in 1..Len(q) : q[i].id = c
      <4>1. TAKE c \in Unresolved
      <4>2. PICK m \in 1..Len(queue) : queue[m].id = c
        BY <1>0, WaitingIds DEF Unresolved
      <4>3. QED
        BY <4>2, <3>6
    <3>10. outcomes' = outcomes \cup {[id |-> i, out |-> "Superseded"] : i \in S}
      BY <3>1 DEF Result
    <3>11. S \in SUBSET Unresolved
      BY <3>4
    <3>12. queue' = Append(q, item)
      BY <3>1 DEF q
    <3> HIDE DEF S
    <3>13. QED
      BY <3>2, <3>7, <3>8, <3>9, <3>10, <3>11, <3>12
  <2>3. QED
    BY <2>1, <2>2 DEF Enqueued, Replaceable
<1>2. /\ queue' \in Seq(MailItem) /\ Len(queue') = Len(q) + 1 /\ Len(q) \in Nat
      /\ \A i \in 1..Len(q) : queue'[i] = q[i]
      /\ queue'[Len(q) + 1] = item
  BY <1>1
<1>3. queue' # <<>>
  BY <1>2
<1>4. \A c : c \in Unresolved' <=> \E i \in 1..Len(queue') : queue'[i].id = c
  BY <1>2, WaitingIds DEF Unresolved
<1>5. \A c \in Unresolved : c \in 1..(nextId - 1)
  BY <1>0, WaitingIds DEF Unresolved, MailInv, TicketsInv
<1>6. \A c : c \in Unresolved' <=> c \in Unresolved \ S \/ c = nextId
  <2>1. TAKE c
  <2>2. ASSUME c \in Unresolved' PROVE c \in Unresolved \ S \/ c = nextId
    <3>1. PICK i \in 1..Len(queue') : queue'[i].id = c
      BY <2>2, <1>4
    <3>2. CASE i \in 1..Len(q)
      BY <3>1, <3>2, <1>1, <1>2
    <3>3. CASE i = Len(q) + 1
      BY <3>1, <3>3, <1>2
    <3>4. QED
      BY <3>2, <3>3, <1>2
  <2>3. ASSUME c \in Unresolved \ S PROVE c \in Unresolved'
    <3>1. PICK i \in 1..Len(q) : q[i].id = c
      BY <2>3, <1>1
    <3>2. i \in 1..Len(queue') /\ queue'[i].id = c
      BY <3>1, <1>2
    <3>3. QED
      BY <3>2, <1>4
  <2>4. nextId \in Unresolved'
    <3>1. Len(q) + 1 \in 1..Len(queue') /\ queue'[Len(q) + 1].id = nextId
      BY <1>2
    <3>2. QED
      BY <3>1, <1>4
  <2>5. QED
    BY <2>2, <2>3, <2>4
<1>7. nextId \notin Unresolved /\ nextId \notin S /\ \A o \in outcomes : o.id # nextId
  BY <1>0, <1>1, <1>5 DEF MailInv, TicketsInv
<1>8. TicketsInv'
  <2>1. \A i \in 1..Len(queue') : queue'[i].id \in 1..(nextId' - 1)
    <3>1. TAKE i \in 1..Len(queue')
    <3>2. queue'[i].id \in Unresolved'
      BY <1>4
    <3>3. QED
      BY <3>2, <1>6, <1>5, <1>0
  <2>2. \A i, j \in 1..Len(queue') : queue'[i].id = queue'[j].id => i = j
    <3>1. TAKE i, j \in 1..Len(queue')
    <3>2. HAVE queue'[i].id = queue'[j].id
    <3>3. CASE i \in 1..Len(q) /\ j \in 1..Len(q)
      BY <3>2, <3>3, <1>1, <1>2
    <3>4. CASE i = Len(q) + 1 /\ j \in 1..Len(q)
      BY <3>2, <3>4, <1>1, <1>2, <1>7
    <3>5. CASE j = Len(q) + 1 /\ i \in 1..Len(q)
      BY <3>2, <3>5, <1>1, <1>2, <1>7
    <3>6. QED
      BY <3>3, <3>4, <3>5, <1>2
  <2>3. ASSUME NEW o \in outcomes'
        PROVE  o.id \in 1..(nextId' - 1) /\ o.id \notin Unresolved'
    <3>1. CASE o \in outcomes
      <4>1. o.id \in 1..(nextId - 1) /\ o.id \notin Unresolved
        BY <3>1 DEF MailInv, TicketsInv
      <4>2. QED
        BY <4>1, <1>6, <1>0
    <3>2. CASE o.id \in S
      BY <3>2, <1>1, <1>5, <1>6, <1>7, <1>0
    <3>3. QED
      BY <3>1, <3>2, <1>1, <2>3
  <2>4. QED
    BY <2>1, <2>2, <2>3 DEF TicketsInv
<1>9. Unresolved' = (Unresolved \cup {nextId}) \ S
  BY <1>6, <1>7
<1>10. QED
  BY <1>1, <1>2, <1>3, <1>8, <1>9

\* process_pending_commands: the head of the queue leaves it with its outcome.
LEMMA PopMails ==
  ASSUME MailInv, queue # <<>>, queue' = Tail(queue), nextId' = nextId, NEW o,
         outcomes' = outcomes \cup {Result(Head(queue), o)}
  PROVE  /\ queue' \in Seq(MailItem) /\ TicketsInv' /\ Head(queue).id \in Unresolved
         /\ Unresolved' = Unresolved \ {Head(queue).id}
         /\ Len(queue') = Len(queue) - 1 /\ Len(queue) \in Nat \ {0}
<1>1. /\ queue \in Seq(MailItem) /\ nextId \in Nat \ {0} /\ Len(queue) \in Nat \ {0}
      /\ \A i, j \in 1..Len(queue) : queue[i].id = queue[j].id => i = j
      /\ \A i \in 1..Len(queue) : queue[i].id \in 1..(nextId - 1)
      /\ \A r \in outcomes : r.id \in 1..(nextId - 1) /\ r.id \notin Unresolved
  BY DEF MailInv, MailType, TicketsInv
<1>2. /\ queue' \in Seq(MailItem) /\ Len(queue') = Len(queue) - 1 /\ Head(queue) = queue[1]
      /\ \A i \in 1..Len(queue') : queue'[i] = queue[i + 1]
  BY <1>1
<1>3. /\ \A c : c \in Unresolved <=> \E i \in 1..Len(queue) : queue[i].id = c
      /\ \A c : c \in Unresolved' <=> \E i \in 1..Len(queue') : queue'[i].id = c
  <2>1. \A c : c \in Unresolved <=> \E i \in 1..Len(queue) : queue[i].id = c
    BY <1>1, WaitingIds DEF Unresolved
  <2>2. DOMAIN (queue') = 1..Len(queue')
    BY <1>2, WaitingIds
  <2>3. \A c : c \in Unresolved' <=> \E i \in 1..Len(queue') : queue'[i].id = c
    BY <2>2 DEF Unresolved
  <2>4. QED
    BY <2>1, <2>3
<1>4. queue[1].id \in Unresolved /\ 1 \in 1..Len(queue)
  BY <1>1, <1>3
<1>5. \A c : c \in Unresolved' <=> c \in Unresolved /\ c # queue[1].id
  <2>1. TAKE c
  <2>2. ASSUME c \in Unresolved' PROVE c \in Unresolved /\ c # queue[1].id
    <3>1. PICK i \in 1..Len(queue') : queue'[i].id = c
      BY <2>2, <1>3
    <3>2. i + 1 \in 1..Len(queue) /\ queue[i + 1].id = c /\ i + 1 # 1
      BY <3>1, <1>1, <1>2
    <3>3. QED
      BY <3>2, <1>1, <1>3, <1>4
  <2>3. ASSUME c \in Unresolved, c # queue[1].id PROVE c \in Unresolved'
    <3>1. PICK i \in 1..Len(queue) : queue[i].id = c
      BY <2>3, <1>3
    <3>2. i - 1 \in 1..Len(queue') /\ (i - 1) + 1 = i
      BY <3>1, <2>3, <1>1, <1>2
    <3>3. queue'[i - 1] = queue[(i - 1) + 1]
      BY <3>2, <1>2
    <3>4. queue'[i - 1].id = c
      BY <3>1, <3>2, <3>3
    <3>5. QED
      BY <3>2, <3>4, <1>3
  <2>4. QED
    BY <2>2, <2>3
<1>6. \A i, j \in 1..Len(queue') : queue'[i].id = queue'[j].id => i = j
  <2>1. TAKE i, j \in 1..Len(queue')
  <2>2. HAVE queue'[i].id = queue'[j].id
  <2>3. i + 1 \in 1..Len(queue) /\ j + 1 \in 1..Len(queue)
        /\ queue[i + 1].id = queue[j + 1].id
    BY <2>2, <1>1, <1>2
  <2>4. i + 1 = j + 1
    BY <2>3, <1>1
  <2>5. QED
    BY <2>4, <1>1, <1>2
<1>7. \A r \in outcomes' : r \in outcomes \/ r.id = queue[1].id
  BY <1>2 DEF Result
<1>8. TicketsInv'
  <2>1. \A i \in 1..Len(queue') : queue'[i].id \in 1..(nextId' - 1)
    BY <1>1, <1>2
  <2>2. \A r \in outcomes' : r.id \in 1..(nextId' - 1) /\ r.id \notin Unresolved'
    BY <1>1, <1>4, <1>5, <1>7
  <2>3. QED
    BY <2>1, <2>2, <1>6 DEF TicketsInv
<1>9. QED
  BY <1>1, <1>2, <1>4, <1>5, <1>8
\* shutdown: the queue is emptied and everything in it has its outcome.
LEMMA ShutDownMails ==
  ASSUME MailInv, queue' = <<>>, nextId' = nextId, outcomes' = outcomes \cup ShutDown
  PROVE  /\ queue' \in Seq(MailItem) /\ TicketsInv' /\ Unresolved' = {}
         /\ outcomes' = outcomes \cup {[id |-> i, out |-> "Shutdown"] : i \in Unresolved}
<1>1. /\ queue \in Seq(MailItem) /\ nextId \in Nat \ {0}
      /\ \A i \in 1..Len(queue) : queue[i].id \in 1..(nextId - 1)
      /\ \A r \in outcomes : r.id \in 1..(nextId - 1)
  BY DEF MailInv, MailType, TicketsInv
<1>2. ShutDown = {[id |-> i, out |-> "Shutdown"] : i \in Unresolved}
  BY DEF ShutDown, Unresolved, Result
<1>3. Unresolved' = {} /\ Len(queue') = 0
  BY DEF Unresolved
<1>4. \A c \in Unresolved : c \in 1..(nextId - 1)
  BY <1>1, WaitingIds DEF Unresolved
<1>5. \A r \in outcomes' : r.id \in 1..(nextId' - 1)
  BY <1>1, <1>2, <1>4
<1>6. TicketsInv'
  BY <1>3, <1>5 DEF TicketsInv
<1>7. QED
  BY <1>2, <1>3, <1>6

\* What a step of the port does to the tickets: nothing, or it takes one in,
\* or it gives an outcome to some that wait.
MailStep ==
  \/ UNCHANGED <<Unresolved, outcomes>>
  \/ Mailbox!MailboxNext

\* A step that leaves the mailbox alone.
LEMMA FrameMails ==
  ASSUME MailInv, UNCHANGED <<queue, nextId, outcomes, calls, caller>>, gen' \in Nat,
         stop' = "stopping" => stop = "stopping" \/ InnerFree
  PROVE  MailInv' /\ MailStep
<1>1. Unresolved' = Unresolved
  BY DEF Unresolved
<1>2. MailType' /\ TicketsInv'
  BY <1>1 DEF MailInv, MailType, TicketsInv
<1>3. ProcessorInv'
  BY DEF MailInv, ProcessorInv, InnerFree
<1>4. QED
  BY <1>1, <1>2, <1>3 DEF MailInv, MailStep

LEMMA CallSubmitMails ==
  ASSUME MailInv, NEW u \in Callers, NEW cmd \in Commands, CallSubmit(u, cmd)
  PROVE  MailInv' /\ MailStep
<1>0. /\ queue \in Seq(MailItem) /\ nextId \in Nat \ {0} /\ calls \in Nat /\ gen \in Nat
      /\ nextId <= calls + 1 /\ calls < MaxCalls /\ MaxCalls \in Nat /\ calls' = calls + 1
      /\ caller \in [Callers -> {"none", "queued", "processing"}]
  BY PolkitConstants DEF MailInv, MailType, CallSubmit
<1>1. /\ \A v \in Callers : caller[v] # "processing"
      /\ UNCHANGED <<gen, stop>>
  BY DEF CallSubmit, InnerFree, domain
<1>2. CASE UNCHANGED <<caller, queue, tickets>>
  <2>1. Unresolved' = Unresolved
    BY <1>2 DEF Unresolved
  <2>2. MailType'
    BY <1>0, <1>1, <1>2 DEF MailType, tickets
  <2>3. TicketsInv' /\ ProcessorInv'
    BY <1>1, <1>2, <2>1 DEF MailInv, TicketsInv, ProcessorInv, tickets
  <2>4. QED
    BY <1>2, <2>1, <2>2, <2>3 DEF MailInv, MailStep, tickets
<1>3. CASE /\ Enqueued([id |-> nextId, cmd |-> cmd, gen |-> gen])
           /\ nextId' = nextId + 1
           /\ caller' = [caller EXCEPT ![u] = "queued"]
  <2> DEFINE it == [id |-> nextId, cmd |-> cmd, gen |-> gen]
  <2>1. it \in MailItem /\ it.id = nextId
    <3>1. cmd \in MailOp
      BY DEF Commands, Cmd, MailOp
    <3>2. QED
      BY <3>1, <1>0 DEF MailItem
  <2> HIDE DEF it
  <2>2. Enqueued(it)
    BY <1>3 DEF it
  <2>3. PICK S \in SUBSET Unresolved :
          /\ queue' \in Seq(MailItem) /\ TicketsInv'
          /\ Unresolved' = (Unresolved \cup {nextId}) \ S
          /\ outcomes' = outcomes \cup {[id |-> i, out |-> "Superseded"] : i \in S}
    BY <1>3, <2>1, <2>2, EnqueueMails
  <2>4. nextId \in 1..MaxCalls
    BY <1>0
  <2>5. nextId \notin Unresolved /\ \A a \in outcomes : a.id # nextId
    <3>1. \A i \in 1..Len(queue) : queue[i].id \in 1..(nextId - 1)
      BY DEF MailInv, TicketsInv
    <3>2. \A a \in outcomes : a.id \in 1..(nextId - 1)
      BY DEF MailInv, TicketsInv
    <3>3. \A c \in Unresolved : c \in 1..(nextId - 1)
      BY <3>1, <1>0, WaitingIds DEF Unresolved
    <3>4. nextId \notin 1..(nextId - 1)
      BY <1>0
    <3>5. QED
      BY <3>2, <3>3, <3>4
  <2>6. MailStep
    BY <2>3, <2>4, <2>5, TakesOne DEF MailStep
  <2>7. MailType'
    BY <1>0, <1>1, <1>3, <2>3 DEF MailType
  <2>8. ProcessorInv'
    BY <1>0, <1>1, <1>3 DEF ProcessorInv
  <2>9. QED
    BY <2>3, <2>6, <2>7, <2>8 DEF MailInv
<1>4. QED
  BY <1>2, <1>3 DEF CallSubmit

LEMMA CallProcessMails ==
  ASSUME MailInv, NEW u \in Callers, CallProcess(u)
  PROVE  MailInv' /\ MailStep
<1>1. /\ UNCHANGED <<queue, nextId, outcomes, calls, gen, stop>>
      /\ caller' = [caller EXCEPT ![u] = IF queue = <<>> THEN "none" ELSE "processing"]
      /\ \A v \in Callers : caller[v] # "processing" /\ stop # "stopping"
  BY DEF CallProcess, InnerFree, domain, tickets
<1>2. Unresolved' = Unresolved
  BY <1>1 DEF Unresolved
<1>3. MailType' /\ TicketsInv'
  BY <1>1, <1>2 DEF MailInv, MailType, TicketsInv
<1>4. ProcessorInv'
  <2>1. caller \in [Callers -> {"none", "queued", "processing"}]
    BY DEF MailInv, MailType
  <2>2. QED
    BY <1>1, <2>1 DEF ProcessorInv
<1>5. QED
  BY <1>1, <1>2, <1>3, <1>4 DEF MailInv, MailStep

LEMMA ProcessItemMails ==
  ASSUME MailInv, NEW u \in Callers, ProcessItem(u)
  PROVE  MailInv' /\ MailStep
<1>1. /\ queue # <<>> /\ stop # "stopping" /\ caller[u] = "processing"
      /\ \A v \in Callers : caller[v] = "processing" => v = u
  BY DEF ProcessItem, MailInv, ProcessorInv
<1>2. /\ queue' = Tail(queue) /\ UNCHANGED <<gen, calls, stop, nextId>>
      /\ caller' = [caller EXCEPT ![u] = IF Len(queue) = 1 THEN "none" ELSE @]
  BY DEF ProcessItem, domain
<1>3. PICK o \in Outcome : outcomes' = outcomes \cup {Result(Head(queue), o)}
  <2>1. CASE outcomes' = outcomes \cup {Result(Head(queue), "OwnerReplaced")}
    BY <2>1 DEF Outcome
  <2>2. CASE \E out \in {"Applied", "Rejected"} : outcomes' = outcomes \cup {Result(Head(queue), out)}
    BY <2>2 DEF Outcome
  <2>3. QED
    BY <2>1, <2>2 DEF ProcessItem
<1>4. /\ queue' \in Seq(MailItem) /\ TicketsInv' /\ Head(queue).id \in Unresolved
      /\ Unresolved' = Unresolved \ {Head(queue).id}
      /\ Len(queue') = Len(queue) - 1 /\ Len(queue) \in Nat \ {0}
  BY <1>1, <1>2, <1>3, PopMails
<1>5. MailStep
  <2>1. outcomes' = outcomes \cup {[id |-> i, out |-> o] : i \in {Head(queue).id}}
    BY <1>3 DEF Result
  <2>2. QED
    BY <1>4, <2>1, AnswersOne DEF MailStep
<1>6. MailType'
  BY <1>2, <1>4 DEF MailInv, MailType
<1>7. ProcessorInv'
  <2>1. caller \in [Callers -> {"none", "queued", "processing"}]
    BY DEF MailInv, MailType
  <2>2. Len(queue) # 1 => queue' # <<>>
    BY <1>4
  <2>3. QED
    BY <1>1, <1>2, <2>1, <2>2 DEF ProcessorInv
<1>8. QED
  BY <1>4, <1>5, <1>6, <1>7 DEF MailInv

LEMMA StopWorkMails ==
  ASSUME MailInv, StopWork
  PROVE  MailInv' /\ MailStep
<1>1. /\ queue' = <<>> /\ outcomes' = outcomes \cup ShutDown /\ stop' = "done"
      /\ UNCHANGED <<nextId, calls, caller, gen>>
      /\ \A v \in Callers : caller[v] # "processing"
  BY DEF StopWork, port, MailInv, ProcessorInv
<1>2. /\ queue' \in Seq(MailItem) /\ TicketsInv' /\ Unresolved' = {}
      /\ outcomes' = outcomes \cup {[id |-> i, out |-> "Shutdown"] : i \in Unresolved}
  BY <1>1, ShutDownMails
<1>3. MailStep
  <2>1. CASE Unresolved = {}
    BY <1>2, <2>1 DEF MailStep
  <2>2. CASE Unresolved # {}
    <3>1. Unresolved' = Unresolved \ Unresolved /\ "Shutdown" \in Outcome
      BY <1>2 DEF Outcome
    <3>2. QED
      BY <1>2, <2>2, <3>1, AnswersOne DEF MailStep
  <2>3. QED
    BY <2>1, <2>2
<1>4. MailType' /\ ProcessorInv'
  BY <1>1, <1>2 DEF MailInv, MailType, ProcessorInv
<1>5. QED
  BY <1>2, <1>3, <1>4 DEF MailInv

\* Every step keeps the invariant and maps to a step of the contract.
LEMMA NextMails == MailInv /\ [Next]_vars => MailInv' /\ MailStep
<1> SUFFICES ASSUME MailInv, [Next]_vars PROVE MailInv' /\ MailStep
  OBVIOUS
<1>1. gen \in Nat
  BY DEF MailInv, MailType
<1>2. CASE SupervisorTask
  <2>1. UNCHANGED <<queue, nextId, outcomes, calls, caller, stop>> /\ gen' \in {gen, gen + 1}
    BY <1>2 DEF SupervisorTask, Turn, ReportFailure, Registered, BeginStart, MarkReady, TickLock,
                TickWork, PollTake, PollApply, PollWipe, domain, port, tickets
  <2>2. QED
    BY <1>1, <2>1, FrameMails
<1>3. ASSUME NEW c \in Cookies, AuthorityTask(c) \/ Authority(c)
      PROVE  MailInv' /\ MailStep
  <2>1. UNCHANGED <<queue, nextId, outcomes, calls, caller, stop, gen>>
    BY <1>3 DEF AuthorityTask, Authority, BeginWork, CancelClear, BeginLock, CancelTake, domain,
                port, tickets
  <2>2. QED
    BY <1>1, <2>1, FrameMails
<1>4. ASSUME NEW u \in Callers, PortTask(u) \/ \E cmd \in Commands : CallSubmit(u, cmd)
      PROVE  MailInv' /\ MailStep
  BY <1>4, CallSubmitMails, CallProcessMails, ProcessItemMails DEF PortTask
<1>5. CASE PortReset \/ StopLock \/ HelperEmits \/ ConnLost \/ Advance \/ UNCHANGED vars
  <2>1. /\ UNCHANGED <<queue, nextId, outcomes, calls, caller, gen>>
        /\ stop' = stop \/ InnerFree
    BY <1>5 DEF PortReset, StopLock, HelperEmits, ConnLost, Advance, vars, domain, port, tickets
  <2>2. QED
    BY <1>1, <2>1, FrameMails
<1>6. QED
  BY <1>2, <1>3, <1>4, <1>5, StopWorkMails DEF Next

\* The polkit port implements the mailbox contract of ADR-0006: a command is
\* taken in under a fresh ticket, and each ticket gets one outcome when its
\* command leaves the queue, be it processed, replaced, stale or stopped.
THEOREM PolkitImplementsMailbox == Spec => MailboxImplemented
<1>1. Init => MailInv /\ Mailbox!MailboxInit
  <2> SUFFICES ASSUME Init PROVE MailInv /\ Mailbox!MailboxInit
    OBVIOUS
  <2>1. queue = <<>> /\ outcomes = {} /\ nextId = 1 /\ calls = 0 /\ gen = 0
        /\ caller = [u \in Callers |-> "none"]
    BY DEF Init
  <2>2. queue \in Seq(MailItem) /\ Len(queue) = 0 /\ Unresolved = {}
    BY <2>1 DEF Unresolved
  <2>3. MailType
    BY <2>1, <2>2, PolkitConstants DEF MailType
  <2>4. TicketsInv /\ ProcessorInv
    BY <2>1, <2>2 DEF TicketsInv, ProcessorInv
  <2>5. QED
    BY <2>1, <2>2, <2>3, <2>4 DEF MailInv, Mailbox!MailboxInit
<1>2. MailStep => [Mailbox!MailboxNext]_(Mailbox!mailboxVars)
  BY DEF MailStep, Mailbox!mailboxVars
<1>3. QED
  BY <1>1, <1>2, NextMails, PTL DEF Spec, MailboxImplemented, Mailbox!MailboxSpec
=============================================================================

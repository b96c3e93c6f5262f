------------------------ MODULE DeviceConnectionProofs ------------------------
(***************************************************************************)
(* The device client's connection, proved for every number of transports,  *)
(* every set of values and every bound on changes, restarts and time.      *)
(*                                                                         *)
(* None of the results depends on what the supervisor decides, so the      *)
(* invariant says nothing about sup: a connection attempt may begin at any *)
(* time, and the closed watchers may run between any two of its steps.     *)
(***************************************************************************)
EXTENDS DeviceConnection, SequenceTheorems, TLAPS

-----------------------------------------------------------------------------
(***************************************************************************)
(* The inductive invariant.                                                *)
(***************************************************************************)
ListenerType == [gen : Nat, on : BOOLEAN, loaded : BOOLEAN, queue : Seq(Published)]

WatcherPCs == {"none", "waiting", "report", "Unavailable", "Reconnecting", "done"}

LoopType ==
  [pc : LoopPCs, c : Conns \cup {NoConn}, at : Nat, life : Lifecycle, snap : SUBSET Published]

DomType == [gen : Nat, rev : Nat, life : Lifecycle, val : Values]

DaemonType ==
  [rev : Nat, val : Values, unsent : Seq(Published), changes : Nat, restarts : Nat]

\* TypeOK without the supervisor and the tasks that only it depends on.
Typed ==
  /\ now \in Nat
  /\ conn \in Conns \cup {NoConn} /\ identity \in Conns \cup {NoConn} /\ gen \in Nat
  /\ dom \in DomType
  /\ loop \in LoopType
  /\ listener \in [Conns -> ListenerType]
  /\ watcher \in [Conns -> WatcherPCs]
  /\ open \subseteq Conns /\ opened \in 0..MaxConns
  /\ daemon \in DaemonType

\* connect_on from the new transport to the spawn of its watcher.
Unwatched == {"identify", "subscribe", "load", "apply", "publish", "ready"}

\* connect_on once the generation is installed.
Identified == {"subscribe", "load", "apply", "publish", "ready", "ready again"}

\* Transports are numbered in the order they are opened; the loop sets up the
\* latest one, and the identity it installs is never an older one.
Numbered ==
  /\ \A c \in open : c <= opened
  /\ identity <= opened
  /\ loop.pc \in Unwatched \cup Identified => loop.c = opened /\ opened \in Conns
  /\ loop.pc = "identify" => identity < opened
  /\ loop.pc \in Identified => identity = opened

\* A listener belongs to a transport that was identified; it stamps with the
\* generation installed for it, and the latest transport's is the installed one.
Stamps ==
  \A c \in Conns :
    /\ listener[c].on => c <= identity
    /\ listener[c].on /\ c < identity => listener[c].gen < gen
    /\ listener[c].on /\ c = identity => listener[c].gen = gen
    /\ ~listener[c].on => ~listener[c].loaded /\ listener[c].queue = <<>>
    /\ loop.pc \in {"load", "apply"} /\ c = loop.c => listener[c].on

\* A transport that is being set up has no watcher yet, and neither has one
\* that is still to be opened; the transport the client holds has one that has
\* not fired, or is about to get it.
Watched ==
  /\ \A c \in Conns : watcher[c] # "none" => c <= opened
  /\ loop.pc \in Unwatched => watcher[loop.c] = "none"
  /\ conn # NoConn =>
       \/ watcher[conn] = "waiting"
       \/ watcher[conn] = "none" /\ loop.pc = "ready" /\ loop.c = conn

ConnInv == Typed /\ Numbered /\ Stamps /\ GenerationPerTransport /\ Watched

\* A published state the daemon has now or had before.
Known(s) == s.rev <= daemon.rev /\ (s.rev = daemon.rev => s.val = daemon.val)

\* Everything that is under way or applied was published by the daemon.
AllKnown ==
  /\ Known(dom)
  /\ \A s \in loop.snap : Known(s)
  /\ \A i \in 1..Len(daemon.unsent) : Known(daemon.unsent[i])
  /\ \A c \in Conns : \A i \in 1..Len(listener[c].queue) : Known(listener[c].queue[i])

\* Nothing is under way to listener c.
Drained(c) == listener[c].queue = <<>> /\ daemon.unsent = <<>>

\* The last state under way is the daemon's current one.
LatestUnderWay ==
  /\ daemon.unsent # <<>> => daemon.unsent[Len(daemon.unsent)].rev = daemon.rev
  /\ \A c \in Conns :
       listener[c].on /\ c \in open /\ listener[c].queue # <<>> /\ daemon.unsent = <<>> =>
         listener[c].queue[Len(listener[c].queue)].rev = daemon.rev

UpToDate == dom.gen = gen /\ dom.rev = daemon.rev

\* With nothing under way the projection is current once the initial load was
\* applied; before that the snapshot in the loop's hands is.
Caught ==
  /\ dom.gen <= gen
  /\ \A c \in Conns : c = identity /\ listener[c].loaded =>
       /\ dom.gen = gen
       /\ c \in open /\ Drained(c) => UpToDate
  /\ loop.pc = "apply" /\ loop.c \in open /\ Drained(loop.c) =>
       \A s \in loop.snap : s.rev = daemon.rev \/ UpToDate

FollowInv == daemon.restarts = 0 => AllKnown /\ LatestUnderWay /\ Caught
-----------------------------------------------------------------------------
(***************************************************************************)
(* Types.                                                                  *)
(***************************************************************************)
\* update_local_domain_state writes a state of the domain's type.
LEMMA UpdatedType ==
  ASSUME dom \in DomType, NEW g \in Nat, NEW s \in Published
  PROVE  Updated(g, s) \in DomType
BY DEF Updated, DomType, Published, Lifecycle

\* report_owner_failure writes a lifecycle, whatever the supervisor says.
LEMMA FailedLifecycleType ==
  ASSUME NEW s
  PROVE  FailedLifecycle(s) \in Lifecycle /\ FailedLifecycle(s) \in WatcherPCs
BY DEF FailedLifecycle, Lifecycle, WatcherPCs

\* Init has its type.
LEMMA InitTyped == Init => Typed
<1> SUFFICES ASSUME Init PROVE Typed
  OBVIOUS
<1>1. dom \in DomType
  BY ConnectionConstants DEF Init, DomType, Lifecycle
<1>2. daemon \in DaemonType
  BY <1>1 DEF Init, DaemonType, DomType
<1>3. loop \in LoopType
  BY DEF Init, Idle, LoopType, LoopPCs, Lifecycle
<1>4. listener \in [Conns -> ListenerType]
  BY DEF Init, NoListener, ListenerType
<1>5. watcher \in [Conns -> WatcherPCs]
  BY DEF Init, WatcherPCs
<1>6. QED
  BY <1>1, <1>2, <1>3, <1>4, <1>5, ConnectionConstants DEF Init, Typed

\* Every step of the loop keeps the types.
LEMMA LoopTyped == Typed /\ Numbered /\ Loop => Typed'
<1> SUFFICES ASSUME Typed, Numbered, Loop PROVE Typed'
  OBVIOUS
<1> USE DEF Typed, LoopType, LoopPCs, At, bus, client
<1>1. CASE LoopTick
  BY <1>1 DEF LoopTick, Idle, Lifecycle
<1>2. CASE LoopMatch
  BY <1>2 DEF LoopMatch
<1>3. CASE LoopCheck
  BY <1>3 DEF LoopCheck
<1>4. CASE LoopReport
  BY <1>4, FailedLifecycleType DEF LoopReport
<1>5. CASE LoopDegrade
  BY <1>5 DEF LoopDegrade, DomType
<1>6. CASE LoopDial
  <2>1. CASE loop' = [At("report") EXCEPT !.at = now] /\ UNCHANGED <<open, opened>>
    BY <1>6, <2>1 DEF LoopDial
  <2>2. CASE /\ opened < MaxConns /\ opened' = opened + 1 /\ open' = open \cup {opened'}
             /\ loop' = [At("identify") EXCEPT !.c = opened']
    <3> HIDE DEF LoopType, At
    <3>1. opened \in 0..MaxConns /\ MaxConns \in Nat
      BY ConnectionConstants
    <3>2. opened + 1 \in 1..MaxConns /\ opened + 1 \in 0..MaxConns
      BY <2>2, <3>1
    <3>3. opened' \in Conns /\ opened' \in 0..MaxConns
      BY <2>2, <3>2 DEF Conns
    <3>4. loop' \in LoopType
      BY <2>2, <3>3 DEF LoopType, At
    <3>5. QED
      BY <1>6, <2>2, <3>3, <3>4 DEF LoopDial
  <2>3. QED
    BY <1>6, <2>1, <2>2 DEF LoopDial
<1>7. CASE LoopIdentify
  <2>1. identity' \in Conns \cup {NoConn}
    BY <1>7 DEF LoopIdentify
  <2>2. gen' \in {gen, gen + 1}
    BY <1>7 DEF LoopIdentify, Installed
  <2>3. gen' \in Nat
    <3>1. gen \in Nat
      OBVIOUS
    <3> HIDE DEF Typed, LoopType, LoopPCs
    <3>2. QED
      BY <2>2, <3>1
  <2>4. QED
    BY <1>7, <2>1, <2>3 DEF LoopIdentify
<1>8. CASE LoopSubscribe
  <2>1. loop.c \in Conns
    BY <1>8 DEF LoopSubscribe, Numbered, Unwatched
  <2>2. listener' \in [Conns -> ListenerType]
    <3>1. \/ listener' = listener
          \/ listener' = [listener EXCEPT ![loop.c] = [@ EXCEPT !.on = TRUE, !.gen = gen]]
      BY <1>8, <2>1 DEF LoopSubscribe
    <3>2. [listener[loop.c] EXCEPT !.on = TRUE, !.gen = gen] \in ListenerType
      BY <2>1 DEF ListenerType
    <3>3. QED
      BY <2>1, <3>1, <3>2
  <2>3. loop' \in LoopType /\ open' \subseteq Conns
    BY <1>8 DEF LoopSubscribe
  <2>4. QED
    BY <1>8, <2>2, <2>3 DEF LoopSubscribe
<1>9. CASE LoopLoad
  <2>1. [rev |-> daemon.rev, val |-> daemon.val] \in Published
    BY DEF DaemonType, Published
  <2>2. CASE loop' = [At("apply") EXCEPT !.snap = {[rev |-> daemon.rev, val |-> daemon.val]}]
    <3>1. {[rev |-> daemon.rev, val |-> daemon.val]} \in SUBSET Published
      BY <2>1
    <3>2. loop' \in LoopType
      BY <2>2, <3>1
    <3>3. QED
      BY <1>9, <3>2 DEF LoopLoad
  <2>3. CASE loop' = At("publish")
    BY <1>9, <2>3 DEF LoopLoad
  <2>4. QED
    BY <1>9, <2>2, <2>3 DEF LoopLoad
<1>10. CASE LoopApply
  <2>1. loop.c \in Conns /\ listener[loop.c].gen \in Nat
    BY <1>10 DEF LoopApply, Numbered, Unwatched, ListenerType
  <2>2. dom' \in DomType
    <3>1. PICK s \in loop.snap : dom' = Updated(listener[loop.c].gen, s)
      BY <1>10 DEF LoopApply
    <3>2. s \in Published
      OBVIOUS
    <3>3. QED
      BY <3>1, <3>2, <2>1, UpdatedType
  <2>3. listener' \in [Conns -> ListenerType]
    BY <1>10, <2>1 DEF LoopApply, ListenerType
  <2>4. QED
    BY <1>10, <2>2, <2>3 DEF LoopApply
<1>11. CASE LoopPublish
  BY <1>11 DEF LoopPublish
<1>12. CASE LoopReady
  BY <1>12 DEF LoopReady, WatcherPCs
<1>13. CASE LoopReadyAgain
  BY <1>13 DEF LoopReadyAgain
<1>14. QED
  BY <1>1, <1>2, <1>3, <1>4, <1>5, <1>6, <1>7, <1>8, <1>9, <1>10, <1>11, <1>12, <1>13 DEF Loop

\* What runs beside the loop: listeners, watchers, the reset, shutdown and the
\* environment.
Beside ==
  \/ \E c \in Conns : ListenerDeliver(c) \/ Watcher(c) \/ TransportCloses(c)
  \/ ResetSupervisor \/ ResetProjection \/ Shutdown
  \/ TimePasses \/ DaemonChange \/ DaemonEmit \/ DaemonRestart

\* Every step is the loop's or one beside it.
LEMMA StepCases == [Next]_vars => Loop \/ Beside \/ UNCHANGED vars
BY DEF Next, Environment, Beside

\* Every step beside the loop keeps the types.
LEMMA BesideTyped == Typed /\ Beside => Typed'
<1> SUFFICES ASSUME Typed, Beside PROVE Typed'
  OBVIOUS
<1> USE DEF Typed, bus, client, tasks
<1>1. ASSUME NEW c \in Conns, ListenerDeliver(c) PROVE Typed'
  <2>1. /\ listener[c] \in ListenerType /\ listener[c].queue \in Seq(Published)
        /\ listener[c].queue # <<>>
    BY <1>1 DEF ListenerDeliver, ListenerType
  <2>2. Head(listener[c].queue) \in Published /\ Tail(listener[c].queue) \in Seq(Published)
    BY <2>1, HeadTailProperties
  <2>3. dom' \in DomType
    BY <1>1, <2>1, <2>2, UpdatedType DEF ListenerDeliver, ListenerType
  <2>4. QED
    BY <1>1, <2>1, <2>2, <2>3 DEF ListenerDeliver, ListenerType
<1>2. ASSUME NEW c \in Conns, WatcherClear(c) PROVE Typed'
  BY <1>2 DEF WatcherClear, Cleared, WatcherPCs
<1>3. ASSUME NEW c \in Conns, WatcherReport(c) PROVE Typed'
  BY <1>3, FailedLifecycleType DEF WatcherReport
<1>4. ASSUME NEW c \in Conns, WatcherDegrade(c) PROVE Typed'
  BY <1>4 DEF WatcherDegrade, DomType, Lifecycle, WatcherPCs
<1>5. CASE ResetSupervisor \/ ResetProjection
  BY <1>5 DEF ResetSupervisor, ResetProjection, DomType, Lifecycle
<1>6. CASE Shutdown
  BY <1>6 DEF Shutdown, ShutdownStopping, ShutdownSnapshot, ShutdownDisconnect,
              ShutdownStopped, DomType, Lifecycle
<1>7. CASE TimePasses \/ \E c \in Conns : TransportCloses(c)
  BY <1>7 DEF TimePasses, TransportCloses
<1>8. CASE DaemonChange
  <2>1. PICK v \in Values :
          daemon' = [daemon EXCEPT !.rev = @ + 1, !.val = v, !.changes = @ + 1,
                       !.unsent = Append(@, [rev |-> daemon.rev + 1, val |-> v])]
    BY <1>8 DEF DaemonChange
  <2>2. daemon.unsent \in Seq(Published) /\ [rev |-> daemon.rev + 1, val |-> v] \in Published
    BY DEF DaemonType, Published
  <2>3. Append(daemon.unsent, [rev |-> daemon.rev + 1, val |-> v]) \in Seq(Published)
    BY <2>2, AppendProperties
  <2>4. daemon' \in DaemonType
    <3> HIDE DEF Published
    <3>1. daemon.rev + 1 \in Nat /\ daemon.changes + 1 \in Nat
      BY DEF DaemonType
    <3>2. QED
      BY <2>1, <2>3, <3>1 DEF DaemonType
  <2>5. QED
    BY <1>8, <2>4 DEF DaemonChange
<1>9. CASE DaemonEmit
  <2>1. daemon.unsent \in Seq(Published) /\ daemon.unsent # <<>>
    BY <1>9 DEF DaemonEmit, DaemonType
  <2>2. Head(daemon.unsent) \in Published /\ Tail(daemon.unsent) \in Seq(Published)
    BY <2>1, HeadTailProperties
  <2>3. daemon' \in DaemonType
    BY <1>9, <2>2 DEF DaemonEmit, DaemonType
  <2>4. ASSUME NEW d \in Conns
        PROVE  [listener[d] EXCEPT !.queue = Append(@, Head(daemon.unsent))] \in ListenerType
    <3>1. Append(listener[d].queue, Head(daemon.unsent)) \in Seq(Published)
      BY <2>2, AppendProperties DEF ListenerType
    <3>2. QED
      BY <3>1 DEF ListenerType
  <2>5. listener' \in [Conns -> ListenerType]
    BY <1>9, <2>4 DEF DaemonEmit
  <2>6. QED
    BY <1>9, <2>3, <2>5 DEF DaemonEmit
<1>10. CASE DaemonRestart
  <2>1. <<>> \in Seq(Published) /\ daemon.restarts + 1 \in Nat
    BY DEF DaemonType
  <2>2. PICK v \in Values :
          daemon' = [daemon EXCEPT !.rev = 1, !.val = v, !.unsent = <<>>, !.restarts = @ + 1]
    BY <1>10 DEF DaemonRestart
  <2>3. daemon' \in DaemonType
    BY <2>1, <2>2 DEF DaemonType
  <2>4. QED
    BY <1>10, <2>3 DEF DaemonRestart
<1>11. QED
  BY <1>1, <1>2, <1>3, <1>4, <1>5, <1>6, <1>7, <1>8, <1>9, <1>10 DEF Beside, Watcher
-----------------------------------------------------------------------------
(***************************************************************************)
(* Transports, generations and watchers.                                   *)
(***************************************************************************)
\* Beside the loop no transport is opened and no generation installed, and a
\* listener changes only in what it has still to deliver.
LEMMA BesideFrame ==
  ASSUME Typed, Beside
  PROVE  /\ UNCHANGED <<loop, identity, gen, opened>> /\ open' \subseteq open
         /\ \A d \in Conns :
              /\ listener'[d].on = listener[d].on /\ listener'[d].gen = listener[d].gen
              /\ listener'[d].loaded = listener[d].loaded
              /\ ~listener[d].on /\ listener[d].queue = <<>> => listener'[d].queue = <<>>
<1> USE DEF bus, client, tasks
<1>1. ASSUME NEW c \in Conns, ListenerDeliver(c)
      PROVE  /\ UNCHANGED <<loop, identity, gen, opened, open>>
             /\ \A d \in Conns :
                  /\ listener'[d].on = listener[d].on /\ listener'[d].gen = listener[d].gen
                  /\ listener'[d].loaded = listener[d].loaded
                  /\ listener[d].queue = <<>> => listener'[d].queue = <<>>
  BY <1>1 DEF ListenerDeliver, Typed, ListenerType
<1>2. CASE DaemonEmit
  <2>1. UNCHANGED <<loop, identity, gen, opened, open>>
    BY <1>2 DEF DaemonEmit
  <2>2. ASSUME NEW d \in Conns
        PROVE  /\ listener'[d].on = listener[d].on /\ listener'[d].gen = listener[d].gen
               /\ listener'[d].loaded = listener[d].loaded
               /\ ~listener[d].on => listener'[d].queue = listener[d].queue
    BY <1>2 DEF DaemonEmit, Typed, ListenerType
  <2>3. QED
    BY <2>1, <2>2
<1>3. ASSUME \/ \E c \in Conns : Watcher(c) \/ TransportCloses(c)
             \/ ResetSupervisor \/ ResetProjection \/ Shutdown
             \/ TimePasses \/ DaemonChange \/ DaemonRestart
      PROVE  UNCHANGED <<loop, identity, gen, opened, listener>> /\ open' \subseteq open
  BY <1>3 DEF Watcher, WatcherClear, WatcherReport, WatcherDegrade, TransportCloses,
       ResetSupervisor, ResetProjection, Shutdown, ShutdownStopping, ShutdownSnapshot,
       ShutdownDisconnect, ShutdownStopped, TimePasses, DaemonChange, DaemonRestart
<1>4. QED
  BY <1>1, <1>2, <1>3 DEF Beside

\* Transports keep the order in which they were opened.
LEMMA NextNumbered == Typed /\ Numbered /\ [Next]_vars => Numbered'
<1> SUFFICES ASSUME Typed, Numbered, [Next]_vars PROVE Numbered'
  OBVIOUS
<1>0. opened \in Nat /\ identity \in Nat /\ Conns \subseteq Nat /\ open \subseteq Conns
  BY ConnectionConstants DEF Typed, Conns, NoConn
<1> USE DEF Numbered, Unwatched, Identified
<1>1. CASE LoopDial
  <2>1. CASE UNCHANGED <<open, opened>> /\ loop'.pc = "report"
    BY <1>1, <2>1, <1>0 DEF LoopDial, client
  <2>2. CASE /\ opened < MaxConns /\ opened' = opened + 1 /\ open' = open \cup {opened'}
             /\ loop'.pc = "identify" /\ loop'.c = opened'
    <3>1. identity' = identity /\ identity <= opened /\ \A c \in open : c <= opened
      BY <1>1 DEF LoopDial, client
    <3> HIDE DEF Numbered, Unwatched, Identified
    <3>2. opened' \in Conns /\ opened < opened'
      BY <2>2, <1>0, ConnectionConstants DEF Conns
    <3>3. identity' < opened' /\ identity' <= opened' /\ \A c \in open' : c <= opened'
      BY <2>2, <3>1, <3>2, <1>0
    <3>4. QED
      BY <2>2, <3>2, <3>3 DEF Numbered, Identified
  <2>3. QED
    BY <1>1, <2>1, <2>2 DEF LoopDial, At, Typed, LoopType
<1>2. CASE LoopIdentify
  BY <1>2, <1>0 DEF LoopIdentify, At, Typed, LoopType, bus
<1>3. CASE LoopSubscribe
  BY <1>3, <1>0 DEF LoopSubscribe, At, Typed, LoopType, client
<1>4. CASE LoopLoad \/ LoopApply \/ LoopPublish \/ LoopReady \/ LoopReadyAgain
  BY <1>4, <1>0 DEF LoopLoad, LoopApply, LoopPublish, LoopReady, LoopReadyAgain, At, Typed,
       LoopType, client, bus
<1>5. CASE LoopTick \/ LoopMatch \/ LoopCheck \/ LoopReport \/ LoopDegrade
  <2>1. loop'.pc \notin Unwatched \cup Identified
    BY <1>5 DEF LoopTick, LoopMatch, LoopCheck, LoopReport, LoopDegrade, At, Idle, Typed, LoopType
  <2>2. UNCHANGED <<identity, opened, open>>
    BY <1>5 DEF LoopTick, LoopMatch, LoopCheck, LoopReport, LoopDegrade, client, bus
  <2>3. QED
    BY <2>1, <2>2
<1>6. CASE Beside
  BY <1>6, BesideFrame
<1>7. CASE UNCHANGED vars
  BY <1>7 DEF vars, client, tasks, bus
<1>8. QED
  BY <1>1, <1>2, <1>3, <1>4, <1>5, <1>6, <1>7, StepCases DEF Loop

\* Listeners keep the order of the generations they stamp with.
LEMMA NextStamps ==
  Typed /\ Numbered /\ Stamps /\ GenerationPerTransport /\ [Next]_vars =>
    Stamps' /\ GenerationPerTransport'
<1> SUFFICES ASSUME Typed, Numbered, Stamps, GenerationPerTransport, [Next]_vars
             PROVE  Stamps' /\ GenerationPerTransport'
  OBVIOUS
<1>0. /\ opened \in Nat /\ identity \in Nat /\ gen \in Nat /\ Conns \subseteq Nat
      /\ \A c \in Conns : listener[c].gen \in Nat /\ listener[c].on \in BOOLEAN
  BY ConnectionConstants DEF Typed, Conns, NoConn, ListenerType
<1>1. CASE LoopIdentify
  <2>1. /\ identity < identity' /\ gen' = gen + 1 /\ UNCHANGED listener
        /\ loop'.pc = "subscribe" /\ identity' \in Nat
    BY <1>1, <1>0 DEF LoopIdentify, Installed, Numbered, Unwatched, At, Typed, LoopType
  <2>2. GenerationPerTransport'
    BY <2>1 DEF GenerationPerTransport
  <2>3. Stamps'
    BY <2>1, <1>0 DEF Stamps
  <2>4. QED
    BY <2>2, <2>3
<1>2. CASE LoopSubscribe
  <2>1. loop.c = identity /\ loop.c \in Conns /\ UNCHANGED <<identity, gen>>
    BY <1>2 DEF LoopSubscribe, Numbered, Unwatched, Identified, client
  <2>2. CASE UNCHANGED listener /\ loop'.pc = "report"
    BY <2>1, <2>2 DEF Stamps, GenerationPerTransport
  <2>3. CASE /\ listener' = [listener EXCEPT ![loop.c].on = TRUE, ![loop.c].gen = gen]
             /\ loop'.pc = "load" /\ loop'.c = loop.c
    <3>1. /\ listener'[loop.c].on /\ listener'[loop.c].gen = gen
          /\ \A d \in Conns \ {loop.c} : listener'[d] = listener[d]
      BY <2>1, <2>3 DEF Typed, ListenerType
    <3>2. GenerationPerTransport'
      BY <3>1, <2>1, <1>0 DEF GenerationPerTransport, Stamps
    <3>3. Stamps'
      <4> SUFFICES ASSUME NEW c \in Conns
                   PROVE  /\ listener'[c].on => c <= identity
                          /\ listener'[c].on /\ c < identity => listener'[c].gen < gen
                          /\ listener'[c].on /\ c = identity => listener'[c].gen = gen
                          /\ ~listener'[c].on => ~listener'[c].loaded /\ listener'[c].queue = <<>>
                          /\ c = loop.c => listener'[c].on
        BY <2>1, <2>3 DEF Stamps
      <4>1. CASE c = loop.c
        BY <3>1, <2>1, <1>0, <4>1
      <4>2. CASE c # loop.c
        BY <3>1, <4>2 DEF Stamps
      <4>3. QED
        BY <4>1, <4>2
    <3>4. QED
      BY <3>2, <3>3
  <2>4. QED
    BY <1>2, <2>2, <2>3 DEF LoopSubscribe, At, Typed, LoopType
<1>3. CASE LoopLoad
  BY <1>3 DEF LoopLoad, At, Typed, LoopType, client, Stamps, GenerationPerTransport
<1>4. CASE LoopApply
  <2>1. /\ loop.c \in Conns /\ listener[loop.c].on /\ UNCHANGED <<identity, gen>>
        /\ loop'.pc = "publish"
    BY <1>4 DEF LoopApply, Numbered, Unwatched, Stamps, At, Typed, LoopType
  <2>2. /\ \A d \in Conns : listener'[d].on = listener[d].on /\ listener'[d].gen = listener[d].gen
        /\ \A d \in Conns \ {loop.c} : listener'[d] = listener[d]
    BY <1>4, <2>1 DEF LoopApply, Typed, ListenerType
  <2>3. GenerationPerTransport'
    BY <2>2 DEF GenerationPerTransport
  <2>4. Stamps'
    BY <2>1, <2>2 DEF Stamps
  <2>5. QED
    BY <2>3, <2>4
<1>5. CASE \/ LoopTick \/ LoopMatch \/ LoopCheck \/ LoopReport \/ LoopDegrade
           \/ LoopDial \/ LoopPublish \/ LoopReady \/ LoopReadyAgain
  <2>1. loop'.pc \notin {"load", "apply"}
    BY <1>5 DEF LoopTick, LoopMatch, LoopCheck, LoopReport, LoopDegrade, LoopDial, LoopPublish,
         LoopReady, LoopReadyAgain, At, Idle, Typed, LoopType
  <2>2. UNCHANGED <<listener, identity, gen>>
    BY <1>5 DEF LoopTick, LoopMatch, LoopCheck, LoopReport, LoopDegrade, LoopDial, LoopPublish,
         LoopReady, LoopReadyAgain, client
  <2>3. QED
    BY <2>1, <2>2 DEF Stamps, GenerationPerTransport
<1>6. CASE Beside
  <2>1. GenerationPerTransport'
    BY <1>6, BesideFrame DEF GenerationPerTransport
  <2>2. Stamps'
    BY <1>6, BesideFrame DEF Stamps
  <2>3. QED
    BY <2>1, <2>2
<1>7. CASE UNCHANGED vars
  BY <1>7 DEF vars, client, tasks, Stamps, GenerationPerTransport
<1>8. QED
  BY <1>1, <1>2, <1>3, <1>4, <1>5, <1>6, <1>7, StepCases DEF Loop

\* The transport the client holds keeps a watcher that has not fired.
LEMMA NextWatched == Typed /\ Numbered /\ Watched /\ [Next]_vars => Watched'
<1> SUFFICES ASSUME Typed, Numbered, Watched, [Next]_vars PROVE Watched'
  OBVIOUS
<1>0. opened \in Nat /\ Conns \subseteq Nat /\ loop \in LoopType /\ NoConn \notin Conns
  BY ConnectionConstants DEF Typed, Conns, NoConn
<1>1. CASE LoopDial
  <2>1. UNCHANGED <<conn, watcher>> /\ loop.pc = "dial"
    BY <1>1 DEF LoopDial, client
  <2>2. CASE UNCHANGED opened /\ loop'.pc = "report"
    BY <2>1, <2>2 DEF Watched, Unwatched
  <2>3. CASE opened' = opened + 1 /\ opened' \in Conns /\ loop'.pc = "identify" /\ loop'.c = opened'
    <3>1. watcher[opened'] = "none"
      BY <2>3, <1>0 DEF Watched
    <3>2. \A c \in Conns : watcher[c] # "none" => c <= opened'
      BY <2>3, <1>0 DEF Watched
    <3>3. QED
      BY <2>1, <2>3, <3>1, <3>2 DEF Watched, Unwatched
  <2>4. QED
    <3>1. opened < MaxConns => opened + 1 \in Conns
      BY <1>0, ConnectionConstants DEF Conns
    <3>2. QED
      BY <1>1, <2>2, <2>3, <3>1, <1>0 DEF LoopDial, At, LoopType
<1>2. CASE LoopIdentify \/ LoopSubscribe \/ LoopLoad \/ LoopApply
  <2>1. UNCHANGED <<conn, watcher, opened>>
    BY <1>2 DEF LoopIdentify, LoopSubscribe, LoopLoad, LoopApply, client, bus
  <2>2. /\ loop.pc \in Unwatched \ {"ready"} /\ loop'.c = loop.c
        /\ loop'.pc \in (Unwatched \cup {"report"}) \ {"ready"}
    BY <1>2, <1>0 DEF LoopIdentify, LoopSubscribe, LoopLoad, LoopApply, Unwatched, At, LoopType
  <2>3. QED
    BY <2>1, <2>2 DEF Watched
<1>3. CASE LoopPublish
  BY <1>3, <1>0 DEF LoopPublish, Watched, Unwatched, At, LoopType, bus
<1>4. CASE LoopReady
  <2>1. /\ loop.pc = "ready" /\ loop'.pc = "ready again" /\ UNCHANGED <<conn, opened>>
        /\ watcher' = [watcher EXCEPT ![loop.c] = "waiting"]
        /\ loop.c \in Conns /\ loop.c = opened
    BY <1>4, <1>0 DEF LoopReady, At, LoopType, bus, Numbered, Unwatched
  <2>2. watcher'[loop.c] = "waiting" /\ \A c \in Conns \ {loop.c} : watcher'[c] = watcher[c]
    BY <2>1 DEF Typed
  <2>3. \A c \in Conns : watcher'[c] # "none" => c <= opened'
    <3>1. \A c \in Conns : watcher[c] # "none" => c <= opened
      BY DEF Watched
    <3>2. opened <= opened
      BY <1>0
    <3>3. QED
      BY <2>1, <2>2, <3>1, <3>2
  <2>4. conn' # NoConn => watcher'[conn'] = "waiting"
    BY <2>1, <2>2, <1>0 DEF Watched, Typed
  <2>5. QED
    BY <2>1, <2>3, <2>4 DEF Watched, Unwatched
<1>5. CASE LoopTick \/ LoopMatch \/ LoopCheck \/ LoopReport \/ LoopDegrade \/ LoopReadyAgain
  <2>1. loop'.pc \notin Unwatched /\ loop.pc # "ready"
    BY <1>5, <1>0 DEF LoopTick, LoopMatch, LoopCheck, LoopReport, LoopDegrade, LoopReadyAgain,
         At, Idle, LoopType, Unwatched
  <2>2. UNCHANGED <<conn, watcher, opened>>
    BY <1>5 DEF LoopTick, LoopMatch, LoopCheck, LoopReport, LoopDegrade, LoopReadyAgain,
         client, bus
  <2>3. QED
    BY <2>1, <2>2 DEF Watched
<1>6. ASSUME NEW c \in Conns, Watcher(c) PROVE Watched'
  <2>1. /\ UNCHANGED <<loop, opened>> /\ watcher[c] # "none" /\ watcher'[c] # "none"
        /\ \A d \in Conns \ {c} : watcher'[d] = watcher[d]
    BY <1>6 DEF Watcher, WatcherClear, WatcherReport, WatcherDegrade, FailedLifecycle, Typed, bus
  <2>2. (\A d \in Conns : watcher'[d] # "none" => d <= opened')
    BY <2>1 DEF Watched
  <2>3. loop'.pc \in Unwatched => watcher'[loop'.c] = "none"
    BY <2>1 DEF Watched, Numbered
  <2>4. conn' # NoConn => UNCHANGED conn /\ watcher[c] # "waiting"
    BY <1>6 DEF Watcher, WatcherClear, WatcherReport, WatcherDegrade, Cleared
  <2>5. QED
    BY <2>1, <2>2, <2>3, <2>4 DEF Watched, Typed
<1>7. CASE Shutdown
  BY <1>7 DEF Shutdown, ShutdownStopping, ShutdownSnapshot, ShutdownDisconnect, ShutdownStopped,
       Watched, bus
<1>8. CASE \/ \E c \in Conns : ListenerDeliver(c) \/ TransportCloses(c)
           \/ ResetSupervisor \/ ResetProjection \/ TimePasses \/ DaemonChange
           \/ DaemonEmit \/ DaemonRestart \/ UNCHANGED vars
  <2>1. UNCHANGED <<conn, watcher, opened, loop>>
    BY <1>8 DEF ListenerDeliver, TransportCloses, ResetSupervisor, ResetProjection, TimePasses,
         DaemonChange, DaemonEmit, DaemonRestart, vars, client, tasks, bus
  <2>2. QED
    BY <2>1 DEF Watched
<1>9. QED
  BY <1>1, <1>2, <1>3, <1>4, <1>5, <1>6, <1>7, <1>8, StepCases DEF Loop, Beside

\* The initial state: nothing opened, nothing installed.
LEMMA InitConnInv == Init => ConnInv
<1> SUFFICES ASSUME Init PROVE ConnInv
  OBVIOUS
<1>1. Typed
  BY InitTyped
<1>2. Numbered
  BY DEF Init, Numbered, Idle, Unwatched, Identified, NoConn
<1>3. Stamps /\ GenerationPerTransport
  BY DEF Init, Stamps, GenerationPerTransport, NoListener, Idle
<1>4. Watched
  BY DEF Init, Watched, Unwatched, Idle
<1>5. QED
  BY <1>1, <1>2, <1>3, <1>4 DEF ConnInv

\* Every step keeps the invariant.
LEMMA NextConnInv == ConnInv /\ [Next]_vars => ConnInv'
<1> SUFFICES ASSUME ConnInv, [Next]_vars PROVE ConnInv'
  OBVIOUS
<1>1. Typed'
  <2>1. CASE UNCHANGED vars
    BY <2>1 DEF ConnInv, Typed, vars, client, tasks, bus
  <2>2. QED
    BY <2>1, StepCases, LoopTyped, BesideTyped DEF ConnInv
<1>2. QED
  BY <1>1, NextNumbered, NextStamps, NextWatched DEF ConnInv

\* The invariant holds in every reachable state.
LEMMA AlwaysConnInv == Spec => []ConnInv
BY InitConnInv, NextConnInv, PTL DEF Spec

\* Two transports never stamp their updates alike, in whatever order they are
\* opened, closed, identified and subscribed.
THEOREM GenerationPerTransportHolds == Spec => []GenerationPerTransport
<1>1. ConnInv => GenerationPerTransport
  BY DEF ConnInv
<1>2. QED
  BY <1>1, AlwaysConnInv, PTL

\* A closed transport that the client still holds has a watcher that will
\* clear it, also when it closed before there was one.
THEOREM ClosedIsNoticedHolds == Spec => []ClosedIsNoticed
<1>1. ConnInv => ClosedIsNoticed
  BY DEF ConnInv, Watched, ClosedIsNoticed
<1>2. QED
  BY <1>1, AlwaysConnInv, PTL

-----------------------------------------------------------------------------
(***************************************************************************)
(* The projection.                                                         *)
(***************************************************************************)
Regressed == ~(dom'.gen > dom.gen \/ (dom'.gen = dom.gen /\ dom'.rev >= dom.rev))

\* The version gate lets an older version through on no path.
LEMMA UpdatedNeverRegresses ==
  ASSUME dom \in DomType, NEW g \in Nat, NEW s \in Published, dom' = Updated(g, s)
  PROVE  ~Regressed
BY DEF Regressed, Updated, Newer, DomType, Published

\* The projection is written by the gate, or only in its lifecycle.
LEMMA ProjectionSteps ==
  ASSUME ConnInv, [Next]_vars
  PROVE  \/ \E g \in Nat, s \in Published : dom' = Updated(g, s)
         \/ dom'.gen = dom.gen /\ dom'.rev = dom.rev /\ dom'.val = dom.val
<1>0. dom \in DomType /\ loop \in LoopType /\ \A c \in Conns : listener[c] \in ListenerType
  BY DEF ConnInv, Typed
<1>1. CASE LoopApply
  BY <1>1, <1>0 DEF LoopApply, ListenerType, LoopType, ConnInv, Numbered, Unwatched
<1>2. ASSUME NEW c \in Conns, ListenerDeliver(c)
      PROVE  \E g \in Nat, s \in Published : dom' = Updated(g, s)
  <2>1. Head(listener[c].queue) \in Published
    BY <1>2, <1>0, HeadTailProperties DEF ListenerDeliver, ListenerType
  <2>2. QED
    BY <1>2, <1>0, <2>1 DEF ListenerDeliver, ListenerType
<1>3. CASE LoopDegrade \/ ResetProjection \/ Shutdown \/ \E c \in Conns : Watcher(c)
  BY <1>3, <1>0 DEF LoopDegrade, ResetProjection, Watcher, WatcherClear, WatcherReport,
       WatcherDegrade, Shutdown, ShutdownStopping, ShutdownSnapshot, ShutdownDisconnect,
       ShutdownStopped, DomType
<1>4. ASSUME \/ LoopTick \/ LoopMatch \/ LoopCheck \/ LoopReport \/ LoopDial \/ LoopIdentify
             \/ LoopSubscribe \/ LoopLoad \/ LoopPublish \/ LoopReady \/ LoopReadyAgain
             \/ \E c \in Conns : TransportCloses(c)
             \/ ResetSupervisor \/ TimePasses \/ DaemonChange \/ DaemonEmit \/ DaemonRestart
             \/ UNCHANGED vars
      PROVE  UNCHANGED dom
  BY <1>4 DEF LoopTick, LoopMatch, LoopCheck, LoopReport, LoopDial, LoopIdentify, LoopSubscribe,
       LoopLoad, LoopPublish, LoopReady, LoopReadyAgain, TransportCloses, ResetSupervisor,
       TimePasses, DaemonChange, DaemonEmit, DaemonRestart, vars, client
<1>5. QED
  BY <1>1, <1>2, <1>3, <1>4, StepCases DEF Loop, Beside

\* The version of the projection never goes back, whoever writes it last.
THEOREM ProjectionNeverRegressesHolds == Spec => ProjectionNeverRegresses
<1>1. ConnInv /\ [Next]_vars =>
        [dom'.gen > dom.gen \/ (dom'.gen = dom.gen /\ dom'.rev >= dom.rev)]_dom
  <2> SUFFICES ASSUME ConnInv, [Next]_vars PROVE ~Regressed
    BY DEF Regressed
  <2>1. dom \in DomType
    BY DEF ConnInv, Typed
  <2>2. CASE dom'.gen = dom.gen /\ dom'.rev = dom.rev
    BY <2>1, <2>2 DEF Regressed, DomType
  <2>3. QED
    BY <2>1, <2>2, ProjectionSteps, UpdatedNeverRegresses
<1>2. QED
  BY <1>1, AlwaysConnInv, PTL DEF Spec, ProjectionNeverRegresses

-----------------------------------------------------------------------------
(***************************************************************************)
(* Subscribing before loading leaves no gap.                               *)
(***************************************************************************)
\* What the gate does to a projection that is no newer than the installed
\* generation, when everything under way was published by the daemon.
LEMMA UpdatedFollows ==
  ASSUME Typed, Known(dom), dom.gen <= gen,
         NEW g \in Nat, NEW s \in Published, Known(s), dom' = Updated(g, s),
         UNCHANGED <<gen, daemon>>
  PROVE  /\ Known(dom)' /\ dom'.gen <= gen
         /\ dom.gen = gen => dom'.gen = gen
         /\ UpToDate => UpToDate'
         /\ g = gen => dom'.gen = gen
         /\ g = gen /\ s.rev = daemon.rev => UpToDate'
<1>1. /\ dom.gen \in Nat /\ dom.rev \in Nat /\ gen \in Nat /\ daemon.rev \in Nat
      /\ s.rev \in Nat
  BY DEF Typed, DomType, DaemonType, Published
<1>2. CASE g <= gen /\ Newer(g, s.rev)
  <2>1. dom'.gen = g /\ dom'.rev = s.rev /\ dom'.val = s.val
    BY <1>2 DEF Updated
  <2>2. Known(dom)'
    BY <2>1 DEF Known
  <2>3. QED
    BY <1>1, <1>2, <2>1, <2>2 DEF Newer, UpToDate, Known
<1>3. CASE ~(g <= gen /\ Newer(g, s.rev))
  <2>1. dom' = dom
    BY <1>3 DEF Updated
  <2>2. Known(dom)'
    BY <2>1 DEF Known
  <2>3. QED
    BY <1>1, <1>3, <2>1, <2>2 DEF Newer, UpToDate, Known
<1>4. QED
  BY <1>2, <1>3

\* Steps that neither publish, deliver, load nor install anything; they may
\* close a transport or open one that has no listener.
LEMMA FollowFrame ==
  ASSUME ConnInv, AllKnown, LatestUnderWay, Caught,
         UNCHANGED <<listener, daemon, gen, identity>>,
         \A c \in Conns : listener[c].on /\ c \in open' => c \in open,
         dom'.gen = dom.gen /\ dom'.rev = dom.rev /\ dom'.val = dom.val,
         loop'.snap \subseteq loop.snap,
         loop'.pc = "apply" => UNCHANGED loop
  PROVE  AllKnown' /\ LatestUnderWay' /\ Caught'
<1>0. \A c \in Conns : /\ listener[c].loaded => listener[c].on
                       /\ loop.pc = "apply" /\ c = loop.c => listener[c].on
  BY DEF ConnInv, Stamps, Typed, ListenerType
<1>1. AllKnown'
  BY DEF AllKnown, Known
<1>2. LatestUnderWay'
  BY DEF LatestUnderWay
<1>3. Caught'
  <2>1. loop.pc = "apply" => loop.c \in Conns
    BY DEF ConnInv, Numbered, Unwatched
  <2>2. QED
    BY <1>0, <2>1 DEF Caught, Drained, UpToDate
<1>4. QED
  BY <1>1, <1>2, <1>3

\* A new generation: its transport has no listener yet.
LEMMA IdentifyFollows ==
  ASSUME ConnInv, AllKnown, LatestUnderWay, Caught, LoopIdentify
  PROVE  AllKnown' /\ LatestUnderWay' /\ Caught'
<1>0. /\ loop \in LoopType /\ loop.c \in Conns /\ identity < loop.c /\ gen \in Nat
      /\ dom.gen \in Nat /\ identity \in Nat
  BY ConnectionConstants
  DEF LoopIdentify, ConnInv, Typed, Numbered, Unwatched, DomType, Conns, NoConn
<1>1. /\ UNCHANGED <<dom, listener, daemon, open>> /\ gen' = gen + 1 /\ identity' = loop.c
      /\ loop'.pc = "subscribe" /\ loop'.snap = loop.snap
  BY <1>0 DEF LoopIdentify, Installed, At, LoopType, bus
<1>2. ~listener[loop.c].loaded
  <2>1. ~(loop.c <= identity) /\ listener[loop.c].on \in BOOLEAN
    BY <1>0, ConnectionConstants DEF Conns, ConnInv, Typed, ListenerType
  <2>2. QED
    BY <1>0, <2>1 DEF ConnInv, Stamps
<1>3. AllKnown' /\ LatestUnderWay'
  BY <1>1 DEF AllKnown, LatestUnderWay, Known
<1>4. dom'.gen <= gen'
  BY <1>0, <1>1 DEF Caught
<1>5. QED
  BY <1>1, <1>2, <1>3, <1>4 DEF Caught

\* A new listener has nothing to deliver.
LEMMA SubscribeFollows ==
  ASSUME ConnInv, AllKnown, LatestUnderWay, Caught, LoopSubscribe
  PROVE  AllKnown' /\ LatestUnderWay' /\ Caught'
<1>0. /\ loop \in LoopType /\ loop.c \in Conns /\ UNCHANGED <<dom, daemon, gen, identity>>
      /\ loop'.snap = loop.snap /\ loop'.pc # "apply"
  BY DEF LoopSubscribe, ConnInv, Typed, Numbered, Unwatched, LoopType, At, client
<1>1. CASE UNCHANGED listener /\ open' \subseteq open
  BY <1>0, <1>1, FollowFrame
<1>2. CASE UNCHANGED open /\ listener' = [listener EXCEPT ![loop.c].on = TRUE, ![loop.c].gen = gen]
  <2>1. \A c \in Conns : /\ listener'[c].queue = listener[c].queue
                         /\ listener'[c].loaded = listener[c].loaded
                         /\ c # loop.c => listener'[c].on = listener[c].on
    BY <1>0, <1>2 DEF ConnInv, Typed, ListenerType
  <2>2. ~listener[loop.c].on => listener[loop.c].queue = <<>>
    BY <1>0 DEF ConnInv, Stamps
  <2>3. AllKnown'
    BY <1>0, <2>1 DEF AllKnown, Known
  <2>4. LatestUnderWay'
    BY <1>0, <1>2, <2>1, <2>2 DEF LatestUnderWay
  <2>5. Caught'
    BY <1>0, <1>2, <2>1 DEF Caught, Drained, UpToDate
  <2>6. QED
    BY <2>3, <2>4, <2>5
<1>3. QED
  BY <1>1, <1>2 DEF LoopSubscribe

\* The answer to the initial load is the daemon's state when it left.
LEMMA LoadFollows ==
  ASSUME ConnInv, AllKnown, LatestUnderWay, Caught, LoopLoad
  PROVE  AllKnown' /\ LatestUnderWay' /\ Caught'
<1>0. /\ loop \in LoopType /\ UNCHANGED <<dom, daemon, gen, identity, open, listener>>
      /\ daemon.rev \in Nat
  BY DEF LoopLoad, ConnInv, Typed, client, bus, DaemonType
<1>1. CASE loop' = At("publish")
  BY <1>0, <1>1, FollowFrame DEF At, LoopType
<1>2. CASE loop' = [At("apply") EXCEPT !.snap = {[rev |-> daemon.rev, val |-> daemon.val]}]
  <2>1. loop'.snap = {[rev |-> daemon.rev, val |-> daemon.val]}
    BY <1>0, <1>2 DEF At, LoopType
  <2>2. \A s \in loop'.snap : s.rev = daemon.rev /\ s.val = daemon.val /\ s.rev <= daemon.rev
    BY <2>1, <1>0
  <2>3. AllKnown'
    BY <1>0, <2>2 DEF AllKnown, Known
  <2>4. LatestUnderWay' /\ Caught'
    BY <1>0, <2>2 DEF LatestUnderWay, Caught, Drained, UpToDate
  <2>5. QED
    BY <2>3, <2>4
<1>3. QED
  BY <1>1, <1>2 DEF LoopLoad

\* The initial load is applied: with nothing under way its answer is still the
\* daemon's state, or the projection had it already.
LEMMA ApplyFollows ==
  ASSUME ConnInv, AllKnown, LatestUnderWay, Caught, LoopApply
  PROVE  AllKnown' /\ LatestUnderWay' /\ Caught'
<1>0. /\ loop \in LoopType /\ loop.c \in Conns /\ loop.c = identity /\ Typed
      /\ listener[loop.c].on
  BY DEF LoopApply, ConnInv, Typed, Numbered, Unwatched, Identified, Stamps
<1>1. /\ UNCHANGED <<daemon, gen, identity, open>> /\ loop'.snap = {} /\ loop'.pc = "publish"
      /\ loop.pc = "apply"
  BY <1>0 DEF LoopApply, At, LoopType, bus
<1>2. listener[loop.c].gen = gen /\ gen \in Nat
  BY <1>0 DEF ConnInv, Stamps, Typed
<1>3. PICK s \in loop.snap : dom' = Updated(gen, s)
  BY <1>2 DEF LoopApply
<1>4. s \in Published /\ Known(s)
  BY <1>0 DEF LoopType, AllKnown
<1>5. /\ Known(dom)' /\ dom'.gen <= gen /\ dom'.gen = gen
      /\ UpToDate => UpToDate'
      /\ s.rev = daemon.rev => UpToDate'
  BY <1>0, <1>1, <1>2, <1>3, <1>4, UpdatedFollows DEF AllKnown, Caught
<1>6. \A c \in Conns : /\ listener'[c].queue = listener[c].queue
                       /\ listener'[c].on = listener[c].on
                       /\ c # loop.c => listener'[c].loaded = listener[c].loaded
  BY <1>0 DEF LoopApply, Typed, ListenerType
<1>7. AllKnown'
  BY <1>1, <1>5, <1>6 DEF AllKnown, Known
<1>8. LatestUnderWay'
  BY <1>1, <1>6 DEF LatestUnderWay
<1>9. Caught'
  <2>1. loop.c \in open /\ Drained(loop.c) => UpToDate'
    BY <1>1, <1>5 DEF Caught
  <2>2. QED
    BY <1>0, <1>1, <1>5, <1>6, <2>1 DEF Caught, Drained
<1>10. QED
  BY <1>7, <1>8, <1>9

\* A signal is delivered: the last one under way brings the projection up to
\* date, an earlier one or one of an older transport takes nothing away.
LEMMA DeliverFollows ==
  ASSUME ConnInv, AllKnown, LatestUnderWay, Caught, NEW c \in Conns, ListenerDeliver(c)
  PROVE  AllKnown' /\ LatestUnderWay' /\ Caught'
<1> DEFINE q == listener[c].queue
<1>0. /\ Typed /\ q \in Seq(Published) /\ q # <<>> /\ listener[c].gen \in Nat
      /\ UNCHANGED <<daemon, gen, identity, open, loop>>
      /\ dom' = Updated(listener[c].gen, Head(q))
  BY DEF ListenerDeliver, ConnInv, Typed, ListenerType, bus
<1>1. /\ listener'[c].queue = Tail(q)
      /\ listener'[c].on = listener[c].on /\ listener'[c].loaded = listener[c].loaded
      /\ \A d \in Conns \ {c} : listener'[d] = listener[d]
  BY <1>0 DEF ListenerDeliver, Typed, ListenerType
<1> HIDE DEF q
<1>2. /\ Len(q) \in Nat \ {0} /\ Head(q) = q[1] /\ Head(q) \in Published
      /\ Tail(q) \in Seq(Published) /\ Len(Tail(q)) = Len(q) - 1
      /\ \A i \in 1..Len(Tail(q)) : Tail(q)[i] = q[i + 1]
  <2>1. Len(q) \in Nat /\ Len(q) # 0
    BY <1>0, EmptySeq, LenProperties
  <2>2. QED
    BY <1>0, <2>1, HeadTailProperties
<1>3. Known(Head(q))
  BY <1>2 DEF AllKnown, q
<1>4. /\ Known(dom)' /\ dom'.gen <= gen
      /\ dom.gen = gen => dom'.gen = gen
      /\ UpToDate => UpToDate'
      /\ listener[c].gen = gen /\ Head(q).rev = daemon.rev => UpToDate'
  BY <1>0, <1>2, <1>3, UpdatedFollows DEF AllKnown, Caught
<1>5. AllKnown'
  <2>1. \A i \in 1..Len(q) : Known(q[i])
    BY DEF AllKnown, q
  <2>2. \A i \in 1..Len(Tail(q)) : i + 1 \in 1..Len(q)
    BY <1>2
  <2>3. \A i \in 1..Len(Tail(q)) : Known(Tail(q)[i])
    BY <1>2, <2>1, <2>2
  <2>4. ASSUME NEW d \in Conns, NEW i \in 1..Len(listener'[d].queue)
        PROVE  Known(listener[d].queue[i])'
    <3>1. CASE d = c
      BY <1>0, <1>1, <2>3, <2>4, <3>1 DEF Known
    <3>2. CASE d # c
      <4>1. listener'[d] = listener[d]
        BY <1>1, <3>2
      <4>2. Known(listener[d].queue[i])
        BY <2>4, <4>1 DEF AllKnown
      <4>3. QED
        BY <1>0, <4>1, <4>2 DEF Known
    <3>3. QED
      BY <3>1, <3>2
  <2>5. (\A s \in loop.snap : Known(s))' /\ (\A i \in 1..Len(daemon.unsent) : Known(daemon.unsent[i]))'
    BY <1>0 DEF AllKnown, Known
  <2>6. QED
    BY <1>4, <2>4, <2>5 DEF AllKnown
<1>6. LatestUnderWay'
  <2>1. Tail(q) # <<>> => Tail(q)[Len(Tail(q))] = q[Len(q)]
    <3>1. Tail(q) # <<>> => Len(Tail(q)) # 0
      BY <1>2, EmptySeq
    <3>2. QED
      BY <1>2, <3>1
  <2>2. ASSUME NEW d \in Conns, listener'[d].on, d \in open', listener'[d].queue # <<>>,
               daemon'.unsent = <<>>
        PROVE  listener'[d].queue[Len(listener'[d].queue)].rev = daemon'.rev
    <3>1. CASE d = c
      <4>1. q[Len(q)].rev = daemon.rev
        BY <1>0, <1>1, <2>2, <3>1 DEF LatestUnderWay, q
      <4>2. QED
        BY <1>0, <1>1, <2>1, <2>2, <3>1, <4>1
    <3>2. CASE d # c
      BY <1>0, <1>1, <2>2, <3>2 DEF LatestUnderWay
    <3>3. QED
      BY <3>1, <3>2
  <2>3. QED
    BY <1>0, <2>2 DEF LatestUnderWay
<1>7. c = identity /\ c \in open /\ listener[c].on /\ Tail(q) = <<>> /\ daemon.unsent = <<>> =>
        UpToDate'
  <2> SUFFICES ASSUME c = identity, c \in open, listener[c].on, Tail(q) = <<>>,
                      daemon.unsent = <<>>
               PROVE  UpToDate'
    OBVIOUS
  <2>1. Len(q) = 1
    <3>1. Len(Tail(q)) = 0
      BY <1>2, EmptySeq
    <3>2. QED
      BY <1>2, <3>1
  <2>2. Head(q).rev = daemon.rev
    BY <1>0, <1>2, <2>1 DEF LatestUnderWay, q
  <2>3. listener[c].gen = gen
    BY DEF ConnInv, Stamps
  <2>4. QED
    BY <1>4, <2>2, <2>3
<1>8. Caught'
  <2>1. ASSUME NEW d \in Conns, d = identity, listener[d].loaded
        PROVE  dom'.gen = gen /\ (d \in open /\ Drained(d)' => UpToDate')
    <3>1. dom'.gen = gen
      BY <1>4, <2>1 DEF Caught
    <3>2. CASE d = c
      <4>1. listener[d].on
        BY <2>1 DEF ConnInv, Stamps, Typed, ListenerType
      <4>2. QED
        BY <1>0, <1>1, <1>7, <2>1, <3>1, <3>2, <4>1 DEF Drained
    <3>3. CASE d # c
      BY <1>0, <1>1, <1>4, <2>1, <3>1, <3>3 DEF Caught, Drained
    <3>4. QED
      BY <3>2, <3>3
  <2>2. ASSUME loop.pc = "apply", loop.c \in open, Drained(loop.c)', NEW s \in loop.snap
        PROVE  s.rev = daemon.rev \/ UpToDate'
    <3>1. loop.c \in Conns /\ loop.c = identity /\ listener[loop.c].on
      BY <2>2 DEF ConnInv, Numbered, Unwatched, Identified, Stamps
    <3>2. CASE loop.c = c
      BY <1>0, <1>1, <1>7, <2>2, <3>1, <3>2 DEF Drained
    <3>3. CASE loop.c # c
      BY <1>0, <1>1, <1>4, <2>2, <3>1, <3>3 DEF Caught, Drained
    <3>4. QED
      BY <3>2, <3>3
  <2>3. \A d \in Conns : listener'[d].loaded = listener[d].loaded
    BY <1>1
  <2>4. QED
    BY <1>0, <1>4, <2>1, <2>2, <2>3 DEF Caught
<1>9. QED
  BY <1>5, <1>6, <1>8

\* A change is published: it is under way, and everything else is older.
LEMMA ChangeFollows ==
  ASSUME ConnInv, AllKnown, LatestUnderWay, Caught, DaemonChange
  PROVE  AllKnown' /\ LatestUnderWay' /\ Caught'
<1>1. PICK v \in Values :
        daemon' = [daemon EXCEPT !.rev = @ + 1, !.val = v, !.changes = @ + 1,
                     !.unsent = Append(@, [rev |-> daemon.rev + 1, val |-> v])]
  BY DEF DaemonChange
<1> DEFINE new == [rev |-> daemon.rev + 1, val |-> v]
           u   == daemon.unsent
<1>2. /\ daemon \in DaemonType /\ daemon.rev \in Nat /\ u \in Seq(Published) /\ new \in Published
      /\ UNCHANGED <<dom, loop, gen, identity, open, listener>>
  BY DEF DaemonChange, ConnInv, Typed, DaemonType, Published, client, tasks
<1>3. daemon'.rev = daemon.rev + 1 /\ daemon'.val = v /\ daemon'.unsent = Append(u, new)
  BY <1>1, <1>2 DEF DaemonType
<1>4. new.rev = daemon.rev + 1 /\ new.val = v
  OBVIOUS
<1> HIDE DEF new, u
<1>5. /\ Len(Append(u, new)) = Len(u) + 1 /\ Len(u) \in Nat
      /\ \A i \in 1..Len(u) : Append(u, new)[i] = u[i]
      /\ Append(u, new)[Len(u) + 1] = new /\ Append(u, new) # <<>>
  BY <1>2, AppendProperties, LenProperties
<1>6. ASSUME NEW s, Known(s), s.rev \in Nat
      PROVE  s.rev <= daemon'.rev /\ s.rev # daemon'.rev
  BY <1>2, <1>3, <1>6 DEF Known
<1>7. AllKnown'
  <2>1. Known(dom)'
    BY <1>2, <1>6 DEF AllKnown, Known, ConnInv, Typed, DomType
  <2>2. (\A s \in loop.snap : Known(s))'
    BY <1>2, <1>6 DEF AllKnown, Known, ConnInv, Typed, LoopType, Published
  <2>3. ASSUME NEW i \in 1..Len(Append(u, new))
        PROVE  Known(daemon.unsent[i])'
    <3>1. CASE i = Len(u) + 1
      BY <1>2, <1>3, <1>4, <1>5, <3>1 DEF Known
    <3>2. CASE i # Len(u) + 1
      <4>1. i \in 1..Len(u)
        BY <1>5, <2>3, <3>2
      <4>2. Known(u[i]) /\ u[i] \in Published
        BY <1>2, <4>1, ElementOfSeq DEF AllKnown, u
      <4>3. QED
        BY <1>3, <1>5, <1>6, <4>1, <4>2 DEF Known, Published
    <3>3. QED
      BY <3>1, <3>2
  <2>4. ASSUME NEW c \in Conns, NEW i \in 1..Len(listener[c].queue)
        PROVE  Known(listener[c].queue[i])'
    <3>1. listener[c].queue \in Seq(Published)
      BY DEF ConnInv, Typed, ListenerType
    <3>2. Known(listener[c].queue[i]) /\ listener[c].queue[i] \in Published
      BY <2>4, <3>1, ElementOfSeq DEF AllKnown
    <3>3. QED
      BY <1>2, <1>6, <3>2 DEF Known, Published
  <2>5. QED
    BY <1>2, <1>3, <2>1, <2>2, <2>3, <2>4 DEF AllKnown
<1>8. LatestUnderWay'
  BY <1>2, <1>3, <1>4, <1>5 DEF LatestUnderWay
<1>9. Caught'
  <2>1. \A c \in Conns : ~Drained(c)'
    BY <1>3, <1>5 DEF Drained
  <2>2. loop.pc = "apply" => ~Drained(loop.c)'
    BY <1>3, <1>5 DEF Drained
  <2>3. QED
    BY <1>2, <2>1, <2>2 DEF Caught, Drained
<1>10. QED
  BY <1>7, <1>8, <1>9

\* A change is emitted: it moves from the daemon to every open listener.
LEMMA EmitFollows ==
  ASSUME ConnInv, AllKnown, LatestUnderWay, Caught, DaemonEmit
  PROVE  AllKnown' /\ LatestUnderWay' /\ Caught'
<1> DEFINE u == daemon.unsent
           Hears(c) == listener[c].on /\ c \in open
<1>0. /\ daemon \in DaemonType /\ u \in Seq(Published) /\ u # <<>>
      /\ UNCHANGED <<dom, loop, gen, identity, open>>
      /\ daemon'.rev = daemon.rev /\ daemon'.val = daemon.val /\ daemon'.unsent = Tail(u)
  BY DEF DaemonEmit, ConnInv, Typed, DaemonType, client
<1>1. /\ Len(u) \in Nat \ {0} /\ Head(u) = u[1] /\ Head(u) \in Published
      /\ Tail(u) \in Seq(Published) /\ Len(Tail(u)) = Len(u) - 1
      /\ \A i \in 1..Len(Tail(u)) : Tail(u)[i] = u[i + 1]
  <2> HIDE DEF u
  <2>1. Len(u) \in Nat /\ Len(u) # 0
    BY <1>0, EmptySeq, LenProperties
  <2>2. QED
    BY <1>0, <2>1, HeadTailProperties
<1>2. ASSUME NEW c \in Conns
      PROVE  /\ listener[c].queue \in Seq(Published)
             /\ listener'[c].on = listener[c].on /\ listener'[c].loaded = listener[c].loaded
             /\ Hears(c) => listener'[c].queue = Append(listener[c].queue, Head(u))
             /\ ~Hears(c) => listener'[c].queue = listener[c].queue
  BY DEF DaemonEmit, ConnInv, Typed, ListenerType
<1>3. ASSUME NEW c \in Conns
      PROVE  /\ Len(Append(listener[c].queue, Head(u))) = Len(listener[c].queue) + 1
             /\ Len(listener[c].queue) \in Nat
             /\ Append(listener[c].queue, Head(u)) # <<>>
             /\ \A i \in 1..Len(listener[c].queue) :
                  Append(listener[c].queue, Head(u))[i] = listener[c].queue[i]
             /\ Append(listener[c].queue, Head(u))[Len(listener[c].queue) + 1] = Head(u)
  <2> HIDE DEF u
  <2>1. QED
    BY <1>1, <1>2, AppendProperties, LenProperties
<1>4. \A i \in 1..Len(u) : Known(u[i])
  BY DEF AllKnown
<1>5. u[Len(u)].rev = daemon.rev
  BY <1>0 DEF LatestUnderWay
<1> HIDE DEF u
<1>6. AllKnown'
  <2>1. Known(dom)' /\ (\A s \in loop.snap : Known(s))'
    BY <1>0 DEF AllKnown, Known
  <2>2. ASSUME NEW i \in 1..Len(Tail(u)) PROVE Known(daemon.unsent[i])'
    <3>1. i + 1 \in 1..Len(u) /\ Tail(u)[i] = u[i + 1]
      BY <1>1, <2>2
    <3>2. Known(Tail(u)[i])
      BY <1>4, <3>1
    <3>3. QED
      BY <1>0, <3>2 DEF Known
  <2>3. ASSUME NEW c \in Conns, NEW i \in 1..Len(listener'[c].queue)
        PROVE  Known(listener[c].queue[i])'
    <3>1. Known(Head(u))
      BY <1>1, <1>4
    <3>2. Known(listener'[c].queue[i])
      <4>1. CASE i \in 1..Len(listener[c].queue)
        BY <1>2, <1>3, <4>1 DEF AllKnown
      <4>2. CASE i \notin 1..Len(listener[c].queue)
        <5>1. Hears(c) /\ i = Len(listener[c].queue) + 1
          BY <1>2, <1>3, <2>3, <4>2
        <5>2. QED
          BY <1>2, <1>3, <3>1, <5>1
      <4>3. QED
        BY <4>1, <4>2
    <3>3. QED
      BY <1>0, <3>2 DEF Known
  <2>4. QED
    BY <1>0, <2>1, <2>2, <2>3 DEF AllKnown
<1>7. LatestUnderWay'
  <2>1. Tail(u) # <<>> => Tail(u)[Len(Tail(u))].rev = daemon.rev
    <3>1. Tail(u) # <<>> => Len(Tail(u)) # 0
      BY <1>1, EmptySeq
    <3>2. QED
      BY <1>1, <1>5, <3>1
  <2>2. Tail(u) = <<>> => Head(u).rev = daemon.rev
    <3>1. Tail(u) = <<>> => Len(Tail(u)) = 0
      BY <1>1, EmptySeq
    <3>2. QED
      BY <1>1, <1>5, <3>1
  <2>3. ASSUME NEW c \in Conns, Hears(c), Tail(u) = <<>>
        PROVE  listener'[c].queue[Len(listener'[c].queue)].rev = daemon.rev
    BY <1>2, <1>3, <2>2, <2>3
  <2>4. QED
    BY <1>0, <1>2, <2>1, <2>3 DEF LatestUnderWay
<1>8. Caught'
  <2>1. ASSUME NEW c \in Conns, listener[c].on, c \in open PROVE ~Drained(c)'
    BY <1>2, <1>3, <2>1 DEF Drained
  <2>2. \A c \in Conns : listener[c].loaded => listener[c].on
    BY DEF ConnInv, Stamps, Typed, ListenerType
  <2>3. loop.pc = "apply" => loop.c \in Conns /\ listener[loop.c].on
    BY DEF ConnInv, Stamps, Numbered, Unwatched
  <2>4. QED
    BY <1>0, <1>2, <2>1, <2>2, <2>3 DEF Caught
<1>9. QED
  BY <1>6, <1>7, <1>8

\* Only a restart of the daemon is counted as one.
LEMMA OnlyRestartsCount ==
  ASSUME Typed, [Next]_vars
  PROVE  \/ daemon'.restarts = daemon.restarts
         \/ DaemonRestart /\ daemon'.restarts = daemon.restarts + 1
<1>0. daemon \in DaemonType
  BY DEF Typed
<1>1. CASE DaemonRestart
  <2>1. PICK v \in Values :
          daemon' = [daemon EXCEPT !.rev = 1, !.val = v, !.unsent = <<>>, !.restarts = @ + 1]
    BY <1>1 DEF DaemonRestart
  <2>2. QED
    BY <1>0, <1>1, <2>1 DEF DaemonType
<1>2. CASE DaemonChange \/ DaemonEmit
  BY <1>0, <1>2 DEF DaemonChange, DaemonEmit, DaemonType
<1>3. CASE Loop
  BY <1>3 DEF Loop, LoopTick, LoopMatch, LoopCheck, LoopReport, LoopDegrade, LoopDial,
       LoopIdentify, LoopSubscribe, LoopLoad, LoopApply, LoopPublish, LoopReady,
       LoopReadyAgain, bus
<1>4. CASE \/ \E c \in Conns : ListenerDeliver(c) \/ Watcher(c) \/ TransportCloses(c)
           \/ ResetSupervisor \/ ResetProjection \/ Shutdown \/ TimePasses \/ UNCHANGED vars
  BY <1>4 DEF ListenerDeliver, Watcher, WatcherClear, WatcherReport, WatcherDegrade,
       TransportCloses, ResetSupervisor, ResetProjection, Shutdown, ShutdownStopping,
       ShutdownSnapshot, ShutdownDisconnect, ShutdownStopped, TimePasses, vars, bus
<1>5. QED
  BY <1>1, <1>2, <1>3, <1>4, StepCases DEF Beside

\* While the daemon has not restarted, every step keeps the projection's
\* relation to it.
LEMMA NextFollowInv == ConnInv /\ FollowInv /\ [Next]_vars => FollowInv'
<1> SUFFICES ASSUME ConnInv, FollowInv, [Next]_vars, daemon'.restarts = 0
             PROVE  AllKnown' /\ LatestUnderWay' /\ Caught'
  BY DEF FollowInv
<1>0. loop \in LoopType /\ dom \in DomType /\ daemon \in DaemonType
  BY DEF ConnInv, Typed
<1>1. daemon.restarts = 0 /\ ~DaemonRestart
  <2>1. Typed
    BY DEF ConnInv
  <2>2. daemon.restarts \in Nat /\ daemon.restarts + 1 # 0
    BY <1>0 DEF DaemonType
  <2>3. daemon'.restarts = daemon.restarts
    BY <2>1, <2>2, OnlyRestartsCount
  <2>4. DaemonRestart => daemon'.restarts = daemon.restarts + 1
    <3>1. ASSUME NEW v \in Values,
            daemon' = [daemon EXCEPT !.rev = 1, !.val = v, !.unsent = <<>>, !.restarts = @ + 1]
          PROVE daemon'.restarts = daemon.restarts + 1
      BY <1>0, <3>1 DEF DaemonType
    <3>2. QED
      BY <3>1 DEF DaemonRestart
  <2>5. QED
    BY <2>2, <2>3, <2>4
<1>3. AllKnown /\ LatestUnderWay /\ Caught
  BY <1>1 DEF FollowInv
<1>4. CASE LoopDial
  <2>1. /\ UNCHANGED <<listener, daemon, gen, identity, dom>>
        /\ loop'.snap = loop.snap /\ loop'.pc # "apply"
        /\ open' = open \/ open' = open \cup {opened + 1}
    BY <1>0, <1>4 DEF LoopDial, client, At, LoopType
  <2>2. \A c \in Conns : listener[c].on => c # opened + 1
    BY ConnectionConstants DEF ConnInv, Typed, Numbered, Stamps, Conns, NoConn
  <2>3. QED
    BY <1>3, <2>1, <2>2, FollowFrame
<1>5. CASE \/ LoopTick \/ LoopMatch \/ LoopCheck \/ LoopReport \/ LoopDegrade \/ LoopPublish
           \/ LoopReady \/ LoopReadyAgain
  <2>1. /\ UNCHANGED <<listener, daemon, gen, identity, open>>
        /\ dom'.gen = dom.gen /\ dom'.rev = dom.rev /\ dom'.val = dom.val
    BY <1>0, <1>5 DEF LoopTick, LoopMatch, LoopCheck, LoopReport, LoopDegrade, LoopPublish,
         LoopReady, LoopReadyAgain, client, bus, DomType
  <2>2. loop'.snap \subseteq loop.snap /\ loop'.pc # "apply"
    BY <1>0, <1>5 DEF LoopTick, LoopMatch, LoopCheck, LoopReport, LoopDegrade, LoopPublish,
         LoopReady, LoopReadyAgain, At, Idle, LoopType
  <2>3. QED
    BY <1>3, <2>1, <2>2, FollowFrame
<1>6. CASE \/ \E c \in Conns : Watcher(c) \/ TransportCloses(c)
           \/ ResetSupervisor \/ ResetProjection \/ Shutdown \/ TimePasses \/ UNCHANGED vars
  <2>1. UNCHANGED <<listener, daemon, gen, identity, loop>> /\ open' \subseteq open
    BY <1>6 DEF Watcher, WatcherClear, WatcherReport, WatcherDegrade, TransportCloses,
         ResetSupervisor, ResetProjection, Shutdown, ShutdownStopping, ShutdownSnapshot,
         ShutdownDisconnect, ShutdownStopped, TimePasses, vars, client, tasks, bus
  <2>2. dom'.gen = dom.gen /\ dom'.rev = dom.rev /\ dom'.val = dom.val
    BY <1>0, <1>6 DEF Watcher, WatcherClear, WatcherReport, WatcherDegrade, TransportCloses,
         ResetSupervisor, ResetProjection, Shutdown, ShutdownStopping, ShutdownSnapshot,
         ShutdownDisconnect, ShutdownStopped, TimePasses, vars, client, DomType
  <2>3. QED
    BY <1>3, <2>1, <2>2, FollowFrame
<1>7. QED
  BY <1>1, <1>3, <1>4, <1>5, <1>6, StepCases, IdentifyFollows, SubscribeFollows, LoadFollows,
     ApplyFollows, DeliverFollows, ChangeFollows, EmitFollows
  DEF Loop, Beside

\* Initially the daemon has published its first revision and the projection
\* has none.
LEMMA InitFollowInv == Init => FollowInv
<1> SUFFICES ASSUME Init PROVE AllKnown /\ LatestUnderWay /\ Caught
  BY DEF FollowInv
<1>1. AllKnown
  BY DEF Init, AllKnown, Known, Idle, NoListener
<1>2. LatestUnderWay /\ Caught
  BY DEF Init, LatestUnderWay, Caught, Idle, NoListener
<1>3. QED
  BY <1>1, <1>2

\* Subscribing before loading leaves no gap, for every number of connections
\* and changes and wherever they fall, as long as the daemon behind the
\* well-known name is the same one.
THEOREM CurrentUntilRestart == Spec => []CurrentWhenQuiet
<1>1. ConnInv /\ FollowInv => CurrentWhenQuiet
  <2> SUFFICES ASSUME ConnInv, FollowInv, daemon.restarts = 0, NEW c \in Conns, Quiet(c)
               PROVE  dom.gen = listener[c].gen /\ dom.rev = daemon.rev /\ dom.val = daemon.val
    BY DEF CurrentWhenQuiet
  <2>1. c = identity /\ c \in open /\ listener[c].loaded /\ Drained(c)
    BY DEF Quiet, Drained
  <2>2. UpToDate /\ Known(dom)
    BY <2>1 DEF FollowInv, AllKnown, Caught
  <2>3. listener[c].gen = gen
    BY <2>1 DEF ConnInv, Stamps, Typed, ListenerType
  <2>4. QED
    BY <2>2, <2>3 DEF UpToDate, Known
<1>2. QED
  BY <1>1, InitFollowInv, NextFollowInv, AlwaysConnInv, PTL DEF Spec
=============================================================================

---------------------------- MODULE DeviceDebounce ----------------------------
(***************************************************************************)
(* The debounced commands of the device client (DeviceClient): the map of  *)
(* coalescible commands and the vector of the others behind one mutex, the *)
(* worker that sends what is due, and shutdown, which drains them.         *)
(*                                                                         *)
(* Callers of send_command_debounced, the worker and shutdown run on       *)
(* different threads.  The connection and the supervisor are inputs here:  *)
(* they change between any two steps (DeviceConnection models them).  A    *)
(* deadline is an input as well: any subset of the entries may be due.     *)
(***************************************************************************)
EXTENDS Integers, Sequences, FiniteSets, SequencesExt

CONSTANTS
  Callers,        \* threads that submit
  Keys,           \* coalescing keys
  Capacity,       \* 32 in replace
  MaxAccepted     \* bound: accepted submissions

ASSUME DebounceConstants ==
  /\ Capacity \in Nat \ {0} /\ MaxAccepted \in Nat

NoKey == "no key"    \* coalescing_key is None

Entry == [id : Nat, key : Keys \cup {NoKey}]

VARIABLES
  caller,      \* where each caller is in send_command_debounced, and its key
  pending,     \* DebouncedCommands::pending
  loose,       \* DebouncedCommands::non_coalescible
  depth,       \* debounce_depth
  worker,      \* where the worker task is
  batch,       \* due: what the worker still has to send
  isShutdown,  \* is_shutdown
  shut,        \* where shutdown is
  drained,     \* what it still has to cancel
  connected,   \* connection is Some
  refusing,    \* the supervisor is Quarantined or Stopped
  accepted,    \* history: number of accepted commands, the source of ids
  fate         \* history: what became of each command that left, in order

queue  == <<pending, loose, depth>>
env    == <<connected, refusing>>
vars == <<caller, queue, worker, batch, isShutdown, shut, drained, env, accepted, fate>>

Fates == {"answered", "failed", "unsent", "superseded", "shutdown"}

Fate(e, what) == [id |-> e.id, what |-> what]

Init ==
  /\ caller = [c \in Callers |-> [at |-> "idle", key |-> NoKey]]
  /\ pending = {} /\ loose = <<>> /\ depth = 0
  /\ worker = "sleep" /\ batch = <<>>
  /\ isShutdown = FALSE /\ shut = "none" /\ drained = <<>>
  /\ connected = FALSE /\ refusing = FALSE
  /\ accepted = 0 /\ fate = <<>>

-----------------------------------------------------------------------------
(***************************************************************************)
(* send_command_debounced: two unlocked checks, then the queue's lock, a   *)
(* second look at is_shutdown under it, and replace.                       *)
(***************************************************************************)
SubmitLoad(c) ==
  /\ caller[c].at = "idle"
  /\ ~isShutdown
  /\ accepted < MaxAccepted
  /\ \E k \in Keys \cup {NoKey} : caller' = [caller EXCEPT ![c] = [at |-> "loaded", key |-> k]]
  /\ UNCHANGED <<queue, worker, batch, isShutdown, shut, drained, env, accepted, fate>>

SubmitSupervisor(c) ==
  /\ caller[c].at = "loaded"
  /\ caller' = [caller EXCEPT ![c] = IF refusing THEN [at |-> "idle", key |-> NoKey]
                                                 ELSE [@ EXCEPT !.at = "checked"]]
  /\ UNCHANGED <<queue, worker, batch, isShutdown, shut, drained, env, accepted, fate>>

Size == Cardinality(pending) + Len(loose)

Superseded(k) == {e \in pending : e.key = k}

\* Mutant: the flag is not looked at again under the lock.
AdmittedUnchecked(k) == k # NoKey \/ Size < Capacity

\* is_shutdown under the lock, and the room that replace asks for: only a
\* command without a key needs any.
Admitted(k) == ~isShutdown /\ (k # NoKey \/ Size < Capacity)

\* Mutant: a replacement counts as one more entry.
DepthAfterAlways(k) == depth + 1

DepthAfter(k) == IF Superseded(k) # {} THEN depth ELSE depth + 1

SubmitLocked(c) ==
  LET k == caller[c].key
      e == [id |-> accepted + 1, key |-> k]
  IN /\ caller[c].at = "checked"
     /\ Admitted(k) => accepted < MaxAccepted
     /\ caller' = [caller EXCEPT ![c] = [at |-> "idle", key |-> NoKey]]
     /\ IF Admitted(k)
        THEN /\ accepted' = accepted + 1
             /\ depth' = DepthAfter(k)
             /\ IF k = NoKey
                THEN loose' = Append(loose, e) /\ UNCHANGED <<pending, fate>>
                ELSE /\ pending' = (pending \ Superseded(k)) \cup {e}
                     /\ IF Superseded(k) = {} THEN fate' = fate
                        ELSE \E o \in Superseded(k) : fate' = Append(fate, Fate(o, "superseded"))
                     /\ UNCHANGED loose
        ELSE UNCHANGED <<queue, accepted, fate>>
     /\ UNCHANGED <<worker, batch, isShutdown, shut, drained, env>>

-----------------------------------------------------------------------------
(***************************************************************************)
(* The worker: every 20 ms it looks at is_shutdown, takes what is due and  *)
(* sends it, one command at a time.                                        *)
(***************************************************************************)
WorkerWake ==
  /\ worker = "sleep"
  /\ worker' = IF isShutdown THEN "exit" ELSE "take"
  /\ UNCHANGED <<caller, queue, batch, isShutdown, shut, drained, env, accepted, fate>>

\* Mutant: what is due is copied out and stays in the map.
NotDueKept(due) == pending

NotDue(due) == pending \ due

\* depth.fetch_sub after n entries left.
DepthWithout(n) == depth - n

\* What is at the positions S of q, in the order of q (Vec::partition).
At(q, S) ==
  [i \in 1..Cardinality(S) |-> q[CHOOSE j \in S : Cardinality({k \in S : k <= j}) = i]]

\* take_due with the entries of due, in the map's order, then the vector's at
\* the positions late, which are due as well.
TakeDue(due, late) ==
  /\ worker = "take"
  /\ pending' = NotDue(due)
  /\ loose' = At(loose, DOMAIN loose \ late)
  /\ \E order \in SetToSeqs(due) : batch' = order \o At(loose, late)
  /\ depth' = DepthWithout(Len(batch'))
  /\ worker' = IF batch' = <<>> THEN "sleep" ELSE "send"
  /\ UNCHANGED <<caller, isShutdown, shut, drained, env, accepted, fate>>

WorkerTake ==
  \E due \in SUBSET pending, late \in SUBSET (DOMAIN loose) : TakeDue(due, late)

\* send_command without a connection is an error, which the worker drops.
\* With one, the call is made and awaited.
WorkerSend ==
  /\ worker = "send"
  /\ IF connected
     THEN worker' = "await" /\ UNCHANGED <<batch, fate>>
     ELSE /\ fate' = Append(fate, Fate(Head(batch), "unsent"))
          /\ batch' = Tail(batch)
          /\ worker' = IF Tail(batch) = <<>> THEN "sleep" ELSE "send"
  /\ UNCHANGED <<caller, queue, isShutdown, shut, drained, env, accepted>>

\* The call returns an outcome, which is broadcast, or an error, which is not.
WorkerAnswer ==
  /\ worker = "await"
  /\ \E what \in {"answered", "failed"} : fate' = Append(fate, Fate(Head(batch), what))
  /\ batch' = Tail(batch)
  /\ worker' = IF Tail(batch) = <<>> THEN "sleep" ELSE "send"
  /\ UNCHANGED <<caller, queue, isShutdown, shut, drained, env, accepted>>

Worker == WorkerWake \/ WorkerTake \/ WorkerSend \/ WorkerAnswer

-----------------------------------------------------------------------------
(***************************************************************************)
(* DeviceClientInner::shutdown.                                            *)
(***************************************************************************)
ShutdownBegin ==
  /\ shut = "none"
  /\ isShutdown' = TRUE
  /\ shut' = "drain"
  /\ UNCHANGED <<caller, queue, worker, batch, drained, env, accepted, fate>>

\* Mutant: only the map is drained.
DrainedOfMap(order) == [loose |-> loose, out |-> order]

\* DebouncedCommands::drain: the map, in its order, then the vector.
Drained(order) == [loose |-> <<>>, out |-> order \o loose]

ShutdownDrain ==
  /\ shut = "drain"
  /\ \E order \in SetToSeqs(pending) :
       drained' = Drained(order).out /\ loose' = Drained(order).loose
  /\ pending' = {}
  /\ depth' = DepthWithout(Len(drained'))
  /\ shut' = "cancel"
  /\ UNCHANGED <<caller, worker, batch, isShutdown, env, accepted, fate>>

\* Cancelled { Shutdown } for each, then the connection is dropped and the
\* supervisor stopped.
ShutdownCancel ==
  /\ shut = "cancel"
  /\ IF drained # <<>>
     THEN /\ fate' = Append(fate, Fate(Head(drained), "shutdown"))
          /\ drained' = Tail(drained)
          /\ UNCHANGED <<shut, connected>>
     ELSE shut' = "stop" /\ connected' = FALSE /\ UNCHANGED <<fate, drained>>
  /\ UNCHANGED <<caller, queue, worker, batch, isShutdown, refusing, accepted>>

ShutdownStop ==
  /\ shut = "stop"
  /\ refusing' = TRUE
  /\ shut' = "done"
  /\ UNCHANGED <<caller, queue, worker, batch, isShutdown, drained, connected, accepted, fate>>

Shutdown == ShutdownBegin \/ ShutdownDrain \/ ShutdownCancel \/ ShutdownStop

\* The connection and the supervisor.
EnvConnection ==
  /\ connected' = ~connected
  /\ UNCHANGED <<caller, queue, worker, batch, isShutdown, shut, drained, refusing, accepted, fate>>

EnvSupervisor ==
  /\ refusing' = ~refusing
  /\ UNCHANGED <<caller, queue, worker, batch, isShutdown, shut, drained, connected, accepted, fate>>

Submit == \E c \in Callers : SubmitLoad(c) \/ SubmitSupervisor(c) \/ SubmitLocked(c)

Next == Submit \/ Worker \/ Shutdown \/ EnvConnection \/ EnvSupervisor

Spec == Init /\ [][Next]_vars

(***************************************************************************)
(* tokio runs the worker, its timer fires every 20 ms, a deadline passes,  *)
(* a D-Bus call returns (DeviceDaemon answers every command), and a        *)
(* shutdown that began runs to its end on its thread.                      *)
(***************************************************************************)
LiveSpec ==
  /\ Spec
  /\ WF_vars(Worker)
  /\ SF_vars(TakeDue(pending, DOMAIN loose))
  /\ WF_vars(ShutdownDrain \/ ShutdownCancel \/ ShutdownStop)

-----------------------------------------------------------------------------
(***************************************************************************)
(* Properties.                                                             *)
(***************************************************************************)
\* Every variable of the debounce queue keeps its type.
TypeOK ==
  /\ caller \in [Callers -> [at : {"idle", "loaded", "checked"}, key : Keys \cup {NoKey}]]
  /\ pending \subseteq Entry /\ loose \in Seq(Entry) /\ depth \in Nat
  /\ worker \in {"sleep", "take", "send", "await", "exit"} /\ batch \in Seq(Entry)
  /\ isShutdown \in BOOLEAN /\ shut \in {"none", "drain", "cancel", "stop", "done"}
  /\ drained \in Seq(Entry)
  /\ connected \in BOOLEAN /\ refusing \in BOOLEAN
  /\ accepted \in Nat /\ fate \in Seq([id : Nat, what : Fates])

\* debounce_depth, which telemetry publishes, is the number of entries:
\* replacing does not count twice and taking never wraps the counter below 0.
DepthIsExact == depth = Size

\* No submission slips in behind the drain (the comment in
\* new_with_time_source): once shutdown has drained the queue it stays empty,
\* although callers passed the first check before the flag was set.
NothingBehindDrain == shut \in {"cancel", "stop", "done"} => pending = {} /\ loose = <<>>

Holders(i) ==
  Cardinality({e \in pending : e.id = i})
  + Cardinality({j \in DOMAIN loose : loose[j].id = i})
  + Cardinality({j \in DOMAIN batch : batch[j].id = i})
  + Cardinality({j \in DOMAIN drained : drained[j].id = i})
  + Cardinality({j \in DOMAIN fate : fate[j].id = i})

\* An accepted command is in one place, once, until it has one fate: it is
\* never sent and cancelled, sent twice, or lost, whatever shutdown, the
\* worker and the callers do.
OneFate == \A i \in 1..accepted : Holders(i) = 1

\* Every accepted command leaves the queue: it is sent, superseded or
\* cancelled by shutdown, also when the worker exits first.
EveryAcceptedLeaves ==
  \A i \in 1..MaxAccepted :
    (accepted >= i) ~> (\E j \in DOMAIN fate : fate[j].id = i)
=============================================================================

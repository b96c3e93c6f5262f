-------------------------- MODULE DeviceDaemonProofs --------------------------
(***************************************************************************)
(* The device daemon's mailbox, proved for every capacity, set of keys and *)
(* number of commands and owner generations: no command is lost, none is   *)
(* answered twice, at most one is pending per coalescing key, the mailbox  *)
(* stays within its capacity, a late confirmation is announced once and    *)
(* only after a timeout, and the daemon implements CommandMailbox.         *)
(***************************************************************************)
EXTENDS DeviceDaemon, FiniteSetTheorems, TLAPS

-----------------------------------------------------------------------------
\* A function on 1..n is a sequence.
LEMMA FunctionIsSeq ==
  ASSUME NEW S, NEW n \in Nat, NEW f \in [1..n -> S]
  PROVE  f \in Seq(S)
  OBVIOUS

\* Two sequences concatenate to a sequence.
LEMMA ConcatIsSeq ==
  ASSUME NEW S, NEW a \in Seq(S), NEW b \in Seq(S)
  PROVE  a \o b \in Seq(S)
  OBVIOUS

\* VecDeque::remove(i): the result is a queue shorter by one, whose elements
\* are those of the old one in order, without the i-th.
LEMMA WithoutProperties ==
  ASSUME NEW S, NEW s \in Seq(S), NEW i \in 1..Len(s)
  PROVE  /\ Without(s, i) \in Seq(S)
         /\ Len(Without(s, i)) = Len(s) - 1
         /\ \A j \in 1..(Len(s) - 1) :
              Without(s, i)[j] = IF j < i THEN s[j] ELSE s[j + 1]
<1>1. Len(s) - 1 \in Nat
  OBVIOUS
<1>2. \A j \in 1..(Len(s) - 1) : (IF j < i THEN s[j] ELSE s[j + 1]) \in S
  OBVIOUS
<1>3. Without(s, i) \in [1..(Len(s) - 1) -> S]
  BY <1>2 DEF Without
<1>4. QED
  BY <1>1, <1>3 DEF Without

\* Replace-latest on a queue with unique ids and at most one command per key
\* takes out exactly the commands of the submitted key, and keeps both facts.
LEMMA CoalescedProperties ==
  ASSUME NEW q \in Seq(Item), NEW cmd \in Command,
         \A i, j \in 1..Len(q) : q[i].id = q[j].id => i = j,
         \A i, j \in 1..Len(q) : SameCoalescingKey(q[i].cmd, q[j].cmd) => i = j
  PROVE  LET r   == Coalesced(q, cmd)
             old == Replaced(q, cmd)
         IN /\ r \in Seq(Item) /\ Len(r) <= Len(q)
            /\ \A i, j \in 1..Len(r) : r[i].id = r[j].id => i = j
            /\ \A i, j \in 1..Len(r) : SameCoalescingKey(r[i].cmd, r[j].cmd) => i = j
            /\ \A i \in 1..Len(r) : ~SameCoalescingKey(r[i].cmd, cmd)
            /\ old \subseteq Item
            /\ \A o \in old : \E i \in 1..Len(q) : q[i].id = o.id
            /\ \A c : (\E i \in 1..Len(r) : r[i].id = c) <=>
                     /\ \E i \in 1..Len(q) : q[i].id = c
                     /\ \A o \in old : o.id # c
            /\ \A o, p \in old : o = p
<1> DEFINE r == Coalesced(q, cmd)
           old == Replaced(q, cmd)
<1>0. Len(q) \in Nat /\ \A i \in 1..Len(q) : q[i] \in Item
  OBVIOUS
<1>1. CASE Replaceable(q, cmd) = {}
  <2>1. r = q /\ old = {}
    BY <1>1 DEF Coalesced, Replaced
  <2>2. \A i \in 1..Len(q) : ~SameCoalescingKey(q[i].cmd, cmd)
    BY <1>1 DEF Replaceable
  <2>3. QED
    BY <2>1, <2>2
<1>2. CASE Replaceable(q, cmd) # {}
  <2>1. PICK m \in Replaceable(q, cmd) : TRUE
    BY <1>2
  <2>2. m \in 1..Len(q) /\ SameCoalescingKey(q[m].cmd, cmd)
    BY <2>1 DEF Replaceable
  <2>3. \A i \in 1..Len(q) : SameCoalescingKey(q[i].cmd, cmd) => i = m
    BY <2>2 DEF SameCoalescingKey
  <2>4. Replaceable(q, cmd) = {m}
    BY <2>2, <2>3 DEF Replaceable
  <2>5. r = Without(q, m) /\ old = {q[m]}
    <3>1. (CHOOSE i \in {m} : \A j \in {m} : i <= j) = m
      BY <2>2
    <3>2. r = Without(q, m)
      BY <2>4, <3>1 DEF Coalesced
    <3>3. {i \in {m} : \A j \in {m} : i <= j} = {m}
      BY <2>2
    <3>4. old = {q[m]}
      BY <2>4, <3>3 DEF Replaced
    <3>5. QED
      BY <3>2, <3>4
  <2>6. /\ r \in Seq(Item) /\ Len(r) = Len(q) - 1
        /\ \A j \in 1..(Len(q) - 1) : r[j] = IF j < m THEN q[j] ELSE q[j + 1]
    <3>1. /\ Without(q, m) \in Seq(Item) /\ Len(Without(q, m)) = Len(q) - 1
          /\ \A j \in 1..(Len(q) - 1) :
               Without(q, m)[j] = IF j < m THEN q[j] ELSE q[j + 1]
      BY <2>2, WithoutProperties
    <3>2. QED
      BY <3>1, <2>5
  <2> DEFINE at(j) == IF j < m THEN j ELSE j + 1
  <2>7. \A j \in 1..Len(r) : /\ at(j) \in 1..Len(q) /\ at(j) # m /\ r[j] = q[at(j)]
    BY <2>2, <2>6, <1>0
  <2>8. \A i, j \in 1..Len(r) : at(i) = at(j) => i = j
    BY <2>2, <2>6, <1>0
  <2>9. \A k \in 1..Len(q) : k # m => \E j \in 1..Len(r) : at(j) = k
    <3> SUFFICES ASSUME NEW k \in 1..Len(q), k # m
                 PROVE  \E j \in 1..Len(r) : at(j) = k
      OBVIOUS
    <3>1. CASE k < m
      <4>1. k \in 1..Len(r) /\ at(k) = k
        BY <3>1, <2>2, <2>6, <1>0
      <4>2. QED
        BY <4>1
    <3>2. CASE k > m
      <4>1. k - 1 \in 1..Len(r) /\ at(k - 1) = k
        BY <3>2, <2>2, <2>6, <1>0
      <4>2. QED
        BY <4>1
    <3>3. QED
      BY <3>1, <3>2, <2>2
  <2> HIDE DEF at, r, old
  <2>10. \A i, j \in 1..Len(r) : r[i].id = r[j].id => i = j
    BY <2>7, <2>8
  <2>11. \A i, j \in 1..Len(r) : SameCoalescingKey(r[i].cmd, r[j].cmd) => i = j
    BY <2>7, <2>8
  <2>12. \A i \in 1..Len(r) : ~SameCoalescingKey(r[i].cmd, cmd)
    BY <2>7, <2>3
  <2>13. \A c : (\E i \in 1..Len(r) : r[i].id = c) =>
                (\E i \in 1..Len(q) : q[i].id = c) /\ q[m].id # c
    BY <2>7, <2>2
  <2>14. \A c : (\E i \in 1..Len(q) : q[i].id = c) /\ q[m].id # c =>
                (\E i \in 1..Len(r) : r[i].id = c)
    BY <2>7, <2>9
  <2>15. \A c : (\A o \in old : o.id # c) <=> q[m].id # c
    BY <2>5
  <2>16. old \subseteq Item /\ \A o \in old : \E i \in 1..Len(q) : q[i].id = o.id
    BY <2>5, <2>2, <1>0
  <2>17. \A o, p \in old : o = p
    BY <2>5
  <2>18. Len(r) <= Len(q)
    BY <2>6, <1>0
  <2>19. QED
    BY <2>6, <2>10, <2>11, <2>12, <2>13, <2>14, <2>15, <2>16, <2>17, <2>18 DEF r, old
<1>3. QED
  BY <1>1, <1>2

\* The worker's idle locals are well typed, because there is a value.
LEMMA IdleType ==
  /\ Idle.before \in Payload /\ Idle.obs \in Payload
  /\ \A out \in Outcome \cup {"none"} :
       [Idle EXCEPT !.out = out] \in
         WorkerLocals
<1>1. (CHOOSE v \in Values : TRUE) \in Values
  BY DaemonConstants
<1>2. [k \in Keys |-> CHOOSE v \in Values : TRUE] \in Payload
  BY <1>1 DEF Payload
<1>3. 0 \in 0..MaxPolls
  BY DaemonConstants
<1>4. QED
  BY <1>2, <1>3 DEF Idle, WorkerLocals

-----------------------------------------------------------------------------
(***************************************************************************)
(* The inductive invariant.  Where a command is depends on five variables  *)
(* only, whether the worker holds one on three.                            *)
(***************************************************************************)
\* Every id in use was given out, every set of commands has unique ids.
IdsGivenOut ==
  /\ \A s \in arriving : s.id \in 1..(nextSeq - 1)
  /\ \A s, t \in arriving : s.id = t.id => s = t
  /\ \A i \in 1..Len(pending) : pending[i].id \in 1..(nextSeq - 1)
  /\ \A it \in item : it.id \in 1..(nextSeq - 1)
  /\ \A it, jt \in item : it = jt
  /\ \A r \in replies : r.id \in 1..(nextSeq - 1)

PlaceInv == IdsGivenOut /\ ExactlyOnePlace /\ OnePendingPerKey

\* The worker holds a command, and has raised in_flight, exactly where its
\* program counter says so; an outcome is decided when it settles.
WorkerInv ==
  /\ pc \in {"poll", "parked"} <=> item = {}
  /\ inFlight <=> pc \notin {"poll", "parked", "popped", "reply"}
  /\ pc \in {"settled", "reply"} => wk.out \in Outcome

TypeInv == TypeOK /\ IsFiniteSet(timedOut)

IInv == TypeInv /\ PlaceInv /\ WorkerInv /\ Len(pending) <= Capacity

\* The daemon starts with no command anywhere.
LEMMA InitIInv == Init => IInv
<1> SUFFICES ASSUME Init PROVE IInv
  OBVIOUS
<1>1. /\ Idle \in WorkerLocals
      /\ Idle.before \in Payload
  <2>1. Idle = [Idle EXCEPT !.out = "none"]
    BY DEF Idle
  <2>2. QED
    BY <2>1, IdleType
<1>2. proj \in Projection
  BY <1>1 DEF Init, Projection, Lifecycle, ErrorText
<1>3. device \in [val : Payload, effects : SUBSET [id : Nat, cmd : Command], changes : Nat]
      /\ adapter \in [rev : Nat, last : Payload]
  BY <1>1 DEF Init
<1>4. pending \in Seq(Item) /\ broadcasts \in Seq([id : Nat, out : {"TimedOut", "ReconciledApplied"}])
  BY DEF Init
<1>5. TypeOK
  <2>1. MailboxType
    BY <1>4 DEF Init, MailboxType
  <2>2. ControlType
    BY DEF Init, ControlType, PCs
  <2>3. StateType
    BY <1>2, <1>3, <1>4 DEF Init, StateType
  <2>4. wk \in WorkerLocals
    BY <1>1 DEF Init
  <2>5. QED
    BY <2>1, <2>2, <2>3, <2>4 DEF TypeOK
<1>6. IsFiniteSet(timedOut)
  BY FS_EmptySet DEF Init
<1>7. PlaceInv
  BY DEF Init, PlaceInv, IdsGivenOut, ExactlyOnePlace, OnePendingPerKey
<1>8. WorkerInv
  BY DEF Init, WorkerInv
<1>9. Len(pending) <= Capacity
  BY DaemonConstants DEF Init
<1>10. QED
  BY <1>5, <1>6, <1>7, <1>8, <1>9 DEF IInv, TypeInv

-----------------------------------------------------------------------------
(***************************************************************************)
(* The steps that move a command from one place to another.                *)
(***************************************************************************)
\* A new submission gets an id that nothing else has.
LEMMA ArriveKeepsPlaces ==
  ASSUME IInv, NEW cmd \in Command, SubmitArrive(cmd)
  PROVE  PlaceInv' /\ MailboxType'
<1> DEFINE new == [id |-> nextSeq, gen |-> gen, cmd |-> cmd]
<1>1. /\ nextSeq' = nextSeq + 1 /\ arriving' = arriving \cup {new}
      /\ UNCHANGED <<gen, pending, item, replies, superseded>>
  BY DEF SubmitArrive, worker, history
<1>2. nextSeq \in Nat \ {0} /\ gen \in Nat /\ pending \in Seq(Item) /\ Len(pending) \in Nat
  BY DEF IInv, TypeInv, TypeOK, MailboxType
<1>3. new \in Item
  BY <1>2 DEF Item
<1>4. MailboxType'
  BY <1>1, <1>3 DEF IInv, TypeInv, TypeOK, MailboxType
<1>5. IdsGivenOut'
  BY <1>1, <1>2 DEF IInv, PlaceInv, IdsGivenOut
<1>6. ExactlyOnePlace'
  <2>1. \A c \in 1..(nextSeq - 1) : Arriving(c)' <=> Arriving(c)
    BY <1>1, <1>2 DEF Arriving
  <2>2. \A c : /\ InQueue(c)' <=> InQueue(c)
               /\ Executing(c)' <=> Executing(c)
               /\ Answered(c)' <=> Answered(c)
    BY <1>1 DEF InQueue, Executing, Answered
  <2>3. \A c : c = nextSeq => Arriving(c)' /\ ~InQueue(c)' /\ ~Executing(c)' /\ ~Answered(c)'
    <3> SUFFICES ASSUME NEW c, c = nextSeq
                 PROVE  Arriving(c)' /\ ~InQueue(c)' /\ ~Executing(c)' /\ ~Answered(c)'
      OBVIOUS
    <3>0. new \in arriving' /\ new.id = c
      BY <1>1
    <3>1. Arriving(c)'
      BY <3>0 DEF Arriving
    <3>2. ~InQueue(c) /\ ~Executing(c) /\ ~Answered(c)
      BY <1>2 DEF IInv, PlaceInv, IdsGivenOut, InQueue, Executing, Answered
    <3>3. QED
      BY <3>1, <3>2, <2>2
  <2>5. \A c \in 1..(nextSeq' - 1) : c \in 1..(nextSeq - 1) \/ c = nextSeq
    BY <1>1, <1>2
  <2>6. ExactlyOnePlace
    BY DEF IInv, PlaceInv
  <2>7. ASSUME NEW c \in 1..(nextSeq' - 1)
        PROVE  /\ Arriving(c)' \/ InQueue(c)' \/ Executing(c)' \/ Answered(c)'
               /\ Arriving(c)'  => ~InQueue(c)' /\ ~Executing(c)' /\ ~Answered(c)'
               /\ InQueue(c)'   => ~Executing(c)' /\ ~Answered(c)'
               /\ Executing(c)' => ~Answered(c)'
    <3>1. CASE c = nextSeq
      BY <3>1, <2>3
    <3>2. CASE c \in 1..(nextSeq - 1)
      BY <3>2, <2>1, <2>2, <2>6 DEF ExactlyOnePlace
    <3>3. QED
      BY <3>1, <3>2, <2>5
  <2>8. QED
    BY <2>6, <2>7, <1>1 DEF ExactlyOnePlace
<1>7. OnePendingPerKey'
  BY <1>1 DEF IInv, PlaceInv, OnePendingPerKey
<1>8. QED
  BY <1>4, <1>5, <1>6, <1>7 DEF PlaceInv

\* Every command of a queue has a place in it, one id each.
LEMMA ItemsOf ==
  ASSUME IInv
  PROVE  /\ nextSeq \in Nat \ {0} /\ pending \in Seq(Item) /\ Len(pending) \in Nat
         /\ \A i \in 1..Len(pending) : pending[i] \in Item
         /\ arriving \subseteq Item /\ item \subseteq Item
         /\ IdsGivenOut /\ ExactlyOnePlace /\ OnePendingPerKey
  BY DEF IInv, TypeInv, TypeOK, MailboxType, PlaceInv

\* A submission that takes the lock moves itself to the queue or to the
\* answered commands, and what it replaces from the queue to the answered.
LEMMA EnqueueKeepsPlaces ==
  ASSUME IInv, NEW s \in arriving, SubmitEnqueue(s)
  PROVE  PlaceInv' /\ MailboxType' /\ Len(pending') <= Capacity
<1> DEFINE q   == Coalesced(pending, s.cmd)
           old == Replaced(pending, s.cmd)
           rejected == Overloaded(q)
<1>1. /\ nextSeq \in Nat \ {0} /\ pending \in Seq(Item) /\ Len(pending) \in Nat
      /\ \A i \in 1..Len(pending) : pending[i] \in Item
      /\ arriving \subseteq Item /\ item \subseteq Item
      /\ IdsGivenOut /\ ExactlyOnePlace /\ OnePendingPerKey
      /\ s \in Item /\ s.cmd \in Command /\ s.id \in 1..(nextSeq - 1)
  <2>1. arriving \subseteq Item /\ IdsGivenOut
    BY ItemsOf
  <2>2. s \in Item /\ s.cmd \in Command /\ s.id \in 1..(nextSeq - 1)
    BY <2>1 DEF Item, IdsGivenOut
  <2>3. QED
    BY <2>2, ItemsOf
<1>2. /\ q \in Seq(Item) /\ Len(q) <= Len(pending)
      /\ \A i, j \in 1..Len(q) : q[i].id = q[j].id => i = j
      /\ \A i, j \in 1..Len(q) : SameCoalescingKey(q[i].cmd, q[j].cmd) => i = j
      /\ \A i \in 1..Len(q) : ~SameCoalescingKey(q[i].cmd, s.cmd)
      /\ old \subseteq Item
      /\ \A o \in old : InQueue(o.id)
      /\ \A c : (\E i \in 1..Len(q) : q[i].id = c) <=>
               InQueue(c) /\ \A o \in old : o.id # c
      /\ \A o, p \in old : o = p
  <2>1. /\ \A i, j \in 1..Len(pending) : pending[i].id = pending[j].id => i = j
        /\ \A i, j \in 1..Len(pending) :
             SameCoalescingKey(pending[i].cmd, pending[j].cmd) => i = j
    BY <1>1 DEF ExactlyOnePlace, OnePendingPerKey
  <2>2. QED
    BY <2>1, <1>1, CoalescedProperties DEF InQueue
<1>3. /\ arriving' = arriving \ {s}
      /\ superseded' = superseded \cup {[old |-> o.id, new |-> s.id] : o \in old}
      /\ replies' = replies \cup {Reply(o.id, "Superseded") : o \in old}
                            \cup (IF rejected THEN {Reply(s.id, "Overloaded")} ELSE {})
      /\ pending' = IF rejected THEN q ELSE Append(q, s)
      /\ UNCHANGED <<gen, nextSeq, item>>
  BY DEF SubmitEnqueue, worker
<1>4. Len(q) \in Nat /\ \A i \in 1..Len(q) : q[i] \in Item
  BY <1>2
<1>5. ~rejected => Len(q) < Capacity
  BY <1>4, DaemonConstants DEF Overloaded, Depth
<1> HIDE DEF q, old, rejected
<1>6. /\ pending' \in Seq(Item) /\ Len(pending') \in Nat
      /\ rejected => pending' = q
      /\ ~rejected => Len(pending') = Len(q) + 1
      /\ ~rejected => \A i \in 1..Len(q) : pending'[i] = q[i]
      /\ ~rejected => pending'[Len(q) + 1] = s
  BY <1>1, <1>2, <1>3, <1>4
<1>7. Len(pending') <= Capacity
  <2>1. Len(pending) <= Capacity
    BY DEF IInv
  <2>2. QED
    BY <2>1, <1>1, <1>2, <1>4, <1>5, <1>6, DaemonConstants
<1>8. \A c : InQueue(c)' <=>
             (InQueue(c) /\ \A o \in old : o.id # c) \/ (~rejected /\ c = s.id)
  <2> SUFFICES ASSUME NEW c
               PROVE  InQueue(c)' <=>
                        (InQueue(c) /\ \A o \in old : o.id # c) \/ (~rejected /\ c = s.id)
    OBVIOUS
  <2>1. CASE rejected
    <3>1. InQueue(c)' <=> \E i \in 1..Len(q) : q[i].id = c
      BY <2>1, <1>6 DEF InQueue
    <3>2. QED
      BY <2>1, <3>1, <1>2
  <2>2. CASE ~rejected
    <3>1. InQueue(c)' <=> \E i \in 1..(Len(q) + 1) : pending'[i].id = c
      BY <2>2, <1>6 DEF InQueue
    <3>2. (\E i \in 1..(Len(q) + 1) : pending'[i].id = c) <=>
            (\E i \in 1..Len(q) : q[i].id = c) \/ c = s.id
      <4>1. Len(q) + 1 \in 1..(Len(q) + 1) /\ pending'[Len(q) + 1].id = s.id
        BY <2>2, <1>4, <1>6
      <4>2. \A i \in 1..(Len(q) + 1) : i \in 1..Len(q) \/ i = Len(q) + 1
        BY <1>4
      <4>3. \A i \in 1..Len(q) : i \in 1..(Len(q) + 1) /\ pending'[i] = q[i]
        BY <2>2, <1>4, <1>6
      <4>4. QED
        BY <4>1, <4>2, <4>3
    <3>3. QED
      BY <2>2, <3>1, <3>2, <1>2
  <2>3. QED
    BY <2>1, <2>2
<1>9. \A c : Arriving(c)' <=> Arriving(c) /\ c # s.id
  BY <1>1, <1>3 DEF Arriving, IdsGivenOut
<1>10. \A c : Answered(c)' <=>
              Answered(c) \/ (\E o \in old : o.id = c) \/ (rejected /\ c = s.id)
  <2> SUFFICES ASSUME NEW c
               PROVE  Answered(c)' <=>
                        Answered(c) \/ (\E o \in old : o.id = c) \/ (rejected /\ c = s.id)
    OBVIOUS
  <2>1. \A d, out : Reply(d, out).id = d
    BY DEF Reply
  <2>2. \A r : r \in replies' <=> r \in replies
                \/ (\E o \in old : r = Reply(o.id, "Superseded"))
                \/ (rejected /\ r = Reply(s.id, "Overloaded"))
    BY <1>3
  <2>3. QED
    BY <2>1, <2>2 DEF Answered
<1>11. \A c : Executing(c)' <=> Executing(c)
  BY <1>3 DEF Executing
<1>12. Arriving(s.id)
  BY DEF Arriving
<1>13. \A o \in old : o.id \in 1..(nextSeq - 1)
  BY <1>1, <1>2 DEF IdsGivenOut, InQueue
<1>14. ASSUME NEW c \in 1..(nextSeq' - 1)
       PROVE  /\ Arriving(c)' \/ InQueue(c)' \/ Executing(c)' \/ Answered(c)'
              /\ Arriving(c)'  => ~InQueue(c)' /\ ~Executing(c)' /\ ~Answered(c)'
              /\ InQueue(c)'   => ~Executing(c)' /\ ~Answered(c)'
              /\ Executing(c)' => ~Answered(c)'
  <2>1. c \in 1..(nextSeq - 1)
    BY <1>3
  <2>2. /\ Arriving(c) \/ InQueue(c) \/ Executing(c) \/ Answered(c)
        /\ Arriving(c)  => ~InQueue(c) /\ ~Executing(c) /\ ~Answered(c)
        /\ InQueue(c)   => ~Executing(c) /\ ~Answered(c)
        /\ Executing(c) => ~Answered(c)
    BY <2>1, <1>1 DEF ExactlyOnePlace
  <2>3. (\E o \in old : o.id = c) => InQueue(c)
    BY <1>2
  <2>4. c = s.id => Arriving(c)
    BY <1>12
  <2>5. QED
    BY <2>2, <2>3, <2>4, <1>8, <1>9, <1>10, <1>11
<1>15. \A i, j \in 1..Len(pending') : pending'[i].id = pending'[j].id => i = j
  <2>1. CASE rejected
    BY <2>1, <1>2, <1>6
  <2>2. CASE ~rejected
    <3>1. \A i \in 1..Len(q) : q[i].id # s.id
      <4>1. ~InQueue(s.id)
        BY <1>1, <1>12 DEF ExactlyOnePlace
      <4>2. QED
        BY <4>1, <1>2
    <3>2. QED
      BY <2>2, <3>1, <1>2, <1>4, <1>6
  <2>3. QED
    BY <2>1, <2>2
<1>16. \A r, t \in replies' : r.id = t.id => r = t
  <2>1. \A r \in replies' : r \in replies \/ (\E o \in old : r = Reply(o.id, "Superseded"))
                           \/ (rejected /\ r = Reply(s.id, "Overloaded"))
    BY <1>3
  <2>2. \A r \in replies : Answered(r.id)
    BY DEF Answered
  <2>3. ~Answered(s.id) /\ ~InQueue(s.id)
    BY <1>1, <1>12 DEF ExactlyOnePlace
  <2>4. \A o \in old : ~Answered(o.id) /\ o.id # s.id
    BY <1>1, <1>2, <1>13, <2>3 DEF ExactlyOnePlace
  <2>5. \A r, t \in replies : r.id = t.id => r = t
    BY <1>1 DEF ExactlyOnePlace
  <2>6. \A c, out : Reply(c, out).id = c
    BY DEF Reply
  <2>7. QED
    BY <2>1, <2>2, <2>3, <2>4, <2>5, <2>6, <1>2
<1>17. ExactlyOnePlace'
  BY <1>14, <1>15, <1>16 DEF ExactlyOnePlace
<1>18. OnePendingPerKey'
  <2>1. \A i \in 1..Len(q) : ~SameCoalescingKey(s.cmd, q[i].cmd)
    BY <1>2 DEF SameCoalescingKey
  <2>2. CASE rejected
    BY <2>2, <1>2, <1>6 DEF OnePendingPerKey
  <2>3. CASE ~rejected
    <3>1. \A i, j \in 1..Len(pending') :
            SameCoalescingKey(pending'[i].cmd, pending'[j].cmd) => i = j
      BY <2>3, <2>1, <1>2, <1>4, <1>6
    <3>2. QED
      BY <3>1 DEF OnePendingPerKey
  <2>4. QED
    BY <2>2, <2>3
<1>19. IdsGivenOut'
  <2>1. \A i \in 1..Len(pending') : pending'[i].id \in 1..(nextSeq - 1)
    <3>1. \A i \in 1..Len(q) : q[i].id \in 1..(nextSeq - 1)
      BY <1>1, <1>2 DEF InQueue, IdsGivenOut
    <3>2. CASE rejected
      BY <3>1, <3>2, <1>6
    <3>3. CASE ~rejected
      <4>1. \A i \in 1..Len(pending') : i \in 1..Len(q) \/ i = Len(q) + 1
        BY <3>3, <1>4, <1>6
      <4>2. QED
        BY <3>1, <3>3, <4>1, <1>1, <1>6
    <3>4. QED
      BY <3>2, <3>3
  <2>2. \A r \in replies' : r.id \in 1..(nextSeq - 1)
    BY <1>1, <1>3, <1>13 DEF IdsGivenOut, Reply
  <2>3. QED
    BY <2>1, <2>2, <1>1, <1>3 DEF IdsGivenOut
<1>20. MailboxType'
  <2>1. replies' \subseteq [id : Nat, out : Outcome]
    BY <1>1, <1>2, <1>3 DEF IInv, TypeInv, TypeOK, MailboxType, Reply, Item, Outcome
  <2>2. superseded' \subseteq [old : Nat, new : Nat]
    BY <1>1, <1>2, <1>3 DEF IInv, TypeInv, TypeOK, MailboxType, Item
  <2>3. QED
    BY <2>1, <2>2, <1>3, <1>6 DEF IInv, TypeInv, TypeOK, MailboxType
<1>21. QED
  BY <1>7, <1>17, <1>18, <1>19, <1>20 DEF PlaceInv

\* The worker takes the front of the queue.
LEMMA PopKeepsPlaces ==
  ASSUME IInv, WorkerPop
  PROVE  PlaceInv' /\ MailboxType' /\ Len(pending') <= Capacity
<1>1. /\ nextSeq \in Nat \ {0} /\ pending \in Seq(Item) /\ Len(pending) \in Nat
      /\ \A i \in 1..Len(pending) : pending[i] \in Item
      /\ IdsGivenOut /\ ExactlyOnePlace /\ OnePendingPerKey
  BY ItemsOf
<1>2. item = {} /\ Len(pending) <= Capacity
  BY DEF IInv, WorkerInv, WorkerPop
<1>3. UNCHANGED <<gen, nextSeq, arriving, replies, superseded>>
  BY DEF WorkerPop, history
<1>4. CASE pending = <<>>
  <2>1. UNCHANGED <<pending, item>>
    BY <1>4 DEF WorkerPop
  <2>2. MailboxType'
    BY <2>1, <1>3 DEF IInv, TypeInv, TypeOK, MailboxType
  <2>3. PlaceInv'
    BY <2>1, <1>1, <1>3
    DEF PlaceInv, IdsGivenOut, ExactlyOnePlace, OnePendingPerKey, Arriving, InQueue,
        Executing, Answered
  <2>4. QED
    BY <2>1, <2>2, <2>3, <1>2
<1>5. CASE pending # <<>>
  <2> DEFINE h == Head(pending)
  <2>1. item' = {h} /\ pending' = Tail(pending)
    BY <1>5 DEF WorkerPop
  <2>2. /\ h = pending[1] /\ 1 \in 1..Len(pending)
        /\ pending' \in Seq(Item) /\ Len(pending') = Len(pending) - 1
        /\ \A i \in 1..Len(pending') : i + 1 \in 1..Len(pending) /\ pending'[i] = pending[i + 1]
    BY <2>1, <1>1, <1>5
  <2>3. h \in Item /\ h.id \in 1..(nextSeq - 1)
    BY <2>2, <1>1 DEF IdsGivenOut
  <2> HIDE DEF h
  <2>4. \A c : InQueue(c)' <=> InQueue(c) /\ c # h.id
    <3> SUFFICES ASSUME NEW c PROVE InQueue(c)' <=> InQueue(c) /\ c # h.id
      OBVIOUS
    <3>1. \A i \in 1..Len(pending) : i = 1 \/ (i - 1 \in 1..Len(pending') /\ pending'[i - 1] = pending[i])
      <4>1. \A i \in 1..Len(pending) : i = 1 \/ (i - 1 \in 1..Len(pending') /\ (i - 1) + 1 = i)
        BY <2>2, <1>1
      <4>2. QED
        BY <4>1, <2>2
    <3>2. \A i, j \in 1..Len(pending) : pending[i].id = pending[j].id => i = j
      BY <1>1 DEF ExactlyOnePlace
    <3>3. \A i \in 1..Len(pending') : pending[i + 1].id # h.id
      <4>1. \A i \in 1..Len(pending') : i + 1 # 1
        BY <2>2, <1>1
      <4>2. QED
        BY <4>1, <3>2, <2>2
    <3>4. InQueue(c)' => InQueue(c) /\ c # h.id
      BY <3>3, <2>2 DEF InQueue
    <3>5. InQueue(c) /\ c # h.id => InQueue(c)'
      BY <3>1, <2>2 DEF InQueue
    <3>6. QED
      BY <3>4, <3>5
  <2>5. \A c : Executing(c)' <=> c = h.id
    BY <2>1 DEF Executing
  <2>6. \A c : ~Executing(c) /\ (Arriving(c)' <=> Arriving(c)) /\ (Answered(c)' <=> Answered(c))
    BY <1>2, <1>3 DEF Executing, Arriving, Answered
  <2>7. InQueue(h.id)
    BY <2>2 DEF InQueue
  <2>8. ASSUME NEW c \in 1..(nextSeq' - 1)
        PROVE  /\ Arriving(c)' \/ InQueue(c)' \/ Executing(c)' \/ Answered(c)'
               /\ Arriving(c)'  => ~InQueue(c)' /\ ~Executing(c)' /\ ~Answered(c)'
               /\ InQueue(c)'   => ~Executing(c)' /\ ~Answered(c)'
               /\ Executing(c)' => ~Answered(c)'
    <3>1. /\ Arriving(c) \/ InQueue(c) \/ Answered(c)
          /\ Arriving(c) => ~InQueue(c) /\ ~Answered(c)
          /\ InQueue(c)  => ~Answered(c)
      BY <1>1, <1>3, <2>6 DEF ExactlyOnePlace
    <3>2. QED
      BY <3>1, <2>4, <2>5, <2>6, <2>7
  <2>9. \A i, j \in 1..Len(pending') : i + 1 = j + 1 => i = j
    BY <2>2, <1>1
  <2>10. \A i, j \in 1..Len(pending') : pending'[i].id = pending'[j].id => i = j
    BY <2>2, <2>9, <1>1 DEF ExactlyOnePlace
  <2>11. ExactlyOnePlace'
    BY <2>8, <2>10, <1>1, <1>3 DEF ExactlyOnePlace
  <2>12. OnePendingPerKey'
    BY <2>2, <2>9, <1>1 DEF OnePendingPerKey
  <2>13. IdsGivenOut'
    BY <2>1, <2>2, <2>3, <1>1, <1>3 DEF IdsGivenOut
  <2>14. MailboxType'
    BY <2>1, <2>2, <2>3, <1>3 DEF IInv, TypeInv, TypeOK, MailboxType
  <2>15. Len(pending') <= Capacity
    BY <2>2, <1>1, <1>2, DaemonConstants
  <2>16. QED
    BY <2>11, <2>12, <2>13, <2>14, <2>15 DEF PlaceInv
<1>6. QED
  BY <1>4, <1>5

\* The worker answers the command it holds.
LEMMA ReplyKeepsPlaces ==
  ASSUME IInv, WorkerReply
  PROVE  PlaceInv' /\ MailboxType'
<1>1. /\ nextSeq \in Nat \ {0} /\ item \subseteq Item
      /\ IdsGivenOut /\ ExactlyOnePlace /\ OnePendingPerKey
  BY ItemsOf
<1>2. /\ item' = {} /\ replies' = replies \cup {Reply(it.id, wk.out) : it \in item}
      /\ UNCHANGED <<gen, nextSeq, arriving, pending, superseded>>
  BY DEF WorkerReply, mailbox
<1>3. wk.out \in Outcome
  BY DEF IInv, WorkerInv, WorkerReply
<1>4. \A c : /\ ~Executing(c)'
             /\ Arriving(c)' <=> Arriving(c)
             /\ InQueue(c)' <=> InQueue(c)
             /\ Answered(c)' <=> Answered(c) \/ Executing(c)
  <2>1. \A c : /\ ~Executing(c)'
               /\ Arriving(c)' <=> Arriving(c)
               /\ InQueue(c)' <=> InQueue(c)
    BY <1>2 DEF Executing, Arriving, InQueue
  <2>2. \A c, out : Reply(c, out).id = c
    BY DEF Reply
  <2>3. \A r : r \in replies' <=> r \in replies \/ \E it \in item : r = Reply(it.id, wk.out)
    BY <1>2
  <2>4. \A c : Answered(c)' <=> Answered(c) \/ Executing(c)
    BY <2>2, <2>3 DEF Answered, Executing
  <2>5. QED
    BY <2>1, <2>4
<1>5. \A c \in 1..(nextSeq' - 1) :
        /\ Arriving(c)' \/ InQueue(c)' \/ Executing(c)' \/ Answered(c)'
        /\ Arriving(c)'  => ~InQueue(c)' /\ ~Executing(c)' /\ ~Answered(c)'
        /\ InQueue(c)'   => ~Executing(c)' /\ ~Answered(c)'
        /\ Executing(c)' => ~Answered(c)'
  BY <1>1, <1>2, <1>4 DEF ExactlyOnePlace
<1>6. \A r, t \in replies' : r.id = t.id => r = t
  <2>1. \A r \in replies' : r \in replies \/ \E it \in item : r = Reply(it.id, wk.out)
    BY <1>2
  <2>2. \A r \in replies : Answered(r.id)
    BY DEF Answered
  <2>3. \A it \in item : ~Answered(it.id)
    BY <1>1 DEF ExactlyOnePlace, IdsGivenOut, Executing
  <2>4. \A c, out : Reply(c, out).id = c
    BY DEF Reply
  <2>5. \A it, jt \in item : it = jt
    BY <1>1 DEF IdsGivenOut
  <2>6. QED
    BY <2>1, <2>2, <2>3, <2>4, <2>5, <1>1 DEF ExactlyOnePlace
<1>7. ExactlyOnePlace'
  BY <1>1, <1>2, <1>5, <1>6 DEF ExactlyOnePlace
<1>8. IdsGivenOut' /\ OnePendingPerKey'
  BY <1>1, <1>2 DEF IdsGivenOut, OnePendingPerKey, Reply
<1>9. MailboxType'
  BY <1>1, <1>2, <1>3 DEF IInv, TypeInv, TypeOK, MailboxType, Reply, Item
<1>10. QED
  BY <1>7, <1>8, <1>9 DEF PlaceInv

\* Owner replacement answers everything that is queued.
LEMMA DrainKeepsPlaces ==
  ASSUME IInv, IncrementDrain
  PROVE  PlaceInv' /\ MailboxType' /\ Len(pending') <= Capacity
<1>1. /\ nextSeq \in Nat \ {0} /\ pending \in Seq(Item) /\ Len(pending) \in Nat
      /\ \A i \in 1..Len(pending) : pending[i] \in Item
      /\ IdsGivenOut /\ ExactlyOnePlace /\ OnePendingPerKey
  BY ItemsOf
<1>2. /\ pending' = <<>>
      /\ replies' = replies \cup {Reply(pending[i].id, "OwnerReplaced") : i \in 1..Len(pending)}
      /\ UNCHANGED <<gen, nextSeq, arriving, item, superseded>>
  BY DEF IncrementDrain, worker
<1>3. Len(pending') = 0 /\ pending' \in Seq(Item)
  BY <1>2
<1>4. \A c : /\ ~InQueue(c)'
             /\ Arriving(c)' <=> Arriving(c)
             /\ Executing(c)' <=> Executing(c)
             /\ Answered(c)' <=> Answered(c) \/ InQueue(c)
  <2>1. \A c : /\ ~InQueue(c)'
               /\ Arriving(c)' <=> Arriving(c)
               /\ Executing(c)' <=> Executing(c)
    BY <1>2, <1>3 DEF Executing, Arriving, InQueue
  <2>2. \A c, out : Reply(c, out).id = c
    BY DEF Reply
  <2>3. \A r : r \in replies' <=> r \in replies \/
          \E i \in 1..Len(pending) : r = Reply(pending[i].id, "OwnerReplaced")
    BY <1>2
  <2>4. \A c : Answered(c)' <=> Answered(c) \/ InQueue(c)
    BY <2>2, <2>3 DEF Answered, InQueue
  <2>5. QED
    BY <2>1, <2>4
<1>5. \A c \in 1..(nextSeq' - 1) :
        /\ Arriving(c)' \/ InQueue(c)' \/ Executing(c)' \/ Answered(c)'
        /\ Arriving(c)'  => ~InQueue(c)' /\ ~Executing(c)' /\ ~Answered(c)'
        /\ InQueue(c)'   => ~Executing(c)' /\ ~Answered(c)'
        /\ Executing(c)' => ~Answered(c)'
  BY <1>1, <1>2, <1>4 DEF ExactlyOnePlace
<1>6. \A r, t \in replies' : r.id = t.id => r = t
  <2>1. \A r \in replies' : r \in replies \/
          \E i \in 1..Len(pending) : r = Reply(pending[i].id, "OwnerReplaced")
    BY <1>2
  <2>2. \A r \in replies : Answered(r.id)
    BY DEF Answered
  <2>3. \A i \in 1..Len(pending) : ~Answered(pending[i].id)
    BY <1>1 DEF ExactlyOnePlace, IdsGivenOut, InQueue
  <2>4. \A c, out : Reply(c, out).id = c
    BY DEF Reply
  <2>5. QED
    BY <2>1, <2>2, <2>3, <2>4, <1>1 DEF ExactlyOnePlace
<1>7. ExactlyOnePlace' /\ OnePendingPerKey'
  BY <1>3, <1>5, <1>6 DEF ExactlyOnePlace, OnePendingPerKey
<1>8. IdsGivenOut'
  BY <1>1, <1>2, <1>3 DEF IdsGivenOut, Reply
<1>9. MailboxType'
  BY <1>1, <1>2, <1>3 DEF IInv, TypeInv, TypeOK, MailboxType, Reply, Item, Outcome
<1>10. Len(pending') <= Capacity
  BY <1>3, DaemonConstants
<1>11. QED
  BY <1>7, <1>8, <1>9, <1>10 DEF PlaceInv

\* Every other step leaves the commands where they are.
LEMMA FrameKeepsPlaces ==
  ASSUME IInv, UNCHANGED <<nextSeq, arriving, pending, item, replies>>
  PROVE  PlaceInv' /\ Len(pending') <= Capacity
  BY ItemsOf
  DEF IInv, PlaceInv, IdsGivenOut, ExactlyOnePlace, OnePendingPerKey, Arriving, InQueue,
      Executing, Answered

-----------------------------------------------------------------------------
(***************************************************************************)
(* The remaining conjuncts, action by action.                              *)
(***************************************************************************)
\* What an action may assume about the types of the state it reads.
LEMMA TypesOf ==
  ASSUME IInv
  PROVE  /\ MailboxType /\ ControlType /\ StateType /\ wk \in WorkerLocals
         /\ IsFiniteSet(timedOut) /\ WorkerInv
         /\ AdapterObserved \in [rev : Nat, last : Payload]
         /\ ObservedRev \in Nat /\ device.val \in Payload
  BY DEF IInv, TypeInv, TypeOK, StateType, AdapterObserved, ObservedRev

\* Submissions touch neither the worker nor the published state.
LEMMA SubmitKeepsIInv == IInv /\ Submit => IInv'
<1> SUFFICES ASSUME IInv, Submit PROVE IInv'
  OBVIOUS
<1>1. PlaceInv' /\ MailboxType' /\ Len(pending') <= Capacity
  <2>1. CASE \E cmd \in Command : SubmitArrive(cmd)
    <3>1. PICK cmd \in Command : SubmitArrive(cmd)
      BY <2>1
    <3>2. pending' = pending
      BY <3>1 DEF SubmitArrive
    <3>3. QED
      BY <3>1, <3>2, ArriveKeepsPlaces DEF IInv
  <2>2. CASE \E s \in arriving : SubmitEnqueue(s)
    BY <2>2, EnqueueKeepsPlaces
  <2>3. QED
    BY <2>1, <2>2 DEF Submit
<1>2. UNCHANGED <<inFlight, worker, inc, refreshGen, state, broadcasts>> /\ permit' \in BOOLEAN
  BY TypesOf DEF Submit, SubmitArrive, SubmitEnqueue, Notified, history, ControlType
<1>3. ControlType' /\ StateType' /\ (wk \in WorkerLocals)' /\ IsFiniteSet(timedOut)'
  BY <1>2, TypesOf DEF ControlType, StateType, worker, state
<1>4. WorkerInv'
  BY <1>2, TypesOf DEF WorkerInv, worker
<1>5. QED
  BY <1>1, <1>3, <1>4 DEF IInv, TypeInv, TypeOK

\* The worker's control steps: its flag and its program counter move together.
LEMMA WorkerKeepsIInv == IInv /\ Worker => IInv'
<1> SUFFICES ASSUME IInv, Worker PROVE IInv'
  OBVIOUS
<1> USE DEF WorkerInv, ControlType, PCs, mailbox, worker, state, history
<1>0. /\ MailboxType /\ ControlType /\ StateType /\ wk \in WorkerLocals
      /\ IsFiniteSet(timedOut) /\ WorkerInv
      /\ AdapterObserved \in [rev : Nat, last : Payload]
      /\ ObservedRev \in Nat /\ device.val \in Payload
  BY TypesOf
<1>A. ASSUME UNCHANGED <<gen, nextSeq, arriving, pending, item, replies, superseded>>
      PROVE  PlaceInv' /\ Len(pending') <= Capacity /\ MailboxType'
  BY <1>A, <1>0, FrameKeepsPlaces DEF MailboxType
<1>B. ASSUME UNCHANGED <<refreshGen, proj, adapter, device, timedOut, broadcasts>>
      PROVE  StateType' /\ IsFiniteSet(timedOut)'
  BY <1>B, <1>0 DEF StateType
<1>C. \A out \in Outcome : Settled(out) \in WorkerLocals /\ Settled(out).out = out
  BY IdleType DEF Settled, Idle
<1>D. {"Applied", "Unavailable", "TimedOut", "OwnerReplaced"} \subseteq Outcome
  BY DEF Outcome
<1>1. CASE WorkerPop
  <2>1. PlaceInv' /\ MailboxType' /\ Len(pending') <= Capacity
    BY <1>1, PopKeepsPlaces
  <2>2. StateType' /\ IsFiniteSet(timedOut)' /\ (wk \in WorkerLocals)'
    BY <1>1, <1>0, <1>B DEF WorkerPop
  <2>3. ControlType' /\ WorkerInv'
    BY <1>1, <1>0 DEF WorkerPop
  <2>4. QED
    BY <2>1, <2>2, <2>3 DEF IInv, TypeInv, TypeOK
<1>2. CASE WorkerWake \/ WorkerMark \/ WorkerSleep \/ WorkerSettle
  <2>1. PlaceInv' /\ MailboxType' /\ Len(pending') <= Capacity
    BY <1>2, <1>A DEF WorkerWake, WorkerMark, WorkerSleep, WorkerSettle
  <2>2. StateType' /\ IsFiniteSet(timedOut)'
    BY <1>2, <1>B DEF WorkerWake, WorkerMark, WorkerSleep, WorkerSettle
  <2>3. (wk \in WorkerLocals)' /\ wk'.out = wk.out
    BY <1>2, <1>0
    DEF WorkerWake, WorkerMark, WorkerSleep, WorkerSettle, WorkerLocals, MailboxType
  <2>4. ControlType' /\ WorkerInv'
    <3>1. CASE WorkerWake
      BY <3>1, <1>0 DEF WorkerWake
    <3>2. CASE WorkerMark
      BY <3>2, <1>0 DEF WorkerMark
    <3>3. CASE WorkerSleep
      BY <3>3, <1>0 DEF WorkerSleep
    <3>4. CASE WorkerSettle
      BY <3>4, <1>0 DEF WorkerSettle
    <3>5. QED
      BY <1>2, <3>1, <3>2, <3>3, <3>4
  <2>5. QED
    BY <2>1, <2>2, <2>3, <2>4 DEF IInv, TypeInv, TypeOK
<1>3. CASE WorkerBegin
  <2>1. PICK it \in item : TRUE
    BY <1>3 DEF WorkerBegin
  <2>2. it \in Item
    BY <2>1, <1>0 DEF MailboxType
  <2>3. PlaceInv' /\ MailboxType' /\ Len(pending') <= Capacity
    BY <1>3, <1>A DEF WorkerBegin
  <2>4. /\ device' = device \/
             \E e \in [id : Nat, cmd : Command] :
               device' = [device EXCEPT !.effects = @ \cup {e}]
        /\ UNCHANGED <<refreshGen, proj, adapter, timedOut, broadcasts>>
    BY <1>3, <1>0 DEF WorkerBegin, MailboxType, Item
  <2>5. StateType' /\ IsFiniteSet(timedOut)'
    BY <2>4, <1>0 DEF StateType
  <2>6. \/ /\ pc' = "reply" /\ wk' = Settled("OwnerReplaced") /\ inFlight' = FALSE
           /\ woken' = woken
        \/ /\ pc' = "exec" /\ wk' = [wk EXCEPT !.before = proj.val, !.polls = 0]
           /\ inFlight' = inFlight /\ woken' = FALSE
    BY <1>3 DEF WorkerBegin
  <2>7. UNCHANGED <<item, permit, inc>> /\ pc = "marked"
    BY <1>3 DEF WorkerBegin
  <2>8. (wk \in WorkerLocals)'
    <3>1. proj.val \in Payload /\ 0 \in 0..MaxPolls
      BY <1>0, DaemonConstants DEF StateType, Projection
    <3>2. [wk EXCEPT !.before = proj.val, !.polls = 0] \in WorkerLocals
      BY <3>1, <1>0 DEF WorkerLocals
    <3>3. QED
      BY <3>2, <2>6, <1>C, <1>D
  <2>9. ControlType' /\ WorkerInv'
    BY <2>6, <2>7, <1>0, <1>C, <1>D
  <2>10. QED
    BY <2>3, <2>5, <2>8, <2>9 DEF IInv, TypeInv, TypeOK
<1>4. CASE WorkerExecuted \/ WorkerObserve
  <2>1. PlaceInv' /\ MailboxType' /\ Len(pending') <= Capacity
    BY <1>4, <1>A DEF WorkerExecuted, WorkerObserve
  <2>2. StateType' /\ IsFiniteSet(timedOut)'
    BY <1>4, <1>0 DEF WorkerExecuted, WorkerObserve, StateType
  <2>3. (wk \in WorkerLocals)'
    BY <1>4, <1>0 DEF WorkerExecuted, WorkerObserve, WorkerLocals
  <2>4. ControlType' /\ WorkerInv'
    BY <1>4, <1>0 DEF WorkerExecuted, WorkerObserve
  <2>5. QED
    BY <2>1, <2>2, <2>3, <2>4 DEF IInv, TypeInv, TypeOK
<1>5. CASE WorkerCancelled \/ WorkerRan
  <2>1. PlaceInv' /\ MailboxType' /\ Len(pending') <= Capacity
    BY <1>5, <1>A DEF WorkerCancelled, WorkerRan
  <2>2. StateType' /\ IsFiniteSet(timedOut)'
    BY <1>5, <1>B DEF WorkerCancelled, WorkerRan
  <2>3. \/ pc' = "settled" /\ wk' = Settled("OwnerReplaced")
        \/ pc' \in {"observe", "degrade", "degradeTimeout"} /\ wk' = wk
    BY <1>5 DEF WorkerCancelled, WorkerRan
  <2>4. UNCHANGED <<item, permit, inFlight, woken, inc>> /\ pc \in {"exec", "sleep", "ran"}
    BY <1>5 DEF WorkerCancelled, WorkerRan
  <2>5. (wk \in WorkerLocals)'
    BY <2>3, <1>0, <1>C, <1>D
  <2>6. ControlType' /\ WorkerInv'
    BY <2>3, <2>4, <1>0, <1>C, <1>D
  <2>7. QED
    BY <2>1, <2>2, <2>5, <2>6 DEF IInv, TypeInv, TypeOK
<1>6. CASE WorkerObserved
  <2>1. PICK it \in item :
          \/ /\ pc' = "settled" /\ wk' = Settled("OwnerReplaced")
             /\ UNCHANGED <<woken, timedOut>>
          \/ pc' = "publish" /\ UNCHANGED <<wk, woken, timedOut>>
          \/ /\ pc' = "announce" /\ UNCHANGED <<wk, woken>>
             /\ timedOut' = timedOut \cup {[id |-> it.id, cmd |-> it.cmd, before |-> wk.before]}
          \/ /\ pc' = "sleep" /\ wk.polls < MaxPolls
             /\ wk' = [wk EXCEPT !.polls = @ + 1] /\ woken' = FALSE
             /\ UNCHANGED timedOut
    BY <1>6 DEF WorkerObserved, MayPoll
  <2>2. /\ UNCHANGED <<gen, nextSeq, arriving, pending, permit, inFlight, item, inc, refreshGen,
                       proj, adapter, device, replies, broadcasts, superseded>>
        /\ pc = "observed"
    BY <1>6 DEF WorkerObserved
  <2>3. PlaceInv' /\ MailboxType' /\ Len(pending') <= Capacity
    BY <2>2, <1>A
  <2>4. [id |-> it.id, cmd |-> it.cmd, before |-> wk.before] \in TimedOutCommand
    BY <2>1, <1>0 DEF MailboxType, Item, WorkerLocals, TimedOutCommand
  <2>5. StateType'
    BY <2>1, <2>2, <2>4, <1>0 DEF StateType
  <2>6. IsFiniteSet(timedOut)'
    <3>1. timedOut' = timedOut \/ \E t \in TimedOutCommand : timedOut' = timedOut \cup {t}
      BY <2>1, <2>4
    <3>2. \A t : IsFiniteSet(timedOut \cup {t})
      BY <1>0, FS_AddElement
    <3>3. QED
      BY <3>1, <3>2, <1>0
  <2>7. (wk \in WorkerLocals)'
    <3>1. wk.polls \in 0..MaxPolls
      BY <1>0 DEF WorkerLocals
    <3>2. wk.polls < MaxPolls => wk.polls + 1 \in 0..MaxPolls
      BY <3>1, DaemonConstants
    <3>3. wk.polls < MaxPolls => [wk EXCEPT !.polls = @ + 1] \in WorkerLocals
      BY <3>2, <1>0 DEF WorkerLocals
    <3>4. QED
      BY <2>1, <3>3, <1>0, <1>C, <1>D
  <2>8. ControlType' /\ WorkerInv'
    BY <2>1, <2>2, <1>0, <1>C, <1>D
  <2>9. QED
    BY <2>3, <2>5, <2>6, <2>7, <2>8 DEF IInv, TypeInv, TypeOK
<1>7. CASE WorkerPublish \/ WorkerDegrade
  <2>1. PlaceInv' /\ MailboxType' /\ Len(pending') <= Capacity
    BY <1>7, <1>A DEF WorkerPublish, WorkerDegrade
  <2>2. proj' \in Projection
    <3>1. CASE WorkerPublish
      <4>1. wk.gen \in Nat /\ wk.rev \in Nat /\ wk.obs \in Payload
        BY <1>0 DEF WorkerLocals
      <4>2. QED
        BY <3>1, <4>1 DEF WorkerPublish, Projection, Lifecycle, ErrorText
    <3>2. CASE WorkerDegrade
      BY <3>2, <1>0 DEF WorkerDegrade, StateType, Projection, Lifecycle, ErrorText
    <3>3. QED
      BY <1>7, <3>1, <3>2
  <2>3. StateType' /\ IsFiniteSet(timedOut)'
    BY <1>7, <2>2, <1>0 DEF WorkerPublish, WorkerDegrade, StateType
  <2>4. (wk \in WorkerLocals)' /\ wk'.out \in Outcome
    BY <1>7, <1>C, <1>D DEF WorkerPublish, WorkerDegrade
  <2>5. ControlType' /\ WorkerInv'
    BY <1>7, <2>4, <1>0 DEF WorkerPublish, WorkerDegrade
  <2>6. QED
    BY <2>1, <2>3, <2>4, <2>5 DEF IInv, TypeInv, TypeOK
<1>8. CASE WorkerDegradeTimeout
  <2>1. PlaceInv' /\ MailboxType' /\ Len(pending') <= Capacity
    BY <1>8, <1>A DEF WorkerDegradeTimeout
  <2>2. proj' \in Projection
    BY <1>8, <1>0 DEF WorkerDegradeTimeout, StateType, Projection, Lifecycle, ErrorText
  <2>3. PICK it \in item : TRUE
    BY <1>8, <1>0 DEF WorkerDegradeTimeout
  <2> DEFINE t == [id |-> it.id, cmd |-> it.cmd, before |-> wk.before]
  <2>4. item = {it}
    BY <2>3 DEF IInv, PlaceInv, IdsGivenOut
  <2>5. timedOut' = timedOut \cup {t}
    BY <1>8, <2>4 DEF WorkerDegradeTimeout
  <2>6. t \in TimedOutCommand
    BY <2>3, <1>0 DEF MailboxType, Item, WorkerLocals, TimedOutCommand
  <2>7. StateType'
    BY <1>8, <2>2, <2>5, <2>6, <1>0 DEF WorkerDegradeTimeout, StateType
  <2>8. IsFiniteSet(timedOut)'
    BY <2>5, <1>0, FS_AddElement
  <2>9. (wk \in WorkerLocals)' /\ wk'.out \in Outcome
    BY <1>8, <1>C, <1>D DEF WorkerDegradeTimeout
  <2>10. ControlType' /\ WorkerInv'
    BY <1>8, <2>9, <1>0 DEF WorkerDegradeTimeout
  <2>11. QED
    BY <2>1, <2>7, <2>8, <2>9, <2>10 DEF IInv, TypeInv, TypeOK
<1>9. CASE WorkerAnnounce
  <2>1. PlaceInv' /\ MailboxType' /\ Len(pending') <= Capacity
    BY <1>9, <1>A DEF WorkerAnnounce
  <2>2. PICK it \in item : broadcasts' = Append(broadcasts, Reply(it.id, "TimedOut"))
    BY <1>9 DEF WorkerAnnounce
  <2>3. Reply(it.id, "TimedOut") \in [id : Nat, out : {"TimedOut", "ReconciledApplied"}]
    BY <2>2, <1>0 DEF MailboxType, Item, Reply
  <2>4. StateType' /\ IsFiniteSet(timedOut)'
    BY <1>9, <2>2, <2>3, <1>0 DEF WorkerAnnounce, StateType
  <2>5. (wk \in WorkerLocals)' /\ wk'.out \in Outcome
    BY <1>9, <1>C, <1>D DEF WorkerAnnounce
  <2>6. ControlType' /\ WorkerInv'
    BY <1>9, <2>5, <1>0 DEF WorkerAnnounce
  <2>7. QED
    BY <2>1, <2>4, <2>5, <2>6 DEF IInv, TypeInv, TypeOK
<1>10. CASE WorkerReply
  <2>1. PlaceInv' /\ MailboxType'
    BY <1>10, ReplyKeepsPlaces
  <2>2. Len(pending') <= Capacity
    BY <1>10 DEF WorkerReply, IInv
  <2>3. StateType' /\ IsFiniteSet(timedOut)'
    BY <1>10, <1>B DEF WorkerReply
  <2>4. Idle \in WorkerLocals
    <3>1. Idle = [Idle EXCEPT !.out = "none"]
      BY DEF Idle
    <3>2. QED
      BY <3>1, IdleType
  <2>5. (wk \in WorkerLocals)'
    BY <1>10, <2>4 DEF WorkerReply
  <2>6. ControlType' /\ WorkerInv'
    BY <1>10, <1>0 DEF WorkerReply
  <2>7. QED
    BY <2>1, <2>2, <2>3, <2>5, <2>6 DEF IInv, TypeInv, TypeOK
<1>11. QED
  BY <1>1, <1>2, <1>3, <1>4, <1>5, <1>6, <1>7, <1>8, <1>9, <1>10 DEF Worker

\* The refresh loop, owner replacement and the device move no command except
\* by draining the queue.
LEMMA OthersKeepIInv ==
  IInv /\ (RefreshBegin \/ RefreshApply \/ Increment \/ DeviceEffect \/ DeviceChange) => IInv'
<1> SUFFICES ASSUME IInv,
                    RefreshBegin \/ RefreshApply \/ Increment \/ DeviceEffect \/ DeviceChange
             PROVE  IInv'
  OBVIOUS
<1> USE DEF WorkerInv, ControlType, PCs, mailbox, worker, state, history
<1>0. /\ MailboxType /\ ControlType /\ StateType /\ wk \in WorkerLocals
      /\ IsFiniteSet(timedOut) /\ WorkerInv
      /\ AdapterObserved \in [rev : Nat, last : Payload]
      /\ ObservedRev \in Nat /\ device.val \in Payload
  BY TypesOf
<1>A. ASSUME UNCHANGED <<nextSeq, arriving, pending, item, replies, superseded>>,
             gen' \in Nat \ {0}
      PROVE  PlaceInv' /\ Len(pending') <= Capacity /\ MailboxType'
  BY <1>A, <1>0, FrameKeepsPlaces DEF MailboxType
<1>B. ASSUME UNCHANGED <<refreshGen, proj, adapter, device, timedOut, broadcasts>>
      PROVE  StateType' /\ IsFiniteSet(timedOut)'
  BY <1>B, <1>0 DEF StateType
<1>C. ASSUME UNCHANGED <<permit, inFlight, pc, item, wk, woken>>,
             inc' \in {"none", "drain", "reset", "notify"}
      PROVE  ControlType' /\ WorkerInv' /\ (wk \in WorkerLocals)'
  BY <1>C, <1>0
<1>D. gen \in Nat \ {0}
  BY <1>0 DEF MailboxType
<1>1. CASE RefreshBegin
  <2>1. StateType' /\ IsFiniteSet(timedOut)'
    BY <1>1, <1>0, <1>D DEF RefreshBegin, StateType
  <2>2. QED
    BY <1>1, <1>0, <1>A, <1>C, <1>D, <2>1 DEF RefreshBegin, IInv, TypeInv, TypeOK
<1>2. CASE RefreshApply
  <2>1. proj' \in Projection
    <3>1. refreshGen \in Nat /\ proj.rev + 1 \in Nat /\ proj \in Projection
      BY <1>0 DEF StateType, Projection
    <3>2. proj' = proj \/ proj' = [gen |-> refreshGen, rev |-> proj.rev + 1, life |-> "Ready",
                                   err |-> "none", val |-> device.val]
      BY <1>2 DEF RefreshApply
    <3>3. [gen |-> refreshGen, rev |-> proj.rev + 1, life |-> "Ready", err |-> "none",
           val |-> device.val] \in Projection
      BY <3>1, <1>0 DEF Projection, Lifecycle, ErrorText
    <3>4. QED
      BY <3>1, <3>2, <3>3
  <2>2. timedOut' \subseteq timedOut
    BY <1>2 DEF RefreshApply, KeptForReconciliation
  <2>3. broadcasts' \in Seq([id : Nat, out : {"TimedOut", "ReconciledApplied"}])
    <3> DEFINE rec == Reconcilable(device.val)
    <3>1. IsFiniteSet(rec) /\ Cardinality(rec) \in Nat
      BY <1>0, FS_Subset, FS_CardinalityType DEF Reconcilable
    <3>2. rec \subseteq TimedOutCommand
      BY <1>0 DEF Reconcilable, StateType
    <3>3. \/ broadcasts' = broadcasts
          \/ \E order \in [1..Cardinality(rec) -> rec] :
               broadcasts' = broadcasts \o
                 [i \in DOMAIN order |-> Reply(order[i].id, "ReconciledApplied")]
      BY <1>2 DEF RefreshApply
    <3>4. ASSUME NEW order \in [1..Cardinality(rec) -> rec]
          PROVE  [i \in DOMAIN order |-> Reply(order[i].id, "ReconciledApplied")] \in
                   Seq([id : Nat, out : {"TimedOut", "ReconciledApplied"}])
      <4>1. \A i \in 1..Cardinality(rec) :
              Reply(order[i].id, "ReconciledApplied") \in
                [id : Nat, out : {"TimedOut", "ReconciledApplied"}]
        BY <3>2 DEF Reply, TimedOutCommand
      <4>2. DOMAIN order = 1..Cardinality(rec)
        OBVIOUS
      <4>3. [i \in DOMAIN order |-> Reply(order[i].id, "ReconciledApplied")] \in
              [1..Cardinality(rec) -> [id : Nat, out : {"TimedOut", "ReconciledApplied"}]]
        BY <4>1, <4>2
      <4>4. QED
        BY <3>1, <4>3, FunctionIsSeq
    <3>5. broadcasts \in Seq([id : Nat, out : {"TimedOut", "ReconciledApplied"}])
      BY <1>0 DEF StateType
    <3>6. CASE broadcasts' = broadcasts
      BY <3>5, <3>6
    <3>7. CASE broadcasts' # broadcasts
      <4>1. PICK order \in [1..Cardinality(rec) -> rec] :
              broadcasts' = broadcasts \o
                [i \in DOMAIN order |-> Reply(order[i].id, "ReconciledApplied")]
        BY <3>3, <3>7
      <4>2. QED
        BY <4>1, <3>4, <3>5, ConcatIsSeq
    <3>8. QED
      BY <3>6, <3>7
  <2>4. adapter' = AdapterObserved /\ refreshGen' = 0 /\ UNCHANGED device
    BY <1>2 DEF RefreshApply
  <2>5. StateType' /\ IsFiniteSet(timedOut)'
    BY <2>1, <2>2, <2>3, <2>4, <1>0, FS_Subset DEF StateType
  <2>6. QED
    BY <1>2, <1>0, <1>A, <1>C, <1>D, <2>5 DEF RefreshApply, IInv, TypeInv, TypeOK
<1>3. CASE IncrementBump
  BY <1>3, <1>0, <1>A, <1>B, <1>C, <1>D DEF IncrementBump, IInv, TypeInv, TypeOK
<1>4. CASE IncrementDrain
  <2>1. PlaceInv' /\ MailboxType' /\ Len(pending') <= Capacity
    BY <1>4, DrainKeepsPlaces
  <2>2. QED
    BY <1>4, <1>0, <1>B, <1>C, <2>1 DEF IncrementDrain, IInv, TypeInv, TypeOK
<1>5. CASE IncrementReset
  <2>1. proj' \in Projection
    BY <1>5, <1>0, <1>D DEF IncrementReset, StateType, Projection, Lifecycle, ErrorText
  <2>2. StateType' /\ IsFiniteSet(timedOut)'
    BY <1>5, <1>0, <2>1 DEF IncrementReset, StateType
  <2>3. QED
    BY <1>5, <1>0, <1>A, <1>C, <1>D, <2>2 DEF IncrementReset, IInv, TypeInv, TypeOK
<1>6. CASE IncrementNotify
  <2>1. ControlType' /\ WorkerInv' /\ (wk \in WorkerLocals)'
    BY <1>6, <1>0 DEF IncrementNotify
  <2>2. QED
    BY <1>6, <1>0, <1>A, <1>B, <1>D, <2>1 DEF IncrementNotify, IInv, TypeInv, TypeOK
<1>7. CASE DeviceEffect \/ DeviceChange
  <2>1. device' \in [val : Payload, effects : SUBSET [id : Nat, cmd : Command], changes : Nat]
    <3>1. CASE DeviceEffect
      <4>1. PICK e \in device.effects, v \in Values :
              device' = [device EXCEPT !.val[e.cmd.key] = v, !.effects = @ \ {e}]
        BY <3>1 DEF DeviceEffect
      <4>2. QED
        BY <4>1, <1>0 DEF StateType, Payload
    <3>2. CASE DeviceChange
      <4>1. PICK k \in Keys, v \in Values :
              device' = [device EXCEPT !.val[k] = v, !.changes = @ + 1]
        BY <3>2 DEF DeviceChange
      <4>2. device.changes + 1 \in Nat /\ device.effects \subseteq [id : Nat, cmd : Command]
        BY <1>0 DEF StateType
      <4>3. [device.val EXCEPT ![k] = v] \in Payload
        BY <1>0 DEF Payload
      <4>4. device' = [val |-> [device.val EXCEPT ![k] = v], effects |-> device.effects,
                       changes |-> device.changes + 1]
        BY <4>1, <1>0 DEF StateType
      <4>5. QED
        BY <4>2, <4>3, <4>4
    <3>3. QED
      BY <1>7, <3>1, <3>2
  <2>2. /\ UNCHANGED <<gen, nextSeq, arriving, pending, permit, inFlight, pc, item, wk, woken, inc,
                       replies, superseded>>
        /\ UNCHANGED <<refreshGen, proj, adapter, timedOut, broadcasts>>
    BY <1>7 DEF DeviceEffect, DeviceChange
  <2>3. StateType' /\ IsFiniteSet(timedOut)'
    BY <2>1, <2>2, <1>0 DEF StateType
  <2>4. QED
    BY <1>0, <1>A, <1>C, <1>D, <2>2, <2>3 DEF IInv, TypeInv, TypeOK
<1>8. QED
  BY <1>1, <1>2, <1>3, <1>4, <1>5, <1>6, <1>7 DEF Increment

\* Every step of the daemon preserves the invariant.
LEMMA NextKeepsIInv == IInv /\ [Next]_vars => IInv'
<1> SUFFICES ASSUME IInv, [Next]_vars PROVE IInv'
  OBVIOUS
<1>1. CASE Submit
  BY <1>1, SubmitKeepsIInv
<1>2. CASE Worker
  BY <1>2, WorkerKeepsIInv
<1>3. CASE RefreshBegin \/ RefreshApply \/ Increment \/ DeviceEffect \/ DeviceChange
  BY <1>3, OthersKeepIInv
<1>4. CASE UNCHANGED vars
  <2>1. UNCHANGED <<nextSeq, arriving, pending, item, replies>>
    BY <1>4 DEF vars, mailbox, worker, history
  <2>2. PlaceInv' /\ Len(pending') <= Capacity
    BY <2>1, FrameKeepsPlaces
  <2>3. TypeInv' /\ WorkerInv'
    BY <1>4, TypesOf
    DEF vars, mailbox, worker, state, history, TypeInv, TypeOK, MailboxType, ControlType,
        StateType, WorkerInv
  <2>4. QED
    BY <2>2, <2>3 DEF IInv
<1>5. QED
  BY <1>1, <1>2, <1>3, <1>4 DEF Next

-----------------------------------------------------------------------------
\* Type correctness of the daemon.
THEOREM DaemonTypeOK == Spec => []TypeOK
<1>1. IInv => TypeOK
  BY DEF IInv, TypeInv
<1>2. QED
  BY <1>1, InitIInv, NextKeepsIInv, PTL DEF Spec

\* No command submitted to the daemon is lost or answered twice.
THEOREM NoCommandLost == Spec => []ExactlyOnePlace
<1>1. IInv => ExactlyOnePlace
  BY DEF IInv, PlaceInv
<1>2. QED
  BY <1>1, InitIInv, NextKeepsIInv, PTL DEF Spec

\* At most one command per coalescing key is pending.
THEOREM CoalescingHolds == Spec => []OnePendingPerKey
<1>1. IInv => OnePendingPerKey
  BY DEF IInv, PlaceInv
<1>2. QED
  BY <1>1, InitIInv, NextKeepsIInv, PTL DEF Spec

\* The mailbox stays within its capacity and in_flight follows the worker.
THEOREM MailboxStaysBounded == Spec => []MailboxBounded
<1>1. IInv => MailboxBounded
  BY DEF IInv, WorkerInv, MailboxBounded, TypeInv, TypeOK, ControlType, PCs
<1>2. QED
  BY <1>1, InitIInv, NextKeepsIInv, PTL DEF Spec

-----------------------------------------------------------------------------
(***************************************************************************)
(* Timeouts and late confirmations.                                        *)
(***************************************************************************)
\* The elements of a concatenation.
LEMMA ConcatElements ==
  ASSUME NEW S, NEW a \in Seq(S), NEW b \in Seq(S)
  PROVE  /\ Len(a) \in Nat /\ Len(b) \in Nat /\ Len(a \o b) = Len(a) + Len(b)
         /\ \A i \in 1..Len(a) : (a \o b)[i] = a[i]
         /\ \A i \in (Len(a) + 1)..(Len(a) + Len(b)) : (a \o b)[i] = b[i - Len(a)]
  OBVIOUS

\* The outcome of command c is TimedOut, given or decided.
TimedOutFor(c) ==
  \/ Reply(c, "TimedOut") \in replies
  \/ Executing(c) /\ (pc = "announce" \/ wk.out = "TimedOut")

\* timed_out holds command c.
Held(c) == \E t \in timedOut : t.id = c

\* The late confirmation of command c was announced.
Late(c) == \E i \in Announced("ReconciledApplied") : broadcasts[i].id = c

\* timed_out holds a command once, after its timeout was decided and before
\* its late confirmation was announced; no outcome is decided before the worker
\* settles.
ReconInv ==
  /\ \A i, j \in Announced("ReconciledApplied") : broadcasts[i].id = broadcasts[j].id => i = j
  /\ \A t, u \in timedOut : t.id = u.id => t = u
  /\ \A c : Held(c) \/ Late(c) => TimedOutFor(c)
  /\ \A c : ~(Held(c) /\ Late(c))
  /\ pc \notin {"settled", "reply"} => wk.out = "none"

\* A command that the worker is executing has no outcome yet.
LEMMA NoOutcomeYet ==
  ASSUME IInv, ReconInv, NEW it \in item, pc \notin {"announce", "settled", "reply"}
  PROVE  ~TimedOutFor(it.id)
<1>1. Executing(it.id)
  BY DEF Executing
<1>2. ~Answered(it.id)
  <2>1. it.id \in 1..(nextSeq - 1)
    BY DEF IInv, PlaceInv, IdsGivenOut
  <2>2. QED
    BY <1>1, <2>1 DEF IInv, PlaceInv, ExactlyOnePlace
<1>3. Reply(it.id, "TimedOut") \notin replies
  BY <1>2 DEF Answered, Reply
<1>4. wk.out # "TimedOut"
  BY DEF ReconInv
<1>5. QED
  BY <1>3, <1>4 DEF TimedOutFor

\* An outcome that is TimedOut stays so when the worker keeps the command and
\* the decision, and when it answers.
LEMMA TimedOutStays ==
  ASSUME replies \subseteq replies', NEW c, TimedOutFor(c),
         \/ UNCHANGED item /\ (pc = "announce" \/ wk.out = "TimedOut" =>
                                 (pc' = "announce" \/ wk'.out = "TimedOut"))
         \/ pc # "announce" /\ replies' = replies \cup {Reply(it.id, wk.out) : it \in item}
  PROVE  TimedOutFor(c)'
<1>1. CASE Reply(c, "TimedOut") \in replies
  BY <1>1 DEF TimedOutFor
<1>2. CASE Executing(c) /\ (pc = "announce" \/ wk.out = "TimedOut")
  <2>1. CASE UNCHANGED item /\ (pc' = "announce" \/ wk'.out = "TimedOut")
    BY <1>2, <2>1 DEF TimedOutFor, Executing
  <2>2. CASE wk.out = "TimedOut" /\ replies' = replies \cup {Reply(it.id, wk.out) : it \in item}
    BY <1>2, <2>2 DEF TimedOutFor, Executing
  <2>3. QED
    BY <1>2, <2>1, <2>2
<1>3. QED
  BY <1>1, <1>2 DEF TimedOutFor

\* Steps that announce nothing and record no timeout.
LEMMA FrameKeepsRecon ==
  ASSUME IInv, ReconInv, UNCHANGED <<timedOut, broadcasts>>,
         \A c : TimedOutFor(c) => TimedOutFor(c)',
         pc' \notin {"settled", "reply"} => wk'.out = "none"
  PROVE  ReconInv'
<1>1. Announced("ReconciledApplied")' = Announced("ReconciledApplied")
  BY DEF Announced
<1>2. \A c : (Late(c)' <=> Late(c)) /\ (Held(c)' <=> Held(c))
  BY <1>1 DEF Late, Held
<1>3. QED
  BY <1>1, <1>2 DEF ReconInv

\* A timeout is recorded for the command in the worker's hands.
LEMMA RecordKeepsRecon ==
  ASSUME IInv, ReconInv, NEW it \in item, pc \notin {"announce", "settled", "reply"},
         NEW t, t.id = it.id, timedOut' = timedOut \cup {t},
         UNCHANGED <<broadcasts, replies, item>>,
         pc' = "announce" \/ wk'.out = "TimedOut",
         pc' \notin {"settled", "reply"} => wk'.out = "none"
  PROVE  ReconInv'
<1>1. ~Held(it.id) /\ ~Late(it.id)
  BY NoOutcomeYet DEF ReconInv
<1>2. Announced("ReconciledApplied")' = Announced("ReconciledApplied")
  BY DEF Announced
<1>3. \A c : (Late(c)' <=> Late(c)) /\ (Held(c)' <=> Held(c) \/ c = it.id)
  BY <1>2 DEF Late, Held
<1>4. \A c : TimedOutFor(c) \/ c = it.id => TimedOutFor(c)'
  BY DEF TimedOutFor, Executing
<1>5. \A u, v \in timedOut' : u.id = v.id => u = v
  BY <1>1 DEF Held, ReconInv
<1>6. QED
  BY <1>1, <1>2, <1>3, <1>4, <1>5 DEF ReconInv

\* The worker announces a convergence timeout: no late confirmation.
LEMMA AnnounceKeepsRecon ==
  ASSUME IInv, ReconInv, WorkerAnnounce
  PROVE  ReconInv'
<1>1. PICK it \in item : broadcasts' = Append(broadcasts, Reply(it.id, "TimedOut"))
  BY DEF WorkerAnnounce
<1>2. /\ UNCHANGED <<timedOut, replies, item>> /\ pc = "announce" /\ pc' = "settled"
      /\ wk'.out = "TimedOut"
  BY DEF WorkerAnnounce, Settled, Idle, state
<1>3. broadcasts \in Seq([id : Nat, out : {"TimedOut", "ReconciledApplied"}])
  BY TypesOf DEF StateType
<1>4. /\ Len(broadcasts') = Len(broadcasts) + 1 /\ Len(broadcasts) \in Nat
      /\ \A i \in 1..Len(broadcasts) : broadcasts'[i] = broadcasts[i]
      /\ broadcasts'[Len(broadcasts) + 1].out = "TimedOut"
  BY <1>1, <1>3 DEF Reply
<1>5. /\ Announced("ReconciledApplied")' = Announced("ReconciledApplied")
      /\ \A i \in Announced("ReconciledApplied") : broadcasts'[i] = broadcasts[i]
  <2>1. \A i : i \in 1..Len(broadcasts') <=> i \in 1..Len(broadcasts) \/ i = Len(broadcasts) + 1
    BY <1>4
  <2>2. QED
    BY <1>4, <2>1 DEF Announced
<1>6. \A c : (Late(c)' <=> Late(c)) /\ (Held(c)' <=> Held(c))
  BY <1>2, <1>5 DEF Late, Held
<1>7. \A c : TimedOutFor(c) => TimedOutFor(c)'
  BY <1>2, TimedOutStays
<1>8. QED
  BY <1>2, <1>5, <1>6, <1>7 DEF ReconInv

\* The refresh loop announces each of the commands it takes out of timed_out
\* once, and they had not been announced before.
LEMMA RefreshKeepsRecon ==
  ASSUME IInv, ReconInv, RefreshApply
  PROVE  ReconInv'
<1> DEFINE rec == Reconcilable(device.val)
           n   == Cardinality(rec)
           m   == Len(broadcasts)
<1>0. UNCHANGED <<pc, wk, item, replies>>
  BY DEF RefreshApply, worker
<1>1. CASE UNCHANGED <<timedOut, broadcasts>>
  <2>1. \A c : TimedOutFor(c) => TimedOutFor(c)'
    BY <1>0 DEF TimedOutFor, Executing
  <2>2. QED
    BY <1>0, <1>1, <2>1, FrameKeepsRecon DEF ReconInv
<1>2. CASE /\ timedOut' = KeptForReconciliation(device.val)
           /\ \E order \in [1..n -> rec] :
                /\ \A i, j \in DOMAIN order : order[i] = order[j] => i = j
                /\ broadcasts' = broadcasts \o
                     [i \in DOMAIN order |-> Reply(order[i].id, "ReconciledApplied")]
  <2>1. PICK order \in [1..n -> rec] :
          /\ \A i, j \in DOMAIN order : order[i] = order[j] => i = j
          /\ broadcasts' = broadcasts \o
               [i \in DOMAIN order |-> Reply(order[i].id, "ReconciledApplied")]
    BY <1>2
  <2>2. /\ broadcasts \in Seq([id : Nat, out : {"TimedOut", "ReconciledApplied"}])
        /\ n \in Nat /\ rec \subseteq timedOut /\ timedOut' = timedOut \ rec
        /\ timedOut \subseteq TimedOutCommand
    BY <1>2, TypesOf, FS_Subset, FS_CardinalityType
    DEF StateType, Reconcilable, KeptForReconciliation
  <2> DEFINE late == [i \in DOMAIN order |-> Reply(order[i].id, "ReconciledApplied")]
             S    == [id : Nat, out : {"TimedOut", "ReconciledApplied"}]
  <2>3. late \in [1..n -> S] /\ late \in Seq(S)
    <3>1. DOMAIN order = 1..n
      OBVIOUS
    <3>2. \A i \in 1..n : Reply(order[i].id, "ReconciledApplied") \in S
      BY <2>2 DEF Reply, TimedOutCommand
    <3>3. late \in [1..n -> S]
      BY <3>1, <3>2
    <3>4. QED
      BY <2>2, <3>3, FunctionIsSeq
  <2>4. \A i \in 1..n : late[i].id = order[i].id /\ late[i].out = "ReconciledApplied"
    BY DEF Reply
  <2> HIDE DEF late, n, rec
  <2>5. /\ m \in Nat /\ Len(late) = n /\ Len(broadcasts') = m + n
        /\ \A i \in 1..m : broadcasts'[i] = broadcasts[i]
        /\ \A i \in (m + 1)..(m + n) : broadcasts'[i] = late[i - m]
    <3>1. broadcasts' = broadcasts \o late
      BY <2>1 DEF late
    <3>2. Len(late) = n
      BY <2>2, <2>3
    <3>3. broadcasts \in Seq(S)
      BY <2>2
    <3> HIDE DEF S
    <3>4. QED
      BY <2>3, <3>1, <3>2, <3>3, ConcatElements
  <2> DEFINE old == Announced("ReconciledApplied")
             new == {i \in (m + 1)..(m + n) : TRUE}
  <2>6. /\ Announced("ReconciledApplied")' = old \cup new
        /\ \A i \in old : i \in 1..m /\ broadcasts'[i] = broadcasts[i]
        /\ \A i \in new : /\ i - m \in 1..n /\ i - m \in DOMAIN order
                          /\ order[i - m] \in rec
                          /\ broadcasts'[i].id = order[i - m].id
    <3>1. \A i : i \in 1..(m + n) <=> i \in 1..m \/ i \in (m + 1)..(m + n)
      BY <2>2, <2>5
    <3>2. \A i \in (m + 1)..(m + n) : i - m \in 1..n
      BY <2>2, <2>5
    <3>3. \A i \in (m + 1)..(m + n) :
            /\ broadcasts'[i].id = order[i - m].id
            /\ broadcasts'[i].out = "ReconciledApplied"
            /\ order[i - m] \in rec
      BY <2>4, <2>5, <3>2
    <3>4. Announced("ReconciledApplied")' =
            {i \in 1..(m + n) : broadcasts'[i].out = "ReconciledApplied"}
      BY <2>5 DEF Announced
    <3> HIDE DEF m
    <3>5. \A i \in old : i \in 1..m /\ broadcasts'[i] = broadcasts[i]
      BY <2>5 DEF Announced, m
    <3>6. \A i \in 1..m : i \in old <=> broadcasts'[i].out = "ReconciledApplied"
      BY <2>5 DEF Announced, m
    <3>7. Announced("ReconciledApplied")' = old \cup new
      <4> HIDE DEF old
      <4>1. QED
        BY <3>1, <3>3, <3>4, <3>5, <3>6
    <3>8. \A i \in new : i - m \in 1..n /\ i - m \in DOMAIN order
      BY <3>2
    <3>9. QED
      BY <3>3, <3>5, <3>7, <3>8 DEF m
  <2>7. \A i \in new : Held(broadcasts'[i].id)
    BY <2>2, <2>6 DEF Held
  <2>8. \A i \in old : Late(broadcasts'[i].id)
    BY <2>6 DEF Late
  <2>9. \A i, j \in old \cup new : broadcasts'[i].id = broadcasts'[j].id => i = j
    <3>1. \A i, j \in old : broadcasts'[i].id = broadcasts'[j].id => i = j
      BY <2>6 DEF ReconInv
    <3>2. \A i, j \in new : broadcasts'[i].id = broadcasts'[j].id => i = j
      <4> SUFFICES ASSUME NEW i \in new, NEW j \in new, broadcasts'[i].id = broadcasts'[j].id
                   PROVE  i = j
        OBVIOUS
      <4>1. order[i - m] = order[j - m]
        BY <2>2, <2>6 DEF ReconInv
      <4>2. i - m = j - m
        BY <2>1, <2>6, <4>1
      <4>3. QED
        BY <2>2, <2>5, <4>2
    <3>3. \A i \in old, j \in new : broadcasts'[i].id # broadcasts'[j].id
      BY <2>7, <2>8 DEF ReconInv
    <3>4. QED
      BY <3>1, <3>2, <3>3
  <2>10. \A c : Late(c)' => Late(c) \/ \E t \in rec : t.id = c
    BY <2>6 DEF Late
  <2>11. \A c : Held(c)' => Held(c) /\ ~\E t \in rec : t.id = c
    BY <2>2 DEF Held, ReconInv
  <2>12. \A c : (\E t \in rec : t.id = c) => Held(c)
    BY <2>2 DEF Held
  <2>13. \A c : TimedOutFor(c) => TimedOutFor(c)'
    BY <1>0 DEF TimedOutFor, Executing
  <2>14. \A t, u \in timedOut' : t.id = u.id => t = u
    BY <2>2 DEF ReconInv
  <2> HIDE DEF old, new
  <2>15. \A c : Held(c)' \/ Late(c)' => TimedOutFor(c)'
    BY <2>10, <2>11, <2>12, <2>13 DEF ReconInv
  <2>16. \A c : ~(Held(c)' /\ Late(c)')
    BY <2>10, <2>11 DEF ReconInv
  <2>17. QED
    BY <1>0, <2>6, <2>9, <2>14, <2>15, <2>16 DEF ReconInv
<1>3. QED
  BY <1>1, <1>2 DEF RefreshApply

\* Every step of the daemon preserves the invariant.
LEMMA NextKeepsRecon == IInv /\ ReconInv /\ [Next]_vars => ReconInv'
<1> SUFFICES ASSUME IInv, ReconInv, [Next]_vars PROVE ReconInv'
  OBVIOUS
<1>0. wk \in WorkerLocals /\ pc \notin {"settled", "reply"} => wk.out = "none"
  BY DEF ReconInv
<1>1. CASE WorkerAnnounce
  BY <1>1, AnnounceKeepsRecon
<1>2. CASE RefreshApply
  BY <1>2, RefreshKeepsRecon
<1>3. CASE WorkerObserved
  <2>1. PICK it \in item :
          \/ /\ pc' = "settled" /\ wk' = Settled("OwnerReplaced") /\ UNCHANGED timedOut
          \/ /\ pc' = "publish" /\ UNCHANGED <<wk, timedOut>>
          \/ /\ pc' = "announce" /\ UNCHANGED wk
             /\ timedOut' = timedOut \cup {[id |-> it.id, cmd |-> it.cmd, before |-> wk.before]}
          \/ /\ pc' = "sleep" /\ wk' = [wk EXCEPT !.polls = @ + 1] /\ UNCHANGED timedOut
    BY <1>3 DEF WorkerObserved
  <2>2. pc = "observed" /\ UNCHANGED <<broadcasts, replies, item>> /\ wk.out = "none"
        /\ wk \in WorkerLocals
    BY <1>3, TypesOf DEF WorkerObserved, history, ReconInv
  <2>3. CASE timedOut' = timedOut \cup {[id |-> it.id, cmd |-> it.cmd, before |-> wk.before]}
             /\ pc' = "announce" /\ UNCHANGED wk
    BY <2>2, <2>3, RecordKeepsRecon
  <2>4. CASE UNCHANGED timedOut /\ (pc' \notin {"settled", "reply"} => wk'.out = "none")
    <3>1. \A c : TimedOutFor(c) => TimedOutFor(c)'
      BY <2>2, TimedOutStays
    <3>2. QED
      BY <2>2, <2>4, <3>1, FrameKeepsRecon
  <2>5. QED
    BY <2>1, <2>2, <2>3, <2>4 DEF WorkerLocals
<1>4. CASE WorkerDegradeTimeout
  <2>1. pc = "degradeTimeout" /\ pc' = "settled" /\ UNCHANGED <<broadcasts, replies, item>>
        /\ wk'.out = "TimedOut"
    BY <1>4 DEF WorkerDegradeTimeout, history, Settled, Idle
  <2>2. PICK it \in item : item = {it}
    BY <2>1, TypesOf DEF WorkerInv, IInv, PlaceInv, IdsGivenOut
  <2>3. timedOut' = timedOut \cup {[id |-> it.id, cmd |-> it.cmd, before |-> wk.before]}
    BY <1>4, <2>2 DEF WorkerDegradeTimeout
  <2>4. QED
    BY <2>1, <2>2, <2>3, RecordKeepsRecon
<1>5. CASE WorkerReply
  <2>1. /\ UNCHANGED <<timedOut, broadcasts>> /\ pc = "reply" /\ pc' = "poll" /\ wk'.out = "none"
        /\ replies' = replies \cup {Reply(it.id, wk.out) : it \in item}
    BY <1>5 DEF WorkerReply, state, Idle
  <2>2. \A c : TimedOutFor(c) => TimedOutFor(c)'
    BY <2>1, TimedOutStays
  <2>3. QED
    BY <2>1, <2>2, FrameKeepsRecon
<1>6. CASE WorkerPop
  <2>1. /\ UNCHANGED <<timedOut, broadcasts, wk, replies>> /\ pc = "poll"
        /\ pc' \in {"parked", "popped"}
    BY <1>6 DEF WorkerPop, state, history
  <2>2. wk.out = "none"
    BY <2>1 DEF ReconInv
  <2>3. \A c : TimedOutFor(c) => TimedOutFor(c)'
    BY <2>1, <2>2 DEF TimedOutFor
  <2>4. QED
    BY <2>1, <2>2, <2>3, FrameKeepsRecon
<1>7. CASE \/ WorkerWake \/ WorkerMark \/ WorkerBegin \/ WorkerExecuted \/ WorkerCancelled
           \/ WorkerRan \/ WorkerObserve \/ WorkerSleep \/ WorkerPublish \/ WorkerDegrade
  <2>1. UNCHANGED <<timedOut, broadcasts, replies, item>> /\ wk \in WorkerLocals
        /\ pc \notin {"announce", "settled", "reply"}
    BY <1>7, TypesOf
    DEF WorkerWake, WorkerMark, WorkerBegin, WorkerExecuted, WorkerCancelled, WorkerRan,
        WorkerObserve, WorkerSleep, WorkerPublish, WorkerDegrade, state, history
  <2>2. wk.out = "none"
    BY <2>1 DEF ReconInv
  <2>3. pc' \notin {"settled", "reply"} => wk'.out = "none"
    BY <1>7, <2>1, <2>2
    DEF WorkerWake, WorkerMark, WorkerBegin, WorkerExecuted, WorkerCancelled, WorkerRan,
        WorkerObserve, WorkerSleep, WorkerPublish, WorkerDegrade, WorkerLocals
  <2>4. \A c : TimedOutFor(c) => TimedOutFor(c)'
    BY <2>1, <2>2 DEF TimedOutFor
  <2>5. QED
    BY <2>1, <2>3, <2>4, FrameKeepsRecon
<1>8. CASE WorkerSettle
  <2>1. UNCHANGED <<timedOut, broadcasts, replies, item, wk>> /\ pc = "settled" /\ pc' = "reply"
    BY <1>8 DEF WorkerSettle, state, history
  <2>2. \A c : TimedOutFor(c) => TimedOutFor(c)'
    BY <2>1, TimedOutStays
  <2>3. QED
    BY <2>1, <2>2, FrameKeepsRecon
<1>9. CASE Submit \/ RefreshBegin \/ Increment \/ DeviceEffect \/ DeviceChange \/ UNCHANGED vars
  <2>1. UNCHANGED <<timedOut, broadcasts, item, wk, pc>> /\ replies \subseteq replies'
    <3>1. CASE Submit
      BY <3>1 DEF Submit, SubmitArrive, SubmitEnqueue, worker, state, history
    <3>2. CASE Increment
      BY <3>2 DEF Increment, IncrementBump, IncrementDrain, IncrementReset, IncrementNotify,
           worker, state, history
    <3>3. CASE RefreshBegin \/ DeviceEffect \/ DeviceChange \/ UNCHANGED vars
      BY <3>3 DEF RefreshBegin, DeviceEffect, DeviceChange, vars, worker, state, history
    <3>4. QED
      BY <1>9, <3>1, <3>2, <3>3
  <2>2. \A c : TimedOutFor(c) => TimedOutFor(c)'
    BY <2>1, TimedOutStays
  <2>3. QED
    BY <2>1, <2>2, FrameKeepsRecon DEF ReconInv
<1>10. QED
  BY <1>1, <1>2, <1>3, <1>4, <1>5, <1>6, <1>7, <1>8, <1>9 DEF Next, Worker

\* Initially no timeout was recorded and nothing announced.
LEMMA InitRecon == Init => ReconInv
  BY DEF Init, ReconInv, Announced, Held, Late, Idle

\* A late confirmation is announced once, and only for a command whose outcome
\* is TimedOut.
THEOREM ReconciliationIsExact == Spec => []ReconciledAtMostOnceAndOnlyAfterTimeout
<1>1. ReconInv => ReconciledAtMostOnceAndOnlyAfterTimeout
  BY DEF ReconInv, ReconciledAtMostOnceAndOnlyAfterTimeout, Late, TimedOutFor
<1>2. QED
  BY <1>1, InitIInv, NextKeepsIInv, InitRecon, NextKeepsRecon, PTL DEF Spec

-----------------------------------------------------------------------------
(***************************************************************************)
(* The daemon implements CommandMailbox.  Under IInv the commands that are *)
(* open are those that were given a sequence number and have no reply.  A  *)
(* step that gives out no number and takes back no reply therefore answers *)
(* exactly the commands it takes from their place, whatever it does        *)
(* otherwise, and SubmitArrive is the only other kind of step.             *)
(***************************************************************************)
\* The invariant, and the bound that submissions respect.
RefInv == IInv /\ nextSeq <= MaxCommands + 1

\* The refinement mapping in terms of sequence numbers and replies.
LEMMA OpenMeansNoReply ==
  ASSUME RefInv
  PROVE  /\ nextSeq \in Nat \ {0} /\ MaxCommands \in Nat
         /\ \A c : c \in Unanswered <=> c \in 1..(nextSeq - 1) /\ ~Answered(c)
<1>1. /\ nextSeq \in Nat \ {0} /\ nextSeq <= MaxCommands + 1 /\ MaxCommands \in Nat
      /\ IdsGivenOut /\ ExactlyOnePlace
  BY ItemsOf, DaemonConstants DEF RefInv
<1>2. ASSUME NEW c, c \in Unanswered
      PROVE  c \in 1..(nextSeq - 1) /\ ~Answered(c)
  <2>1. Arriving(c) \/ InQueue(c) \/ Executing(c)
    BY <1>2 DEF Unanswered
  <2>2. c \in 1..(nextSeq - 1)
    BY <2>1, <1>1 DEF Arriving, InQueue, Executing, IdsGivenOut
  <2>3. QED
    BY <2>1, <2>2, <1>1 DEF ExactlyOnePlace
<1>3. ASSUME NEW c \in 1..(nextSeq - 1), ~Answered(c)
      PROVE  c \in Unanswered
  <2>1. Arriving(c) \/ InQueue(c) \/ Executing(c)
    BY <1>1, <1>3 DEF ExactlyOnePlace
  <2>2. c \in 1..MaxCommands
    BY <1>1
  <2>3. QED
    BY <2>1, <2>2 DEF Unanswered
<1>4. QED
  BY <1>1, <1>2, <1>3

\* What a step of the daemon does to numbers and replies.
LEMMA RepliesOnlyGrow ==
  ASSUME RefInv, [Next]_vars
  PROVE  \/ nextSeq' = nextSeq /\ replies \subseteq replies'
         \/ nextSeq <= MaxCommands /\ nextSeq' = nextSeq + 1 /\ replies' = replies
<1>1. CASE \E cmd \in Command : SubmitArrive(cmd)
  BY <1>1 DEF SubmitArrive, history
<1>2. CASE \E s \in arriving : SubmitEnqueue(s)
  <2>1. PICK s \in arriving : SubmitEnqueue(s)
    BY <1>2
  <2>2. nextSeq' = nextSeq /\ replies \subseteq replies'
    BY <2>1 DEF SubmitEnqueue
  <2>3. QED
    BY <2>2
<1>3. CASE Worker
  BY <1>3
  DEF Worker, WorkerPop, WorkerWake, WorkerMark, WorkerBegin, WorkerExecuted, WorkerCancelled,
      WorkerRan, WorkerObserve, WorkerObserved, WorkerSleep, WorkerPublish, WorkerDegrade,
      WorkerDegradeTimeout, WorkerAnnounce, WorkerSettle, WorkerReply, history
<1>4. CASE RefreshBegin \/ RefreshApply \/ DeviceEffect \/ DeviceChange \/ UNCHANGED vars
  BY <1>4 DEF RefreshBegin, RefreshApply, DeviceEffect, DeviceChange, vars, history
<1>5. CASE Increment
  BY <1>5
  DEF Increment, IncrementBump, IncrementDrain, IncrementReset, IncrementNotify, history
<1>6. QED
  BY <1>1, <1>2, <1>3, <1>4, <1>5 DEF Next, Submit

\* The invariant of the refinement is inductive.
LEMMA NextKeepsRefInv == RefInv /\ [Next]_vars => RefInv'
<1> SUFFICES ASSUME RefInv, [Next]_vars PROVE RefInv'
  OBVIOUS
<1>1. IInv'
  BY NextKeepsIInv DEF RefInv
<1>2. nextSeq \in Nat /\ MaxCommands \in Nat /\ nextSeq <= MaxCommands + 1
  BY ItemsOf, DaemonConstants DEF RefInv
<1>3. nextSeq' <= MaxCommands + 1
  BY <1>2, RepliesOnlyGrow
<1>4. QED
  BY <1>1, <1>3 DEF RefInv

\* A step that gives out no number answers the commands that it closes.
LEMMA GrowthIsAnswer ==
  ASSUME RefInv, RefInv', nextSeq' = nextSeq, replies \subseteq replies'
  PROVE  Mailbox!Answer \/ (Unanswered' = Unanswered /\ replies' = replies)
<1> DEFINE S   == {c \in Unanswered : Answered(c)'}
           given(c) == CHOOSE o \in Outcome : [id |-> c, out |-> o] \in replies'
           out == [c \in S |-> given(c)]
<1>1. /\ \A c : c \in Unanswered <=> c \in 1..(nextSeq - 1) /\ ~Answered(c)
      /\ \A c : c \in Unanswered' <=> c \in 1..(nextSeq - 1) /\ ~Answered(c)'
  <2>1. \A c : c \in Unanswered <=> c \in 1..(nextSeq - 1) /\ ~Answered(c)
    BY OpenMeansNoReply
  <2>2. (\A c : c \in Unanswered <=> c \in 1..(nextSeq - 1) /\ ~Answered(c))'
    BY OpenMeansNoReply, PTL
  <2>3. QED
    BY <2>1, <2>2
<1>2. \A c : Answered(c) => Answered(c)'
  BY DEF Answered
<1>3. Unanswered' = Unanswered \ S
  BY <1>1, <1>2
<1>4. /\ replies' \subseteq [id : Nat, out : Outcome]
      /\ \A r, t \in replies' : r.id = t.id => r = t
      /\ \A r \in replies' : r.id \in 1..(nextSeq - 1)
  BY DEF RefInv, IInv, TypeInv, TypeOK, MailboxType, PlaceInv, ExactlyOnePlace, IdsGivenOut
<1>5. ASSUME NEW r \in replies', r \notin replies
      PROVE  r.id \in S
  <2>1. ~Answered(r.id)
    BY <1>4, <1>5 DEF Answered
  <2>2. Answered(r.id)'
    BY <1>5 DEF Answered
  <2>3. QED
    BY <2>1, <2>2, <1>1, <1>4
<1>6. ASSUME NEW c \in S
      PROVE  given(c) \in Outcome /\ [id |-> c, out |-> given(c)] \in replies'
  <2>1. PICK r \in replies' : r.id = c
    BY <1>6 DEF Answered
  <2>2. r.out \in Outcome /\ r = [id |-> c, out |-> r.out]
    BY <2>1, <1>4
  <2>3. \E o \in Outcome : [id |-> c, out |-> o] \in replies'
    BY <2>1, <2>2
  <2>4. QED
    BY <2>3
<1> HIDE DEF given
<1>7. out \in [S -> Outcome] /\ \A c \in S : [id |-> c, out |-> out[c]] \in replies'
  BY <1>6
<1> HIDE DEF out
<1>8. replies' = replies \cup Mailbox!Given(S, out)
  <2>1. \A c \in S : [id |-> c, out |-> out[c]] \in replies'
    BY <1>7
  <2>2. ASSUME NEW r \in replies', r \notin replies
        PROVE  r \in {[id |-> i, out |-> out[i]] : i \in S}
    <3>1. r.id \in S
      BY <2>2, <1>5
    <3>2. [id |-> r.id, out |-> out[r.id]] \in replies'
      BY <3>1, <1>7
    <3>3. r = [id |-> r.id, out |-> out[r.id]]
      BY <3>2, <1>4
    <3>4. QED
      BY <3>1, <3>3
  <2>3. QED
    BY <2>1, <2>2 DEF Mailbox!Given
<1>9. CASE S = {}
  BY <1>9, <1>3, <1>5
<1>10. CASE S # {}
  <2>1. S \in SUBSET Unanswered
    OBVIOUS
  <2>2. QED
    BY <2>1, <1>3, <1>7, <1>8, <1>10 DEF Mailbox!Answer
<1>11. QED
  BY <1>9, <1>10

\* A submission that gets its number is taken in, and nothing is answered.
LEMMA ArrivalIsTake ==
  ASSUME RefInv, RefInv', nextSeq <= MaxCommands, nextSeq' = nextSeq + 1, replies' = replies
  PROVE  Mailbox!Take(nextSeq) /\ nextSeq \in 1..MaxCommands
<1>1. /\ nextSeq \in Nat \ {0} /\ MaxCommands \in Nat
      /\ \A c : c \in Unanswered <=> c \in 1..(nextSeq - 1) /\ ~Answered(c)
      /\ \A c : c \in Unanswered' <=> c \in 1..nextSeq /\ ~Answered(c)
  <2>1. /\ nextSeq \in Nat \ {0} /\ MaxCommands \in Nat
        /\ \A c : c \in Unanswered <=> c \in 1..(nextSeq - 1) /\ ~Answered(c)
    BY OpenMeansNoReply
  <2>2. (\A c : c \in Unanswered <=> c \in 1..(nextSeq - 1) /\ ~Answered(c))'
    BY OpenMeansNoReply, PTL
  <2>3. \A c : Answered(c)' <=> Answered(c)
    BY DEF Answered
  <2>4. nextSeq' - 1 = nextSeq
    BY <2>1
  <2>5. QED
    BY <2>1, <2>2, <2>3, <2>4
<1>2. \A r \in replies : r.id \in 1..(nextSeq - 1)
  BY DEF RefInv, IInv, PlaceInv, IdsGivenOut
<1>3. ~Answered(nextSeq)
  BY <1>1, <1>2 DEF Answered
<1>4. Mailbox!Fresh(nextSeq)
  <2>1. nextSeq \notin Unanswered
    BY <1>1
  <2>2. \A a \in replies : a.id # nextSeq
    BY <1>3 DEF Answered
  <2>3. QED
    BY <2>1, <2>2 DEF Mailbox!Fresh
<1>5. Unanswered' = Unanswered \cup {nextSeq}
  BY <1>1, <1>3
<1> DEFINE none == [c \in {} |-> "Applied"]
<1>6. none \in [{} -> Outcome] /\ replies' = replies \cup Mailbox!Given({}, none)
  BY DEF Mailbox!Given
<1>7. {} \in SUBSET (Unanswered \cup {nextSeq})
      /\ Unanswered' = (Unanswered \cup {nextSeq}) \ {}
  BY <1>5
<1> HIDE DEF none
<1>8. Mailbox!Take(nextSeq)
  BY <1>4, <1>6, <1>7 DEF Mailbox!Take
<1>9. QED
  BY <1>1, <1>8

-----------------------------------------------------------------------------
\* The daemon implements the mailbox contract of ADR-0006.
THEOREM DaemonImplementsMailbox == Spec => MailboxImplemented
<1>1. Init => RefInv /\ Mailbox!MailboxInit
  <2> SUFFICES ASSUME Init PROVE RefInv /\ Mailbox!MailboxInit
    OBVIOUS
  <2>1. RefInv
    BY InitIInv, DaemonConstants DEF RefInv, Init
  <2>2. arriving = {} /\ Len(pending) = 0 /\ item = {} /\ replies = {}
    BY DEF Init
  <2>3. Unanswered = {}
    BY <2>2 DEF Unanswered, Arriving, InQueue, Executing
  <2>4. QED
    BY <2>1, <2>2, <2>3 DEF Mailbox!MailboxInit
<1>2. RefInv /\ [Next]_vars => [Mailbox!MailboxNext]_(Mailbox!mailboxVars)
  <2> SUFFICES ASSUME RefInv, [Next]_vars
               PROVE  [Mailbox!MailboxNext]_(Mailbox!mailboxVars)
    OBVIOUS
  <2>1. RefInv'
    BY NextKeepsRefInv
  <2>2. CASE nextSeq' = nextSeq /\ replies \subseteq replies'
    BY <2>1, <2>2, GrowthIsAnswer DEF Mailbox!MailboxNext, Mailbox!mailboxVars
  <2>3. CASE nextSeq <= MaxCommands /\ nextSeq' = nextSeq + 1 /\ replies' = replies
    BY <2>1, <2>3, ArrivalIsTake DEF Mailbox!MailboxNext
  <2>4. QED
    BY <2>2, <2>3, RepliesOnlyGrow
<1>3. QED
  BY <1>1, <1>2, NextKeepsRefInv, PTL DEF Spec, MailboxImplemented, Mailbox!MailboxSpec
=============================================================================

------------------------ MODULE DeviceDebounceProofs ------------------------
(***************************************************************************)
(* The debounce queue, proved for every number of callers and keys, every  *)
(* capacity and any number of commands: an accepted command is in one      *)
(* place, once, until it has one fate; nothing is accepted behind the      *)
(* drain of shutdown; the published depth is the number of entries.        *)
(*                                                                         *)
(* The argument for the first is about ids: each of the five places holds  *)
(* an id once, no two places hold the same one, and together they hold     *)
(* those that were given out.  A step moves ids from one place to another. *)
(***************************************************************************)
EXTENDS DeviceDebounce, FiniteSetTheorems, TLAPS

-----------------------------------------------------------------------------
(***************************************************************************)
(* Ids in sequences and sets of records.                                   *)
(***************************************************************************)
IdsIn(s) == {s[j].id : j \in DOMAIN s}

IdsOf(S) == {e.id : e \in S}

\* s holds each id once.
Distinct(s) == \A j, k \in DOMAIN s : s[j].id = s[k].id => j = k

LEMMA AppendedIds ==
  ASSUME NEW R, NEW s \in Seq(R), NEW x \in R
  PROVE  /\ Append(s, x) \in Seq(R) /\ Len(Append(s, x)) = Len(s) + 1
         /\ IdsIn(Append(s, x)) = IdsIn(s) \cup {x.id}
         /\ Distinct(s) /\ x.id \notin IdsIn(s) => Distinct(Append(s, x))
<1> DEFINE t == Append(s, x)
<1>1. /\ t \in Seq(R) /\ Len(t) = Len(s) + 1 /\ Len(s) \in Nat
      /\ DOMAIN s = 1..Len(s) /\ DOMAIN t = 1..Len(s) + 1
      /\ t[Len(s) + 1] = x /\ \A j \in 1..Len(s) : t[j] = s[j]
  OBVIOUS
<1> HIDE DEF t
<1>2. \A j \in DOMAIN t : (j \in DOMAIN s /\ t[j] = s[j]) \/ (j = Len(s) + 1 /\ t[j] = x)
  <2>1. \A j \in DOMAIN t : j \in DOMAIN s \/ j = Len(s) + 1
    BY <1>1
  <2>2. QED
    BY <2>1, <1>1
<1>3. /\ DOMAIN s \subseteq DOMAIN t /\ Len(s) + 1 \in DOMAIN t
  BY <1>1
<1>4. IdsIn(t) = IdsIn(s) \cup {x.id}
  <2>1. ASSUME NEW i \in IdsIn(t) PROVE i \in IdsIn(s) \cup {x.id}
    BY <2>1, <1>2 DEF IdsIn
  <2>2. ASSUME NEW i \in IdsIn(s) PROVE i \in IdsIn(t)
    <3>1. PICK j \in DOMAIN s : i = s[j].id
      BY <2>2 DEF IdsIn
    <3>2. j \in DOMAIN t /\ t[j].id = i
      BY <3>1, <1>1, <1>3
    <3>3. QED
      BY <3>2 DEF IdsIn
  <2>3. x.id \in IdsIn(t)
    BY <1>1, <1>3 DEF IdsIn
  <2>4. QED
    BY <2>1, <2>2, <2>3
<1>5. ASSUME Distinct(s), x.id \notin IdsIn(s) PROVE Distinct(t)
  <2>1. \A j \in DOMAIN s : s[j].id # x.id
    BY <1>5 DEF IdsIn
  <2>2. \A j, k \in DOMAIN t : t[j].id = t[k].id => j = k
    BY <2>1, <1>2, <1>5 DEF Distinct
  <2>3. QED
    BY <2>2 DEF Distinct
<1>6. QED
  BY <1>1, <1>4, <1>5 DEF t

LEMMA TailIds ==
  ASSUME NEW R, NEW s \in Seq(R), s # <<>>, Distinct(s)
  PROVE  /\ Head(s) \in R /\ Tail(s) \in Seq(R)
         /\ Head(s).id \in IdsIn(s)
         /\ IdsIn(Tail(s)) = IdsIn(s) \ {Head(s).id}
         /\ Distinct(Tail(s))
<1> DEFINE t == Tail(s)
<1>1. /\ t \in Seq(R) /\ Len(s) \in Nat \ {0} /\ Len(t) = Len(s) - 1
      /\ DOMAIN s = 1..Len(s) /\ DOMAIN t = 1..Len(s) - 1
      /\ Head(s) = s[1] /\ Head(s) \in R
      /\ \A j \in 1..Len(s) - 1 : t[j] = s[j + 1]
  OBVIOUS
<1> HIDE DEF t
<1>2. 1 \in DOMAIN s /\ \A j \in DOMAIN t : j + 1 \in DOMAIN s /\ t[j] = s[j + 1] /\ j + 1 # 1
  BY <1>1
<1>3. \A j \in DOMAIN s : j = 1 \/ (j - 1 \in DOMAIN t /\ t[j - 1] = s[j])
  <2>1. TAKE j \in DOMAIN s
  <2>2. j = 1 \/ (j - 1 \in DOMAIN t /\ (j - 1) + 1 = j)
    BY <1>1
  <2>3. j - 1 \in DOMAIN t => t[j - 1] = s[(j - 1) + 1]
    BY <1>2
  <2>4. QED
    BY <2>2, <2>3
<1>4. IdsIn(t) = IdsIn(s) \ {s[1].id}
  <2>1. ASSUME NEW i \in IdsIn(t) PROVE i \in IdsIn(s) /\ i # s[1].id
    <3>1. PICK j \in DOMAIN t : i = t[j].id
      BY <2>1 DEF IdsIn
    <3>2. j + 1 \in DOMAIN s /\ i = s[j + 1].id /\ j + 1 # 1
      BY <3>1, <1>2
    <3>3. QED
      BY <3>2, <1>2 DEF IdsIn, Distinct
  <2>2. ASSUME NEW i \in IdsIn(s), i # s[1].id PROVE i \in IdsIn(t)
    <3>1. PICK j \in DOMAIN s : i = s[j].id
      BY <2>2 DEF IdsIn
    <3>2. j - 1 \in DOMAIN t /\ t[j - 1].id = i
      BY <3>1, <2>2, <1>3
    <3>3. QED
      BY <3>2 DEF IdsIn
  <2>3. QED
    BY <2>1, <2>2
<1>5. Distinct(t)
  <2>1. ASSUME NEW j \in DOMAIN t, NEW k \in DOMAIN t, t[j].id = t[k].id PROVE j = k
    <3>1. j + 1 = k + 1
      BY <2>1, <1>2 DEF Distinct
    <3>2. j \in Nat /\ k \in Nat
      BY <1>1
    <3>3. QED
      BY <3>1, <3>2
  <2>2. QED
    BY <2>1 DEF Distinct
<1>6. QED
  BY <1>1, <1>2, <1>4, <1>5 DEF t, IdsIn

LEMMA ConcatIds ==
  ASSUME NEW R, NEW s \in Seq(R), NEW t \in Seq(R)
  PROVE  /\ s \o t \in Seq(R) /\ Len(s \o t) = Len(s) + Len(t)
         /\ IdsIn(s \o t) = IdsIn(s) \cup IdsIn(t)
         /\ Distinct(s) /\ Distinct(t) /\ IdsIn(s) \cap IdsIn(t) = {} => Distinct(s \o t)
<1> DEFINE u == s \o t
<1>1. /\ u \in Seq(R) /\ Len(u) = Len(s) + Len(t) /\ Len(s) \in Nat /\ Len(t) \in Nat
      /\ DOMAIN s = 1..Len(s) /\ DOMAIN t = 1..Len(t) /\ DOMAIN u = 1..Len(s) + Len(t)
      /\ \A j \in 1..Len(s) + Len(t) : u[j] = IF j <= Len(s) THEN s[j] ELSE t[j - Len(s)]
  OBVIOUS
<1> HIDE DEF u
<1>2. \A j \in DOMAIN u : \/ (j \in DOMAIN s /\ u[j] = s[j])
                          \/ (j - Len(s) \in DOMAIN t /\ u[j] = t[j - Len(s)] /\ j \in Nat)
  BY <1>1
<1>3. \A j \in DOMAIN s : j \in DOMAIN u /\ u[j] = s[j]
  BY <1>1
<1>4. \A j \in DOMAIN t : j + Len(s) \in DOMAIN u /\ u[j + Len(s)] = t[j]
  <2>1. \A j \in DOMAIN t : j \in Nat /\ j + Len(s) \in DOMAIN u /\ ~(j + Len(s) <= Len(s))
                            /\ (j + Len(s)) - Len(s) = j
    BY <1>1
  <2>2. QED
    BY <2>1, <1>1
<1>5. IdsIn(u) = IdsIn(s) \cup IdsIn(t)
  <2>1. ASSUME NEW i \in IdsIn(u) PROVE i \in IdsIn(s) \cup IdsIn(t)
    BY <1>2 DEF IdsIn
  <2>2. ASSUME NEW i \in IdsIn(s) PROVE i \in IdsIn(u)
    BY <1>3 DEF IdsIn
  <2>3. ASSUME NEW i \in IdsIn(t) PROVE i \in IdsIn(u)
    <3>1. PICK j \in DOMAIN t : i = t[j].id
      BY DEF IdsIn
    <3>2. j + Len(s) \in DOMAIN u /\ u[j + Len(s)].id = i
      BY <3>1, <1>4
    <3>3. QED
      BY <3>2 DEF IdsIn
  <2>4. QED
    BY <2>1, <2>2, <2>3
<1>6. ASSUME Distinct(s), Distinct(t), IdsIn(s) \cap IdsIn(t) = {} PROVE Distinct(u)
  <2>1. \A j \in DOMAIN s, k \in DOMAIN t : s[j].id # t[k].id
    BY <1>6 DEF IdsIn
  <2>2. ASSUME NEW j \in DOMAIN u, NEW k \in DOMAIN u, u[j].id = u[k].id PROVE j = k
    <3>1. CASE j \in DOMAIN s /\ u[j] = s[j] /\ k \in DOMAIN s /\ u[k] = s[k]
      BY <3>1, <2>2, <1>6 DEF Distinct
    <3>2. CASE /\ j - Len(s) \in DOMAIN t /\ u[j] = t[j - Len(s)] /\ j \in Nat
               /\ k - Len(s) \in DOMAIN t /\ u[k] = t[k - Len(s)] /\ k \in Nat
      <4>1. j - Len(s) = k - Len(s)
        BY <3>2, <2>2, <1>6 DEF Distinct
      <4>2. QED
        BY <4>1, <3>2, <1>1
    <3>3. QED
      BY <3>1, <3>2, <2>1, <2>2, <1>2
  <2>3. QED
    BY <2>2 DEF Distinct
<1>7. QED
  BY <1>1, <1>5, <1>6 DEF u
\* An arrangement of a set has every element once.
LEMMA ArrangedIds ==
  ASSUME NEW R, NEW S \in SUBSET R, IsFiniteSet(S), NEW order \in SetToSeqs(S)
  PROVE  /\ order \in Seq(R) /\ Len(order) = Cardinality(S)
         /\ IdsIn(order) = IdsOf(S)
         /\ (\A e, f \in S : e.id = f.id => e = f) => Distinct(order)
<1> DEFINE n == Cardinality(S)
<1>1. n \in Nat /\ IsFiniteSet(1..n) /\ Cardinality(1..n) = n
  <2>1. n \in Nat
    BY FS_CardinalityType
  <2>2. QED
    BY <2>1, FS_Interval
<1>2. /\ order \in [1..n -> S]
      /\ \A i, j \in 1..n : i # j => order[i] # order[j]
  BY DEF SetToSeqs
<1> HIDE DEF n
<1>3. order \in Injection(1..n, S)
  BY <1>2 DEF Injection, IsInjective
<1>4. order \in Surjection(1..n, S)
  BY <1>1, <1>3, FS_Injection DEF n
<1>5. \A e \in S : \E j \in 1..n : order[j] = e
  BY <1>4 DEF Surjection
<1>6. order \in Seq(R) /\ Len(order) = n /\ DOMAIN order = 1..n
  BY <1>1, <1>2
<1>7. IdsIn(order) = IdsOf(S)
  BY <1>2, <1>5, <1>6 DEF IdsIn, IdsOf
<1>8. (\A e, f \in S : e.id = f.id => e = f) => Distinct(order)
  BY <1>2, <1>6 DEF Distinct
<1>9. QED
  BY <1>6, <1>7, <1>8 DEF n

-----------------------------------------------------------------------------
(***************************************************************************)
(* What is at some positions of a sequence (Vec::partition).               *)
(***************************************************************************)
\* The positions in S are numbered from 1 to their number.
LEMMA PositionsNumbered ==
  ASSUME NEW S, IsFiniteSet(S), S \subseteq Nat
  PROVE  LET pos == [i \in 1..Cardinality(S) |->
                       CHOOSE j \in S : Cardinality({k \in S : k <= j}) = i]
         IN  /\ Cardinality(S) \in Nat
             /\ pos \in [1..Cardinality(S) -> S]
             /\ \A i, j \in 1..Cardinality(S) : pos[i] = pos[j] => i = j
             /\ \A j \in S : \E i \in 1..Cardinality(S) : pos[i] = j
<1> DEFINE upTo(j) == {k \in S : k <= j}
           rank == [j \in S |-> Cardinality(upTo(j))]
           n == Cardinality(S)
           pos == [i \in 1..n |-> CHOOSE j \in S : Cardinality(upTo(j)) = i]
<1>1. n \in Nat
  BY FS_CardinalityType
<1>2. ASSUME NEW j \in S
      PROVE  IsFiniteSet(upTo(j)) /\ Cardinality(upTo(j)) \in 1..n
  <2>1. upTo(j) \in SUBSET S /\ j \in upTo(j)
    OBVIOUS
  <2>2. IsFiniteSet(upTo(j)) /\ Cardinality(upTo(j)) <= n
    BY <2>1, FS_Subset
  <2>3. Cardinality(upTo(j)) # 0 /\ Cardinality(upTo(j)) \in Nat
    BY <2>1, <2>2, FS_EmptySet, FS_CardinalityType
  <2>4. QED
    BY <2>2, <2>3, <1>1
<1>3. ASSUME NEW j \in S, NEW k \in S, j < k
      PROVE  Cardinality(upTo(j)) # Cardinality(upTo(k))
  <2>1. upTo(j) \in SUBSET upTo(k) /\ k \notin upTo(j) /\ k \in upTo(k)
    <3>1. j \in Nat /\ k \in Nat /\ ~(k <= j) /\ k <= k
      BY <1>3
    <3>2. \A i \in S : i \in Nat /\ (i <= j => i <= k)
      BY <1>3, <3>1
    <3>3. QED
      BY <3>1, <3>2
  <2>2. IsFiniteSet(upTo(k))
    BY <1>2
  <2> HIDE DEF upTo
  <2>3. QED
    BY <2>1, <2>2, FS_Subset
<1>4. rank \in [S -> 1..n]
  BY <1>2
<1>5. \A j, k \in S : rank[j] = rank[k] => j = k
  <2>1. TAKE j, k \in S
  <2>2. j < k \/ k < j \/ j = k
    OBVIOUS
  <2>3. QED
    BY <2>2, <1>3
<1> HIDE DEF rank
<1>6. rank \in Injection(S, 1..n)
  BY <1>4, <1>5 DEF Injection, IsInjective
<1>7. IsFiniteSet(1..n) /\ Cardinality(1..n) = n
  BY <1>1, FS_Interval
<1>8. rank \in Surjection(S, 1..n)
  BY <1>6, <1>7, FS_Injection
<1>9. \A i \in 1..n : \E j \in S : rank[j] = i
  BY <1>8 DEF Surjection
<1>10. \A j \in S : rank[j] = Cardinality(upTo(j))
  BY DEF rank
<1> HIDE DEF upTo, n
<1>11. \A i \in 1..n : pos[i] \in S /\ rank[pos[i]] = i
  BY <1>9, <1>10
<1> HIDE DEF pos
<1>12. \A i, j \in 1..n : pos[i] = pos[j] => i = j
  BY <1>11
<1>13. \A j \in S : \E i \in 1..n : pos[i] = j
  BY <1>4, <1>5, <1>11
<1>14. pos \in [1..n -> S]
  BY <1>11 DEF pos
<1>15. QED
  BY <1>1, <1>12, <1>13, <1>14 DEF pos, n, upTo

LEMMA SelectedIds ==
  ASSUME NEW R, NEW s \in Seq(R), NEW S \in SUBSET (DOMAIN s)
  PROVE  /\ At(s, S) \in Seq(R) /\ Len(At(s, S)) = Cardinality(S)
         /\ IdsIn(At(s, S)) = {s[j].id : j \in S}
         /\ Distinct(s) => Distinct(At(s, S))
<1> DEFINE n == Cardinality(S)
           pos == [i \in 1..n |-> CHOOSE j \in S : Cardinality({k \in S : k <= j}) = i]
           t == At(s, S)
<1>1. IsFiniteSet(S) /\ S \subseteq Nat /\ DOMAIN s = 1..Len(s)
  <2>1. DOMAIN s = 1..Len(s) /\ Len(s) \in Nat /\ Len(s) \in Int /\ 1 \in Int
    OBVIOUS
  <2>2. IsFiniteSet(1..Len(s))
    BY <2>1, FS_Interval
  <2>3. IsFiniteSet(S)
    BY <2>1, <2>2, FS_Subset
  <2>4. QED
    BY <2>1, <2>3
<1>2. /\ n \in Nat /\ pos \in [1..n -> S]
      /\ \A i, j \in 1..n : pos[i] = pos[j] => i = j
      /\ \A j \in S : \E i \in 1..n : pos[i] = j
  BY <1>1, PositionsNumbered
<1>3. t = [i \in 1..n |-> s[pos[i]]]
  BY DEF At
<1> HIDE DEF t, pos, n
<1>4. \A i \in 1..n : t[i] = s[pos[i]] /\ pos[i] \in S /\ pos[i] \in DOMAIN s /\ s[pos[i]] \in R
  <2>1. \A i \in 1..n : pos[i] \in S /\ pos[i] \in DOMAIN s
    BY <1>2
  <2>2. \A j \in DOMAIN s : s[j] \in R
    BY <1>1
  <2>3. QED
    BY <2>1, <2>2, <1>3
<1>5. t \in Seq(R) /\ Len(t) = n /\ DOMAIN t = 1..n
  BY <1>2, <1>3, <1>4
<1>6. IdsIn(t) = {s[j].id : j \in S}
  <2>1. ASSUME NEW i \in IdsIn(t) PROVE \E j \in S : i = s[j].id
    BY <1>4, <1>5 DEF IdsIn
  <2>2. ASSUME NEW j \in S PROVE s[j].id \in IdsIn(t)
    BY <1>2, <1>4, <1>5 DEF IdsIn
  <2>3. QED
    BY <2>1, <2>2
<1>7. Distinct(s) => Distinct(t)
  BY <1>2, <1>4, <1>5 DEF Distinct
<1>8. QED
  BY <1>5, <1>6, <1>7 DEF t, n

\* Taking out some positions splits the sequence's ids.
LEMMA PartitionIds ==
  ASSUME NEW R, NEW s \in Seq(R), NEW S \in SUBSET (DOMAIN s)
  PROVE  LET out  == At(s, S)
             kept == At(s, DOMAIN s \ S)
         IN  /\ out \in Seq(R) /\ kept \in Seq(R)
             /\ Len(out) \in Nat /\ Len(kept) \in Nat /\ Len(out) + Len(kept) = Len(s)
             /\ IdsIn(out) \cup IdsIn(kept) = IdsIn(s)
             /\ Distinct(s) => /\ Distinct(out) /\ Distinct(kept)
                               /\ IdsIn(out) \cap IdsIn(kept) = {}
<1> DEFINE out  == At(s, S)
           kept == At(s, DOMAIN s \ S)
<1>1. DOMAIN s = 1..Len(s) /\ Len(s) \in Nat /\ DOMAIN s \ S \in SUBSET (DOMAIN s)
  OBVIOUS
<1>2. /\ IsFiniteSet(DOMAIN s) /\ Cardinality(DOMAIN s) = Len(s)
      /\ IsFiniteSet(S) /\ IsFiniteSet(DOMAIN s \ S)
  <2>1. IsFiniteSet(1..Len(s)) /\ Cardinality(1..Len(s)) = IF 1 > Len(s) THEN 0 ELSE Len(s) - 1 + 1
    <3>1. 1 \in Int /\ Len(s) \in Int
      BY <1>1
    <3>2. QED
      BY <3>1, FS_Interval
  <2>2. IsFiniteSet(DOMAIN s) /\ Cardinality(DOMAIN s) = Len(s)
    BY <2>1, <1>1
  <2>3. QED
    BY <2>2, <1>1, FS_Subset
<1>3. Cardinality(S) \in Nat /\ Cardinality(DOMAIN s \ S) \in Nat
  BY <1>2, FS_CardinalityType
<1>4. Cardinality(DOMAIN s \ S) = Cardinality(DOMAIN s) - Cardinality(DOMAIN s \cap S)
  BY <1>2, FS_Difference
<1>5. DOMAIN s \cap S = S
  OBVIOUS
<1>6. /\ out \in Seq(R) /\ Len(out) = Cardinality(S)
      /\ IdsIn(out) = {s[j].id : j \in S}
      /\ Distinct(s) => Distinct(out)
  BY SelectedIds
<1>7. /\ kept \in Seq(R) /\ Len(kept) = Cardinality(DOMAIN s \ S)
      /\ IdsIn(kept) = {s[j].id : j \in DOMAIN s \ S}
      /\ Distinct(s) => Distinct(kept)
  BY <1>1, SelectedIds
<1> HIDE DEF out, kept
<1>8. Len(out) + Len(kept) = Len(s)
  <2>1. Len(kept) = Len(s) - Len(out)
    BY <1>2, <1>4, <1>5, <1>6, <1>7
  <2>2. Len(out) \in Nat
    BY <1>3, <1>6
  <2>3. QED
    BY <2>1, <2>2, <1>1
<1>9. IdsIn(out) \cup IdsIn(kept) = IdsIn(s)
  BY <1>6, <1>7 DEF IdsIn
<1>10. Distinct(s) => IdsIn(out) \cap IdsIn(kept) = {}
  BY <1>6, <1>7 DEF Distinct
<1>11. QED
  BY <1>3, <1>6, <1>7, <1>8, <1>9, <1>10 DEF out, kept
-----------------------------------------------------------------------------
(***************************************************************************)
(* Where ids may be: P (the map), L (the vector), B (the worker's batch),  *)
(* D (what shutdown still has to cancel) and F (the fates) have none in    *)
(* common, and are those that were given out.                              *)
(***************************************************************************)
Spread(P, L, B, D, F, n) ==
  /\ P \cap L = {} /\ P \cap B = {} /\ P \cap D = {} /\ P \cap F = {}
  /\ L \cap B = {} /\ L \cap D = {} /\ L \cap F = {}
  /\ B \cap D = {} /\ B \cap F = {} /\ D \cap F = {}
  /\ P \cup L \cup B \cup D \cup F = 1..n

\* A command that is accepted brings a fresh id, and replacing one moves the
\* id of the other to the fates.
LEMMA AcceptedSpread ==
  ASSUME NEW P, NEW L, NEW B, NEW D, NEW F, NEW n \in Nat, Spread(P, L, B, D, F, n)
  PROVE  /\ n + 1 \notin P \cup L \cup B \cup D \cup F
         /\ Spread(P \cup {n + 1}, L, B, D, F, n + 1)
         /\ Spread(P, L \cup {n + 1}, B, D, F, n + 1)
         /\ \A i \in P : Spread((P \ {i}) \cup {n + 1}, L, B, D, F \cup {i}, n + 1)
<1>1. n + 1 \notin 1..n /\ 1..n + 1 = (1..n) \cup {n + 1}
  OBVIOUS
<1>2. n + 1 \notin P \cup L \cup B \cup D \cup F
  BY <1>1 DEF Spread
<1>3. Spread(P \cup {n + 1}, L, B, D, F, n + 1)
  BY <1>1, <1>2 DEF Spread
<1>4. Spread(P, L \cup {n + 1}, B, D, F, n + 1)
  BY <1>1, <1>2 DEF Spread
<1>5. ASSUME NEW i \in P PROVE Spread((P \ {i}) \cup {n + 1}, L, B, D, F \cup {i}, n + 1)
  BY <1>1, <1>2 DEF Spread
<1>6. QED
  BY <1>2, <1>3, <1>4, <1>5

\* Taking, draining, sending and cancelling only move ids.
LEMMA MovedSpread ==
  ASSUME NEW P, NEW L, NEW B, NEW D, NEW F, NEW n, Spread(P, L, B, D, F, n)
  PROVE  /\ \A Q \in SUBSET P : \A M, N :
              B = {} /\ M \cup N = L /\ M \cap N = {} => Spread(P \ Q, N, Q \cup M, D, F, n)
         /\ D = {} => Spread({}, {}, B, P \cup L, F, n)
         /\ \A i \in B : Spread(P, L, B \ {i}, D, F \cup {i}, n)
         /\ \A i \in D : Spread(P, L, B, D \ {i}, F \cup {i}, n)
<1>1. ASSUME NEW Q \in SUBSET P, NEW M, NEW N, B = {}, M \cup N = L, M \cap N = {}
      PROVE  Spread(P \ Q, N, Q \cup M, D, F, n)
  BY <1>1 DEF Spread
<1>2. D = {} => Spread({}, {}, B, P \cup L, F, n)
  BY DEF Spread
<1>3. ASSUME NEW i \in B PROVE Spread(P, L, B \ {i}, D, F \cup {i}, n)
  BY DEF Spread
<1>4. ASSUME NEW i \in D PROVE Spread(P, L, B, D \ {i}, F \cup {i}, n)
  BY DEF Spread
<1>5. QED
  BY <1>1, <1>2, <1>3, <1>4

-----------------------------------------------------------------------------
(***************************************************************************)
(* The invariant.                                                          *)
(***************************************************************************)
Outcome == [id : Nat, what : Fates]

Places == {"idle", "loaded", "checked"}
WorkerPlaces == {"sleep", "take", "send", "await", "exit"}
ShutPlaces == {"none", "drain", "cancel", "stop", "done"}

\* The worker has a batch exactly while it sends, shutdown has something to
\* cancel only while it cancels, and it raises the flag first.
Control ==
  /\ batch # <<>> <=> worker \in {"send", "await"}
  /\ drained # <<>> => shut = "cancel"
  /\ shut # "none" => isShutdown

\* The map has one command per key, and none without.
Keyed ==
  /\ \A e \in pending : e.key # NoKey
  /\ \A e, f \in pending : e.key = f.key => e = f

\* Each accepted command is in one place, once.
Placed ==
  /\ \A e, f \in pending : e.id = f.id => e = f
  /\ Distinct(loose) /\ Distinct(batch) /\ Distinct(drained) /\ Distinct(fate)
  /\ Spread(IdsOf(pending), IdsIn(loose), IdsIn(batch), IdsIn(drained), IdsIn(fate), accepted)

DebounceInv ==
  /\ TypeOK /\ IsFiniteSet(pending)
  /\ Control /\ Keyed /\ Placed
  /\ DepthIsExact /\ NothingBehindDrain

LEMMA EmptyIds == IdsIn(<<>>) = {} /\ Distinct(<<>>) /\ IdsOf({}) = {}
<1>1. <<>> \in Seq({}) /\ Len(<<>>) = 0 /\ DOMAIN <<>> = {}
  OBVIOUS
<1>2. QED
  BY <1>1 DEF IdsIn, Distinct, IdsOf

LEMMA InitDebounce == Init => DebounceInv
<1> SUFFICES ASSUME Init PROVE DebounceInv
  OBVIOUS
<1>1. <<>> \in Seq(Entry) /\ <<>> \in Seq(Outcome) /\ Len(<<>>) = 0
  OBVIOUS
<1>2. TypeOK
  <2>1. caller \in [Callers -> [at : {"idle", "loaded", "checked"}, key : Keys \cup {NoKey}]]
    BY DEF Init
  <2>2. QED
    BY <2>1, <1>1 DEF Init, TypeOK, Outcome
<1>3. IsFiniteSet(pending) /\ Cardinality(pending) = 0
  BY FS_EmptySet DEF Init
<1>4. Control /\ Keyed /\ NothingBehindDrain
  BY DEF Init, Control, Keyed, NothingBehindDrain
<1>5. DepthIsExact
  BY <1>1, <1>3 DEF Init, DepthIsExact, Size
<1>6. Placed
  <2>1. Spread({}, {}, {}, {}, {}, 0)
    BY DEF Spread
  <2>2. QED
    BY <2>1, EmptyIds DEF Init, Placed
<1>7. QED
  BY <1>2, <1>3, <1>4, <1>5, <1>6 DEF DebounceInv

\* The steps that leave the queue, the batch and the history alone.
LEMMA FrameKeepsDebounce ==
  ASSUME DebounceInv, UNCHANGED <<queue, batch, drained, accepted, fate>>,
         caller' \in [Callers -> [at : Places, key : Keys \cup {NoKey}]],
         worker' \in WorkerPlaces, shut' \in ShutPlaces, isShutdown' \in BOOLEAN,
         connected' \in BOOLEAN, refusing' \in BOOLEAN,
         Control', NothingBehindDrain'
  PROVE  DebounceInv'
<1>1. TypeOK' /\ IsFiniteSet(pending')
  BY DEF DebounceInv, TypeOK, queue, Places, WorkerPlaces, ShutPlaces
<1>2. Keyed' /\ DepthIsExact'
  BY DEF DebounceInv, Keyed, DepthIsExact, Size, queue
<1>3. Placed'
  BY DEF DebounceInv, Placed, queue
<1>4. QED
  BY <1>1, <1>2, <1>3 DEF DebounceInv
-----------------------------------------------------------------------------
(***************************************************************************)
(* The steps that move commands.                                           *)
(***************************************************************************)
\* An accepted command without a key goes to the vector.
LEMMA LooseKeepsDebounce ==
  ASSUME DebounceInv, NEW e \in Entry, e.id = accepted + 1, shut = "none",
         accepted' = accepted + 1, depth' = depth + 1,
         loose' = Append(loose, e), UNCHANGED <<pending, fate>>,
         caller' \in [Callers -> [at : Places, key : Keys \cup {NoKey}]],
         UNCHANGED <<worker, batch, isShutdown, shut, drained, env>>
  PROVE  DebounceInv'
<1>1. TypeOK /\ IsFiniteSet(pending) /\ Control /\ Keyed /\ Placed /\ depth = Size
  BY DEF DebounceInv, DepthIsExact
<1>2. loose \in Seq(Entry) /\ accepted \in Nat /\ depth \in Nat
  BY <1>1 DEF TypeOK
<1>3. /\ loose' \in Seq(Entry) /\ Len(loose') = Len(loose) + 1
      /\ IdsIn(loose') = IdsIn(loose) \cup {accepted + 1}
      /\ Distinct(loose) /\ accepted + 1 \notin IdsIn(loose) => Distinct(loose')
  BY <1>2, AppendedIds
<1>4. Placed'
  <2>1. /\ accepted + 1 \notin IdsIn(loose)
        /\ Spread(IdsOf(pending), IdsIn(loose) \cup {accepted + 1}, IdsIn(batch), IdsIn(drained),
                  IdsIn(fate), accepted + 1)
    BY <1>1, <1>2, AcceptedSpread DEF Placed
  <2>2. QED
    BY <1>1, <1>3, <2>1 DEF Placed
<1>5. depth' = Cardinality(pending') + Len(loose')
  <2>1. PICK c \in Nat, l \in Nat : c = Cardinality(pending) /\ l = Len(loose)
    BY <1>1, <1>2, FS_CardinalityType
  <2>2. depth = c + l
    BY <2>1, <1>1 DEF Size
  <2>3. depth + 1 = c + (l + 1)
    BY <2>2
  <2>4. QED
    BY <2>1, <2>3, <1>3
<1>6. TypeOK'
  BY <1>1, <1>2, <1>3 DEF TypeOK, env, Places
<1>7. QED
  BY <1>1, <1>4, <1>5, <1>6
  DEF DebounceInv, Control, Keyed, DepthIsExact, Size, NothingBehindDrain

\* One with a key goes to the map, where it may replace another.
LEMMA KeyedKeepsDebounce ==
  ASSUME DebounceInv, NEW e \in Entry, e.id = accepted + 1, e.key # NoKey, shut = "none",
         accepted' = accepted + 1, depth' = DepthAfter(e.key),
         pending' = (pending \ Superseded(e.key)) \cup {e},
         IF Superseded(e.key) = {} THEN fate' = fate
         ELSE \E o \in Superseded(e.key) : fate' = Append(fate, Fate(o, "superseded")),
         UNCHANGED loose,
         caller' \in [Callers -> [at : Places, key : Keys \cup {NoKey}]],
         UNCHANGED <<worker, batch, isShutdown, shut, drained, env>>
  PROVE  DebounceInv'
<1>1. TypeOK /\ IsFiniteSet(pending) /\ Control /\ Keyed /\ Placed /\ depth = Size
  BY DEF DebounceInv, DepthIsExact
<1>2. /\ loose \in Seq(Entry) /\ accepted \in Nat /\ depth \in Nat /\ pending \subseteq Entry
      /\ fate \in Seq(Outcome) /\ Len(loose) \in Nat
  BY <1>1 DEF TypeOK, Outcome
<1>3. /\ accepted + 1 \notin IdsOf(pending) /\ accepted + 1 \notin IdsIn(fate)
      /\ Spread(IdsOf(pending) \cup {accepted + 1}, IdsIn(loose), IdsIn(batch), IdsIn(drained),
                IdsIn(fate), accepted + 1)
      /\ \A i \in IdsOf(pending) :
           Spread((IdsOf(pending) \ {i}) \cup {accepted + 1}, IdsIn(loose), IdsIn(batch),
                  IdsIn(drained), IdsIn(fate) \cup {i}, accepted + 1)
  BY <1>1, <1>2, AcceptedSpread DEF Placed
<1>4. \A x \in pending : x.id # e.id
  BY <1>3 DEF IdsOf
<1>5. /\ \A x, y \in pending' : x.id = y.id => x = y
      /\ \A x, y \in pending' : x.key = y.key => x = y
      /\ \A x \in pending' : x.key # NoKey
      /\ pending' \subseteq Entry
  BY <1>1, <1>2, <1>4 DEF Keyed, Placed, Superseded
<1>6. Cardinality(pending) \in Nat /\ depth = Cardinality(pending) + Len(loose)
  BY <1>1, FS_CardinalityType DEF Size
<1>7. CASE Superseded(e.key) = {}
  <2>1. pending' = pending \cup {e} /\ fate' = fate /\ depth' = depth + 1 /\ e \notin pending
    BY <1>7, <1>4 DEF DepthAfter
  <2>2. IsFiniteSet(pending') /\ Cardinality(pending') = Cardinality(pending) + 1
    BY <1>1, <2>1, FS_AddElement
  <2>3. IdsOf(pending') = IdsOf(pending) \cup {accepted + 1}
    BY <2>1 DEF IdsOf
  <2>4. Placed'
    BY <1>1, <1>3, <1>5, <2>1, <2>3 DEF Placed
  <2>5. depth' = Cardinality(pending') + Len(loose') /\ depth' \in Nat
    <3>1. PICK n \in Nat, l \in Nat : n = Cardinality(pending) /\ l = Len(loose)
      BY <1>2, <1>6
    <3>2. depth = n + l
      BY <1>6, <3>1
    <3>3. depth + 1 = (n + 1) + l /\ depth + 1 \in Nat
      BY <3>2
    <3>4. loose' = loose
      OBVIOUS
    <3>5. QED
      BY <2>1, <2>2, <3>1, <3>3, <3>4
  <2>6. TypeOK'
    BY <1>1, <1>2, <1>5, <2>1, <2>5 DEF TypeOK, env, Places
  <2>7. QED
    BY <1>1, <1>5, <2>2, <2>4, <2>5, <2>6
    DEF DebounceInv, Control, Keyed, DepthIsExact, Size, NothingBehindDrain
<1>8. CASE Superseded(e.key) # {}
  <2>1. PICK o \in Superseded(e.key) : fate' = Append(fate, Fate(o, "superseded"))
    BY <1>8
  <2>2. o \in pending /\ Superseded(e.key) = {o}
    BY <1>1, <2>1 DEF Keyed, Superseded
  <2>3. pending' = (pending \ {o}) \cup {e} /\ depth' = depth /\ e \notin pending \ {o}
    BY <1>4, <1>8, <2>2 DEF DepthAfter
  <2>4. /\ IsFiniteSet(pending \ {o}) /\ Cardinality(pending \ {o}) = Cardinality(pending) - 1
    BY <1>1, <2>2, FS_RemoveElement
  <2>5. IsFiniteSet(pending') /\ Cardinality(pending') = (Cardinality(pending) - 1) + 1
    <3>1. /\ IsFiniteSet((pending \ {o}) \cup {e})
          /\ Cardinality((pending \ {o}) \cup {e}) = Cardinality(pending \ {o}) + 1
      BY <2>3, <2>4, FS_AddElement
    <3>2. QED
      BY <2>3, <2>4, <3>1
  <2>6. IdsOf(pending') = (IdsOf(pending) \ {o.id}) \cup {accepted + 1}
    BY <1>1, <2>2, <2>3 DEF IdsOf, Placed
  <2>7. o.id \in IdsOf(pending) /\ o.id \notin IdsIn(fate)
    BY <1>1, <2>2 DEF IdsOf, Placed, Spread
  <2>8. Fate(o, "superseded") \in Outcome /\ Fate(o, "superseded").id = o.id
    BY <1>2, <2>2 DEF Fate, Outcome, Entry, Fates
  <2>9. /\ fate' \in Seq(Outcome) /\ IdsIn(fate') = IdsIn(fate) \cup {o.id}
        /\ Distinct(fate) => Distinct(fate')
    BY <1>2, <2>1, <2>7, <2>8, AppendedIds
  <2>10. Placed'
    <3>1. Spread(IdsOf(pending'), IdsIn(loose), IdsIn(batch), IdsIn(drained), IdsIn(fate'),
                 accepted + 1)
      BY <1>3, <2>6, <2>7, <2>9
    <3>2. Distinct(loose) /\ Distinct(batch) /\ Distinct(drained) /\ Distinct(fate')
      BY <1>1, <2>9 DEF Placed
    <3>3. QED
      BY <1>5, <3>1, <3>2 DEF Placed
  <2>11. depth' = Cardinality(pending') + Len(loose') /\ depth' \in Nat
    BY <1>2, <1>6, <2>3, <2>5
  <2>12. TypeOK'
    BY <1>1, <1>2, <1>5, <2>9, <2>11 DEF TypeOK, env, Places, Outcome
  <2>13. QED
    BY <1>1, <1>5, <2>5, <2>10, <2>11, <2>12
    DEF DebounceInv, Control, Keyed, DepthIsExact, Size, NothingBehindDrain
<1>9. QED
  BY <1>7, <1>8

\* The locked part of a submission.
LEMMA SubmitKeepsDebounce ==
  ASSUME DebounceInv, NEW c \in Callers, SubmitLocked(c)
  PROVE  DebounceInv'
<1> DEFINE k == caller[c].key
           e == [id |-> accepted + 1, key |-> k]
<1>1. TypeOK /\ Control /\ NothingBehindDrain /\ Keyed
  BY DEF DebounceInv
<1>2. /\ k \in Keys \cup {NoKey} /\ accepted \in Nat
      /\ caller' \in [Callers -> [at : Places, key : Keys \cup {NoKey}]]
  <2>1. caller \in [Callers -> [at : Places, key : Keys \cup {NoKey}]]
    BY <1>1 DEF TypeOK, Places
  <2>2. caller' = [caller EXCEPT ![c] = [at |-> "idle", key |-> NoKey]]
    BY DEF SubmitLocked
  <2>3. QED
    BY <1>1, <2>1, <2>2 DEF TypeOK, Places
<1>3. e \in Entry /\ e.id = accepted + 1 /\ e.key = k
  BY <1>2 DEF Entry
<1>4. CASE Admitted(k)
  <2>1. shut = "none"
    BY <1>1, <1>4 DEF Admitted, Control
  <2>2. CASE k = NoKey
    <3>1. Superseded(k) = {}
      BY <1>1, <2>2 DEF Keyed, Superseded
    <3>2. /\ accepted' = accepted + 1 /\ depth' = depth + 1
          /\ loose' = Append(loose, e) /\ UNCHANGED <<pending, fate>>
          /\ UNCHANGED <<worker, batch, isShutdown, shut, drained, env>>
      BY <1>4, <2>2, <3>1 DEF SubmitLocked, DepthAfter
    <3>3. QED
      BY <1>2, <1>3, <2>1, <3>2, LooseKeepsDebounce
  <2>3. CASE k # NoKey
    <3>1. /\ accepted' = accepted + 1 /\ depth' = DepthAfter(e.key)
          /\ pending' = (pending \ Superseded(e.key)) \cup {e}
          /\ IF Superseded(e.key) = {} THEN fate' = fate
             ELSE \E o \in Superseded(e.key) : fate' = Append(fate, Fate(o, "superseded"))
          /\ UNCHANGED loose
          /\ UNCHANGED <<worker, batch, isShutdown, shut, drained, env>>
      BY <1>4, <2>3 DEF SubmitLocked
    <3>2. QED
      BY <1>2, <1>3, <2>1, <2>3, <3>1, KeyedKeepsDebounce
  <2>4. QED
    BY <2>2, <2>3
<1>5. CASE ~Admitted(k)
  <2>1. UNCHANGED <<queue, worker, batch, isShutdown, shut, drained, env, accepted, fate>>
    BY <1>5 DEF SubmitLocked
  <2>2. Control' /\ NothingBehindDrain'
    BY <1>1, <2>1 DEF Control, NothingBehindDrain, queue
  <2>3. /\ worker' \in WorkerPlaces /\ shut' \in ShutPlaces /\ isShutdown' \in BOOLEAN
        /\ connected' \in BOOLEAN /\ refusing' \in BOOLEAN
    BY <1>1, <2>1 DEF TypeOK, WorkerPlaces, ShutPlaces, env
  <2>4. QED
    BY <1>2, <2>1, <2>2, <2>3, FrameKeepsDebounce
<1>6. QED
  BY <1>4, <1>5
\* The worker takes what is due.
LEMMA TakeKeepsDebounce ==
  ASSUME DebounceInv, NEW due \in SUBSET pending, NEW late \in SUBSET (DOMAIN loose),
         TakeDue(due, late)
  PROVE  DebounceInv'
<1> DEFINE out  == At(loose, late)
           kept == At(loose, DOMAIN loose \ late)
<1>1. TypeOK /\ IsFiniteSet(pending) /\ Control /\ Keyed /\ Placed /\ depth = Size /\ NothingBehindDrain
  BY DEF DebounceInv, DepthIsExact
<1>2. /\ loose \in Seq(Entry) /\ depth \in Nat /\ pending \subseteq Entry
      /\ batch = <<>> /\ worker = "take"
  BY <1>1 DEF TypeOK, TakeDue, Control
<1>3. /\ out \in Seq(Entry) /\ kept \in Seq(Entry)
      /\ Len(out) \in Nat /\ Len(kept) \in Nat /\ Len(out) + Len(kept) = Len(loose)
      /\ IdsIn(out) \cup IdsIn(kept) = IdsIn(loose)
      /\ Distinct(out) /\ Distinct(kept) /\ IdsIn(out) \cap IdsIn(kept) = {}
  BY <1>1, <1>2, PartitionIds DEF Placed
<1> HIDE DEF out, kept
<1>4. PICK order \in SetToSeqs(due) : batch' = order \o out
  BY DEF TakeDue, out
<1>5. /\ pending' = pending \ due /\ loose' = kept /\ depth' = depth - Len(batch')
      /\ worker' = IF batch' = <<>> THEN "sleep" ELSE "send"
      /\ UNCHANGED <<caller, isShutdown, shut, drained, env, accepted, fate>>
  BY DEF TakeDue, NotDue, DepthWithout, kept
<1>6. /\ IsFiniteSet(due) /\ IsFiniteSet(pending \ due)
      /\ Cardinality(pending \ due) = Cardinality(pending) - Cardinality(pending \cap due)
      /\ pending \cap due = due /\ due \subseteq Entry
  BY <1>1, <1>2, FS_Subset, FS_Difference
<1>7. /\ Cardinality(pending) \in Nat /\ Cardinality(due) \in Nat /\ Cardinality(pending \ due) \in Nat
  BY <1>1, <1>6, FS_CardinalityType
<1>8. /\ order \in Seq(Entry) /\ Len(order) = Cardinality(due)
      /\ IdsIn(order) = IdsOf(due) /\ Distinct(order)
  BY <1>1, <1>4, <1>6, ArrangedIds DEF Placed
<1>9. IdsOf(due) \subseteq IdsOf(pending) /\ IdsOf(pending \ due) = IdsOf(pending) \ IdsOf(due)
  BY <1>1 DEF IdsOf, Placed
<1>10. IdsIn(order) \cap IdsIn(out) = {}
  BY <1>1, <1>3, <1>8, <1>9 DEF Placed, Spread
<1>11. /\ batch' \in Seq(Entry) /\ Len(batch') = Cardinality(due) + Len(out)
       /\ IdsIn(batch') = IdsOf(due) \cup IdsIn(out) /\ Distinct(batch')
  <2>1. /\ order \o out \in Seq(Entry) /\ Len(order \o out) = Len(order) + Len(out)
        /\ IdsIn(order \o out) = IdsIn(order) \cup IdsIn(out)
        /\ Distinct(order) /\ Distinct(out) /\ IdsIn(order) \cap IdsIn(out) = {}
             => Distinct(order \o out)
    BY <1>3, <1>8, ConcatIds
  <2>2. Distinct(order \o out)
    BY <1>3, <1>8, <1>10, <2>1
  <2>3. QED
    BY <1>4, <1>8, <2>1, <2>2
<1>12. depth' = Cardinality(pending') + Len(loose') /\ depth' \in Nat
  <2>1. PICK p \in Nat, d \in Nat, l \in Nat, m \in Nat :
          p = Cardinality(pending \ due) /\ d = Cardinality(due) /\ l = Len(out) /\ m = Len(kept)
    BY <1>3, <1>7
  <2>2. Cardinality(pending) = p + d /\ Len(loose) = l + m
    <3>1. Cardinality(pending \ due) = Cardinality(pending) - Cardinality(due)
      BY <1>6
    <3>2. Cardinality(pending) = p + d
      BY <1>7, <2>1, <3>1
    <3>3. QED
      BY <1>3, <2>1, <3>2
  <2>3. depth = (p + d) + (l + m)
    BY <1>1, <2>2 DEF Size
  <2>4. depth - (d + l) = p + m /\ p + m \in Nat
    BY <2>3
  <2>5. QED
    BY <1>5, <1>11, <2>1, <2>4
<1>13. Placed'
  <2>1. IdsIn(batch) = {}
    BY <1>2, EmptyIds
  <2>2. Spread(IdsOf(pending) \ IdsOf(due), IdsIn(kept), IdsOf(due) \cup IdsIn(out),
               IdsIn(drained), IdsIn(fate), accepted)
    BY <1>1, <1>3, <1>9, <2>1, MovedSpread DEF Placed
  <2>3. \A x, y \in pending' : x.id = y.id => x = y
    BY <1>1, <1>5 DEF Placed
  <2>4. Distinct(drained) /\ Distinct(fate)
    BY <1>1 DEF Placed
  <2>5. QED
    BY <1>3, <1>5, <1>9, <1>11, <2>2, <2>3, <2>4 DEF Placed
<1>14. TypeOK'
  BY <1>1, <1>2, <1>3, <1>5, <1>11, <1>12 DEF TypeOK, env
<1>15. Control' /\ Keyed'
  BY <1>1, <1>5 DEF Control, Keyed
<1>16. NothingBehindDrain'
  <2>1. SUFFICES ASSUME shut' \in {"cancel", "stop", "done"} PROVE pending' = {} /\ loose' = <<>>
    BY DEF NothingBehindDrain
  <2>2. pending = {} /\ loose = <<>>
    BY <1>1, <1>5, <2>1 DEF NothingBehindDrain
  <2>3. Len(kept) = 0
    BY <1>3, <2>2
  <2>4. QED
    BY <1>3, <1>5, <2>2, <2>3
<1>17. IsFiniteSet(pending') /\ DepthIsExact'
  BY <1>5, <1>6, <1>12 DEF DepthIsExact, Size
<1>18. QED
  BY <1>13, <1>14, <1>15, <1>16, <1>17 DEF DebounceInv

\* A command gets its fate: the worker sent it or had no connection.
LEMMA SendKeepsDebounce ==
  ASSUME DebounceInv, NEW what \in Fates, batch # <<>>,
         fate' = Append(fate, Fate(Head(batch), what)), batch' = Tail(batch),
         worker' = IF Tail(batch) = <<>> THEN "sleep" ELSE "send",
         UNCHANGED <<caller, queue, isShutdown, shut, drained, env, accepted>>
  PROVE  DebounceInv'
<1>1. TypeOK /\ IsFiniteSet(pending) /\ Control /\ Keyed /\ Placed /\ DepthIsExact /\ NothingBehindDrain
  BY DEF DebounceInv
<1>2. batch \in Seq(Entry) /\ fate \in Seq(Outcome)
  BY <1>1 DEF TypeOK, Outcome
<1>3. /\ Head(batch) \in Entry /\ Tail(batch) \in Seq(Entry) /\ Head(batch).id \in IdsIn(batch)
      /\ IdsIn(Tail(batch)) = IdsIn(batch) \ {Head(batch).id} /\ Distinct(Tail(batch))
  BY <1>1, <1>2, TailIds DEF Placed
<1>4. Fate(Head(batch), what) \in Outcome /\ Fate(Head(batch), what).id = Head(batch).id
  BY <1>3 DEF Fate, Outcome, Entry
<1>5. Head(batch).id \notin IdsIn(fate)
  BY <1>1, <1>3 DEF Placed, Spread
<1>6. /\ fate' \in Seq(Outcome) /\ IdsIn(fate') = IdsIn(fate) \cup {Head(batch).id}
      /\ Distinct(fate) => Distinct(fate')
  BY <1>2, <1>4, <1>5, AppendedIds
<1>7. Placed'
  <2>1. Spread(IdsOf(pending), IdsIn(loose), IdsIn(batch) \ {Head(batch).id}, IdsIn(drained),
               IdsIn(fate) \cup {Head(batch).id}, accepted)
    BY <1>1, <1>3, MovedSpread DEF Placed
  <2>2. Distinct(loose) /\ Distinct(batch') /\ Distinct(drained) /\ Distinct(fate')
    BY <1>1, <1>3, <1>6 DEF Placed
  <2>3. QED
    BY <1>1, <1>3, <1>6, <2>1, <2>2 DEF Placed, queue
<1>8. TypeOK'
  BY <1>1, <1>3, <1>6 DEF TypeOK, queue, env, Outcome
<1>9. Control'
  BY <1>1 DEF Control
<1>10. QED
  BY <1>1, <1>7, <1>8, <1>9 DEF DebounceInv, Keyed, DepthIsExact, Size, NothingBehindDrain, queue

\* Shutdown drains the queue.
LEMMA DrainKeepsDebounce ==
  ASSUME DebounceInv, ShutdownDrain
  PROVE  DebounceInv'
<1>1. TypeOK /\ IsFiniteSet(pending) /\ Control /\ Keyed /\ Placed /\ depth = Size
  BY DEF DebounceInv, DepthIsExact
<1>2. /\ loose \in Seq(Entry) /\ depth \in Nat /\ pending \subseteq Entry /\ Len(loose) \in Nat
      /\ shut = "drain" /\ drained = <<>> /\ shut' = "cancel"
      /\ UNCHANGED <<caller, worker, batch, isShutdown, env, accepted, fate>>
  BY <1>1 DEF TypeOK, ShutdownDrain, Control
<1>3. PICK order \in SetToSeqs(pending) : drained' = order \o loose /\ loose' = <<>>
  BY DEF ShutdownDrain, Drained
<1>4. pending' = {} /\ depth' = depth - Len(drained')
  BY DEF ShutdownDrain, DepthWithout
<1>5. /\ order \in Seq(Entry) /\ Len(order) = Cardinality(pending)
      /\ IdsIn(order) = IdsOf(pending) /\ Distinct(order)
  BY <1>1, <1>2, <1>3, ArrangedIds DEF Placed
<1>6. /\ drained' \in Seq(Entry) /\ Len(drained') = Cardinality(pending) + Len(loose)
      /\ IdsIn(drained') = IdsOf(pending) \cup IdsIn(loose) /\ Distinct(drained')
  <2>1. IdsIn(order) \cap IdsIn(loose) = {} /\ Distinct(loose)
    BY <1>1, <1>5 DEF Placed, Spread
  <2>2. /\ order \o loose \in Seq(Entry) /\ Len(order \o loose) = Len(order) + Len(loose)
        /\ IdsIn(order \o loose) = IdsIn(order) \cup IdsIn(loose)
        /\ Distinct(order) /\ Distinct(loose) /\ IdsIn(order) \cap IdsIn(loose) = {}
             => Distinct(order \o loose)
    BY <1>2, <1>5, ConcatIds
  <2>3. Distinct(order \o loose)
    BY <1>5, <2>1, <2>2
  <2>4. QED
    BY <1>3, <1>5, <2>2, <2>3
<1>7. depth' = 0
  <2>1. PICK p \in Nat, l \in Nat : p = Cardinality(pending) /\ l = Len(loose)
    BY <1>1, <1>2, FS_CardinalityType
  <2>2. depth = p + l /\ depth' = depth - (p + l)
    BY <1>1, <1>4, <1>6, <2>1 DEF Size
  <2>3. QED
    BY <2>2
<1>8. /\ IsFiniteSet(pending') /\ Cardinality(pending') = 0
      /\ loose' \in Seq(Entry) /\ Len(loose') = 0
  <2>1. <<>> \in Seq(Entry) /\ Len(<<>>) = 0
    OBVIOUS
  <2>2. QED
    BY <1>3, <1>4, <2>1, FS_EmptySet
<1>9. Placed'
  <2>1. IdsIn(drained) = {} /\ IdsIn(loose') = {} /\ IdsOf(pending') = {} /\ Distinct(loose')
    BY <1>2, <1>3, <1>4, EmptyIds
  <2>2. Spread({}, {}, IdsIn(batch), IdsOf(pending) \cup IdsIn(loose), IdsIn(fate), accepted)
    BY <1>1, <2>1, MovedSpread DEF Placed
  <2>3. Distinct(batch) /\ Distinct(fate)
    BY <1>1 DEF Placed
  <2>4. QED
    BY <1>2, <1>4, <1>6, <2>1, <2>2, <2>3 DEF Placed
<1>10. TypeOK'
  BY <1>1, <1>2, <1>4, <1>6, <1>7, <1>8 DEF TypeOK, env
<1>11. Control' /\ Keyed' /\ NothingBehindDrain'
  BY <1>1, <1>2, <1>3, <1>4 DEF Control, Keyed, NothingBehindDrain
<1>12. DepthIsExact'
  BY <1>7, <1>8 DEF DepthIsExact, Size
<1>13. QED
  BY <1>8, <1>9, <1>10, <1>11, <1>12 DEF DebounceInv

\* Shutdown cancels what it drained, one at a time.
LEMMA CancelKeepsDebounce ==
  ASSUME DebounceInv, ShutdownCancel
  PROVE  DebounceInv'
<1>1. TypeOK /\ IsFiniteSet(pending) /\ Control /\ Keyed /\ Placed /\ DepthIsExact /\ NothingBehindDrain
  BY DEF DebounceInv
<1>2. drained \in Seq(Entry) /\ fate \in Seq(Outcome) /\ shut = "cancel"
  BY <1>1 DEF TypeOK, Outcome, ShutdownCancel
<1>3. CASE drained # <<>>
  <2>1. /\ fate' = Append(fate, Fate(Head(drained), "shutdown")) /\ drained' = Tail(drained)
        /\ UNCHANGED <<shut, connected>>
        /\ UNCHANGED <<caller, queue, worker, batch, isShutdown, refusing, accepted>>
    BY <1>3 DEF ShutdownCancel
  <2>2. /\ Head(drained) \in Entry /\ Tail(drained) \in Seq(Entry)
        /\ Head(drained).id \in IdsIn(drained)
        /\ IdsIn(Tail(drained)) = IdsIn(drained) \ {Head(drained).id} /\ Distinct(Tail(drained))
    BY <1>1, <1>2, <1>3, TailIds DEF Placed
  <2>3. /\ Fate(Head(drained), "shutdown") \in Outcome
        /\ Fate(Head(drained), "shutdown").id = Head(drained).id
    BY <2>2 DEF Fate, Outcome, Entry, Fates
  <2>4. Head(drained).id \notin IdsIn(fate)
    BY <1>1, <2>2 DEF Placed, Spread
  <2>5. /\ fate' \in Seq(Outcome) /\ IdsIn(fate') = IdsIn(fate) \cup {Head(drained).id}
        /\ Distinct(fate) => Distinct(fate')
    BY <1>2, <2>1, <2>3, <2>4, AppendedIds
  <2>6. Placed'
    <3>1. Spread(IdsOf(pending), IdsIn(loose), IdsIn(batch), IdsIn(drained) \ {Head(drained).id},
                 IdsIn(fate) \cup {Head(drained).id}, accepted)
      BY <1>1, <2>2, MovedSpread DEF Placed
    <3>2. Distinct(loose) /\ Distinct(batch) /\ Distinct(drained') /\ Distinct(fate')
      BY <1>1, <2>1, <2>2, <2>5 DEF Placed
    <3>3. QED
      BY <1>1, <2>1, <2>2, <2>5, <3>1, <3>2 DEF Placed, queue
  <2>7. TypeOK'
    BY <1>1, <2>1, <2>2, <2>5 DEF TypeOK, queue, Outcome
  <2>8. Control'
    BY <1>1, <1>2, <2>1 DEF Control
  <2>9. QED
    BY <1>1, <2>1, <2>6, <2>7, <2>8
    DEF DebounceInv, Keyed, DepthIsExact, Size, NothingBehindDrain, queue
<1>4. CASE drained = <<>>
  <2>1. /\ shut' = "stop" /\ connected' = FALSE
        /\ UNCHANGED <<caller, queue, worker, batch, isShutdown, drained, refusing, accepted, fate>>
    BY <1>4 DEF ShutdownCancel
  <2>2. Control' /\ NothingBehindDrain'
    BY <1>1, <1>2, <1>4, <2>1 DEF Control, NothingBehindDrain, queue
  <2>3. /\ caller' \in [Callers -> [at : Places, key : Keys \cup {NoKey}]]
        /\ worker' \in WorkerPlaces /\ shut' \in ShutPlaces /\ isShutdown' \in BOOLEAN
        /\ connected' \in BOOLEAN /\ refusing' \in BOOLEAN
    BY <1>1, <2>1 DEF TypeOK, WorkerPlaces, ShutPlaces, Places
  <2>4. QED
    BY <2>1, <2>2, <2>3, FrameKeepsDebounce
<1>5. QED
  BY <1>3, <1>4
-----------------------------------------------------------------------------
(***************************************************************************)
(* Every step.                                                             *)
(***************************************************************************)
LEMMA NextKeepsDebounce == DebounceInv /\ [Next]_vars => DebounceInv'
<1> SUFFICES ASSUME DebounceInv, [Next]_vars PROVE DebounceInv'
  OBVIOUS
<1>1. TypeOK /\ Control /\ NothingBehindDrain
  BY DEF DebounceInv
<1>2. /\ caller \in [Callers -> [at : Places, key : Keys \cup {NoKey}]]
      /\ worker \in WorkerPlaces /\ shut \in ShutPlaces /\ isShutdown \in BOOLEAN
      /\ connected \in BOOLEAN /\ refusing \in BOOLEAN
  BY <1>1 DEF TypeOK, Places, WorkerPlaces, ShutPlaces
<1>3. ASSUME NEW c \in Callers, SubmitLoad(c) PROVE DebounceInv'
  <2>1. PICK k \in Keys \cup {NoKey} : caller' = [caller EXCEPT ![c] = [at |-> "loaded", key |-> k]]
    BY <1>3 DEF SubmitLoad
  <2>2. caller' \in [Callers -> [at : Places, key : Keys \cup {NoKey}]]
    BY <1>2, <2>1 DEF Places
  <2>3. UNCHANGED <<queue, worker, batch, isShutdown, shut, drained, env, accepted, fate>>
    BY <1>3 DEF SubmitLoad
  <2>4. Control' /\ NothingBehindDrain'
    BY <1>1, <2>3 DEF Control, NothingBehindDrain, queue
  <2>5. QED
    BY <1>2, <2>2, <2>3, <2>4, FrameKeepsDebounce DEF env
<1>4. ASSUME NEW c \in Callers, SubmitSupervisor(c) PROVE DebounceInv'
  <2>1. caller' \in [Callers -> [at : Places, key : Keys \cup {NoKey}]]
    <3>1. \/ caller' = [caller EXCEPT ![c] = [at |-> "idle", key |-> NoKey]]
          \/ caller' = [caller EXCEPT ![c] = [caller[c] EXCEPT !.at = "checked"]]
      BY <1>4, <1>2 DEF SubmitSupervisor
    <3>2. [caller[c] EXCEPT !.at = "checked"] \in [at : Places, key : Keys \cup {NoKey}]
      BY <1>2 DEF Places
    <3>3. [at |-> "idle", key |-> NoKey] \in [at : Places, key : Keys \cup {NoKey}]
      BY DEF Places
    <3>4. QED
      BY <1>2, <3>1, <3>2, <3>3
  <2>2. UNCHANGED <<queue, worker, batch, isShutdown, shut, drained, env, accepted, fate>>
    BY <1>4 DEF SubmitSupervisor
  <2>3. Control' /\ NothingBehindDrain'
    BY <1>1, <2>2 DEF Control, NothingBehindDrain, queue
  <2>4. QED
    BY <1>2, <2>1, <2>2, <2>3, FrameKeepsDebounce DEF env
<1>5. CASE WorkerWake
  <2>1. /\ UNCHANGED <<caller, queue, batch, isShutdown, shut, drained, env, accepted, fate>>
        /\ worker = "sleep" /\ worker' \in {"exit", "take"}
    BY <1>5 DEF WorkerWake
  <2>2. Control' /\ NothingBehindDrain'
    BY <1>1, <2>1 DEF Control, NothingBehindDrain, queue
  <2>3. QED
    BY <1>2, <2>1, <2>2, FrameKeepsDebounce DEF env, WorkerPlaces
<1>6. CASE WorkerSend
  <2>1. CASE connected
    <3>1. /\ UNCHANGED <<caller, queue, batch, isShutdown, shut, drained, env, accepted, fate>>
          /\ worker = "send" /\ worker' = "await"
      BY <1>6, <2>1 DEF WorkerSend
    <3>2. Control' /\ NothingBehindDrain'
      BY <1>1, <3>1 DEF Control, NothingBehindDrain, queue
    <3>3. QED
      BY <1>2, <3>1, <3>2, FrameKeepsDebounce DEF env, WorkerPlaces
  <2>2. CASE ~connected
    <3>1. "unsent" \in Fates /\ batch # <<>>
      BY <1>1, <1>6 DEF Fates, Control, WorkerSend
    <3>2. QED
      BY <1>6, <2>2, <3>1, SendKeepsDebounce DEF WorkerSend
  <2>3. QED
    BY <2>1, <2>2
<1>7. CASE WorkerAnswer
  <2>1. PICK what \in {"answered", "failed"} : fate' = Append(fate, Fate(Head(batch), what))
    BY <1>7 DEF WorkerAnswer
  <2>2. what \in Fates /\ batch # <<>>
    BY <1>1, <1>7 DEF Fates, Control, WorkerAnswer
  <2>3. QED
    BY <1>7, <2>1, <2>2, SendKeepsDebounce DEF WorkerAnswer
<1>8. CASE ShutdownBegin
  <2>1. /\ UNCHANGED <<caller, queue, worker, batch, drained, env, accepted, fate>>
        /\ shut = "none" /\ isShutdown' = TRUE /\ shut' = "drain"
    BY <1>8 DEF ShutdownBegin
  <2>2. Control' /\ NothingBehindDrain'
    BY <1>1, <2>1 DEF Control, NothingBehindDrain
  <2>3. QED
    BY <1>2, <2>1, <2>2, FrameKeepsDebounce DEF env, ShutPlaces
<1>9. CASE ShutdownStop
  <2>1. /\ UNCHANGED <<caller, queue, worker, batch, isShutdown, drained, connected, accepted, fate>>
        /\ shut = "stop" /\ refusing' = TRUE /\ shut' = "done"
    BY <1>9 DEF ShutdownStop
  <2>2. Control' /\ NothingBehindDrain'
    BY <1>1, <2>1 DEF Control, NothingBehindDrain, queue
  <2>3. QED
    BY <1>2, <2>1, <2>2, FrameKeepsDebounce DEF ShutPlaces
<1>10. CASE EnvConnection \/ EnvSupervisor
  <2>1. /\ UNCHANGED <<caller, queue, worker, batch, isShutdown, shut, drained, accepted, fate>>
        /\ connected' \in BOOLEAN /\ refusing' \in BOOLEAN
    BY <1>2, <1>10 DEF EnvConnection, EnvSupervisor
  <2>2. Control' /\ NothingBehindDrain'
    BY <1>1, <2>1 DEF Control, NothingBehindDrain, queue
  <2>3. QED
    BY <1>2, <2>1, <2>2, FrameKeepsDebounce
<1>11. CASE UNCHANGED vars
  <2>1. /\ UNCHANGED <<caller, queue, worker, batch, isShutdown, shut, drained, accepted, fate>>
        /\ UNCHANGED <<connected, refusing>>
    BY <1>11 DEF vars, env
  <2>2. Control' /\ NothingBehindDrain'
    BY <1>1, <2>1 DEF Control, NothingBehindDrain, queue
  <2>3. QED
    BY <1>2, <2>1, <2>2, FrameKeepsDebounce
<1>12. CASE \E c \in Callers : SubmitLocked(c)
  BY <1>12, SubmitKeepsDebounce
<1>13. CASE WorkerTake
  BY <1>13, TakeKeepsDebounce DEF WorkerTake
<1>14. QED
  BY <1>3, <1>4, <1>5, <1>6, <1>7, <1>8, <1>9, <1>10, <1>11, <1>12, <1>13,
     DrainKeepsDebounce, CancelKeepsDebounce
  DEF Next, Submit, Worker, Shutdown

\* DebounceInv holds in every reachable state.
THEOREM DebounceInvariant == Spec => []DebounceInv
<1>1. QED
  BY InitDebounce, NextKeepsDebounce, PTL DEF Spec

-----------------------------------------------------------------------------
(***************************************************************************)
(* What follows.                                                           *)
(***************************************************************************)
\* The variables of the debounce queue keep their types: deadlines, drains
\* and replacements never leave a counter below zero or a batch half taken.
THEOREM DebounceTypeOK == Spec => []TypeOK
<1>1. QED
  BY DebounceInvariant, PTL DEF DebounceInv

\* debounce_depth (take_due, drain and replace change it, telemetry shows it)
\* is the number of commands in the map and the vector.
THEOREM DepthStaysExact == Spec => []DepthIsExact
<1>1. QED
  BY DebounceInvariant, PTL DEF DebounceInv

\* Nothing is accepted behind the drain of shutdown, whoever had passed the
\* first look at is_shutdown before.
THEOREM NothingBehindDrainHolds == Spec => []NothingBehindDrain
<1>1. QED
  BY DebounceInvariant, PTL DEF DebounceInv

\* A sequence that holds each id once has as many entries with an id as it
\* has that id.
LEMMA CountInSequence ==
  ASSUME NEW s, Distinct(s), NEW i
  PROVE  Cardinality({j \in DOMAIN s : s[j].id = i}) = IF i \in IdsIn(s) THEN 1 ELSE 0
<1>1. CASE i \in IdsIn(s)
  <2>1. PICK j \in DOMAIN s : s[j].id = i
    BY <1>1 DEF IdsIn
  <2>2. {k \in DOMAIN s : s[k].id = i} = {j}
    BY <2>1 DEF Distinct
  <2>3. QED
    BY <1>1, <2>2, FS_Singleton
<1>2. CASE i \notin IdsIn(s)
  <2>1. {k \in DOMAIN s : s[k].id = i} = {}
    BY <1>2 DEF IdsIn
  <2>2. QED
    BY <1>2, <2>1, FS_EmptySet
<1>3. QED
  BY <1>1, <1>2

LEMMA CountInSet ==
  ASSUME NEW S, \A e, f \in S : e.id = f.id => e = f, NEW i
  PROVE  Cardinality({e \in S : e.id = i}) = IF i \in IdsOf(S) THEN 1 ELSE 0
<1>1. CASE i \in IdsOf(S)
  <2>1. PICK e \in S : e.id = i
    BY <1>1 DEF IdsOf
  <2>2. {f \in S : f.id = i} = {e}
    BY <2>1
  <2>3. QED
    BY <1>1, <2>2, FS_Singleton
<1>2. CASE i \notin IdsOf(S)
  <2>1. {e \in S : e.id = i} = {}
    BY <1>2 DEF IdsOf
  <2>2. QED
    BY <1>2, <2>1, FS_EmptySet
<1>3. QED
  BY <1>1, <1>2

LEMMA PlacedHasOneFate == Placed => OneFate
<1> SUFFICES ASSUME Placed, NEW i \in 1..accepted PROVE Holders(i) = 1
  BY DEF OneFate
<1>1. /\ Cardinality({e \in pending : e.id = i}) = IF i \in IdsOf(pending) THEN 1 ELSE 0
      /\ Cardinality({j \in DOMAIN loose : loose[j].id = i}) = IF i \in IdsIn(loose) THEN 1 ELSE 0
      /\ Cardinality({j \in DOMAIN batch : batch[j].id = i}) = IF i \in IdsIn(batch) THEN 1 ELSE 0
      /\ Cardinality({j \in DOMAIN drained : drained[j].id = i})
           = IF i \in IdsIn(drained) THEN 1 ELSE 0
      /\ Cardinality({j \in DOMAIN fate : fate[j].id = i}) = IF i \in IdsIn(fate) THEN 1 ELSE 0
  BY CountInSequence, CountInSet DEF Placed
<1>2. i \in IdsOf(pending) \/ i \in IdsIn(loose) \/ i \in IdsIn(batch) \/ i \in IdsIn(drained)
      \/ i \in IdsIn(fate)
  BY DEF Placed, Spread
<1>3. /\ ~(i \in IdsOf(pending) /\ i \in IdsIn(loose)) /\ ~(i \in IdsOf(pending) /\ i \in IdsIn(batch))
      /\ ~(i \in IdsOf(pending) /\ i \in IdsIn(drained)) /\ ~(i \in IdsOf(pending) /\ i \in IdsIn(fate))
      /\ ~(i \in IdsIn(loose) /\ i \in IdsIn(batch)) /\ ~(i \in IdsIn(loose) /\ i \in IdsIn(drained))
      /\ ~(i \in IdsIn(loose) /\ i \in IdsIn(fate)) /\ ~(i \in IdsIn(batch) /\ i \in IdsIn(drained))
      /\ ~(i \in IdsIn(batch) /\ i \in IdsIn(fate)) /\ ~(i \in IdsIn(drained) /\ i \in IdsIn(fate))
  BY DEF Placed, Spread
<1>4. QED
  BY <1>1, <1>2, <1>3 DEF Holders

\* An accepted command is in one place, once, until it has one fate: never
\* sent and cancelled, sent twice or lost, whatever shutdown, the worker and
\* the callers of send_command_debounced do.
THEOREM OneFateHolds == Spec => []OneFate
<1>1. DebounceInv => OneFate
  BY PlacedHasOneFate DEF DebounceInv
<1>2. QED
  BY <1>1, DebounceInvariant, PTL
=============================================================================

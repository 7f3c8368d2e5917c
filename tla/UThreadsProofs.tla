--------------------------- MODULE UThreadsProofs ---------------------------
(***************************************************************************)
(* Theorems about UThreads, for every size of the thread table, every      *)
(* longest sleep and every cap of the counters.                            *)
(***************************************************************************)
EXTENDS UThreads, SequenceTheorems, FiniteSetTheorems, WellFoundedInduction, TLAPS

(***************************************************************************)
(* Queues                                                                  *)
(***************************************************************************)
\* A queue in which nobody stands twice.
Distinct(q) == \A i, j \in 1..Len(q) : q[i] = q[j] => i = j

\* Nobody of the queue p stands behind anyone in q who was not before him in p.
InOrder(p, q) ==
    \A i, j \in 1..Len(q) :
        i < j /\ q[j] \in Range(p) =>
            \E k, l \in 1..Len(p) : k < l /\ p[k] = q[i] /\ p[l] = q[j]

\* The members of a queue are what stands at its places.
LEMMA RangeIs ==
    ASSUME NEW S, NEW q \in Seq(S)
    PROVE  /\ \A t : t \in Range(q) <=> \E i \in 1..Len(q) : q[i] = t
           /\ Len(q) \in Nat /\ \A i \in 1..Len(q) : q[i] \in S
BY RangeEquality, LenProperties

\* A newcomer goes to the end of the queue.
LEMMA QueueAppend ==
    ASSUME NEW S, NEW q \in Seq(S), NEW t \in S, Distinct(q), t \notin Range(q)
    PROVE  /\ Append(q, t) \in Seq(S) /\ Distinct(Append(q, t))
           /\ Range(Append(q, t)) = Range(q) \cup {t}
           /\ InOrder(q, Append(q, t))
<1> DEFINE r == Append(q, t)
           n == Len(q)
<1>1. /\ r \in Seq(S) /\ Len(r) = n + 1 /\ r[n + 1] = t /\ n \in Nat
      /\ \A i \in 1..n : r[i] = q[i]
  BY AppendProperties, LenProperties
<1>2. \A i \in 1..n : q[i] # t
  BY RangeIs
<1>3. /\ \A u : u \in Range(q) <=> \E i \in 1..n : q[i] = u
      /\ \A u : u \in Range(r) <=> \E i \in 1..Len(r) : r[i] = u
  <2> HIDE DEF r
  <2> QED
    BY <1>1, RangeIs
<1> HIDE DEF r
<1>4. Distinct(r)
  <2> SUFFICES ASSUME NEW i \in 1..(n + 1), NEW j \in 1..(n + 1), r[i] = r[j]
               PROVE  i = j
    BY <1>1 DEF Distinct
  <2>1. CASE i \in 1..n /\ j \in 1..n
    BY <1>1, <2>1 DEF Distinct
  <2> QED
    BY <1>1, <1>2, <2>1
<1>5. Range(r) = Range(q) \cup {t}
  <2>1. ASSUME NEW u PROVE u \in Range(r) <=> u \in Range(q) \/ u = t
    BY <1>1, <1>3
  <2> QED
    BY <2>1
<1>6. InOrder(q, r)
  <2> SUFFICES ASSUME NEW i \in 1..(n + 1), NEW j \in 1..(n + 1), i < j, r[j] \in Range(q)
               PROVE  \E k, l \in 1..n : k < l /\ q[k] = r[i] /\ q[l] = r[j]
    BY <1>1 DEF InOrder
  <2>1. j # n + 1
    BY <1>1
  <2>2. i \in 1..n /\ j \in 1..n
    BY <1>1, <2>1
  <2> QED
    BY <1>1, <2>2
<1> QED
  BY <1>1, <1>4, <1>5, <1>6 DEF r

\* The front of the queue leaves it.
LEMMA QueueTail ==
    ASSUME NEW S, NEW q \in Seq(S), q # <<>>, Distinct(q)
    PROVE  /\ Head(q) \in Range(q) /\ Head(q) \in S
           /\ Tail(q) \in Seq(S) /\ Distinct(Tail(q))
           /\ Range(Tail(q)) = Range(q) \ {Head(q)}
           /\ InOrder(q, Tail(q))
<1> DEFINE r == Tail(q)
           n == Len(q)
<1>1. /\ r \in Seq(S) /\ Len(r) = n - 1 /\ n \in Nat /\ n >= 1
      /\ \A i \in 1..(n - 1) : r[i] = q[i + 1]
      /\ Head(q) \in S
  <2>1. n \in Nat /\ n # 0
    OBVIOUS
  <2> QED
    BY <2>1, HeadTailProperties
<1>2. Head(q) = q[1]
  OBVIOUS
<1>3. /\ \A u : u \in Range(q) <=> \E i \in 1..n : q[i] = u
      /\ \A u : u \in Range(r) <=> \E i \in 1..Len(r) : r[i] = u
  BY <1>1, RangeIs
<1> HIDE DEF r, n
<1>4. Distinct(r)
  <2> SUFFICES ASSUME NEW i \in 1..(n - 1), NEW j \in 1..(n - 1), r[i] = r[j]
               PROVE  i = j
    BY <1>1 DEF Distinct
  <2>1. i + 1 \in 1..n /\ j + 1 \in 1..n /\ q[i + 1] = q[j + 1]
    BY <1>1
  <2>2. i + 1 = j + 1
    BY <2>1 DEF Distinct, n
  <2> QED
    BY <2>2
<1>5. Range(r) = Range(q) \ {Head(q)}
  <2>1. ASSUME NEW u \in Range(r) PROVE u \in Range(q) /\ u # Head(q)
    <3>1. PICK i \in 1..(n - 1) : q[i + 1] = u
      BY <1>1, <1>3, <2>1
    <3>2. i + 1 \in 1..n /\ 1 \in 1..n /\ i + 1 # 1
      BY <1>1
    <3> QED
      BY <1>2, <1>3, <3>1, <3>2 DEF Distinct, n
  <2>2. ASSUME NEW u \in Range(q), u # Head(q) PROVE u \in Range(r)
    <3>1. PICK i \in 1..n : q[i] = u
      BY <1>3
    <3>2. i - 1 \in 1..(n - 1) /\ (i - 1) + 1 = i
      BY <1>1, <1>2, <2>2, <3>1
    <3> QED
      BY <1>1, <1>3, <3>1, <3>2
  <2> QED
    BY <2>1, <2>2
<1>6. InOrder(q, r)
  <2> SUFFICES ASSUME NEW i \in 1..(n - 1), NEW j \in 1..(n - 1), i < j
               PROVE  \E k, l \in 1..n : k < l /\ q[k] = r[i] /\ q[l] = r[j]
    <3>1. Len(r) = n - 1 /\ Len(q) = n
      BY <1>1 DEF n
    <3> HIDE DEF n, r
    <3> QED
      BY <3>1 DEF InOrder
  <2>1. i + 1 \in 1..n /\ j + 1 \in 1..n /\ i + 1 < j + 1
    BY <1>1
  <2> QED
    BY <1>1, <2>1
<1>7. Head(q) \in Range(q)
  BY <1>1, <1>2, <1>3
<1> QED
  BY <1>1, <1>4, <1>5, <1>6, <1>7 DEF r

\* One queue behind another.
LEMMA QueueConcat ==
    ASSUME NEW S, NEW p \in Seq(S), NEW q \in Seq(S), Distinct(p), Distinct(q),
           Range(p) \cap Range(q) = {}
    PROVE  /\ p \o q \in Seq(S) /\ Distinct(p \o q)
           /\ Range(p \o q) = Range(p) \cup Range(q)
           /\ InOrder(p, p \o q)
<1> DEFINE r == p \o q
           m == Len(p)
           n == Len(q)
<1>1. /\ r \in Seq(S) /\ Len(r) = m + n /\ m \in Nat /\ n \in Nat
      /\ \A i \in 1..(m + n) : r[i] = IF i <= m THEN p[i] ELSE q[i - m]
  BY ConcatProperties, LenProperties
<1>2. /\ \A i \in 1..m : p[i] \in Range(p)
      /\ \A i \in 1..n : q[i] \in Range(q)
  BY RangeIs
<1>3. \A i, j \in 1..m : p[i] = p[j] => i = j
  BY DEF Distinct
<1>4. \A i, j \in 1..n : q[i] = q[j] => i = j
  BY DEF Distinct
<1> HIDE DEF r, m, n
<1>5. ASSUME NEW i \in 1..(m + n)
      PROVE  \/ i \in 1..m /\ r[i] = p[i] /\ r[i] \in Range(p)
             \/ i - m \in 1..n /\ i > m /\ r[i] = q[i - m] /\ r[i] \in Range(q)
  <2>1. CASE i <= m
    BY <1>1, <1>2, <2>1
  <2>2. CASE ~(i <= m)
    <3>1. i - m \in 1..n /\ i > m
      BY <1>1, <2>2
    <3> QED
      BY <1>1, <1>2, <2>2, <3>1
  <2> QED
    BY <2>1, <2>2
<1>6. Distinct(r)
  <2> SUFFICES ASSUME NEW i \in 1..(m + n), NEW j \in 1..(m + n), r[i] = r[j]
               PROVE  i = j
    BY <1>1 DEF Distinct
  <2>1. CASE i \in 1..m /\ r[i] = p[i] /\ j \in 1..m /\ r[j] = p[j]
    BY <1>3, <2>1
  <2>2. CASE i - m \in 1..n /\ r[i] = q[i - m] /\ j - m \in 1..n /\ r[j] = q[j - m]
    <3>1. i - m = j - m
      BY <1>4, <2>2
    <3> QED
      BY <1>1, <3>1
  <2> QED
    BY <1>5, <2>1, <2>2
<1>7. Range(r) = Range(p) \cup Range(q)
  BY RangeConcatenation DEF r
<1>8. InOrder(p, r)
  <2> SUFFICES ASSUME NEW i \in 1..(m + n), NEW j \in 1..(m + n), i < j, r[j] \in Range(p)
               PROVE  \E k, l \in 1..m : k < l /\ p[k] = r[i] /\ p[l] = r[j]
    BY <1>1 DEF InOrder, m
  <2>1. j \in 1..m /\ r[j] = p[j]
    BY <1>5
  <2>2. i \in 1..m /\ r[i] = p[i]
    BY <1>1, <1>5, <2>1
  <2> QED
    BY <2>1, <2>2
<1> QED
  BY <1>1, <1>6, <1>7, <1>8 DEF r

\* The order of a queue is kept through a queue that has all its members.
LEMMA InOrderTrans ==
    ASSUME NEW S, NEW p \in Seq(S), NEW q \in Seq(S), NEW r \in Seq(S),
           InOrder(p, q), InOrder(q, r), Range(p) \subseteq Range(q)
    PROVE  InOrder(p, r)
<1> SUFFICES ASSUME NEW i \in 1..Len(r), NEW j \in 1..Len(r), i < j, r[j] \in Range(p)
             PROVE  \E k, l \in 1..Len(p) : k < l /\ p[k] = r[i] /\ p[l] = r[j]
  BY DEF InOrder
<1>1. PICK k \in 1..Len(q), l \in 1..Len(q) : k < l /\ q[k] = r[i] /\ q[l] = r[j]
  BY DEF InOrder
<1> QED
  BY <1>1 DEF InOrder

\* A queue is in its own order.
LEMMA InOrderRefl ==
    ASSUME NEW S, NEW p \in Seq(S)
    PROVE  InOrder(p, p)
BY DEF InOrder

\* A member leaves the queue, and those behind it move up.
LEMMA QueueErase ==
    ASSUME NEW S, NEW q \in Seq(S), NEW i \in 1..Len(q), Distinct(q)
    PROVE  LET r == SubSeq(q, 1, i - 1) \o SubSeq(q, i + 1, Len(q))
           IN  /\ r \in Seq(S) /\ Distinct(r) /\ Range(r) = Range(q) \ {q[i]}
               /\ InOrder(q, r)
<1> DEFINE a == SubSeq(q, 1, i - 1)
           b == SubSeq(q, i + 1, Len(q))
           r == a \o b
           n == Len(q)
           up(k) == IF k < i THEN k ELSE k + 1
<1>1. n \in Nat /\ i \in 1..n /\ \A k \in 1..n : q[k] \in S
  BY LenProperties
<1>2. /\ a \in Seq(S) /\ Len(a) = i - 1
      /\ \A k \in 1..(i - 1) : a[k] = q[k]
  <2>1. \A k \in 1..(i - 1) : q[k] \in S
    BY <1>1
  <2>2. i - 1 \in Int /\ 1 \in Int
    BY <1>1
  <2>3. /\ a \in Seq(S) /\ Len(a) = IF 1 <= i - 1 THEN (i - 1) - 1 + 1 ELSE 0
        /\ \A k \in 1..((i - 1) - 1 + 1) : a[k] = q[1 + k - 1]
    BY <2>1, <2>2, SubSeqProperties
  <2> HIDE DEF a
  <2>4. \A k \in 1..(i - 1) : k \in 1..((i - 1) - 1 + 1) /\ 1 + k - 1 = k
    BY <1>1
  <2> QED
    BY <1>1, <2>3, <2>4
<1>3. /\ b \in Seq(S) /\ Len(b) = n - i
      /\ \A k \in 1..(n - i) : b[k] = q[i + k]
  <2>1. \A k \in (i + 1)..n : q[k] \in S
    BY <1>1
  <2>2. i + 1 \in Int /\ n \in Int
    BY <1>1
  <2>3. /\ b \in Seq(S) /\ Len(b) = IF i + 1 <= n THEN n - (i + 1) + 1 ELSE 0
        /\ \A k \in 1..(n - (i + 1) + 1) : b[k] = q[(i + 1) + k - 1]
    BY <2>1, <2>2, SubSeqProperties
  <2> HIDE DEF b, n
  <2>4. \A k \in 1..(n - i) : k \in 1..(n - (i + 1) + 1) /\ (i + 1) + k - 1 = i + k
    BY <1>1
  <2> QED
    BY <1>1, <2>3, <2>4
<1> HIDE DEF a, b
<1>4. /\ r \in Seq(S) /\ Len(r) = n - 1
      /\ \A k \in 1..(n - 1) : r[k] = q[up(k)] /\ up(k) \in 1..n /\ up(k) # i
  <2>1. /\ r \in Seq(S) /\ Len(r) = Len(a) + Len(b)
        /\ \A k \in 1..(Len(a) + Len(b)) : r[k] = IF k <= Len(a) THEN a[k] ELSE b[k - Len(a)]
    BY <1>2, <1>3, ConcatProperties
  <2> HIDE DEF r, n
  <2>2. Len(a) + Len(b) = n - 1
    BY <1>1, <1>2, <1>3
  <2>3. ASSUME NEW k \in 1..(n - 1)
        PROVE  r[k] = q[up(k)] /\ up(k) \in 1..n /\ up(k) # i
    <3>1. r[k] = IF k <= i - 1 THEN a[k] ELSE b[k - (i - 1)]
      BY <1>2, <2>1, <2>2
    <3>2. CASE k < i
      BY <1>1, <1>2, <3>1, <3>2
    <3>3. CASE ~(k < i)
      <4>1. k - (i - 1) \in 1..(n - i) /\ i + (k - (i - 1)) = k + 1 /\ ~(k <= i - 1)
        BY <1>1, <3>3
      <4>2. r[k] = q[k + 1]
        BY <1>3, <3>1, <4>1
      <4> QED
        BY <1>1, <3>3, <4>2
    <3> QED
      BY <3>2, <3>3
  <2> QED
    BY <2>1, <2>2, <2>3
<1>5. /\ \A u : u \in Range(q) <=> \E k \in 1..n : q[k] = u
      /\ \A u : u \in Range(r) <=> \E k \in 1..Len(r) : r[k] = u
  <2> HIDE DEF r
  <2> QED
    BY <1>4, RangeIs
<1> HIDE DEF r, n
<1>6. \A k, l \in 1..n : q[k] = q[l] => k = l
  BY DEF Distinct, n
<1>7. \A k, l \in 1..(n - 1) : /\ up(k) = up(l) => k = l
                               /\ k < l => up(k) < up(l)
  BY <1>1
<1>8. Distinct(r)
  BY <1>4, <1>6, <1>7 DEF Distinct
<1>9. Range(r) = Range(q) \ {q[i]}
  <2>1. ASSUME NEW u \in Range(r) PROVE u \in Range(q) /\ u # q[i]
    <3>1. PICK k \in 1..(n - 1) : r[k] = u
      BY <1>4, <1>5
    <3>2. q[up(k)] = u /\ up(k) \in 1..n /\ up(k) # i
      BY <1>4, <3>1
    <3> HIDE DEF up
    <3> QED
      BY <1>1, <1>5, <1>6, <3>2
  <2>2. ASSUME NEW u \in Range(q), u # q[i] PROVE u \in Range(r)
    <3>1. PICK k \in 1..n : q[k] = u
      BY <1>5
    <3>2. CASE k < i
      <4>1. k \in 1..(n - 1) /\ up(k) = k
        BY <1>1, <3>2
      <4> QED
        BY <1>4, <1>5, <3>1, <4>1
    <3>3. CASE k > i
      <4>1. k - 1 \in 1..(n - 1) /\ up(k - 1) = k
        BY <1>1, <3>3
      <4>2. r[k - 1] = u
        BY <1>4, <3>1, <4>1
      <4> QED
        BY <1>4, <1>5, <4>1, <4>2
    <3> QED
      BY <1>1, <2>2, <3>1, <3>2, <3>3
  <2> QED
    BY <2>1, <2>2
<1>10. InOrder(q, r)
  <2> SUFFICES ASSUME NEW k \in 1..(n - 1), NEW l \in 1..(n - 1), k < l
               PROVE  \E x, y \in 1..n : x < y /\ q[x] = r[k] /\ q[y] = r[l]
    <3>1. Len(r) = n - 1 /\ Len(q) = n
      BY <1>4 DEF n
    <3> HIDE DEF n, r
    <3> QED
      BY <3>1 DEF InOrder
  <2>1. up(k) \in 1..n /\ up(l) \in 1..n /\ up(k) < up(l) /\ q[up(k)] = r[k] /\ q[up(l)] = r[l]
    BY <1>4, <1>7
  <2> HIDE DEF up
  <2> QED
    BY <2>1
<1> QED
  BY <1>4, <1>8, <1>9, <1>10 DEF r, a, b

\* A queue that lists a finite set in its order lists all of it.
LEMMA ListingIsAll ==
    ASSUME NEW S \in SUBSET Int, IsFiniteSet(S), NEW q \in [1..Cardinality(S) -> S],
           \A i, j \in 1..Cardinality(S) : i < j => q[i] < q[j]
    PROVE  q \in Seq(S) /\ Distinct(q) /\ Range(q) = S
<1> DEFINE n == Cardinality(S)
<1>1. n \in Nat
  BY FS_CardinalityType
<1>2. IsFiniteSet(1..n) /\ Cardinality(1..n) = n
  <2> HIDE DEF n
  <2> QED
    BY <1>1, FS_Interval
<1>3. q \in Injection(1..n, S)
  <2> SUFFICES ASSUME NEW i \in 1..n, NEW j \in 1..n, q[i] = q[j] PROVE i = j
    BY DEF Injection, IsInjective
  <2>1. q[i] \in Int /\ q[j] \in Int
    OBVIOUS
  <2>2. ~(i < j) /\ ~(j < i)
    BY <2>1
  <2> QED
    BY <2>2
<1>4. q \in Surjection(1..n, S)
  <2> HIDE DEF n
  <2>1. Cardinality(1..n) = Cardinality(S)
    BY <1>2 DEF n
  <2> QED
    BY <1>3, <2>1, FS_Injection
<1>5. Range(q) = S
  BY <1>4 DEF Surjection, Range
<1>6. q \in Seq(S) /\ Len(q) = n
  BY <1>1
<1>7. Distinct(q)
  BY <1>3, <1>6 DEF Injection, IsInjective, Distinct
<1> QED
  BY <1>5, <1>6, <1>7

(***************************************************************************)
(* The inductive invariant                                                 *)
(***************************************************************************)
States == {"none", "READY", "RUNNING", "BLOCKED"}

\* A thread that will resume where it ended itself is marked for deletion.
ExitMarked == \A t \in Ids : env[t] = "exit" => t \in Range(toDelete)

\* What the queue, the states, the ids and the contexts say of each other; it
\* holds after the exit of the process too, for nothing changes any more.
SchedInv ==
    /\ Distinct(ready)
    /\ \A t \in Ids : state[t] = "READY" <=> t \in Range(ready)
    /\ \A t \in Ids : state[t] = "RUNNING" <=> t = running
    /\ state[main_thread_id] \in {"READY", "RUNNING"}
    /\ IdsPartition
    /\ SleepersBlocked
    /\ ContextsFresh
    /\ ExitMarked

\* All that is known of the library between two steps.
UInv == TypeOK /\ SchedInv

\* The ids are finitely many numbers, and the main thread has one of them.
LEMMA IdsFacts ==
    /\ main_thread_id \in Ids /\ Ids \in SUBSET Int
    /\ \A S \in SUBSET Ids : IsFiniteSet(S) /\ Cardinality(S) \in Nat
<1>1. main_thread_id \in Ids /\ Ids \in SUBSET Int
  BY SizesAssumption DEF Ids, main_thread_id
<1>2. IsFiniteSet(Ids)
  BY SizesAssumption, FS_Interval DEF Ids
<1> QED
  BY <1>1, <1>2, FS_Subset, FS_CardinalityType

\* The library as uthread_init leaves it.
LEMMA InitUInv == Init => UInv
<1> SUFFICES ASSUME Init PROVE UInv
  OBVIOUS
<1> USE IdsFacts DEF Init
<1>1. TypeOK
  <2>1. /\ 0 \in 0..MaxSleep /\ 0 \in 0..QuantumCap /\ 1 \in 0..QuantumCap /\ 1 \in 1..QuantumCap
    BY SizesAssumption
  <2>2. /\ state \in [Ids -> {"none", "READY", "RUNNING", "BLOCKED"}]
        /\ sleep \in [Ids -> 0..MaxSleep]
        /\ isBlocked \in [Ids -> BOOLEAN]
        /\ elapsed \in [Ids -> 0..QuantumCap]
    BY <2>1
  <2>3. /\ env \in [Ids -> {"entry", "handler", "call", "exit"}]
        /\ available \in [Ids -> Nat]
        /\ running \in Ids
    OBVIOUS
  <2>4. ready \in Seq(Ids) /\ toDelete \in Seq(Ids)
    BY EmptySeq
  <2> QED
    BY <2>1, <2>2, <2>3, <2>4 DEF TypeOK
<1>2. Range(ready) = {} /\ Range(toDelete) = {} /\ Len(ready) = 0 /\ Len(toDelete) = 0
  BY DEF Range
<1>3. /\ Distinct(ready)
      /\ \A t \in Ids : state[t] = "READY" <=> t \in Range(ready)
      /\ \A t \in Ids : state[t] = "RUNNING" <=> t = running
      /\ state[main_thread_id] \in {"READY", "RUNNING"}
  BY <1>2 DEF Distinct
<1>4. IdsPartition /\ SleepersBlocked /\ ExitMarked
  BY <1>2 DEF IdsPartition, SleepersBlocked, ExitMarked, Live
<1>5. ContextsFresh
  BY DEF ContextsFresh, Live
<1> QED
  BY <1>1, <1>3, <1>4, <1>5 DEF UInv, SchedInv

\* Counting never makes a count of zero.
LEMMA IncrementIs ==
    ASSUME NEW n \in 0..QuantumCap
    PROVE  Increment(n) \in 1..QuantumCap
BY SizesAssumption DEF Increment

\* What a context switch does to each thread.
LEMMA SwitchEffects ==
    ASSUME TypeOK, NEW states \in [Ids -> States], NEW q \in Seq(Ids), q # <<>>,
           Distinct(q), NEW st \in States, NEW ctx \in {"entry", "handler", "call", "exit"},
           SwitchThreads(states, q, st, ctx)
    PROVE  /\ running' = Head(q) /\ Head(q) \in Ids /\ Head(q) \in Range(q)
           /\ ready' \in Seq(Ids) /\ Distinct(ready')
           /\ Range(ready') = Range(q) \ {Head(q)} /\ InOrder(q, ready')
           /\ state' \in [Ids -> States]
           /\ \A t \in Ids : state'[t] = IF t = running' THEN "RUNNING"
                                         ELSE IF t = running THEN st ELSE states[t]
           /\ env' \in [Ids -> {"entry", "handler", "call", "exit"}]
           /\ \A t \in Ids : env'[t] = IF t = running THEN ctx ELSE env[t]
           /\ elapsed' \in [Ids -> 0..QuantumCap]
           /\ \A t \in Ids : t # running' => elapsed'[t] = elapsed[t]
           /\ elapsed'[running'] # 0
           /\ total' \in 1..QuantumCap
<1>1. /\ running' = Head(q) /\ ready' = Tail(q)
      /\ state' = [states EXCEPT ![running] = st, ![Head(q)] = "RUNNING"]
      /\ env' = [env EXCEPT ![running] = ctx]
      /\ elapsed' = [elapsed EXCEPT ![Head(q)] = Increment(@)]
      /\ total' = Increment(total)
  BY DEF SwitchThreads, CountQuantum
<1>2. /\ Head(q) \in Ids /\ Head(q) \in Range(q)
      /\ ready' \in Seq(Ids) /\ Distinct(ready')
      /\ Range(ready') = Range(q) \ {Head(q)} /\ InOrder(q, ready')
  BY <1>1, QueueTail
<1>3. running \in Ids /\ elapsed[Head(q)] \in 0..QuantumCap /\ total \in 0..QuantumCap
  BY <1>2 DEF TypeOK
<1>4. /\ state' \in [Ids -> States]
      /\ \A t \in Ids : state'[t] = IF t = running' THEN "RUNNING"
                                    ELSE IF t = running THEN st ELSE states[t]
  BY <1>1, <1>2, <1>3 DEF States
<1>5. /\ env' \in [Ids -> {"entry", "handler", "call", "exit"}]
      /\ \A t \in Ids : env'[t] = IF t = running THEN ctx ELSE env[t]
  BY <1>1, <1>3 DEF TypeOK
<1>6. Increment(elapsed[Head(q)]) \in 1..QuantumCap /\ Increment(total) \in 1..QuantumCap
  BY <1>3, IncrementIs
<1>7. /\ elapsed' \in [Ids -> 0..QuantumCap]
      /\ \A t \in Ids : t # running' => elapsed'[t] = elapsed[t]
      /\ elapsed'[running'] # 0
  <2>1. /\ elapsed \in [Ids -> 0..QuantumCap] /\ Head(q) \in Ids /\ running' = Head(q)
        /\ elapsed' = [elapsed EXCEPT ![Head(q)] = Increment(@)]
    BY <1>1, <1>2 DEF TypeOK
  <2>2. Increment(elapsed[Head(q)]) \in 0..QuantumCap /\ Increment(elapsed[Head(q)]) # 0
    BY <1>6
  <2> QED
    BY <2>1, <2>2
<1> QED
  BY <1>1, <1>2, <1>4, <1>5, <1>6, <1>7

\* The running thread is not in the queue, and there is one when it is not main.
LEMMA QueueReady ==
    ASSUME UInv
    PROVE  /\ running \notin Range(ready) /\ running \notin Range(toDelete)
           /\ running # main_thread_id => ready # <<>>
<1>1. running \notin Range(ready) /\ state[running] = "RUNNING"
  BY DEF UInv, TypeOK, SchedInv
<1>2. running \notin Range(toDelete)
  BY <1>1 DEF UInv, SchedInv, IdsPartition
<1>3. ASSUME running # main_thread_id PROVE ready # <<>>
  <2>1. main_thread_id \in Range(ready)
    BY <1>3, IdsFacts DEF UInv, SchedInv
  <2> QED
    BY <2>1 DEF Range
<1> QED
  BY <1>1, <1>2, <1>3

-----------------------------------------------------------------------------
(* The invariant, step by step.                                            *)

\* The running thread leaves the processor to the front of the ready queue.
LEMMA GiveUpEffects ==
    ASSUME UInv, NEW ctx \in {"call", "exit"}, running # main_thread_id, SwitchBlocked(ctx)
    PROVE  /\ running' \in Ids /\ running' \in Range(ready) /\ running' # running
           /\ ready' \in Seq(Ids) /\ Distinct(ready')
           /\ Range(ready') = Range(ready) \ {running'} /\ InOrder(ready, ready')
           /\ state' \in [Ids -> States]
           /\ \A t \in Ids : state'[t] = IF t = running' THEN "RUNNING"
                                         ELSE IF t = running THEN "BLOCKED" ELSE state[t]
           /\ env' \in [Ids -> {"entry", "handler", "call", "exit"}]
           /\ \A t \in Ids : env'[t] = IF t = running THEN ctx ELSE env[t]
           /\ elapsed' \in [Ids -> 0..QuantumCap]
           /\ \A t \in Ids : t # running' => elapsed'[t] = elapsed[t]
           /\ elapsed'[running'] # 0
           /\ total' \in 1..QuantumCap
<1>1. /\ TypeOK /\ Distinct(ready) /\ ready \in Seq(Ids) /\ state \in [Ids -> States]
  BY DEF UInv, SchedInv, TypeOK, States
<1>2. ready # <<>> /\ running \notin Range(ready)
  BY QueueReady
<1>3. SwitchThreads(state, ready, "BLOCKED", ctx)
  BY DEF SwitchBlocked
<1>4. "BLOCKED" \in States /\ ctx \in {"entry", "handler", "call", "exit"}
  BY DEF States
<1>5. /\ running' = Head(ready) /\ Head(ready) \in Ids /\ Head(ready) \in Range(ready)
      /\ ready' \in Seq(Ids) /\ Distinct(ready')
      /\ Range(ready') = Range(ready) \ {Head(ready)} /\ InOrder(ready, ready')
      /\ state' \in [Ids -> States]
      /\ \A t \in Ids : state'[t] = IF t = running' THEN "RUNNING"
                                    ELSE IF t = running THEN "BLOCKED" ELSE state[t]
      /\ env' \in [Ids -> {"entry", "handler", "call", "exit"}]
      /\ \A t \in Ids : env'[t] = IF t = running THEN ctx ELSE env[t]
      /\ elapsed' \in [Ids -> 0..QuantumCap]
      /\ \A t \in Ids : t # running' => elapsed'[t] = elapsed[t]
      /\ elapsed'[running'] # 0
      /\ total' \in 1..QuantumCap
  BY <1>1, <1>2, <1>3, <1>4, SwitchEffects
<1> QED
  BY <1>2, <1>5

\* A thread that ends itself, blocks itself or goes to sleep.
LEMMA GiveUpKeeps ==
    ASSUME UInv, NEW ctx \in {"call", "exit"}, running # main_thread_id, SwitchBlocked(ctx),
           pending' \in BOOLEAN, UNCHANGED <<available, alive>>,
           isBlocked' \in [Ids -> BOOLEAN], sleep' \in [Ids -> 0..MaxSleep],
           \A t \in Ids \ {running} : isBlocked'[t] = isBlocked[t] /\ sleep'[t] = sleep[t],
           toDelete' \in Seq(Ids), Distinct(toDelete'),
           Range(toDelete') = IF ctx = "exit" THEN Range(toDelete) \cup {running}
                                              ELSE Range(toDelete),
           ctx = "exit" => sleep'[running] = 0,
           sleep'[running] = 0 => isBlocked'[running] \/ ctx = "exit"
    PROVE  UInv'
<1>1. /\ running' \in Ids /\ running' \in Range(ready) /\ running' # running
      /\ ready' \in Seq(Ids) /\ Distinct(ready')
      /\ Range(ready') = Range(ready) \ {running'}
      /\ state' \in [Ids -> States]
      /\ \A t \in Ids : state'[t] = IF t = running' THEN "RUNNING"
                                    ELSE IF t = running THEN "BLOCKED" ELSE state[t]
      /\ env' \in [Ids -> {"entry", "handler", "call", "exit"}]
      /\ \A t \in Ids : env'[t] = IF t = running THEN ctx ELSE env[t]
      /\ elapsed' \in [Ids -> 0..QuantumCap]
      /\ \A t \in Ids : t # running' => elapsed'[t] = elapsed[t]
      /\ elapsed'[running'] # 0
      /\ total' \in 1..QuantumCap
  BY GiveUpEffects
<1>2. /\ TypeOK /\ SchedInv /\ running \in Ids
      /\ running \notin Range(ready) /\ running \notin Range(toDelete)
  BY QueueReady DEF UInv, TypeOK
<1>3. TypeOK'
  BY <1>1, <1>2 DEF TypeOK, States
<1>4. \A t \in Ids : state[t] = "READY" <=> t \in Range(ready)
  BY <1>2 DEF SchedInv
<1>5. \A t \in Ids : state'[t] = "READY" <=> t \in Range(ready')
  BY <1>1, <1>2, <1>4
<1>6. \A t \in Ids : state'[t] = "RUNNING" <=> t = running'
  BY <1>1, <1>2 DEF SchedInv
<1>7. state'[main_thread_id] \in {"READY", "RUNNING"}
  BY <1>1, <1>2, IdsFacts DEF SchedInv
<1>8. state[running] = "RUNNING" /\ state[running'] = "READY"
  BY <1>1, <1>2, <1>4 DEF SchedInv
<1>9. \A t \in Ids : t \in Live' <=> t \in Live
  BY <1>1, <1>2, <1>8 DEF Live
<1>10. IdsPartition'
  <2>1. \A t \in Ids : available'[t] = IF t = main_thread_id \/ t \in Live' THEN 0 ELSE 1
    BY <1>2, <1>9 DEF SchedInv, IdsPartition
  <2>2. \A t \in Range(toDelete') : t \in Ids /\ state'[t] = "BLOCKED" /\ sleep'[t] = 0
    <3> SUFFICES ASSUME NEW t \in Range(toDelete')
                 PROVE  t \in Ids /\ state'[t] = "BLOCKED" /\ sleep'[t] = 0
      OBVIOUS
    <3>1. t \in Ids
      BY RangeOfSeq
    <3>2. CASE t = running
      BY <1>1, <3>1, <3>2, <1>2
    <3>3. CASE t \in Range(toDelete)
      <4>1. state[t] = "BLOCKED" /\ sleep[t] = 0
        BY <1>2, <3>3 DEF SchedInv, IdsPartition
      <4> QED
        BY <1>1, <1>2, <1>8, <3>1, <3>3, <4>1
    <3> QED
      BY <3>2, <3>3
  <2> QED
    BY <2>1, <2>2 DEF IdsPartition, Distinct
<1>in. /\ \A t \in Range(toDelete) : t \in Range(toDelete')
       /\ ctx = "exit" => running \in Range(toDelete')
  OBVIOUS
<1>11. SleepersBlocked'
  <2> SUFFICES ASSUME NEW t \in Ids
               PROVE  /\ sleep'[t] # 0 => state'[t] = "BLOCKED"
                      /\ state'[t] = "BLOCKED" /\ sleep'[t] = 0 =>
                            isBlocked'[t] \/ t \in Range(toDelete')
    BY DEF SleepersBlocked
  <2>1. CASE t = running
    BY <1>1, <1>in, <2>1
  <2>2. CASE t # running
    <3>1. /\ sleep[t] # 0 => state[t] = "BLOCKED"
          /\ state[t] = "BLOCKED" /\ sleep[t] = 0 => isBlocked[t] \/ t \in Range(toDelete)
      BY <1>2 DEF SchedInv, SleepersBlocked
    <3>2. sleep'[t] = sleep[t] /\ isBlocked'[t] = isBlocked[t]
      BY <2>2
    <3>3. state'[t] = "BLOCKED" <=> state[t] = "BLOCKED"
      BY <1>1, <1>8, <2>2
    <3> QED
      BY <1>in, <3>1, <3>2, <3>3
  <2> QED
    BY <2>1, <2>2
<1>12. ExitMarked'
  <2> SUFFICES ASSUME NEW t \in Ids, env'[t] = "exit" PROVE t \in Range(toDelete')
    BY DEF ExitMarked
  <2>1. CASE t = running
    BY <1>1, <1>in, <2>1
  <2>2. CASE t # running
    BY <1>1, <1>2, <1>in, <2>2 DEF SchedInv, ExitMarked
  <2> QED
    BY <2>1, <2>2
<1>13. ContextsFresh'
  <2>1. ASSUME NEW t \in Live'
        PROVE  elapsed'[t] = 0 <=> env'[t] = "entry" /\ t # running'
    <3>1. t \in Live /\ t \in Ids
      BY <1>9 DEF Live
    <3>2. elapsed[t] = 0 <=> env[t] = "entry" /\ t # running
      BY <1>2, <3>1 DEF SchedInv, ContextsFresh
    <3> QED
      BY <1>1, <3>1, <3>2
  <2>2. env'[running'] # "exit"
    <3>1. running' \notin Range(toDelete)
      BY <1>2, <1>8 DEF SchedInv, IdsPartition
    <3> QED
      BY <1>1, <1>2, <3>1 DEF SchedInv, ExitMarked
  <2> QED
    BY <2>1, <2>2 DEF ContextsFresh
<1> QED
  BY <1>1, <1>3, <1>5, <1>6, <1>7, <1>10, <1>11, <1>12, <1>13 DEF UInv, SchedInv

\* The three calls in which the running thread gives up the processor.
LEMMA GiveUpInv ==
    ASSUME UInv, \/ TerminateSelf \/ BlockSelf
                 \/ \E n \in 1..MaxSleep : Sleep(n)
    PROVE  UInv'
<1>1. /\ TypeOK /\ running \in Ids /\ sleep[running] = 0
      /\ Distinct(toDelete) /\ toDelete \in Seq(Ids) /\ running \notin Range(toDelete)
      /\ sleep \in [Ids -> 0..MaxSleep] /\ isBlocked \in [Ids -> BOOLEAN]
  <2>1. TypeOK /\ running \in Ids /\ state[running] = "RUNNING"
    BY DEF UInv, SchedInv, TypeOK
  <2>2. sleep[running] = 0
    BY <2>1 DEF UInv, SchedInv, SleepersBlocked
  <2> QED
    BY <2>1, <2>2, QueueReady DEF UInv, SchedInv, IdsPartition, Distinct, TypeOK
<1>2. CASE TerminateSelf
  <2>1. /\ running # main_thread_id /\ SwitchBlocked("exit") /\ pending' \in BOOLEAN
        /\ UNCHANGED <<available, alive, isBlocked, sleep>>
        /\ toDelete' = Append(toDelete, running)
    BY <1>2 DEF TerminateSelf, MaskedCall
  <2>2. /\ toDelete' \in Seq(Ids) /\ Distinct(toDelete')
        /\ Range(toDelete') = Range(toDelete) \cup {running}
    BY <1>1, <2>1, QueueAppend
  <2> QED
    BY <1>1, <2>1, <2>2, GiveUpKeeps
<1>3. CASE BlockSelf
  <2>1. /\ running # main_thread_id /\ SwitchBlocked("call") /\ pending' \in BOOLEAN
        /\ UNCHANGED <<available, alive, sleep, toDelete>>
        /\ isBlocked' = [isBlocked EXCEPT ![running] = TRUE]
    BY <1>3 DEF BlockSelf, MaskedCall, MarkBlocked
  <2>2. /\ isBlocked' \in [Ids -> BOOLEAN] /\ isBlocked'[running]
        /\ \A t \in Ids \ {running} : isBlocked'[t] = isBlocked[t]
    BY <1>1, <2>1
  <2> QED
    BY <1>1, <2>1, <2>2, GiveUpKeeps
<1>4. ASSUME NEW n \in 1..MaxSleep, Sleep(n) PROVE UInv'
  <2>1. /\ running # main_thread_id /\ SwitchBlocked("call") /\ pending' \in BOOLEAN
        /\ UNCHANGED <<available, alive, isBlocked, toDelete>>
        /\ sleep' = [sleep EXCEPT ![running] = n]
    BY <1>4 DEF Sleep, MaskedCall
  <2>2. /\ sleep' \in [Ids -> 0..MaxSleep] /\ sleep'[running] # 0
        /\ \A t \in Ids \ {running} : sleep'[t] = sleep[t]
    <3>1. n \in 0..MaxSleep /\ n # 0
      BY SizesAssumption
    <3> QED
      BY <1>1, <2>1, <3>1
  <2> QED
    BY <1>1, <2>1, <2>2, GiveUpKeeps
<1> QED
  BY <1>2, <1>3, <1>4

\* The sleepers that wake are blocked, and none has ended itself.
LEMMA WokenFacts ==
    ASSUME UInv
    PROVE  /\ Woken \in SUBSET Ids /\ IsFiniteSet(Woken) /\ Cardinality(Woken) \in Nat
           /\ \A t \in Woken : /\ state[t] = "BLOCKED" /\ t # running /\ t # main_thread_id
                               /\ t \notin Range(ready) /\ t \notin Range(toDelete)
<1>1. Woken \in SUBSET Ids
  BY DEF Woken, Sleepers, Live
<1>2. \A t \in Woken : t \in Ids /\ sleep[t] = 1
  BY <1>1 DEF Woken
<1>3. \A t \in Woken : state[t] = "BLOCKED"
  BY <1>2 DEF UInv, SchedInv, SleepersBlocked
<1>4. \A t \in Woken : t # running /\ t # main_thread_id /\ t \notin Range(ready)
  BY <1>2, <1>3 DEF UInv, SchedInv
<1>5. \A t \in Woken : t \notin Range(toDelete)
  BY <1>2 DEF UInv, SchedInv, IdsPartition
<1> QED
  BY <1>1, <1>3, <1>4, <1>5, IdsFacts

\* The handler: the queue becomes the waiting, the woken and the preempted
\* thread, in this order, and its front runs.
LEMMA PreemptEffects ==
    ASSUME UInv, Preempt
    PROVE  /\ running' \in Ids /\ running' \in Range(ready) \cup Woken \cup {running}
           /\ ready' \in Seq(Ids) /\ Distinct(ready')
           /\ Range(ready') = (Range(ready) \cup Woken \cup {running}) \ {running'}
           /\ InOrder(ready, ready')
           /\ state' \in [Ids -> States]
           /\ \A t \in Ids : state'[t] = IF t = running' THEN "RUNNING"
                                         ELSE IF t = running \/ t \in Woken THEN "READY"
                                         ELSE state[t]
           /\ env' \in [Ids -> {"entry", "handler", "call", "exit"}]
           /\ \A t \in Ids : env'[t] = IF t = running THEN "handler" ELSE env[t]
           /\ elapsed' \in [Ids -> 0..QuantumCap]
           /\ \A t \in Ids : t # running' => elapsed'[t] = elapsed[t]
           /\ elapsed'[running'] # 0
           /\ total' \in 1..QuantumCap
<1> DEFINE states == [t \in Ids |-> IF t \in Woken THEN "READY" ELSE state[t]]
<1>1. /\ TypeOK /\ ready \in Seq(Ids) /\ Distinct(ready) /\ running \in Ids
      /\ running \notin Range(ready)
  BY QueueReady DEF UInv, SchedInv, TypeOK
<1>2. PICK woken \in [1..Cardinality(Woken) -> Woken] :
        /\ \A i, j \in 1..Cardinality(Woken) : i < j => woken[i] < woken[j]
        /\ SwitchThreads(states, PreemptedLast(woken), "READY", "handler")
  BY DEF Preempt
<1> DEFINE p == ready \o woken
           q == p \o <<running>>
<1>3. woken \in Seq(Ids) /\ Distinct(woken) /\ Range(woken) = Woken
  <2>1. Woken \in SUBSET Int
    BY WokenFacts, IdsFacts
  <2>2. woken \in Seq(Woken) /\ Distinct(woken) /\ Range(woken) = Woken
    BY <1>2, <2>1, WokenFacts, ListingIsAll
  <2>3. woken \in Seq(Ids)
    BY <2>2, WokenFacts, SeqMonotonic
  <2> QED
    BY <2>2, <2>3
<1>4. /\ p \in Seq(Ids) /\ Distinct(p) /\ Range(p) = Range(ready) \cup Woken
      /\ InOrder(ready, p)
  <2>1. Range(ready) \cap Range(woken) = {}
    BY <1>3, WokenFacts
  <2> QED
    BY <1>1, <1>3, <2>1, QueueConcat
<1>5. /\ <<running>> \in Seq(Ids) /\ Distinct(<<running>>) /\ Range(<<running>>) = {running}
  BY <1>1 DEF Distinct, Range
<1> HIDE DEF p
<1>6. /\ q \in Seq(Ids) /\ Distinct(q) /\ Range(q) = Range(ready) \cup Woken \cup {running}
      /\ InOrder(p, q)
  <2> DEFINE u == <<running>>
  <2>1. u \in Seq(Ids) /\ Distinct(u) /\ Range(u) = {running}
    BY <1>5
  <2> HIDE DEF u
  <2>2. Range(p) \cap Range(u) = {}
    BY <1>1, <1>4, <2>1, WokenFacts
  <2>3. /\ p \o u \in Seq(Ids) /\ Distinct(p \o u) /\ Range(p \o u) = Range(p) \cup Range(u)
        /\ InOrder(p, p \o u)
    BY <1>4, <2>1, <2>2, QueueConcat
  <2> QED
    BY <1>4, <2>1, <2>3 DEF u
<1>7. q # <<>>
  <2>1. running \in Range(q)
    BY <1>6
  <2> HIDE DEF q
  <2> QED
    BY <2>1 DEF Range
<1>8. PreemptedLast(woken) = q
  BY DEF PreemptedLast, p
<1> HIDE DEF q
<1>9. SwitchThreads(states, q, "READY", "handler")
  BY <1>2, <1>8
<1>10. states \in [Ids -> States]
  BY <1>1 DEF States, TypeOK
<1>11. "READY" \in States /\ "handler" \in {"entry", "handler", "call", "exit"}
  BY DEF States
<1> HIDE DEF states
<1>12. /\ running' = Head(q) /\ Head(q) \in Ids /\ Head(q) \in Range(q)
       /\ ready' \in Seq(Ids) /\ Distinct(ready')
       /\ Range(ready') = Range(q) \ {Head(q)} /\ InOrder(q, ready')
       /\ state' \in [Ids -> States]
       /\ \A t \in Ids : state'[t] = IF t = running' THEN "RUNNING"
                                     ELSE IF t = running THEN "READY" ELSE states[t]
       /\ env' \in [Ids -> {"entry", "handler", "call", "exit"}]
       /\ \A t \in Ids : env'[t] = IF t = running THEN "handler" ELSE env[t]
       /\ elapsed' \in [Ids -> 0..QuantumCap]
       /\ \A t \in Ids : t # running' => elapsed'[t] = elapsed[t]
       /\ elapsed'[running'] # 0
       /\ total' \in 1..QuantumCap
  BY <1>1, <1>6, <1>7, <1>9, <1>10, <1>11, SwitchEffects
<1>13. InOrder(ready, ready')
  <2>1. InOrder(ready, q)
    BY <1>1, <1>4, <1>6, InOrderTrans
  <2> QED
    BY <1>1, <1>6, <1>12, <2>1, InOrderTrans
<1>14. \A t \in Ids : states[t] = IF t \in Woken THEN "READY" ELSE state[t]
  BY DEF states
<1>15. \A t \in Ids : state'[t] = IF t = running' THEN "RUNNING"
                                  ELSE IF t = running \/ t \in Woken THEN "READY"
                                  ELSE state[t]
  BY <1>12, <1>14
<1> QED
  BY <1>6, <1>12, <1>13, <1>15

\* A preemption keeps the invariant.
LEMMA PreemptInv ==
    ASSUME UInv, Preempt
    PROVE  UInv'
<1>1. /\ running' \in Ids /\ running' \in Range(ready) \cup Woken \cup {running}
      /\ ready' \in Seq(Ids) /\ Distinct(ready')
      /\ Range(ready') = (Range(ready) \cup Woken \cup {running}) \ {running'}
      /\ state' \in [Ids -> States]
      /\ \A t \in Ids : state'[t] = IF t = running' THEN "RUNNING"
                                    ELSE IF t = running \/ t \in Woken THEN "READY"
                                    ELSE state[t]
      /\ env' \in [Ids -> {"entry", "handler", "call", "exit"}]
      /\ \A t \in Ids : env'[t] = IF t = running THEN "handler" ELSE env[t]
      /\ elapsed' \in [Ids -> 0..QuantumCap]
      /\ \A t \in Ids : t # running' => elapsed'[t] = elapsed[t]
      /\ elapsed'[running'] # 0
      /\ total' \in 1..QuantumCap
  BY PreemptEffects
<1>2. /\ TypeOK /\ SchedInv /\ running \in Ids
      /\ running \notin Range(ready) /\ running \notin Range(toDelete)
  BY QueueReady DEF UInv, TypeOK
<1>3. /\ sleep' = [t \in Ids |-> IF t \in Sleepers THEN sleep[t] - 1 ELSE sleep[t]]
      /\ pending' \in BOOLEAN /\ UNCHANGED <<isBlocked, available, toDelete, alive>>
  BY DEF Preempt
<1>4. /\ \A t \in Ids : sleep[t] \in 0..MaxSleep /\ MaxSleep \in Nat
      /\ \A t \in Ids : sleep'[t] = IF sleep[t] # 0 THEN sleep[t] - 1 ELSE 0
  <2>1. \A t \in Ids : sleep[t] \in 0..MaxSleep /\ MaxSleep \in Nat
    BY <1>2, SizesAssumption DEF TypeOK
  <2>2. \A t \in Ids : sleep[t] # 0 <=> t \in Sleepers
    BY <1>2 DEF Sleepers, Live, SchedInv, SleepersBlocked
  <2> QED
    BY <1>3, <2>1, <2>2
<1>5. TypeOK'
  <2>1. sleep' \in [Ids -> 0..MaxSleep]
    BY <1>3, <1>4
  <2> QED
    BY <1>1, <1>2, <1>3, <2>1 DEF TypeOK, States
<1>6. \A t \in Ids : /\ state[t] = "READY" <=> t \in Range(ready)
                     /\ state[t] = "RUNNING" <=> t = running
                     /\ t \in Woken => state[t] = "BLOCKED"
  BY <1>2, WokenFacts DEF SchedInv
<1>7. \A t \in Ids : state'[t] = "READY" <=> t \in Range(ready')
  BY <1>1, <1>6
<1>8. \A t \in Ids : state'[t] = "RUNNING" <=> t = running'
  BY <1>1, <1>6
<1>9. state'[main_thread_id] \in {"READY", "RUNNING"}
  BY <1>1, <1>2, IdsFacts DEF SchedInv
<1>10. \A t \in Ids : state'[t] = "BLOCKED" <=> state[t] = "BLOCKED" /\ t \notin Woken
  BY <1>1, <1>6
<1>11. \A t \in Ids : t \in Live' <=> t \in Live
  BY <1>1, <1>6 DEF Live
<1>12. IdsPartition'
  <2>1. \A t \in Ids : available'[t] = IF t = main_thread_id \/ t \in Live' THEN 0 ELSE 1
    BY <1>2, <1>3, <1>11 DEF SchedInv, IdsPartition
  <2>2. ASSUME NEW t \in Range(toDelete) PROVE state'[t] = "BLOCKED" /\ sleep'[t] = 0
    <3>1. t \in Ids /\ state[t] = "BLOCKED" /\ sleep[t] = 0
      BY <1>2, RangeOfSeq DEF TypeOK, SchedInv, IdsPartition
    <3> QED
      BY <1>4, <1>10, <3>1, WokenFacts
  <2> QED
    BY <1>2, <1>3, <2>1, <2>2 DEF IdsPartition, SchedInv
<1>13. SleepersBlocked'
  <2> SUFFICES ASSUME NEW t \in Ids
               PROVE  /\ sleep'[t] # 0 => state'[t] = "BLOCKED"
                      /\ state'[t] = "BLOCKED" /\ sleep'[t] = 0 =>
                            isBlocked[t] \/ t \in Range(toDelete)
    BY <1>3 DEF SleepersBlocked
  <2>1. /\ sleep[t] # 0 => state[t] = "BLOCKED"
        /\ state[t] = "BLOCKED" /\ sleep[t] = 0 => isBlocked[t] \/ t \in Range(toDelete)
    BY <1>2 DEF SchedInv, SleepersBlocked
  <2>2. t \in Woken <=> sleep[t] = 1 /\ ~isBlocked[t]
    BY <2>1 DEF Woken, Sleepers, Live
  <2> QED
    BY <1>4, <1>10, <2>1, <2>2
<1>14. ExitMarked'
  BY <1>1, <1>2, <1>3 DEF SchedInv, ExitMarked
<1>15. ContextsFresh'
  <2>1. ASSUME NEW t \in Live'
        PROVE  elapsed'[t] = 0 <=> env'[t] = "entry" /\ t # running'
    <3>1. t \in Live /\ t \in Ids
      BY <1>11 DEF Live
    <3>2. elapsed[t] = 0 <=> env[t] = "entry" /\ t # running
      BY <1>2, <3>1 DEF SchedInv, ContextsFresh
    <3> QED
      BY <1>1, <3>1, <3>2
  <2>2. env'[running'] # "exit"
    <3>1. running' # running => running' \notin Range(toDelete)
      <4>1. ASSUME running' \in Range(ready) PROVE running' \notin Range(toDelete)
        BY <1>1, <1>2, <1>6, <4>1 DEF SchedInv, IdsPartition
      <4> QED
        BY <1>1, <4>1, WokenFacts
    <3> QED
      BY <1>1, <1>2, <3>1 DEF SchedInv, ExitMarked
  <2> QED
    BY <2>1, <2>2 DEF ContextsFresh
<1> QED
  BY <1>1, <1>5, <1>7, <1>8, <1>9, <1>12, <1>13, <1>14, <1>15 DEF UInv, SchedInv

\* A thread leaves the ready queue, wherever it stands and if it is there.
LEMMA EraseEffects ==
    ASSUME UInv, NEW t \in Ids, EraseReady(t)
    PROVE  /\ ready' \in Seq(Ids) /\ Distinct(ready') /\ Range(ready') = Range(ready) \ {t}
           /\ InOrder(ready, ready')
<1>1. ready \in Seq(Ids) /\ Distinct(ready)
  BY DEF UInv, SchedInv, TypeOK
<1>2. CASE t \notin Range(ready) /\ ready' = ready
  BY <1>1, <1>2, InOrderRefl
<1>3. CASE \E i \in 1..Len(ready) :
             /\ ready[i] = t
             /\ ready' = SubSeq(ready, 1, i - 1) \o SubSeq(ready, i + 1, Len(ready))
  <2>1. PICK i \in 1..Len(ready) :
          /\ ready[i] = t
          /\ ready' = SubSeq(ready, 1, i - 1) \o SubSeq(ready, i + 1, Len(ready))
    BY <1>3
  <2> DEFINE r == SubSeq(ready, 1, i - 1) \o SubSeq(ready, i + 1, Len(ready))
  <2>2. r \in Seq(Ids) /\ Distinct(r) /\ Range(r) = Range(ready) \ {ready[i]} /\ InOrder(ready, r)
    BY <1>1, QueueErase
  <2> HIDE DEF r
  <2>3. ready' = r
    BY <2>1 DEF r
  <2> QED
    BY <2>1, <2>2, <2>3
<1> QED
  BY <1>2, <1>3 DEF EraseReady

\* Each id is given back once by the threads that ended themselves.
LEMMA FreedIs ==
    ASSUME UInv
    PROVE  /\ Freed \in [Ids -> Nat]
           /\ \A t \in Ids : Freed[t] = IF t \in Range(toDelete) THEN 1 ELSE available[t]
<1>1. /\ toDelete \in Seq(Ids) /\ Len(toDelete) \in Nat /\ available \in [Ids -> Nat]
      /\ \A i, j \in 1..Len(toDelete) : toDelete[i] = toDelete[j] => i = j
  BY DEF UInv, TypeOK, SchedInv, IdsPartition
<1>2. ASSUME NEW t \in Ids
      PROVE  Freed[t] = IF t \in Range(toDelete) THEN 1 ELSE available[t]
  <2> DEFINE M == {i \in 1..Len(toDelete) : toDelete[i] = t}
  <2>1. Freed[t] = available[t] + Cardinality(M)
    BY DEF Freed
  <2>2. CASE t \in Range(toDelete)
    <3>1. PICK i \in 1..Len(toDelete) : toDelete[i] = t
      BY <1>1, <2>2, RangeIs
    <3>2. M = {i}
      BY <1>1, <3>1
    <3>3. Cardinality(M) = 1
      BY <3>2, FS_Singleton
    <3>4. available[t] = 0
      BY <2>2 DEF UInv, SchedInv, IdsPartition, Live
    <3> QED
      BY <2>1, <2>2, <3>3, <3>4
  <2>3. CASE t \notin Range(toDelete)
    <3>1. M = {}
      BY <1>1, <2>3, RangeIs
    <3>2. Cardinality(M) = 0
      BY <3>1, FS_EmptySet
    <3>3. available[t] \in Nat
      BY <1>1
    <3> QED
      BY <2>1, <2>3, <3>2, <3>3
  <2> QED
    BY <2>2, <2>3
<1>3. DOMAIN Freed = Ids /\ Freed = [t \in Ids |-> Freed[t]]
  BY DEF Freed
<1>4. \A t \in Ids : Freed[t] \in Nat
  BY <1>1, <1>2
<1> QED
  BY <1>2, <1>3, <1>4

\* The id uthread_spawn takes is no thread's, or that of one that ended itself.
LEMMA SpawnEffects ==
    ASSUME UInv, NEW tid \in Ids, Freed[tid] > 0
    PROVE  /\ tid # running /\ tid # main_thread_id /\ tid \notin Range(ready)
           /\ state[tid] = "none" \/ tid \in Range(toDelete)
           /\ Freed[tid] = 1
<1>1. /\ state[main_thread_id] # "BLOCKED" /\ state[running] = "RUNNING" /\ running \in Ids
      /\ \A t \in Ids : available[t] = IF t = main_thread_id \/ t \in Live THEN 0 ELSE 1
      /\ \A t \in Range(toDelete) : state[t] = "BLOCKED"
      /\ \A t \in Ids : state[t] = "READY" <=> t \in Range(ready)
  BY DEF UInv, TypeOK, SchedInv, IdsPartition
<1>2. CASE tid \in Range(toDelete)
  BY <1>1, <1>2, FreedIs
<1>3. CASE tid \notin Range(toDelete)
  <2>1. Freed[tid] = available[tid]
    BY <1>3, FreedIs
  <2>2. available[tid] # 0
    BY <2>1
  <2>3. tid # main_thread_id /\ tid \notin Live /\ available[tid] = 1
    BY <1>1, <2>2
  <2> QED
    BY <1>1, <2>1, <2>3 DEF Live
<1> QED
  BY <1>2, <1>3

\* uthread_spawn keeps the invariant.
LEMMA SpawnInv ==
    ASSUME UInv, Spawn
    PROVE  UInv' /\ InOrder(ready, ready')
<1>1. PICK tid \in Ids :
        /\ MaskedCall /\ Freed[tid] > 0
        /\ available' = [Freed EXCEPT ![tid] = @ - 1]
        /\ Replace(Range(toDelete), {tid}) /\ ready' = Append(ready, tid)
        /\ toDelete' = <<>> /\ UNCHANGED <<running, total, alive>>
  BY DEF Spawn, PushBack
<1>2. /\ TypeOK /\ SchedInv /\ ready \in Seq(Ids) /\ Distinct(ready)
      /\ Range(toDelete) \in SUBSET Ids /\ running \in Ids /\ running \notin Range(toDelete)
  BY QueueReady, RangeOfSeq DEF UInv, SchedInv, TypeOK
<1>3. /\ tid # running /\ tid # main_thread_id /\ tid \notin Range(ready)
      /\ state[tid] = "none" \/ tid \in Range(toDelete)
      /\ Freed[tid] = 1
  BY <1>1, SpawnEffects
<1>4. /\ state' \in [Ids -> States] /\ sleep' \in [Ids -> 0..MaxSleep]
      /\ isBlocked' \in [Ids -> BOOLEAN] /\ elapsed' \in [Ids -> 0..QuantumCap]
      /\ env' \in [Ids -> {"entry", "handler", "call", "exit"}]
      /\ \A t \in Ids :
            /\ state'[t] = IF t = tid THEN "READY"
                           ELSE IF t \in Range(toDelete) THEN "none" ELSE state[t]
            /\ t = tid \/ t \in Range(toDelete) => sleep'[t] = 0 /\ elapsed'[t] = 0
                                                   /\ env'[t] = "entry"
            /\ t # tid /\ t \notin Range(toDelete) => /\ sleep'[t] = sleep[t]
                                                      /\ isBlocked'[t] = isBlocked[t]
                                                      /\ elapsed'[t] = elapsed[t]
                                                      /\ env'[t] = env[t]
  <2>1. 0 \in 0..MaxSleep /\ 0 \in 0..QuantumCap
    BY SizesAssumption
  <2> USE <1>1, <1>2, <2>1 DEF Replace, Overwrite, TypeOK
  <2>2. /\ state' \in [Ids -> States]
        /\ \A t \in Ids : state'[t] = IF t = tid THEN "READY"
                                      ELSE IF t \in Range(toDelete) THEN "none" ELSE state[t]
    BY DEF States
  <2>3. /\ sleep' \in [Ids -> 0..MaxSleep]
        /\ \A t \in Ids : sleep'[t] = IF t = tid \/ t \in Range(toDelete) THEN 0 ELSE sleep[t]
    OBVIOUS
  <2>4. /\ isBlocked' \in [Ids -> BOOLEAN]
        /\ \A t \in Ids : ~(t = tid \/ t \in Range(toDelete)) => isBlocked'[t] = isBlocked[t]
    OBVIOUS
  <2>5. /\ elapsed' \in [Ids -> 0..QuantumCap]
        /\ \A t \in Ids : elapsed'[t] = IF t = tid \/ t \in Range(toDelete) THEN 0 ELSE elapsed[t]
    OBVIOUS
  <2>6. /\ env' \in [Ids -> {"entry", "handler", "call", "exit"}]
        /\ \A t \in Ids : env'[t] = IF t = tid \/ t \in Range(toDelete) THEN "entry" ELSE env[t]
    OBVIOUS
  <2> QED
    BY <2>2, <2>3, <2>4, <2>5, <2>6
<1>5. /\ ready' \in Seq(Ids) /\ Distinct(ready') /\ Range(ready') = Range(ready) \cup {tid}
      /\ InOrder(ready, ready')
  BY <1>1, <1>2, <1>3, QueueAppend
<1>6. /\ available' \in [Ids -> Nat]
      /\ \A t \in Ids : available'[t] = IF t = tid THEN 0
                                        ELSE IF t \in Range(toDelete) THEN 1 ELSE available[t]
  BY <1>1, <1>3, FreedIs
<1>7. toDelete' = <<>> /\ toDelete' \in Seq(Ids) /\ Range(toDelete') = {} /\ Len(toDelete') = 0
  BY <1>1, EmptySeq DEF Range
<1>8. pending' \in BOOLEAN /\ alive' = alive /\ running' = running /\ total' = total
  BY <1>1 DEF MaskedCall
<1>9. TypeOK'
  BY <1>2, <1>4, <1>5, <1>6, <1>7, <1>8 DEF TypeOK, States
<1>10. /\ \A t \in Ids : state[t] = "READY" <=> t \in Range(ready)
       /\ \A t \in Ids : state[t] = "RUNNING" <=> t = running
       /\ \A t \in Range(toDelete) : state[t] = "BLOCKED"
       /\ state[main_thread_id] \in {"READY", "RUNNING"} /\ main_thread_id \in Ids
  BY <1>2, IdsFacts DEF SchedInv, IdsPartition
<1>11. \A t \in Ids : state'[t] = "READY" <=> t \in Range(ready')
  BY <1>4, <1>5, <1>10
<1>12. \A t \in Ids : state'[t] = "RUNNING" <=> t = running'
  BY <1>3, <1>4, <1>8, <1>10
<1>13. state'[main_thread_id] \in {"READY", "RUNNING"}
  BY <1>3, <1>4, <1>10
<1>14. IdsPartition'
  <2>1. \A t \in Ids : available[t] = IF t = main_thread_id \/ t \in Live THEN 0 ELSE 1
    BY <1>2 DEF SchedInv, IdsPartition
  <2>2. \A t \in Ids : t \in Live' <=> t = tid \/ (t \notin Range(toDelete) /\ t \in Live)
    BY <1>4 DEF Live
  <2>3. \A t \in Ids : available'[t] = IF t = main_thread_id \/ t \in Live' THEN 0 ELSE 1
    BY <1>3, <1>6, <1>10, <2>1, <2>2
  <2> QED
    BY <1>7, <2>3 DEF IdsPartition
<1>15. SleepersBlocked'
  <2> SUFFICES ASSUME NEW t \in Ids
               PROVE  /\ sleep'[t] # 0 => state'[t] = "BLOCKED"
                      /\ state'[t] = "BLOCKED" /\ sleep'[t] = 0 =>
                            isBlocked'[t] \/ t \in Range(toDelete')
    BY DEF SleepersBlocked
  <2>1. /\ sleep[t] # 0 => state[t] = "BLOCKED"
        /\ state[t] = "BLOCKED" /\ sleep[t] = 0 => isBlocked[t] \/ t \in Range(toDelete)
    BY <1>2 DEF SchedInv, SleepersBlocked
  <2> QED
    BY <1>4, <2>1
<1>16. ExitMarked'
  <2>1. \A t \in Ids : env[t] = "exit" => t \in Range(toDelete)
    BY <1>2 DEF SchedInv, ExitMarked
  <2> QED
    BY <1>4, <2>1 DEF ExitMarked
<1>17. ContextsFresh'
  <2>1. ASSUME NEW t \in Live'
        PROVE  elapsed'[t] = 0 <=> env'[t] = "entry" /\ t # running'
    <3>1. t \in Ids /\ (t = tid \/ (t \notin Range(toDelete) /\ t \in Live))
      BY <1>4 DEF Live
    <3>2. CASE t = tid
      BY <1>3, <1>4, <1>8, <3>2
    <3>3. CASE t # tid
      <4>1. elapsed[t] = 0 <=> env[t] = "entry" /\ t # running
        BY <1>2, <3>1, <3>3 DEF SchedInv, ContextsFresh
      <4> QED
        BY <1>4, <1>8, <3>1, <3>3, <4>1
    <3> QED
      BY <3>2, <3>3
  <2>2. env'[running'] # "exit"
    BY <1>2, <1>3, <1>4, <1>8 DEF SchedInv, ContextsFresh
  <2> QED
    BY <2>1, <2>2 DEF ContextsFresh
<1> QED
  BY <1>5, <1>9, <1>11, <1>12, <1>13, <1>14, <1>15, <1>16, <1>17 DEF UInv, SchedInv

\* uthread_terminate of another thread keeps the invariant.
LEMMA TerminateOtherInv ==
    ASSUME UInv, NEW u \in Known, TerminateOther(u)
    PROVE  UInv' /\ InOrder(ready, ready')
<1>1. /\ u \in Ids /\ u \notin Range(toDelete) /\ u # main_thread_id
      /\ state[u] \in {"READY", "BLOCKED"} /\ MaskedCall
      /\ IF state[u] = "READY" THEN EraseReady(u) ELSE ready' = ready
      /\ Replace({u}, {}) /\ available' = [available EXCEPT ![u] = @ + 1]
      /\ UNCHANGED <<running, toDelete, total, alive>>
  BY DEF TerminateOther, Known, Live, GiveBackId
<1>2. /\ TypeOK /\ SchedInv /\ ready \in Seq(Ids) /\ Distinct(ready) /\ running \in Ids
      /\ Range(toDelete) \in SUBSET Ids
  BY RangeOfSeq DEF UInv, SchedInv, TypeOK
<1>3. /\ state' \in [Ids -> States] /\ sleep' \in [Ids -> 0..MaxSleep]
      /\ isBlocked' \in [Ids -> BOOLEAN] /\ elapsed' \in [Ids -> 0..QuantumCap]
      /\ env' \in [Ids -> {"entry", "handler", "call", "exit"}]
      /\ \A t \in Ids :
            /\ state'[t] = IF t = u THEN "none" ELSE state[t]
            /\ t = u => sleep'[t] = 0 /\ elapsed'[t] = 0 /\ env'[t] = "entry"
            /\ t # u => /\ sleep'[t] = sleep[t] /\ isBlocked'[t] = isBlocked[t]
                        /\ elapsed'[t] = elapsed[t] /\ env'[t] = env[t]
  <2>1. 0 \in 0..MaxSleep /\ 0 \in 0..QuantumCap
    BY SizesAssumption
  <2> USE <1>1, <1>2, <2>1 DEF Replace, Overwrite, TypeOK
  <2>2. /\ state' \in [Ids -> States]
        /\ \A t \in Ids : state'[t] = IF t = u THEN "none" ELSE state[t]
    BY DEF States
  <2>3. /\ sleep' \in [Ids -> 0..MaxSleep]
        /\ \A t \in Ids : sleep'[t] = IF t = u THEN 0 ELSE sleep[t]
    OBVIOUS
  <2>4. /\ isBlocked' \in [Ids -> BOOLEAN]
        /\ \A t \in Ids : ~(t = u) => isBlocked'[t] = isBlocked[t]
    OBVIOUS
  <2>5. /\ elapsed' \in [Ids -> 0..QuantumCap]
        /\ \A t \in Ids : elapsed'[t] = IF t = u THEN 0 ELSE elapsed[t]
    OBVIOUS
  <2>6. /\ env' \in [Ids -> {"entry", "handler", "call", "exit"}]
        /\ \A t \in Ids : env'[t] = IF t = u THEN "entry" ELSE env[t]
    OBVIOUS
  <2> QED
    BY <2>2, <2>3, <2>4, <2>5, <2>6
<1>4. /\ \A t \in Ids : state[t] = "READY" <=> t \in Range(ready)
      /\ \A t \in Ids : state[t] = "RUNNING" <=> t = running
      /\ \A t \in Range(toDelete) : state[t] = "BLOCKED" /\ sleep[t] = 0
      /\ state[main_thread_id] \in {"READY", "RUNNING"} /\ main_thread_id \in Ids
      /\ \A t \in Ids : available[t] = IF t = main_thread_id \/ t \in Live THEN 0 ELSE 1
      /\ Distinct(toDelete)
  BY <1>2, IdsFacts DEF SchedInv, IdsPartition, Distinct
<1>5. /\ ready' \in Seq(Ids) /\ Distinct(ready') /\ Range(ready') = Range(ready) \ {u}
      /\ InOrder(ready, ready')
  <2>1. CASE state[u] = "READY"
    BY <1>1, <2>1, EraseEffects
  <2>2. CASE state[u] # "READY"
    <3>1. u \notin Range(ready) /\ ready' = ready
      BY <1>1, <1>4, <2>2
    <3> QED
      BY <1>2, <3>1, InOrderRefl
  <2> QED
    BY <2>1, <2>2
<1>6. /\ available' \in [Ids -> Nat]
      /\ \A t \in Ids : available'[t] = IF t = u THEN 1 ELSE available[t]
  <2>1. available[u] = 0
    BY <1>1, <1>4 DEF Live
  <2> QED
    BY <1>1, <1>2, <2>1 DEF TypeOK
<1>7. TypeOK'
  BY <1>1, <1>2, <1>3, <1>5, <1>6 DEF TypeOK, States, MaskedCall
<1>8. \A t \in Ids : state'[t] = "READY" <=> t \in Range(ready')
  BY <1>3, <1>4, <1>5
<1>9. \A t \in Ids : state'[t] = "RUNNING" <=> t = running'
  BY <1>1, <1>3, <1>4
<1>10. state'[main_thread_id] \in {"READY", "RUNNING"}
  BY <1>1, <1>3, <1>4
<1>11. IdsPartition'
  <2>1. \A t \in Ids : t \in Live' <=> t # u /\ t \in Live
    BY <1>3 DEF Live
  <2>2. \A t \in Ids : available'[t] = IF t = main_thread_id \/ t \in Live' THEN 0 ELSE 1
    BY <1>1, <1>4, <1>6, <2>1
  <2>3. \A t \in Range(toDelete) : state'[t] = "BLOCKED" /\ sleep'[t] = 0
    BY <1>1, <1>2, <1>3, <1>4
  <2> QED
    BY <1>1, <1>4, <2>2, <2>3 DEF IdsPartition, Distinct
<1>12. SleepersBlocked'
  BY <1>1, <1>2, <1>3 DEF SchedInv, SleepersBlocked
<1>13. ExitMarked'
  BY <1>1, <1>2, <1>3 DEF SchedInv, ExitMarked
<1>14. ContextsFresh'
  <2>1. \A t \in Live' : t \in Live /\ t # u
    BY <1>3 DEF Live
  <2>2. u # running
    BY <1>1, <1>4
  <2>3. \A t \in Live : t \in Ids /\ (elapsed[t] = 0 <=> env[t] = "entry" /\ t # running)
    BY <1>2 DEF SchedInv, ContextsFresh, Live
  <2>4. \A t \in Live' : elapsed'[t] = 0 <=> env'[t] = "entry" /\ t # running'
    BY <1>1, <1>3, <2>1, <2>3
  <2>5. env'[running'] # "exit"
    BY <1>1, <1>2, <1>3, <2>2 DEF SchedInv, ContextsFresh
  <2> QED
    BY <2>4, <2>5 DEF ContextsFresh
<1> QED
  BY <1>5, <1>7, <1>8, <1>9, <1>10, <1>11, <1>12, <1>13, <1>14 DEF UInv, SchedInv

\* uthread_block of another thread keeps the invariant, also when that thread has
\* ended itself.
LEMMA BlockOtherInv ==
    ASSUME UInv, NEW u \in Ids, BlockOther(u)
    PROVE  UInv' /\ InOrder(ready, ready')
<1>1. /\ u # main_thread_id /\ u # running
      /\ state[u] # "none" /\ EraseReady(u) /\ MaskedCall
      /\ state' = [state EXCEPT ![u] = "BLOCKED"]
      /\ isBlocked' = [isBlocked EXCEPT ![u] = TRUE]
      /\ UNCHANGED <<sleep, elapsed, env, running, available, toDelete, total, alive>>
  BY DEF BlockOther, Live, Others, MarkBlocked
<1>2. /\ TypeOK /\ SchedInv /\ Range(toDelete) \in SUBSET Ids /\ main_thread_id \in Ids
      /\ ready' \in Seq(Ids) /\ Distinct(ready') /\ Range(ready') = Range(ready) \ {u}
      /\ InOrder(ready, ready')
  BY <1>1, EraseEffects, RangeOfSeq, IdsFacts DEF UInv, TypeOK
<1>3. \A t \in Ids : /\ state'[t] = IF t = u THEN "BLOCKED" ELSE state[t]
                     /\ isBlocked'[t] = IF t = u THEN TRUE ELSE isBlocked[t]
  BY <1>1, <1>2 DEF TypeOK
<1>4. TypeOK'
  BY <1>1, <1>2 DEF TypeOK, MaskedCall
<1>5. /\ \A t \in Ids : state'[t] = "READY" <=> t \in Range(ready')
      /\ \A t \in Ids : state'[t] = "RUNNING" <=> t = running'
      /\ state'[main_thread_id] \in {"READY", "RUNNING"}
  <2>1. /\ \A t \in Ids : state[t] = "READY" <=> t \in Range(ready)
        /\ \A t \in Ids : state[t] = "RUNNING" <=> t = running
        /\ state[main_thread_id] \in {"READY", "RUNNING"}
    BY <1>2 DEF SchedInv
  <2>2. \A t \in Ids : state'[t] = "READY" <=> t \in Range(ready')
    BY <1>2, <1>3, <2>1
  <2>3. running' = running /\ state[u] # "RUNNING"
    BY <1>1, <2>1
  <2>4. \A t \in Ids : state'[t] = "RUNNING" <=> t = running'
    BY <1>3, <2>1, <2>3
  <2> QED
    BY <1>1, <1>2, <1>3, <2>1, <2>2, <2>4
<1>6. Live' = Live
  BY <1>1, <1>3 DEF Live
<1>7. IdsPartition'
  BY <1>1, <1>2, <1>3, <1>6 DEF SchedInv, IdsPartition
<1>8. SleepersBlocked'
  BY <1>1, <1>2, <1>3 DEF SchedInv, SleepersBlocked
<1>9. ExitMarked' /\ ContextsFresh'
  BY <1>1, <1>2, <1>6 DEF SchedInv, ExitMarked, ContextsFresh
<1> QED
  BY <1>2, <1>4, <1>5, <1>7, <1>8, <1>9 DEF UInv, SchedInv

\* uthread_resume of a blocked thread keeps the invariant.
LEMMA ResumeInv ==
    ASSUME UInv, NEW u \in Known, Resume(u)
    PROVE  UInv' /\ InOrder(ready, ready')
<1>1. /\ u \in Ids /\ u \notin Range(toDelete) /\ state[u] = "BLOCKED" /\ sleep[u] = 0
      /\ MaskedCall /\ ready' = Append(ready, u)
      /\ state' = [state EXCEPT ![u] = "READY"]
      /\ UNCHANGED <<sleep, isBlocked, elapsed, env, running, available, toDelete, total,
                     alive>>
  BY DEF Resume, Known, Live, PushBack
<1>2. /\ TypeOK /\ SchedInv /\ ready \in Seq(Ids) /\ Distinct(ready)
      /\ Range(toDelete) \in SUBSET Ids /\ main_thread_id \in Ids /\ u \notin Range(ready)
  BY <1>1, RangeOfSeq, IdsFacts DEF UInv, TypeOK, SchedInv
<1>3. /\ ready' \in Seq(Ids) /\ Distinct(ready') /\ Range(ready') = Range(ready) \cup {u}
      /\ InOrder(ready, ready')
  BY <1>1, <1>2, QueueAppend
<1>4. \A t \in Ids : state'[t] = IF t = u THEN "READY" ELSE state[t]
  BY <1>1, <1>2 DEF TypeOK
<1>5. TypeOK'
  BY <1>1, <1>2, <1>3 DEF TypeOK, MaskedCall
<1>6. /\ \A t \in Ids : state'[t] = "READY" <=> t \in Range(ready')
      /\ \A t \in Ids : state'[t] = "RUNNING" <=> t = running'
      /\ state'[main_thread_id] \in {"READY", "RUNNING"}
  BY <1>1, <1>2, <1>3, <1>4 DEF SchedInv
<1>7. Live' = Live
  BY <1>1, <1>4 DEF Live
<1>8. IdsPartition'
  BY <1>1, <1>2, <1>4, <1>7 DEF SchedInv, IdsPartition
<1>9. SleepersBlocked'
  BY <1>1, <1>2, <1>4 DEF SchedInv, SleepersBlocked
<1>10. ExitMarked' /\ ContextsFresh'
  BY <1>1, <1>2, <1>7 DEF SchedInv, ExitMarked, ContextsFresh
<1> QED
  BY <1>3, <1>5, <1>6, <1>8, <1>9, <1>10 DEF UInv, SchedInv

\* The timer, the exit and a step of the client change nothing the library keeps.
LEMMA FrameInv ==
    ASSUME UInv, pending' \in BOOLEAN, alive' \in BOOLEAN,
           UNCHANGED <<threadVars, running, ready, available, toDelete, total>>
    PROVE  UInv' /\ InOrder(ready, ready')
<1>1. UNCHANGED <<state, sleep, isBlocked, elapsed, env, running, ready, available, toDelete, total>>
  BY DEF threadVars
<1>2. TypeOK'
  BY <1>1 DEF UInv, TypeOK
<1>3. Live' = Live
  BY <1>1 DEF Live
<1>4. SchedInv'
  BY <1>1, <1>3
     DEF UInv, SchedInv, Distinct, IdsPartition, SleepersBlocked, ContextsFresh, ExitMarked
<1> QED
  BY <1>1, <1>2, <1>4, InOrderRefl DEF UInv, TypeOK

\* Every step keeps the invariant, and the order of the ready queue.
LEMMA NextUInv == UInv /\ [Next]_vars => UInv' /\ InOrder(ready, ready')
<1> SUFFICES ASSUME UInv, [Next]_vars PROVE UInv' /\ InOrder(ready, ready')
  OBVIOUS
<1>1. pending \in BOOLEAN /\ alive \in BOOLEAN
  BY DEF UInv, TypeOK
<1>2. CASE TimerExpires \/ Exit \/ Exited \/ UNCHANGED vars
  BY <1>1, <1>2, FrameInv DEF TimerExpires, Exit, Exited, vars, threadVars
<1>3. CASE Preempt
  BY <1>3, PreemptInv, PreemptEffects
<1>4. CASE Spawn
  BY <1>4, SpawnInv
<1>5. CASE TerminateSelf \/ BlockSelf \/ \E n \in 1..MaxSleep : Sleep(n)
  <2>1. UInv'
    BY <1>5, GiveUpInv
  <2>2. PICK ctx \in {"call", "exit"} : running # main_thread_id /\ SwitchBlocked(ctx)
    BY <1>5 DEF TerminateSelf, BlockSelf, Sleep
  <2>3. InOrder(ready, ready')
    BY <2>2, GiveUpEffects
  <2> QED
    BY <2>1, <2>3
<1>6. CASE \E t \in Ids : BlockOther(t)
  BY <1>6, BlockOtherInv
<1>7. ASSUME NEW t \in Known, TerminateOther(t) \/ Resume(t)
      PROVE  UInv' /\ InOrder(ready, ready')
  BY <1>7, TerminateOtherInv, ResumeInv
<1> QED
  BY <1>2, <1>3, <1>4, <1>5, <1>6, <1>7 DEF Next, Step

(***************************************************************************)
(* The theorems                                                            *)
(***************************************************************************)
\* The queue, the states, the ids and the contexts agree at every step.
THEOREM ThreadsInvariant == Spec => []UInv
<1>1. UInv /\ [Next]_vars => UInv'
  BY NextUInv
<1> QED
  BY <1>1, InitUInv, PTL DEF Spec

\* For every table size, sleep and cap, the library keeps its types.
THEOREM ThreadsTyped == Spec => []TypeOK
<1>1. UInv => TypeOK
  BY DEF UInv
<1> QED
  BY <1>1, ThreadsInvariant, PTL

\* A thread is in the ready queue exactly when it is READY, and once.
THEOREM ReadyThreadsQueuedOnce == Spec => []ReadyOnce
<1>1. UInv => ReadyOnce
  BY DEF UInv, SchedInv, ReadyOnce, Distinct
<1> QED
  BY <1>1, ThreadsInvariant, PTL

\* One thread runs, and the main thread can always be scheduled: no call of
\* the library takes the front of an empty queue.
THEOREM SomeoneAlwaysRuns == Spec => []SomeoneRuns
<1>1. UInv => SomeoneRuns
  BY DEF UInv, SchedInv, SomeoneRuns
<1> QED
  BY <1>1, ThreadsInvariant, PTL

\* With clients that do not terminate a thread that has ended itself, every id is
\* in the heap once or names a thread.
THEOREM IdsArePartitioned == Spec => []IdsPartition
<1>1. UInv => IdsPartition
  BY DEF UInv, SchedInv
<1> QED
  BY <1>1, ThreadsInvariant, PTL

\* With the same clients, no id that a thread has is handed out by uthread_spawn.
THEOREM SpawnedIdsAreNew == Spec => NewIdsUnused
<1>1. ASSUME UInv, Spawn
      PROVE  \/ state[ready'[Len(ready')]] = "none"
             \/ ready'[Len(ready')] \in Range(toDelete)
  <2>1. PICK tid \in Ids : Freed[tid] > 0 /\ ready' = Append(ready, tid)
    BY <1>1 DEF Spawn, PushBack
  <2>2. state[tid] = "none" \/ tid \in Range(toDelete)
    BY <1>1, <2>1, SpawnEffects
  <2>3. ready \in Seq(Ids)
    BY <1>1 DEF UInv, TypeOK
  <2>4. ready'[Len(ready')] = tid
    BY <2>1, <2>3
  <2> QED
    BY <2>2, <2>4
<1>2. UInv /\ [Next]_vars =>
        [Spawn => LET tid == ready'[Len(ready')]
                  IN  state[tid] = "none" \/ tid \in Range(toDelete)]_vars
  BY <1>1
<1> QED
  BY <1>2, ThreadsInvariant, PTL DEF Spec, NewIdsUnused

\* A thread that sleeps is blocked, and one blocked without sleep carries the mark
\* of uthread_block, perhaps an old one, or ended itself.
THEOREM SleepersAreBlocked == Spec => []SleepersBlocked
<1>1. UInv => SleepersBlocked
  BY DEF UInv, SchedInv
<1> QED
  BY <1>1, ThreadsInvariant, PTL

\* A thread starts at its entry point in its first quantum and only then, and
\* the context of a thread that ended itself is never resumed.
THEOREM ContextsAreFresh == Spec => []ContextsFresh
<1>1. UInv => ContextsFresh
  BY DEF UInv, SchedInv
<1> QED
  BY <1>1, ThreadsInvariant, PTL

\* With clients that do not resume a thread that has ended itself, such a thread
\* never runs again.
THEOREM TerminatedThreadsStayDown == Spec => []TerminatedStaysDown
<1>1. UInv => TerminatedStaysDown
  BY QueueReady DEF TerminatedStaysDown
<1> QED
  BY <1>1, ThreadsInvariant, PTL

\* No step lets one thread of the ready queue overtake another.
THEOREM ReadyQueueIsFifo == Spec => FifoOrder
<1>1. UInv /\ [Next]_vars =>
        [\A i, j \in 1..Len(ready') :
           i < j /\ ready'[j] \in Range(ready) =>
               \E k, l \in 1..Len(ready) :
                   k < l /\ ready[k] = ready'[i] /\ ready[l] = ready'[j]]_vars
  BY NextUInv DEF InOrder
<1> QED
  BY <1>1, ThreadsInvariant, PTL DEF Spec, FifoOrder

(***************************************************************************)
(* Sums                                                                    *)
(***************************************************************************)
\* A set of numbers that has zero and every successor has them all.
LEMMA AllNumbers ==
    ASSUME NEW S, 0 \in S, \A i \in Nat : i \in S => i + 1 \in S
    PROVE  Nat \subseteq S
<1> DEFINE R == OpToRel(<, Nat)
           T == {i \in Nat : i \notin S}
<1> SUFFICES ASSUME T # {} PROVE FALSE
  OBVIOUS
<1>1. \A i, j \in Nat : <<i, j>> \in R <=> i < j
  BY DEF OpToRel
<1>2. IsWellFoundedOn(R, Nat)
  BY NatLessThanWellFounded
<1>3. T \subseteq Nat
  OBVIOUS
<1> HIDE DEF R, T
<1>4. PICK i \in T : \A j \in T : <<j, i>> \notin R
  BY <1>2, <1>3, WFMin
<1>5. i \in Nat /\ i # 0 /\ i \notin S
  BY <1>3, <1>4 DEF T
<1>6. i - 1 \in Nat /\ i - 1 < i /\ (i - 1) + 1 = i
  BY <1>5
<1>7. i - 1 \notin T
  BY <1>1, <1>4, <1>5, <1>6
<1> QED
  BY <1>5, <1>6, <1>7 DEF T

\* The element that a sum takes next.
Any(S) == CHOOSE x \in S : TRUE

\* What is left of a set behind it.
Rest(S) == S \ {Any(S)}

\* One of a finite set less.
LEMMA Fewer ==
    ASSUME NEW S, IsFiniteSet(S), S # {}
    PROVE  /\ Any(S) \in S /\ Rest(S) \subseteq S /\ IsFiniteSet(Rest(S))
           /\ Cardinality(S) \in Nat \ {0} /\ Cardinality(Rest(S)) = Cardinality(S) - 1
<1>1. Any(S) \in S
  BY DEF Any
<1>2. IsFiniteSet(Rest(S)) /\ Cardinality(Rest(S)) = Cardinality(S) - 1
  BY <1>1, FS_RemoveElement DEF Rest
<1>3. Cardinality(S) \in Nat /\ Cardinality(S) # 0
  BY FS_CardinalityType, FS_EmptySet
<1> QED
  BY <1>1, <1>2, <1>3 DEF Rest

\* The sums of f over the subsets of S, as the fold defines them.
Sums(f, S) ==
    CHOOSE it : it = [s \in SUBSET S |-> IF s = {} THEN 0 ELSE f[Any(s)] + it[Rest(s)]]

\* They exist: those over n elements need those over n - 1.
LEMMA SumsExist ==
    ASSUME NEW f, NEW S, IsFiniteSet(S)
    PROVE  \A s \in SUBSET S :
               Sums(f, S)[s] = IF s = {} THEN 0 ELSE f[Any(s)] + Sums(f, S)[Rest(s)]
<1> DEFINE SumFrom(it, s) == IF s = {} THEN 0 ELSE f[Any(s)] + it[Rest(s)]
           Good(n, it) == /\ it = [s \in SUBSET S |-> it[s]]
                          /\ \A s \in SUBSET S : Cardinality(s) <= n => it[s] = SumFrom(it, s)
           N == {n \in Nat : \E it : Good(n, it)}
<1>1. ASSUME NEW s \in SUBSET S
      PROVE  IsFiniteSet(s) /\ Cardinality(s) \in Nat /\ Cardinality(s) <= Cardinality(S)
             /\ (s # {} => Rest(s) \in SUBSET S /\ Cardinality(Rest(s)) = Cardinality(s) - 1)
             /\ (Cardinality(s) = 0 <=> s = {})
  <2>1. IsFiniteSet(s) /\ Cardinality(s) \in Nat /\ Cardinality(s) <= Cardinality(S)
    BY FS_Subset, FS_CardinalityType
  <2>2. Cardinality(s) = 0 <=> s = {}
    BY <2>1, FS_EmptySet
  <2> QED
    BY <2>1, <2>2, Fewer
<1>2. 0 \in N
  <2> DEFINE it == [s \in SUBSET S |-> 0]
  <2>1. ASSUME NEW s \in SUBSET S, Cardinality(s) <= 0 PROVE it[s] = SumFrom(it, s)
    <3>1. s = {}
      BY <1>1, <2>1
    <3> QED
      BY <3>1
  <2>2. Good(0, it)
    BY <2>1
  <2> HIDE DEF Good, it
  <2> QED
    BY <2>2
<1>3. ASSUME NEW n \in Nat, n \in N PROVE n + 1 \in N
  <2>1. PICK it : Good(n, it)
    BY <1>3
  <2> HIDE DEF SumFrom
  <2> DEFINE jt == [s \in SUBSET S |-> IF Cardinality(s) = n + 1 THEN SumFrom(it, s) ELSE it[s]]
  <2>2. ASSUME NEW s \in SUBSET S, Cardinality(s) <= n + 1 PROVE jt[s] = SumFrom(jt, s)
    <3>1. SumFrom(jt, s) = SumFrom(it, s)
      <4>1. CASE s = {}
        BY <4>1 DEF SumFrom
      <4>2. CASE s # {}
        <5>1. Rest(s) \in SUBSET S /\ Cardinality(Rest(s)) # n + 1
          BY <1>1, <2>2, <4>2
        <5>2. jt[Rest(s)] = it[Rest(s)]
          BY <5>1
        <5> HIDE DEF jt
        <5> QED
          BY <5>2 DEF SumFrom
      <4> QED
        BY <4>1, <4>2
    <3>2. CASE Cardinality(s) = n + 1
      BY <3>1, <3>2
    <3>3. CASE Cardinality(s) <= n
      <4>1. Cardinality(s) # n + 1
        BY <1>1, <3>3
      <4>2. it[s] = SumFrom(it, s) /\ jt[s] = it[s]
        BY <2>1, <3>3, <4>1
      <4> QED
        BY <3>1, <4>2
    <3>4. Cardinality(s) = n + 1 \/ Cardinality(s) <= n
      BY <1>1, <2>2
    <3> QED
      BY <3>2, <3>3, <3>4
  <2>3. Good(n + 1, jt)
    BY <2>2
  <2> HIDE DEF Good, jt
  <2> QED
    BY <2>3
<1>4. Cardinality(S) \in N
  <2> HIDE DEF N
  <2>1. Nat \subseteq N
    BY <1>2, <1>3, AllNumbers
  <2> QED
    BY <2>1, FS_CardinalityType
<1>5. PICK it : Good(Cardinality(S), it)
  BY <1>4
<1>6. it = [s \in SUBSET S |-> SumFrom(it, s)]
  <2>1. \A s \in SUBSET S : it[s] = SumFrom(it, s)
    BY <1>1, <1>5
  <2> HIDE DEF SumFrom
  <2> QED
    BY <1>5, <2>1
<1>7. Sums(f, S) =
        [s \in SUBSET S |-> IF s = {} THEN 0 ELSE f[Any(s)] + Sums(f, S)[Rest(s)]]
  BY <1>6 DEF Sums
<1> QED
  BY <1>7

\* A sum is one of them.
LEMMA SumIsOne ==
    ASSUME NEW f, NEW S
    PROVE  SumFunctionOnSet(f, S) = Sums(f, S)[S]
BY DEF SumFunctionOnSet, FoldFunctionOnSet, MapThenFoldSet, Sums, Any, Rest

\* The numbers of the elements of the subsets of a finite set, for inductions.
LEMMA SubsetSizes ==
    ASSUME NEW U, IsFiniteSet(U), NEW s \in SUBSET U
    PROVE  /\ IsFiniteSet(s) /\ Cardinality(s) \in Nat /\ (Cardinality(s) = 0 <=> s = {})
           /\ s # {} => /\ Any(s) \in s /\ Rest(s) \in SUBSET U /\ Rest(s) \subseteq s
                        /\ Cardinality(Rest(s)) = Cardinality(s) - 1
<1>1. IsFiniteSet(s) /\ Cardinality(s) \in Nat
  BY FS_Subset, FS_CardinalityType
<1>2. Cardinality(s) = 0 <=> s = {}
  BY <1>1, FS_EmptySet
<1> QED
  BY <1>1, <1>2, Fewer

\* Sums of functions that agree on a set are the same over it, whatever it is part of.
LEMMA SumsAgree ==
    ASSUME NEW f, NEW g, NEW S, NEW T, IsFiniteSet(S), IsFiniteSet(T), NEW U, U \subseteq S,
           U \subseteq T, \A x \in U : f[x] = g[x]
    PROVE  \A s \in SUBSET U : Sums(f, S)[s] = Sums(g, T)[s]
<1> DEFINE N == {n \in Nat : \A s \in SUBSET U :
                                Cardinality(s) = n => Sums(f, S)[s] = Sums(g, T)[s]}
<1>1. IsFiniteSet(U)
  BY FS_Subset
<1>2. ASSUME NEW s \in SUBSET U
      PROVE  /\ Sums(f, S)[s] = IF s = {} THEN 0 ELSE f[Any(s)] + Sums(f, S)[Rest(s)]
             /\ Sums(g, T)[s] = IF s = {} THEN 0 ELSE g[Any(s)] + Sums(g, T)[Rest(s)]
  <2>1. s \in SUBSET S /\ s \in SUBSET T
    OBVIOUS
  <2>2. \A t \in SUBSET S :
            Sums(f, S)[t] = IF t = {} THEN 0 ELSE f[Any(t)] + Sums(f, S)[Rest(t)]
    BY SumsExist
  <2>3. \A t \in SUBSET T :
            Sums(g, T)[t] = IF t = {} THEN 0 ELSE g[Any(t)] + Sums(g, T)[Rest(t)]
    BY SumsExist
  <2> QED
    BY <2>1, <2>2, <2>3
<1>3. 0 \in N
  BY <1>1, <1>2, SubsetSizes
<1>4. ASSUME NEW n \in Nat, n \in N PROVE n + 1 \in N
  <2>1. ASSUME NEW s \in SUBSET U, Cardinality(s) = n + 1
        PROVE  Sums(f, S)[s] = Sums(g, T)[s]
    <3>1. s # {} /\ Any(s) \in U /\ Rest(s) \in SUBSET U /\ Cardinality(Rest(s)) = n
      BY <1>1, <2>1, SubsetSizes
    <3>2. Sums(f, S)[Rest(s)] = Sums(g, T)[Rest(s)]
      BY <1>4, <3>1
    <3> QED
      BY <1>2, <3>1, <3>2
  <2> QED
    BY <2>1
<1> HIDE DEF N
<1>5. Nat \subseteq N
  BY <1>3, <1>4, AllNumbers
<1> QED
  BY <1>1, <1>5, SubsetSizes DEF N

\* The sum takes one element and goes on with the rest.
LEMMA SumSteps ==
    ASSUME NEW f, NEW S, IsFiniteSet(S)
    PROVE  /\ S = {} => SumFunctionOnSet(f, S) = 0
           /\ S # {} => SumFunctionOnSet(f, S) = f[Any(S)] + SumFunctionOnSet(f, Rest(S))
<1>1. SumFunctionOnSet(f, S) = IF S = {} THEN 0 ELSE f[Any(S)] + Sums(f, S)[Rest(S)]
  <2>1. SumFunctionOnSet(f, S) = Sums(f, S)[S] /\ S \in SUBSET S
    BY SumIsOne
  <2>2. \A t \in SUBSET S :
            Sums(f, S)[t] = IF t = {} THEN 0 ELSE f[Any(t)] + Sums(f, S)[Rest(t)]
    BY SumsExist
  <2> QED
    BY <2>1, <2>2
<1>2. ASSUME S # {} PROVE Sums(f, S)[Rest(S)] = SumFunctionOnSet(f, Rest(S))
  <2>1. Rest(S) \subseteq S /\ IsFiniteSet(Rest(S)) /\ Rest(S) \in SUBSET Rest(S)
    BY <1>2, Fewer
  <2>2. Sums(f, S)[Rest(S)] = Sums(f, Rest(S))[Rest(S)]
    BY <2>1, SumsAgree
  <2> QED
    BY <2>2, SumIsOne
<1> QED
  BY <1>1, <1>2

\* A sum of natural numbers is one.
LEMMA SumType ==
    ASSUME NEW f, NEW S, IsFiniteSet(S), \A x \in S : f[x] \in Nat
    PROVE  SumFunctionOnSet(f, S) \in Nat
<1> DEFINE N == {n \in Nat : \A s \in SUBSET S :
                                Cardinality(s) = n => SumFunctionOnSet(f, s) \in Nat}
<1>1. 0 \in N
  <2>1. ASSUME NEW s \in SUBSET S, Cardinality(s) = 0 PROVE SumFunctionOnSet(f, s) \in Nat
    <3>1. s = {} /\ IsFiniteSet(s)
      BY <2>1, SubsetSizes
    <3> QED
      BY <3>1, SumSteps
  <2> QED
    BY <2>1
<1>2. ASSUME NEW n \in Nat, n \in N PROVE n + 1 \in N
  <2>1. ASSUME NEW s \in SUBSET S, Cardinality(s) = n + 1
        PROVE  SumFunctionOnSet(f, s) \in Nat
    <3>1. s # {} /\ Any(s) \in S /\ Rest(s) \in SUBSET S /\ Cardinality(Rest(s)) = n
          /\ IsFiniteSet(s)
      BY <2>1, SubsetSizes
    <3>2. SumFunctionOnSet(f, Rest(s)) \in Nat /\ f[Any(s)] \in Nat
      BY <1>2, <3>1
    <3>3. SumFunctionOnSet(f, s) = f[Any(s)] + SumFunctionOnSet(f, Rest(s))
      BY <3>1, SumSteps
    <3> QED
      BY <3>2, <3>3
  <2> QED
    BY <2>1
<1> HIDE DEF N
<1>3. Nat \subseteq N
  BY <1>1, <1>2, AllNumbers
<1> QED
  BY <1>3, SubsetSizes DEF N

\* Any element may be the first.
LEMMA SumAny ==
    ASSUME NEW f, NEW S, IsFiniteSet(S), \A x \in S : f[x] \in Nat, NEW y \in S
    PROVE  SumFunctionOnSet(f, S) = f[y] + SumFunctionOnSet(f, S \ {y})
<1> DEFINE sum(s) == SumFunctionOnSet(f, s)
           N == {n \in Nat : \A s \in SUBSET S : \A z \in s :
                                Cardinality(s) = n => sum(s) = f[z] + sum(s \ {z})}
<1>1. ASSUME NEW s \in SUBSET S PROVE sum(s) \in Nat /\ IsFiniteSet(s)
  <2>1. IsFiniteSet(s) /\ \A x \in s : f[x] \in Nat
    BY SubsetSizes
  <2> QED
    BY <2>1, SumType
<1>2. 0 \in N
  BY SubsetSizes
<1>3. ASSUME NEW n \in Nat, n \in N PROVE n + 1 \in N
  <2>1. ASSUME NEW s \in SUBSET S, NEW z \in s, Cardinality(s) = n + 1
        PROVE  sum(s) = f[z] + sum(s \ {z})
    <3> DEFINE x == Any(s)
               r == Rest(s)
    <3>1. s # {} /\ x \in S /\ r \in SUBSET S /\ Cardinality(r) = n /\ x \in s /\ r = s \ {x}
      BY <2>1, SubsetSizes DEF Rest
    <3>2. sum(s) = f[x] + sum(r)
      BY <1>1, <3>1, SumSteps
    <3> HIDE DEF x, r, sum
    <3>3. CASE x = z
      BY <3>1, <3>2, <3>3
    <3>4. CASE x # z
      <4> DEFINE t == s \ {z}
      <4>1. z \in r /\ x \in t /\ t \in SUBSET S /\ r \ {z} = t \ {x} /\ t \ {x} \in SUBSET S
        BY <3>1, <3>4
      <4>2. IsFiniteSet(t) /\ Cardinality(t) = n
        <5>1. IsFiniteSet(s \ {z}) /\ Cardinality(s \ {z}) = Cardinality(s) - 1
          BY <1>1, FS_RemoveElement
        <5> QED
          BY <2>1, <5>1
      <4> HIDE DEF t
      <4>3. sum(r) = f[z] + sum(r \ {z}) /\ sum(t) = f[x] + sum(t \ {x})
        BY <1>3, <3>1, <4>1, <4>2
      <4>4. f[x] \in Nat /\ f[z] \in Nat /\ sum(t \ {x}) \in Nat
        BY <1>1, <3>1, <4>1
      <4>5. sum(s) = f[x] + (f[z] + sum(t \ {x})) /\ sum(t) = f[x] + sum(t \ {x})
        BY <3>2, <4>1, <4>3
      <4>6. sum(s) = f[z] + sum(t)
        BY <4>4, <4>5
      <4> QED
        BY <4>6 DEF t
    <3> QED
      BY <3>3, <3>4
  <2> QED
    BY <2>1
<1> HIDE DEF N
<1>4. Nat \subseteq N
  BY <1>2, <1>3, AllNumbers
<1> QED
  BY <1>4, SubsetSizes DEF N

\* A sum of no larger numbers over no more elements is no larger.
LEMMA SumLess ==
    ASSUME NEW f, NEW g, NEW S, IsFiniteSet(S), NEW T, T \subseteq S,
           \A x \in S : f[x] \in Nat /\ g[x] \in Nat /\ g[x] <= f[x]
    PROVE  SumFunctionOnSet(g, T) <= SumFunctionOnSet(f, S)
<1> DEFINE N == {n \in Nat : \A s \in SUBSET S : \A t \in SUBSET s :
                     Cardinality(s) = n => SumFunctionOnSet(g, t) <= SumFunctionOnSet(f, s)}
<1>1. ASSUME NEW s \in SUBSET S
      PROVE  SumFunctionOnSet(f, s) \in Nat /\ SumFunctionOnSet(g, s) \in Nat /\ IsFiniteSet(s)
  <2>1. IsFiniteSet(s) /\ \A x \in s : f[x] \in Nat /\ g[x] \in Nat
    BY SubsetSizes
  <2> QED
    BY <2>1, SumType
<1>2. 0 \in N
  <2>1. ASSUME NEW s \in SUBSET S, NEW t \in SUBSET s, Cardinality(s) = 0
        PROVE  SumFunctionOnSet(g, t) <= SumFunctionOnSet(f, s)
    <3>1. s = {} /\ t = {}
      BY <2>1, SubsetSizes
    <3>2. SumFunctionOnSet(g, {}) = 0 /\ SumFunctionOnSet(f, {}) = 0
      BY <1>1, SumSteps
    <3> QED
      BY <3>1, <3>2
  <2> QED
    BY <2>1
<1>3. ASSUME NEW n \in Nat, n \in N PROVE n + 1 \in N
  <2>1. ASSUME NEW s \in SUBSET S, NEW t \in SUBSET s, Cardinality(s) = n + 1
        PROVE  SumFunctionOnSet(g, t) <= SumFunctionOnSet(f, s)
    <3> DEFINE x == Any(s)
               r == Rest(s)
    <3>1. s # {} /\ x \in S /\ r \in SUBSET S /\ Cardinality(r) = n /\ x \in s /\ r = s \ {x}
      BY <2>1, SubsetSizes DEF Rest
    <3>2. SumFunctionOnSet(f, s) = f[x] + SumFunctionOnSet(f, r)
      BY <1>1, <3>1, SumSteps
    <3> HIDE DEF x, r
    <3>3. SumFunctionOnSet(f, r) \in Nat /\ f[x] \in Nat /\ g[x] \in Nat /\ g[x] <= f[x]
      BY <1>1, <3>1
    <3>4. CASE x \in t
      <4>1. t \ {x} \in SUBSET r /\ t \ {x} \in SUBSET S /\ t \in SUBSET S
        BY <3>1
      <4>2. SumFunctionOnSet(g, t) = g[x] + SumFunctionOnSet(g, t \ {x})
        BY <1>1, <3>4, <4>1, SumAny
      <4>3. SumFunctionOnSet(g, t \ {x}) <= SumFunctionOnSet(f, r)
        BY <1>3, <3>1, <4>1
      <4>4. SumFunctionOnSet(g, t \ {x}) \in Nat
        BY <1>1, <4>1
      <4> QED
        BY <3>2, <3>3, <4>2, <4>3, <4>4
    <3>5. CASE x \notin t
      <4>1. t \in SUBSET r /\ t \in SUBSET S
        BY <3>1, <3>5
      <4>2. SumFunctionOnSet(g, t) <= SumFunctionOnSet(f, r)
        BY <1>3, <3>1, <4>1
      <4>3. SumFunctionOnSet(g, t) \in Nat
        BY <1>1, <4>1
      <4> QED
        BY <3>2, <3>3, <4>2, <4>3
    <3> QED
      BY <3>4, <3>5
  <2> QED
    BY <2>1
<1> HIDE DEF N
<1>4. Nat \subseteq N
  BY <1>2, <1>3, AllNumbers
<1> QED
  BY <1>4, SubsetSizes DEF N

\* A sum of zeros is zero.
LEMMA SumZero ==
    ASSUME NEW f, NEW S, IsFiniteSet(S), \A x \in S : f[x] = 0
    PROVE  SumFunctionOnSet(f, S) = 0
<1> DEFINE N == {n \in Nat : \A s \in SUBSET S :
                                Cardinality(s) = n => SumFunctionOnSet(f, s) = 0}
<1>1. 0 \in N
  <2>1. ASSUME NEW s \in SUBSET S, Cardinality(s) = 0 PROVE SumFunctionOnSet(f, s) = 0
    <3>1. s = {} /\ IsFiniteSet(s)
      BY <2>1, SubsetSizes
    <3> QED
      BY <3>1, SumSteps
  <2> QED
    BY <2>1
<1>2. ASSUME NEW n \in Nat, n \in N PROVE n + 1 \in N
  <2>1. ASSUME NEW s \in SUBSET S, Cardinality(s) = n + 1
        PROVE  SumFunctionOnSet(f, s) = 0
    <3>1. s # {} /\ Any(s) \in S /\ Rest(s) \in SUBSET S /\ Cardinality(Rest(s)) = n
          /\ IsFiniteSet(s)
      BY <2>1, SubsetSizes
    <3>2. SumFunctionOnSet(f, Rest(s)) = 0 /\ f[Any(s)] = 0
      BY <1>2, <3>1
    <3> QED
      BY <3>1, <3>2, SumSteps
  <2> QED
    BY <2>1
<1> HIDE DEF N
<1>3. Nat \subseteq N
  BY <1>1, <1>2, AllNumbers
<1> QED
  BY <1>3, SubsetSizes DEF N

\* With one more at one element at most, the sum is one more at most.
LEMMA SumIncrement ==
    ASSUME NEW f, NEW g, NEW S, IsFiniteSet(S), NEW y \in S,
           \A x \in S : f[x] \in Nat /\ g[x] \in Nat,
           \A x \in S \ {y} : g[x] <= f[x], g[y] <= f[y] + 1
    PROVE  SumFunctionOnSet(g, S) <= SumFunctionOnSet(f, S) + 1
<1> DEFINE R == S \ {y}
<1>1. IsFiniteSet(R) /\ R \subseteq S /\ \A x \in R : f[x] \in Nat /\ g[x] \in Nat /\ g[x] <= f[x]
  BY FS_Subset
<1>2. /\ SumFunctionOnSet(f, S) = f[y] + SumFunctionOnSet(f, R)
      /\ SumFunctionOnSet(g, S) = g[y] + SumFunctionOnSet(g, R)
  BY SumAny
<1> HIDE DEF R
<1>3. /\ SumFunctionOnSet(f, R) \in Nat /\ SumFunctionOnSet(g, R) \in Nat
      /\ SumFunctionOnSet(g, R) <= SumFunctionOnSet(f, R)
  BY <1>1, SumType, SumLess
<1> QED
  BY <1>2, <1>3

(***************************************************************************)
(* Every quantum is counted for one thread at most                         *)
(***************************************************************************)
\* The quantums of all entries of the table, for those that name no thread are zero.
Accounted == total < QuantumCap => SumFunctionOnSet(elapsed, Ids) <= total

\* A step starts a quantum of one thread, or it starts none and takes counts away.
LEMMA StepCounts ==
    ASSUME UInv, [Next]_vars
    PROVE  \/ total' = total /\ \A t \in Ids : elapsed'[t] <= elapsed[t]
           \/ CountQuantum(running')
<1>1. elapsed \in [Ids -> 0..QuantumCap]
  BY DEF UInv, TypeOK
<1>2. \A t \in Ids : elapsed[t] \in Nat /\ elapsed[t] <= elapsed[t]
  BY <1>1
<1>3. ASSUME total' = total, elapsed' = elapsed
      PROVE  total' = total /\ \A t \in Ids : elapsed'[t] <= elapsed[t]
  BY <1>2, <1>3
<1>4. ASSUME NEW dead, NEW made, total' = total, Replace(dead, made)
      PROVE  total' = total /\ \A t \in Ids : elapsed'[t] <= elapsed[t]
  <2>1. ASSUME NEW t \in Ids PROVE elapsed'[t] \in {0, elapsed[t]}
    BY <1>4 DEF Replace, Overwrite
  <2> QED
    BY <1>2, <1>4, <2>1
<1>5. ASSUME NEW states, NEW q, NEW st, NEW ctx, SwitchThreads(states, q, st, ctx)
      PROVE  CountQuantum(running')
  BY <1>5 DEF SwitchThreads
<1>6. CASE TimerExpires \/ Exit \/ Exited \/ UNCHANGED vars
  <2>1. total' = total /\ elapsed' = elapsed
    BY <1>6 DEF TimerExpires, Exit, Exited, vars, threadVars
  <2> QED
    BY <1>3, <2>1
<1>7. CASE Preempt
  BY <1>5, <1>7 DEF Preempt
<1>8. CASE TerminateSelf \/ BlockSelf \/ \E n \in 1..MaxSleep : Sleep(n)
  <2>1. PICK ctx \in {"call", "exit"} : SwitchBlocked(ctx)
    BY <1>8 DEF TerminateSelf, BlockSelf, Sleep
  <2> QED
    BY <1>5, <2>1 DEF SwitchBlocked
<1>9. CASE Spawn
  BY <1>4, <1>9 DEF Spawn
<1>10. ASSUME NEW t \in Ids, TerminateOther(t)
       PROVE  total' = total /\ \A u \in Ids : elapsed'[u] <= elapsed[u]
  BY <1>4, <1>10 DEF TerminateOther
<1>11. ASSUME NEW t \in Ids, BlockOther(t) \/ Resume(t)
       PROVE  total' = total /\ \A u \in Ids : elapsed'[u] <= elapsed[u]
  <2>1. total' = total /\ elapsed' = elapsed
    BY <1>11 DEF BlockOther, Resume
  <2> QED
    BY <1>3, <2>1
<1>12. \A t \in Known : t \in Ids
  BY DEF Known, Live
<1> QED
  BY <1>6, <1>7, <1>8, <1>9, <1>10, <1>11, <1>12 DEF Next, Step

\* The account is kept.
LEMMA AccountedKept ==
    ASSUME UInv, Accounted, [Next]_vars
    PROVE  Accounted'
<1> SUFFICES ASSUME total' < QuantumCap
             PROVE  SumFunctionOnSet(elapsed', Ids) <= total'
  BY DEF Accounted
<1>1. /\ total \in 1..QuantumCap /\ total' \in 1..QuantumCap /\ running' \in Ids
      /\ \A t \in Ids : elapsed[t] \in Nat /\ elapsed'[t] \in Nat
  BY NextUInv DEF UInv, TypeOK
<1>2. IsFiniteSet(Ids) /\ QuantumCap \in Nat
  BY IdsFacts, SizesAssumption
<1>3. SumFunctionOnSet(elapsed, Ids) \in Nat /\ SumFunctionOnSet(elapsed', Ids) \in Nat
  BY <1>1, <1>2, SumType
<1>4. CASE total' = total /\ \A t \in Ids : elapsed'[t] <= elapsed[t]
  <2>1. SumFunctionOnSet(elapsed', Ids) <= SumFunctionOnSet(elapsed, Ids)
    BY <1>1, <1>2, <1>4, SumLess
  <2>2. SumFunctionOnSet(elapsed, Ids) <= total
    BY <1>4 DEF Accounted
  <2> QED
    BY <1>1, <1>3, <1>4, <2>1, <2>2
<1>5. CASE CountQuantum(running')
  <2>1. /\ total' = Increment(total)
        /\ elapsed' = [elapsed EXCEPT ![running'] = Increment(elapsed[running'])]
    BY <1>5 DEF CountQuantum
  <2>2. total < QuantumCap /\ total' = total + 1
    BY <1>1, <1>2, <2>1 DEF Increment
  <2>3. /\ \A t \in Ids \ {running'} : elapsed'[t] <= elapsed[t]
        /\ elapsed'[running'] <= elapsed[running'] + 1
    <3>1. elapsed \in [Ids -> 0..QuantumCap]
      BY DEF UInv, TypeOK
    <3>2. \A t \in Ids \ {running'} : elapsed'[t] = elapsed[t]
      BY <2>1, <3>1
    <3>3. elapsed'[running'] = Increment(elapsed[running'])
      BY <1>1, <2>1, <3>1
    <3>4. \A n \in Nat : Increment(n) <= n + 1
      BY DEF Increment
    <3> QED
      BY <1>1, <3>2, <3>3, <3>4
  <2>4. SumFunctionOnSet(elapsed', Ids) <= SumFunctionOnSet(elapsed, Ids) + 1
    BY <1>1, <1>2, <2>3, SumIncrement
  <2>5. SumFunctionOnSet(elapsed, Ids) <= total
    BY <2>2 DEF Accounted
  <2> QED
    BY <1>1, <1>3, <2>2, <2>4, <2>5
<1> QED
  BY <1>4, <1>5, StepCounts

\* After uthread_init the first quantum of the main thread is the only one.
LEMMA InitAccounted == Init => Accounted
<1> SUFFICES ASSUME Init PROVE SumFunctionOnSet(elapsed, Ids) <= total
  BY DEF Accounted
<1> DEFINE none == [t \in Ids |-> 0]
<1>1. IsFiniteSet(Ids) /\ main_thread_id \in Ids
  BY IdsFacts
<1>2. total = 1 /\ \A t \in Ids : elapsed[t] = IF t = main_thread_id THEN 1 ELSE 0
  BY DEF Init
<1>3. \A t \in Ids : none[t] = 0
  OBVIOUS
<1> HIDE DEF none
<1>4. SumFunctionOnSet(none, Ids) = 0
  BY <1>1, <1>3, SumZero
<1> QED
  BY <1>1, <1>2, <1>3, <1>4, SumIncrement

\* Whoever gives up the processor and however, and whatever ids are used again: the
\* threads together never have more quantums than uthread_get_total_quantums returns.
THEOREM QuantumsAreAccounted == Spec => []QuantumsAccounted
<1>1. UInv /\ Accounted => QuantumsAccounted
  <2> SUFFICES ASSUME UInv, Accounted, total < QuantumCap
               PROVE  SumFunctionOnSet(elapsed, Live) <= total
    BY DEF QuantumsAccounted
  <2>1. Live \subseteq Ids /\ IsFiniteSet(Ids) /\ IsFiniteSet(Live)
    BY IdsFacts DEF Live
  <2>2. total \in Nat /\ \A t \in Ids : elapsed[t] \in Nat /\ elapsed[t] <= elapsed[t]
    BY DEF UInv, TypeOK
  <2>3. SumFunctionOnSet(elapsed, Live) <= SumFunctionOnSet(elapsed, Ids)
    BY <2>1, <2>2, SumLess
  <2>4. SumFunctionOnSet(elapsed, Live) \in Nat /\ SumFunctionOnSet(elapsed, Ids) \in Nat
    BY <2>1, <2>2, SumType
  <2>5. SumFunctionOnSet(elapsed, Ids) <= total
    BY DEF Accounted
  <2> QED
    BY <2>2, <2>3, <2>4, <2>5
<1>2. UInv /\ Accounted /\ [Next]_vars => Accounted'
  BY AccountedKept
<1> QED
  BY <1>1, <1>2, InitAccounted, ThreadsInvariant, PTL DEF Spec

-----------------------------------------------------------------------------
(* The library implements its contract.                                    *)

\* The state of a thread as the contract sees it.
St == [t \in Ids |-> IF t \in Range(toDelete) THEN "none" ELSE state[t]]

\* A step of one thread.
LEMMA MoveMaps ==
    ASSUME NEW t \in Ids, NEW from, NEW to, St[t] = from,
           \A v \in Ids : St'[v] = IF v = t THEN to ELSE St[v], alive' = alive
    PROVE  Contract!Move(t, from, to)
<1>1. St' = [v \in Ids |-> St'[v]] /\ DOMAIN St = Ids
  BY DEF St
<1>2. St' = [St EXCEPT ![t] = to]
  BY <1>1
<1> QED
  BY <1>2 DEF Contract!Move, St

\* A scheduling decision.
LEMMA ScheduleMaps ==
    ASSUME NEW t \in Ids, NEW u \in Ids, NEW to, NEW woken,
           St[t] = "RUNNING", t = main_thread_id => to = "READY",
           \A w \in woken : St[w] = "BLOCKED",
           u \in woken \/ St[u] = "READY" \/ (u = t /\ to = "READY"),
           \A v \in Ids : St'[v] = IF v = u THEN "RUNNING" ELSE IF v = t THEN to
                                   ELSE IF v \in woken THEN "READY" ELSE St[v],
           alive' = alive
    PROVE  Contract!Schedule(t, to, woken, u)
<1>1. St' = [v \in Ids |-> St'[v]]
  BY DEF St
<1>2. St' = [v \in Ids |-> IF v = u THEN "RUNNING" ELSE IF v = t THEN to
                           ELSE IF v \in woken THEN "READY" ELSE St[v]]
  BY <1>1
<1> QED
  BY <1>2 DEF Contract!Schedule, St

\* A preemption is one of the contract, which wakes the sleepers and no other.
LEMMA PreemptMaps ==
    ASSUME UInv, Preempt
    PROVE  Contract!Next
<1>1. /\ running' \in Ids /\ running' \in Range(ready) \cup Woken \cup {running}
      /\ \A t \in Ids : state'[t] = IF t = running' THEN "RUNNING"
                                    ELSE IF t = running \/ t \in Woken THEN "READY"
                                    ELSE state[t]
      /\ alive /\ alive' = alive /\ toDelete' = toDelete
  BY PreemptEffects DEF Preempt
<1>2. /\ running \in Ids /\ running \notin Range(toDelete) /\ state[running] = "RUNNING"
      /\ \A t \in Range(toDelete) : state[t] = "BLOCKED"
      /\ \A t \in Ids : state[t] = "READY" <=> t \in Range(ready)
  BY QueueReady DEF UInv, TypeOK, SchedInv, IdsPartition
<1>3. /\ \A t \in Ids : St[t] = IF t \in Range(toDelete) THEN "none" ELSE state[t]
      /\ \A t \in Ids : St'[t] = IF t \in Range(toDelete) THEN "none" ELSE state'[t]
  BY <1>1 DEF St
<1>4. /\ Woken \in SUBSET (Ids \ {main_thread_id})
      /\ \A w \in Woken : w \in Ids /\ w \notin Range(toDelete) /\ state[w] = "BLOCKED"
  BY WokenFacts
<1>5. St[running] = "RUNNING" /\ \A w \in Woken : St[w] = "BLOCKED"
  BY <1>2, <1>3, <1>4
<1>6. running' \in Woken \/ St[running'] = "READY" \/ running' = running
  BY <1>1, <1>2, <1>3
<1>7. running' \notin Range(toDelete)
  BY <1>1, <1>2, <1>4
<1>8. \A v \in Ids : St'[v] = IF v = running' THEN "RUNNING" ELSE IF v = running THEN "READY"
                              ELSE IF v \in Woken THEN "READY" ELSE St[v]
  BY <1>1, <1>2, <1>3, <1>4, <1>7
<1>9. PICK r \in Ids, u \in Ids, W \in SUBSET (Ids \ {main_thread_id}) :
        r = running /\ u = running' /\ W = Woken
  BY <1>1, <1>2, <1>4
<1>10. Contract!Schedule(r, "READY", W, u)
  BY <1>1, <1>5, <1>6, <1>8, <1>9, ScheduleMaps
<1> QED
  BY <1>1, <1>10 DEF Contract!Next, Contract!Preempt

\* A thread that blocks, sleeps or ends itself yields, to one that is ready.
LEMMA GiveUpMaps ==
    ASSUME UInv, \/ TerminateSelf \/ BlockSelf
                 \/ \E n \in 1..MaxSleep : Sleep(n)
    PROVE  Contract!Next
<1>1. PICK ctx \in {"call", "exit"} :
        /\ running # main_thread_id /\ SwitchBlocked(ctx) /\ alive /\ alive' = alive
        /\ toDelete' = IF ctx = "exit" THEN Append(toDelete, running) ELSE toDelete
  BY DEF TerminateSelf, BlockSelf, Sleep, MaskedCall, InClient
<1>2. /\ running' \in Ids /\ running' \in Range(ready) /\ running' # running
      /\ \A t \in Ids : state'[t] = IF t = running' THEN "RUNNING"
                                    ELSE IF t = running THEN "BLOCKED" ELSE state[t]
  BY <1>1, GiveUpEffects
<1>3. /\ running \in Ids /\ running \notin Range(toDelete) /\ state[running] = "RUNNING"
      /\ \A t \in Range(toDelete) : state[t] = "BLOCKED"
      /\ \A t \in Ids : state[t] = "READY" <=> t \in Range(ready)
      /\ toDelete \in Seq(Ids) /\ Distinct(toDelete)
  BY QueueReady DEF UInv, TypeOK, SchedInv, IdsPartition, Distinct
<1>4. Range(toDelete') = IF ctx = "exit" THEN Range(toDelete) \cup {running}
                                         ELSE Range(toDelete)
  <2>1. Range(Append(toDelete, running)) = Range(toDelete) \cup {running}
    BY <1>3, QueueAppend
  <2> QED
    BY <1>1, <2>1
<1> DEFINE to == IF ctx = "exit" THEN "none" ELSE "BLOCKED"
<1>5. /\ \A t \in Ids : St[t] = IF t \in Range(toDelete) THEN "none" ELSE state[t]
      /\ \A t \in Ids : St'[t] = IF t \in Range(toDelete') THEN "none" ELSE state'[t]
  BY DEF St
<1>6. St[running] = "RUNNING" /\ St[running'] = "READY" /\ running' \notin Range(toDelete)
  BY <1>2, <1>3, <1>5
<1>7. ASSUME NEW v \in Ids
      PROVE  St'[v] = IF v = running' THEN "RUNNING" ELSE IF v = running THEN to
                      ELSE IF v \in {} THEN "READY" ELSE St[v]
  <2>1. v \in Range(toDelete') <=> v \in Range(toDelete) \/ (ctx = "exit" /\ v = running)
    BY <1>4
  <2> QED
    BY <1>2, <1>3, <1>5, <1>6, <2>1
<1>8. to \in {"BLOCKED", "none"}
  OBVIOUS
<1> HIDE DEF to
<1>9. PICK r \in Ids, u \in Ids, st \in {"BLOCKED", "none"} :
        r = running /\ u = running' /\ st = to
  BY <1>2, <1>3, <1>8
<1>10. Contract!Schedule(r, st, {}, u)
  BY <1>1, <1>6, <1>7, <1>9, ScheduleMaps
<1> QED
  BY <1>1, <1>10 DEF Contract!Next, Contract!Yield
\* One thread changes its state, and the set of those that ended themselves is
\* the same.
LEMMA OneThreadMaps ==
    ASSUME NEW t \in Ids, NEW from, NEW to, t \notin Range(toDelete), state[t] = from,
           \A v \in Ids : state'[v] = IF v = t THEN to ELSE state[v],
           toDelete' = toDelete, alive' = alive
    PROVE  Contract!Move(t, from, to)
<1>1. /\ \A v \in Ids : St[v] = IF v \in Range(toDelete) THEN "none" ELSE state[v]
      /\ \A v \in Ids : St'[v] = IF v \in Range(toDelete) THEN "none" ELSE state'[v]
  BY DEF St
<1>2. St[t] = from /\ \A v \in Ids : St'[v] = IF v = t THEN to ELSE St[v]
  BY <1>1
<1> QED
  BY <1>2, MoveMaps

\* Where the states and the marks are the same the contract does not move.
LEMMA StutterMaps ==
    ASSUME UInv, UNCHANGED <<toDelete, alive>>, \A t \in Ids : state'[t] = state[t]
    PROVE  UNCHANGED Contract!vars
<1>1. [t \in Ids |-> IF t \in Range(toDelete') THEN "none" ELSE state'[t]]
        = [t \in Ids |-> IF t \in Range(toDelete) THEN "none" ELSE state[t]]
  OBVIOUS
<1> QED
  BY <1>1 DEF Contract!vars

\* uthread_spawn creates a thread that the contract does not know, though its id
\* may be that of one that ended itself.
LEMMA SpawnMaps ==
    ASSUME UInv, Spawn
    PROVE  Contract!Next
<1>1. PICK tid \in Ids :
        /\ alive /\ alive' = alive /\ Freed[tid] > 0 /\ toDelete' = <<>>
        /\ Replace(Range(toDelete), {tid})
  BY DEF Spawn, MaskedCall, InClient
<1>2. state[tid] = "none" \/ tid \in Range(toDelete)
  BY <1>1, SpawnEffects
<1>3. \A t \in Ids : state'[t] = IF t = tid THEN "READY"
                                 ELSE IF t \in Range(toDelete) THEN "none" ELSE state[t]
  BY <1>1 DEF Replace, Overwrite
<1>4. Range(toDelete') = {}
  BY <1>1 DEF Range
<1>5. /\ \A t \in Ids : St[t] = IF t \in Range(toDelete) THEN "none" ELSE state[t]
      /\ \A t \in Ids : St'[t] = state'[t]
  BY <1>4 DEF St
<1>6. St[tid] = "none" /\ \A t \in Ids : St'[t] = IF t = tid THEN "READY" ELSE St[t]
  BY <1>2, <1>3, <1>5
<1>7. Contract!Move(tid, "none", "READY")
  BY <1>1, <1>6, MoveMaps
<1> QED
  BY <1>1, <1>7 DEF Contract!Next, Contract!Create

\* uthread_terminate and uthread_resume of a thread that has not ended itself are
\* the contract's calls of that name.
LEMMA CallMaps ==
    ASSUME UInv, NEW t \in Known, TerminateOther(t) \/ Resume(t)
    PROVE  Contract!Next
<1>1. /\ t \in Ids /\ t \notin Range(toDelete) /\ alive /\ alive' = alive
      /\ toDelete' = toDelete
  BY DEF TerminateOther, Resume, MaskedCall, InClient, Known, Live
<1>2. state \in [Ids -> {"none", "READY", "RUNNING", "BLOCKED"}]
  BY DEF UInv, TypeOK
<1>3. CASE TerminateOther(t)
  <2>1. t # main_thread_id /\ state[t] \in {"READY", "BLOCKED"} /\ Replace({t}, {})
    BY <1>3 DEF TerminateOther
  <2>2. \A v \in Ids : state'[v] = IF v = t THEN "none" ELSE state[v]
    BY <2>1 DEF Replace, Overwrite
  <2>3. Contract!Move(t, "READY", "none") \/ Contract!Move(t, "BLOCKED", "none")
    BY <1>1, <2>1, <2>2, OneThreadMaps
  <2> QED
    BY <1>1, <2>1, <2>3 DEF Contract!Next, Contract!Terminate
<1>4. CASE Resume(t)
  <2>1. state[t] = "BLOCKED" /\ state' = [state EXCEPT ![t] = "READY"]
    BY <1>4 DEF Resume
  <2>2. \A v \in Ids : state'[v] = IF v = t THEN "READY" ELSE state[v]
    BY <1>2, <2>1
  <2>3. Contract!Move(t, "BLOCKED", "READY")
    BY <1>1, <2>1, <2>2, OneThreadMaps
  <2> QED
    BY <1>1, <2>3 DEF Contract!Next, Contract!Resume
<1> QED
  BY <1>3, <1>4

\* uthread_block blocks a thread that is ready; one that is blocked, or has ended
\* itself, remains what it is.
LEMMA BlockMaps ==
    ASSUME UInv, NEW t \in Ids, BlockOther(t)
    PROVE  Contract!Next \/ UNCHANGED Contract!vars
<1>1. /\ t # main_thread_id /\ t # running /\ state[t] # "none" /\ alive
      /\ state' = [state EXCEPT ![t] = "BLOCKED"]
      /\ alive' = alive /\ toDelete' = toDelete
  BY DEF BlockOther, Others, Live, MaskedCall, InClient
<1>2. /\ state \in [Ids -> {"none", "READY", "RUNNING", "BLOCKED"}]
      /\ \A v \in Ids : state[v] = "RUNNING" <=> v = running
      /\ \A v \in Range(toDelete) : state[v] = "BLOCKED"
  BY DEF UInv, TypeOK, SchedInv, IdsPartition
<1>3. \A v \in Ids : state'[v] = IF v = t THEN "BLOCKED" ELSE state[v]
  BY <1>1, <1>2
<1>4. CASE state[t] = "READY"
  <2>1. t \notin Range(toDelete)
    BY <1>2, <1>4
  <2>2. Contract!Move(t, "READY", "BLOCKED")
    BY <1>1, <1>3, <1>4, <2>1, OneThreadMaps
  <2> QED
    BY <1>1, <2>2 DEF Contract!Next, Contract!Block
<1>5. CASE state[t] = "BLOCKED"
  <2>1. \A v \in Ids : state'[v] = state[v]
    BY <1>3, <1>5
  <2> QED
    BY <1>1, <2>1, StutterMaps
<1> QED
  BY <1>1, <1>2, <1>4, <1>5

\* Every step of the library is a step of the contract or none.
LEMMA NextMaps ==
    ASSUME UInv, [Next]_vars
    PROVE  [Contract!Next]_(Contract!vars)
<1>1. CASE TimerExpires \/ Exited \/ UNCHANGED vars
  <2>1. UNCHANGED <<state, toDelete, alive>>
    BY <1>1 DEF TimerExpires, Exited, vars, threadVars
  <2> QED
    BY <2>1, StutterMaps
<1>2. CASE Exit
  <2>1. alive /\ alive' = FALSE /\ UNCHANGED <<state, toDelete>>
    BY <1>2 DEF Exit, InClient, threadVars
  <2>2. Contract!Exit
    BY <2>1 DEF Contract!Exit
  <2> QED
    BY <2>1, <2>2 DEF Contract!Next
<1>3. CASE Preempt
  BY <1>3, PreemptMaps
<1>4. CASE Spawn
  BY <1>4, SpawnMaps
<1>5. CASE TerminateSelf \/ BlockSelf \/ \E n \in 1..MaxSleep : Sleep(n)
  BY <1>5, GiveUpMaps
<1>6. CASE \E t \in Ids : BlockOther(t)
  BY <1>6, BlockMaps
<1>7. ASSUME NEW t \in Known, TerminateOther(t) \/ Resume(t)
      PROVE  [Contract!Next]_(Contract!vars)
  BY <1>7, CallMaps
<1> QED
  BY <1>1, <1>2, <1>3, <1>4, <1>5, <1>6, <1>7 DEF Next, Step

\* With clients that do not terminate or resume a thread that has ended itself,
\* the life of every thread is the one uthreads.h describes, for every size of
\* the table.
THEOREM ThreadsImplementContract == Spec => ImplementsContract
<1>1. Init => Contract!Init
  BY DEF Init, Contract!Init, Range
<1>2. UInv /\ [Next]_vars => [Contract!Next]_(Contract!vars)
  BY NextMaps
<1> QED
  BY <1>1, <1>2, ThreadsInvariant, PTL DEF Spec, ImplementsContract, Contract!Spec

=============================================================================

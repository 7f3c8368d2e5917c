------------------------ MODULE MemoryLatencyProofs ------------------------
(***************************************************************************)
(* Theorems about MemoryLatency, for every width of a word, every size and *)
(* every content of the array: both loops of a measurement make the same   *)
(* walk, it stays in the array, and the register stays alive.              *)
(***************************************************************************)
EXTENDS MemoryLatency, FiniteSetTheorems, WellFoundedInduction, TLAPS

(***************************************************************************)
(* The inductive invariant                                                 *)
(***************************************************************************)
RandomLoops == {"random baseline", "random access"}
SequentialLoops == {"sequential baseline", "sequential access"}

\* h holds the values of the register on a random walk w over n elements, and the
\* value after it.
Recorded(n, h, w) ==
    /\ h \in Seq(Register) /\ Len(h) = Len(w) + 1 /\ h[1] = Seed
    /\ \A k \in 1..Len(w) : w[k] = h[k] % n /\ h[k + 1] = Advance(h[k])

\* A sequential walk goes through the n elements and begins anew behind the last.
Sequential(n, w) == \A k \in 1..Len(w) : w[k] = (k - 1) % n

\* What the check of the arguments and the bounds of the loops leave.
ArgsInv ==
    /\ input \in [max_size : MaxSizes, factor : Factors, repeat : Repeats]
    /\ pc \notin {"args", "exit"} => factor >= One
    /\ size >= INITIAL_SIZE
    /\ pc \in RandomLoops \cup SequentialLoops => size <= max_size /\ Len(walk) <= Times

\* The random walk is the one the seed determines, in the second loop as in the first.
RandomInv ==
    /\ pc \in RandomLoops => rnd # 0
    /\ pc = "random baseline" =>
          \E h \in Seq(Register) : Recorded(ArrSize, h, walk) /\ rnd = h[Len(walk) + 1]
    /\ pc = "random access" =>
          \E h \in Seq(Register) :
             /\ Recorded(ArrSize, h, base) /\ rnd = h[Len(walk) + 1] /\ Len(base) = Times
             /\ \A k \in 1..Len(walk) : walk[k] = base[k]

SequentialInv ==
    /\ pc \in SequentialLoops => rnd = 0 /\ Sequential(ArrSize, walk)
    /\ pc = "sequential access" => Sequential(ArrSize, base) /\ Len(base) = Times

IInv == TypeOK /\ ArgsInv /\ RandomInv /\ SequentialInv

(***************************************************************************)
(* Numbers and bits                                                        *)
(***************************************************************************)
\* A power of two counts sets; with one number more there are twice as many.
LEMMA PowerDoubles ==
    ASSUME NEW n \in Nat
    PROVE  2 ^ n \in Nat /\ 2 ^ n > 0 /\ 2 ^ (n + 1) = 2 * 2 ^ n
<1> DEFINE A == SUBSET (1..n)
           C == SUBSET (1..(n + 1))
           B == C \ A
           f == [x \in A |-> x \cup {n + 1}]
<1>1. /\ IsFiniteSet(A) /\ Cardinality(A) = 2 ^ n /\ Cardinality(A) \in Nat
      /\ IsFiniteSet(C) /\ Cardinality(C) = 2 ^ (n + 1)
  <2>1. IsFiniteSet(1..n) /\ Cardinality(1..n) = n
    BY FS_Interval
  <2>2. n + 1 \in Nat /\ IsFiniteSet(1..(n + 1)) /\ Cardinality(1..(n + 1)) = n + 1
    <3>1. n + 1 \in Int /\ 1 \in Int /\ ~(1 > n + 1) /\ (n + 1) - 1 + 1 = n + 1 /\ n + 1 \in Nat
      OBVIOUS
    <3> QED
      BY <3>1, FS_Interval
  <2>3. /\ IsFiniteSet(SUBSET (1..n)) /\ Cardinality(SUBSET (1..n)) = 2 ^ Cardinality(1..n)
        /\ IsFiniteSet(SUBSET (1..(n + 1)))
        /\ Cardinality(SUBSET (1..(n + 1))) = 2 ^ Cardinality(1..(n + 1))
    BY <2>1, <2>2, FS_SUBSET
  <2>4. Cardinality(SUBSET (1..n)) \in Nat
    BY <2>3, FS_CardinalityType
  <2> QED
    BY <2>1, <2>2, <2>3, <2>4
<1>2. n + 1 \notin 1..n /\ n + 1 \in 1..(n + 1) /\ 1..(n + 1) = (1..n) \cup {n + 1}
  OBVIOUS
<1>3. f \in Bijection(A, B)
  <2>1. ASSUME NEW x \in A PROVE f[x] = x \cup {n + 1} /\ f[x] \in B
    BY <1>2
  <2>2. ASSUME NEW x \in A, NEW y \in A, f[x] = f[y] PROVE x = y
    <3>1. x \cup {n + 1} = y \cup {n + 1} /\ n + 1 \notin x /\ n + 1 \notin y
      BY <1>2, <2>1, <2>2
    <3> QED
      BY <3>1
  <2>3. ASSUME NEW z \in B PROVE \E x \in A : f[x] = z
    <3>1. n + 1 \in z /\ z \ {n + 1} \in A /\ (z \ {n + 1}) \cup {n + 1} = z
      BY <1>2
    <3> QED
      BY <2>1, <3>1
  <2>4. f \in [A -> B]
    BY <2>1
  <2> HIDE DEF f, A, B, C
  <2> QED
    BY <2>2, <2>3, <2>4 DEF Bijection, Injection, Surjection, IsInjective
<1>4. A \cup B = C /\ A \cap B = {} /\ {} \in A
  BY <1>2
<1> HIDE DEF f, A, B, C
<1>5. IsFiniteSet(B) /\ Cardinality(B) = Cardinality(A)
  BY <1>1, <1>3, FS_Bijection DEF ExistsBijection
<1>6. Cardinality(A \cup B) = Cardinality(A) + Cardinality(B) - Cardinality(A \cap B)
  BY <1>1, <1>5, FS_Union
<1>7. Cardinality({}) = 0 /\ Cardinality(A) # 0
  BY <1>1, <1>4, FS_EmptySet
<1>8. Cardinality(C) = Cardinality(A) + Cardinality(A)
  <2>1. Cardinality(C) = Cardinality(A) + Cardinality(A) - 0
    BY <1>4, <1>5, <1>6, <1>7
  <2> QED
    BY <1>1, <2>1
<1>9. \A i \in Nat : i # 0 => i > 0 /\ i + i = 2 * i
  OBVIOUS
<1> QED
  BY <1>1, <1>7, <1>8, <1>9

\* The register is shifted out of the reach of the highest tap.
LEMMA Halves ==
    ASSUME NEW r \in Register
    PROVE  /\ r \in Nat /\ r \div 2 \in Register /\ r \div 2 < GALOIS_POLYNOMIAL
           /\ 0 \in Register /\ (r % 2 = 0 /\ r # 0 => r \div 2 # 0)
<1> DEFINE top == 2 ^ (WIDTH - 1)
<1>1. WIDTH - 1 \in Nat /\ WIDTH - 2 \in Nat /\ WIDTH - 4 \in Nat /\ WIDTH - 5 \in Nat
      /\ (WIDTH - 1) + 1 = WIDTH
  BY LatencyAssumption
<1>2. top \in Nat /\ top > 0 /\ 2 ^ WIDTH = 2 * top
  BY <1>1, PowerDoubles
<1>3. 2 ^ (WIDTH - 2) \in Nat /\ 2 ^ (WIDTH - 4) \in Nat /\ 2 ^ (WIDTH - 5) \in Nat
  BY <1>1, PowerDoubles
<1>4. 2 ^ (WIDTH - 4) + 2 ^ (WIDTH - 5) > 0
  BY <1>1, <1>3, PowerDoubles
<1>5. GALOIS_POLYNOMIAL = top + 2 ^ (WIDTH - 2) + 2 ^ (WIDTH - 4) + 2 ^ (WIDTH - 5)
  BY DEF GALOIS_POLYNOMIAL
<1> HIDE DEF top
<1>6. GALOIS_POLYNOMIAL >= top /\ GALOIS_POLYNOMIAL \in Nat
  BY <1>2, <1>3, <1>5
<1>7. r \in 0..(2 * top - 1) /\ Register = 0..(2 * top - 1)
  BY <1>2 DEF Register
<1>8. r \div 2 \in Nat /\ r \div 2 < top
  BY <1>2, <1>7
<1> QED
  BY <1>2, <1>6, <1>7, <1>8

\* Advance: the register keeps its width, a zero stays and nothing else becomes zero.
LEMMA AdvanceKeeps ==
    ASSUME NEW r \in Register
    PROVE  /\ Advance(r) \in Register /\ Advance(0) = 0
           /\ r # 0 => Advance(r) # 0
<1>1. /\ r \in Nat /\ r \div 2 \in Register /\ r \div 2 # GALOIS_POLYNOMIAL
      /\ 0 \in Register /\ (r % 2 = 0 /\ r # 0 => r \div 2 # 0)
  <2>1. r \div 2 < GALOIS_POLYNOMIAL /\ r \div 2 \in Int
    BY Halves DEF Register
  <2>2. \A i \in Int : ~(i < i)
    OBVIOUS
  <2> QED
    BY <2>1, <2>2, Halves
<1>2. xor(r \div 2, 0) = r \div 2 /\ xor(0, 0) = 0
  BY <1>1, BitsAssumption
<1>3. /\ xor(r \div 2, GALOIS_POLYNOMIAL) \in Register
      /\ xor(r \div 2, GALOIS_POLYNOMIAL) # 0
  BY <1>1, BitsAssumption
<1>4. 0 \div 2 = 0 /\ 0 % 2 = 0 /\ r % 2 \in {0, 1}
  BY <1>1
<1>5. CASE r % 2 = 1
  BY <1>2, <1>3, <1>4, <1>5 DEF Advance
<1>6. CASE r % 2 = 0
  BY <1>1, <1>2, <1>4, <1>6 DEF Advance
<1> QED
  BY <1>4, <1>5, <1>6

\* What is read is masked: the register advances as if nothing had been read.
LEMMA Masked ==
    ASSUME NEW r \in Register, NEW w \in Register
    PROVE  /\ Advance(xor(r, and(w, zero))) = Advance(r)
           /\ Reseed(r) = Seed /\ Seed \in Register /\ Seed # 0
<1>1. and(w, zero) = 0 /\ and(r, zero) = 0 /\ xor(r, 0) = r
  BY BitsAssumption DEF zero
<1>2. Seed \in Register /\ Seed # 0
  BY LatencyAssumption DEF Seed
<1>3. xor(0, Seed) = Seed
  BY <1>2, BitsAssumption
<1> QED
  BY <1>1, <1>2, <1>3 DEF Reseed

\* The array has elements, and they are within its bytes.
LEMMA Elements ==
    ASSUME size \in Nat, size >= INITIAL_SIZE
    PROVE  /\ ArrSize \in Nat /\ ArrSize > 0 /\ ArrSize * ElementSize <= size
           /\ \A i \in Nat : i % ArrSize \in Nat /\ i % ArrSize < ArrSize
           /\ \A i \in 0..(ArrSize - 1) : i \in Nat /\ i % ArrSize = i
<1>1. size \div 8 \in Nat /\ size \div 8 > 0 /\ (size \div 8) * 8 <= size
  BY DEF INITIAL_SIZE
<1>2. ArrSize \in Nat /\ ArrSize > 0 /\ ArrSize * ElementSize <= size
  BY <1>1 DEF ArrSize, ElementSize
<1> HIDE DEF ArrSize
<1>3. \A i \in Nat : i % ArrSize \in Nat /\ i % ArrSize < ArrSize
  BY <1>2
<1>4. ASSUME NEW i \in 0..(ArrSize - 1) PROVE i \in Nat /\ i % ArrSize = i
  BY <1>2
<1> QED
  BY <1>2, <1>3, <1>4

(***************************************************************************)
(* One step                                                                *)
(***************************************************************************)
\* A walk is a sequence, one longer with every element.
LEMMA Longer ==
    ASSUME NEW s \in Seq(Nat), NEW e \in Nat, NEW t, t = Append(s, e)
    PROVE  /\ Len(s) \in Nat /\ t \in Seq(Nat) /\ Len(t) = Len(s) + 1 /\ t[Len(s) + 1] = e
           /\ \A k \in 1..Len(s) : t[k] = s[k]
OBVIOUS

\* A walk that visits one element more, and the register advanced with it.
LEMMA RecordMore ==
    ASSUME NEW n, NEW h, NEW w \in Seq(Nat), Recorded(n, h, w),
           NEW r \in Register, r = h[Len(w) + 1]
    PROVE  Recorded(n, Append(h, Advance(r)), Append(w, r % n))
<1> DEFINE g == Append(h, Advance(r))
           v == Append(w, r % n)
           l == Len(w)
<1>1. h \in Seq(Register) /\ Len(h) = l + 1 /\ l \in Nat /\ h[1] = Seed /\ Advance(r) \in Register
  BY AdvanceKeeps DEF Recorded
<1>2. g \in Seq(Register) /\ Len(g) = l + 2 /\ g[l + 2] = Advance(r)
      /\ \A k \in 1..(l + 1) : g[k] = h[k]
  BY <1>1
<1>3. Len(v) = l + 1 /\ v[l + 1] = r % n /\ \A k \in 1..l : v[k] = w[k]
  OBVIOUS
<1>4. \A k \in 1..l : w[k] = h[k] % n /\ h[k + 1] = Advance(h[k])
  BY DEF Recorded
<1> HIDE DEF g, v, l
<1>5. ASSUME NEW k \in 1..(l + 1) PROVE v[k] = g[k] % n /\ g[k + 1] = Advance(g[k])
  <2>1. CASE k = l + 1
    <3>1. g[k] = r /\ k + 1 = l + 2
      BY <1>1, <1>2, <2>1 DEF l
    <3> QED
      BY <1>2, <1>3, <2>1, <3>1
  <2>2. CASE k # l + 1
    <3>1. k \in 1..l /\ k \in 1..(l + 1) /\ k + 1 \in 1..(l + 1)
      BY <1>1, <2>2
    <3> QED
      BY <1>2, <1>3, <1>4, <3>1
  <2> QED
    BY <2>1, <2>2
<1>6. g[1] = Seed /\ Len(g) = Len(v) + 1
  BY <1>1, <1>2, <1>3
<1> QED
  BY <1>2, <1>3, <1>5, <1>6 DEF Recorded, g, v

\* A sequential walk that visits one element more.
LEMMA SequentialMore ==
    ASSUME NEW n, NEW w \in Seq(Nat), Sequential(n, w)
    PROVE  Sequential(n, Append(w, Len(w) % n))
<1>1. /\ Len(Append(w, Len(w) % n)) = Len(w) + 1 /\ Len(w) \in Nat
      /\ Append(w, Len(w) % n)[Len(w) + 1] = Len(w) % n
      /\ \A k \in 1..Len(w) : Append(w, Len(w) % n)[k] = w[k]
  OBVIOUS
<1>2. \A k \in 1..(Len(w) + 1) : k \in 1..Len(w) \/ (k = Len(w) + 1 /\ k - 1 = Len(w))
  BY <1>1
<1> QED
  BY <1>1, <1>2 DEF Sequential

\* The numbers the loops work with, and an iteration leaves them alone.
LEMMA LoopFacts ==
    ASSUME IInv, pc \in RandomLoops \cup SequentialLoops
    PROVE  /\ ArrSize \in Nat /\ ArrSize > 0 /\ Times \in Nat /\ Times >= ArrSize
           /\ \A i \in Nat : i % ArrSize \in Register /\ i % ArrSize \in Nat
           /\ rnd \in Register /\ rnd \in Nat /\ walk \in Seq(Nat) /\ Len(walk) \in Nat
           /\ Len(walk) <= Times
           /\ input' = input /\ size' = size => ArrSize' = ArrSize /\ Times' = Times
<1>1. /\ size \in Nat /\ size >= INITIAL_SIZE /\ size <= max_size /\ Len(walk) <= Times
      /\ rnd \in Register /\ walk \in Seq(Nat)
      /\ input \in [max_size : MaxSizes, factor : Factors, repeat : Repeats]
  BY DEF IInv, TypeOK, ArgsInv
<1>2. /\ ArrSize \in Nat /\ ArrSize > 0 /\ ArrSize * ElementSize <= size
      /\ \A i \in Nat : i % ArrSize \in Nat /\ i % ArrSize < ArrSize
  BY <1>1, Elements
<1>3. max_size \in Register /\ repeat \in Nat
  BY <1>1, LatencyAssumption DEF max_size, repeat
<1>4. ASSUME NEW i \in Nat PROVE i % ArrSize \in Register /\ i % ArrSize \in Nat
  <2>1. i % ArrSize \in Nat /\ i % ArrSize < ArrSize
    BY <1>2
  <2>2. ArrSize <= size
    BY <1>1, <1>2 DEF ElementSize
  <2>3. \A a \in Nat : a < ArrSize => a <= max_size
    BY <1>1, <1>2, <1>3, <2>2 DEF Register
  <2>4. \A a \in Nat : a <= max_size => a \in Register
    <3>1. WIDTH \in Nat
      BY LatencyAssumption
    <3>2. 2 ^ WIDTH \in Nat
      BY <3>1, PowerDoubles
    <3> QED
      BY <1>3, <3>2 DEF Register
  <2> QED
    BY <2>1, <2>3, <2>4
<1>5. Times \in Nat /\ Times >= ArrSize
  BY <1>2, <1>3 DEF Times
<1>6. rnd \in Nat /\ Len(walk) \in Nat
  BY <1>1, Halves
<1>7. input' = input /\ size' = size => ArrSize' = ArrSize /\ Times' = Times
  BY DEF ArrSize, Times, repeat
<1> QED
  BY <1>1, <1>2, <1>4, <1>5, <1>6, <1>7

\* The powers of two of a double.
LEMMA DoubleBits ==
    /\ One \in Nat /\ One > 0
    /\ 2 ^ PRECISION \in Nat /\ 2 ^ PRECISION > 0
    /\ PRECISION - 1 \in 0..WIDTH
<1>1. PRECISION \in Nat /\ PRECISION - 1 \in Nat /\ PRECISION - 1 \in 0..WIDTH
  BY LatencyAssumption, SizesAssumption
<1> QED
  BY <1>1, PowerDoubles DEF One

\* What division makes of a multiple, and of more than one.
LEMMA Division ==
    ASSUME NEW s \in Nat, NEW b \in Nat, b > 0
    PROVE  /\ s * b \in Nat /\ (s * b) % b = 0 /\ (s * b) \div b = s
           /\ \A a \in Nat : a >= s * b => a \div b \in Nat /\ a \div b >= s
<1>1. s * b \in Nat /\ (s + 1) * b = s * b + b
  OBVIOUS
<1>2. (s * b) \div b = s /\ (s * b) % b = 0
  BY <1>1
<1>3. ASSUME NEW a \in Nat, a >= s * b PROVE a \div b \in Nat /\ a \div b >= s
  BY <1>1, <1>3
<1> QED
  BY <1>1, <1>2, <1>3

\* A size times one is a double.
LEMMA SizesAreDoubles ==
    ASSUME size \in Nat, size < 2 ^ PRECISION
    PROVE  SignificantBits(size * One, PRECISION)
<1>1. (size * One) % One = 0 /\ (size * One) \div One = size
  BY DoubleBits, Division
<1>2. /\ (size * One) % 2 ^ (PRECISION - 1) = 0
      /\ (size * One) \div 2 ^ (PRECISION - 1) < 2 ^ PRECISION
  BY <1>1 DEF One
<1> QED
  BY <1>2, DoubleBits DEF SignificantBits

\* A product by one or more is never rounded below what it would be by one.
LEMMA RoundedAbove ==
    ASSUME NEW n \in Nat, NEW x \in Nat, x <= n, SignificantBits(x, PRECISION),
           NEW p \in Rounded(n)
    PROVE  p \in Nat /\ p >= x
<1> DEFINE h == n \div 2 ^ PRECISION
<1>1. h \in Nat /\ h <= n
  <2>1. \A m \in Nat : m > 0 => n \div m \in Nat /\ n \div m <= n
    OBVIOUS
  <2> QED
    BY <2>1, DoubleBits
<1>2. /\ p \in (n - h)..(n + h)
      /\ \A q \in Doubles(n) : Distance(p, n) <= Distance(q, n)
  BY DEF Rounded, Nearest, Doubles
<1>3. x >= n - h => x \in Doubles(n)
  <2>1. x >= n - h => x \in (n - h)..(n + h)
    BY <1>1
  <2> QED
    BY <2>1 DEF Doubles
<1> HIDE DEF h
<1>4. p \in Int /\ p >= n - h /\ p >= 0
  BY <1>1, <1>2
<1>5. CASE x >= n - h
  <2>1. Distance(p, n) <= Distance(x, n)
    BY <1>2, <1>3, <1>5
  <2>2. Distance(x, n) = n - x
    BY DEF Distance
  <2>3. p < n => Distance(p, n) = n - p
    BY DEF Distance
  <2> QED
    BY <1>4, <2>1, <2>2, <2>3
<1> QED
  BY <1>1, <1>4, <1>5

\* The sizes do not shrink.
LEMMA SizesGrow ==
    ASSUME size \in Nat, size < 2 ^ PRECISION, factor \in Nat, factor >= One,
           NEW p \in Rounded(size * factor)
    PROVE  NextSize(p) \in Nat /\ NextSize(p) >= size
<1>1. size * One \in Nat /\ size * factor \in Nat /\ size * One <= size * factor
  BY DoubleBits
<1>2. p \in Nat /\ p >= size * One
  BY <1>1, SizesAreDoubles, RoundedAbove
<1>3. p + One - 1 \in Nat /\ p + One - 1 >= size * One
  BY <1>1, <1>2, DoubleBits
<1> QED
  BY <1>3, DoubleBits, Division DEF NextSize

(***************************************************************************)
(* The invariant is inductive                                              *)
(***************************************************************************)
\* Init: nothing was allocated yet.
LEMMA InitialInvariant == Init => IInv
<1> SUFFICES ASSUME Init PROVE IInv
  OBVIOUS
<1>1. Seed \in Register
  BY LatencyAssumption
<1>2. TypeOK
  BY <1>1 DEF Init, TypeOK, INITIAL_SIZE
<1>3. ArgsInv
  BY DEF Init, ArgsInv, INITIAL_SIZE, RandomLoops, SequentialLoops
<1>4. RandomInv /\ SequentialInv
  BY DEF Init, RandomInv, SequentialInv, RandomLoops, SequentialLoops
<1> QED
  BY <1>2, <1>3, <1>4 DEF IInv

\* main, up to the loop: arguments that pass the checks are large enough.
LEMMA CheckKeeps ==
    ASSUME IInv, CheckArgs
    PROVE  IInv'
<1>1. /\ pc' \in {"exit", "malloc"} /\ UNCHANGED <<input, size, rnd, walk, base>>
      /\ pc' = "malloc" => ~(factor < One)
  BY DEF CheckArgs
<1>2. factor \in Nat
  BY LatencyAssumption DEF IInv, ArgsInv, factor
<1>3. TypeOK'
  <2>1. rnd \in Register /\ size \in Nat /\ walk \in Seq(Nat) /\ base \in Seq(Nat)
    BY DEF IInv, TypeOK
  <2>2. rnd' \in Register /\ size' \in Nat /\ walk' \in Seq(Nat) /\ base' \in Seq(Nat)
    BY <1>1, <2>1
  <2>3. CASE pc' = "exit"
    BY <2>2, <2>3 DEF TypeOK
  <2>4. CASE pc' = "malloc"
    BY <2>2, <2>4 DEF TypeOK
  <2> QED
    BY <1>1, <2>3, <2>4
<1>4. ArgsInv'
  <2>1. pc' = "malloc" => factor' >= One
    <3>1. factor' = factor
      BY <1>1 DEF factor
    <3>2. ~(factor < One) => factor >= One
      BY <1>2, DoubleBits
    <3> QED
      BY <1>1, <3>1, <3>2
  <2>2. pc' \notin RandomLoops \cup SequentialLoops
    BY <1>1 DEF RandomLoops, SequentialLoops
  <2>3. size' >= INITIAL_SIZE
    BY <1>1 DEF IInv, ArgsInv
  <2>4. input' \in [max_size : MaxSizes, factor : Factors, repeat : Repeats]
    BY <1>1 DEF IInv, ArgsInv
  <2> QED
    BY <1>1, <2>1, <2>2, <2>3, <2>4 DEF ArgsInv
<1>5. RandomInv' /\ SequentialInv'
  <2>1. CASE pc' = "exit"
    BY <2>1 DEF RandomInv, SequentialInv, RandomLoops, SequentialLoops
  <2>2. CASE pc' = "malloc"
    BY <2>2 DEF RandomInv, SequentialInv, RandomLoops, SequentialLoops
  <2> QED
    BY <1>1, <2>1, <2>2
<1> QED
  BY <1>3, <1>4, <1>5 DEF IInv

\* malloc, and the start of measure_latency with the seed.
LEMMA AllocateKeeps ==
    ASSUME IInv, Allocate
    PROVE  IInv'
<1>1. /\ pc = "malloc" /\ pc' \in {"random baseline", "exit"}
      /\ pc' = "random baseline" => size <= max_size
      /\ rnd' = Seed /\ walk' = <<>> /\ base' = <<>> /\ UNCHANGED <<input, size>>
  BY DEF Allocate
<1>2. Seed \in Register /\ Seed # 0
  BY LatencyAssumption DEF Seed
<1>3. TypeOK'
  <2>1. <<>> \in Seq(Nat)
    OBVIOUS
  <2>2. size \in Nat
    BY DEF IInv, TypeOK
  <2> QED
    BY <1>1, <1>2, <2>1, <2>2 DEF TypeOK
<1>4. ArgsInv'
  <2>1. size \in Nat /\ size >= INITIAL_SIZE /\ factor >= One /\ repeat \in Nat
    BY <1>1, LatencyAssumption DEF IInv, TypeOK, ArgsInv, repeat
  <2>2. Times \in Nat
    BY <2>1, Elements DEF Times
  <2>3. Times' = Times /\ max_size' = max_size /\ factor' = factor
    BY <1>1 DEF Times, ArrSize, repeat, max_size, factor
  <2>4. Len(walk') = 0
    BY <1>1
  <2>5. Len(walk') <= Times'
    BY <2>2, <2>3, <2>4
  <2>6. pc' \in RandomLoops \cup SequentialLoops => size' <= max_size'
    BY <1>1, <2>3 DEF RandomLoops, SequentialLoops
  <2>7. /\ input' \in [max_size : MaxSizes, factor : Factors, repeat : Repeats]
        /\ size' >= INITIAL_SIZE /\ factor' >= One
    <3>1. input \in [max_size : MaxSizes, factor : Factors, repeat : Repeats]
      BY DEF IInv, ArgsInv
    <3>2. input' = input /\ size' = size /\ factor' = factor
      BY <1>1, <2>3
    <3> QED
      BY <2>1, <3>1, <3>2
  <2> QED
    BY <2>5, <2>6, <2>7 DEF ArgsInv
<1>5. RandomInv'
  <2>1. <<Seed>> \in Seq(Register) /\ Len(<<Seed>>) = 1 /\ <<Seed>>[1] = Seed
    BY <1>2
  <2>2. Len(walk') = 0
    BY <1>1
  <2>3. Recorded(ArrSize', <<Seed>>, walk')
    BY <2>1, <2>2 DEF Recorded
  <2>4. \E h \in Seq(Register) : Recorded(ArrSize', h, walk') /\ rnd' = h[Len(walk') + 1]
    <3>1. rnd' = <<Seed>>[Len(walk') + 1]
      <4>1. Len(walk') + 1 = 1
        BY <2>2
      <4> QED
        BY <1>1, <2>1, <4>1
    <3> QED
      BY <2>1, <2>3, <3>1
  <2> QED
    BY <1>1, <1>2, <2>4 DEF RandomInv
<1>6. SequentialInv'
  BY <1>1 DEF SequentialInv, SequentialLoops
<1> QED
  BY <1>3, <1>4, <1>5, <1>6 DEF IInv

\* An iteration of a loop leaves all of the invariant that is not about its walk.
LEMMA IterationKeeps ==
    ASSUME IInv, NEW loop \in RandomLoops \cup SequentialLoops,
           NEW i \in Nat, NEW r \in Register, Iterate(loop, i, r)
    PROVE  TypeOK' /\ ArgsInv'
<1>1. /\ pc = loop /\ Len(walk) < Times /\ walk' = Append(walk, i) /\ rnd' = r
      /\ UNCHANGED <<pc, input, size, base>>
  BY DEF Iterate
<1>2. /\ walk \in Seq(Nat) /\ Len(walk) \in Nat /\ Times \in Nat /\ Times' = Times
  BY <1>1, LoopFacts
<1>3. walk' \in Seq(Nat) /\ Len(walk') = Len(walk) + 1
  BY <1>1, <1>2
<1>4. TypeOK'
  BY <1>1, <1>3 DEF IInv, TypeOK
<1>5. max_size' = max_size /\ factor' = factor /\ Len(walk') <= Times'
  BY <1>1, <1>2, <1>3 DEF max_size, factor
<1> QED
  BY <1>1, <1>4, <1>5 DEF IInv, ArgsInv

\* measure_latency, the loop without reads.
LEMMA RandomBaselineKeeps ==
    ASSUME IInv, RandomBaseline
    PROVE  IInv'
<1>1. /\ pc = "random baseline" /\ pc \in RandomLoops
      /\ Iterate("random baseline", RandomIndex, Advance(xor(rnd, and(RandomIndex, zero))))
  BY DEF RandomBaseline, Iterate, RandomLoops
<1>2. /\ rnd \in Register /\ rnd \in Nat /\ walk \in Seq(Nat)
      /\ RandomIndex \in Register /\ RandomIndex \in Nat /\ rnd % ArrSize \in Nat
      /\ Len(walk) \in Nat
      /\ input' = input /\ size' = size => ArrSize' = ArrSize
  BY <1>1, LoopFacts DEF RandomIndex
<1>3. Advance(xor(rnd, and(RandomIndex, zero))) = Advance(rnd)
  BY <1>2, Masked
<1>4. rnd # 0 /\ Advance(rnd) \in Register /\ Advance(rnd) # 0
  BY <1>1, <1>2, AdvanceKeeps DEF IInv, RandomInv
<1>5. TypeOK' /\ ArgsInv'
  BY <1>1, <1>2, <1>3, <1>4, IterationKeeps
<1>6. /\ pc' = "random baseline" /\ walk' = Append(walk, rnd % ArrSize)
      /\ rnd' = Advance(rnd) /\ ArrSize' = ArrSize
  BY <1>1, <1>2, <1>3 DEF Iterate, RandomIndex
<1>7. PICK h \in Seq(Register) : Recorded(ArrSize, h, walk) /\ rnd = h[Len(walk) + 1]
  BY <1>1 DEF IInv, RandomInv
<1> DEFINE g == Append(h, Advance(rnd))
<1>8. Recorded(ArrSize', g, walk')
  BY <1>2, <1>6, <1>7, RecordMore
<1>9. g \in Seq(Register) /\ rnd' = g[Len(walk') + 1]
  <2>1. Len(h) = Len(walk) + 1 /\ Len(walk') = Len(walk) + 1 /\ Len(walk) \in Nat
    <3>1. Len(h) = Len(walk) + 1
      BY <1>7 DEF Recorded
    <3>2. Len(walk') = Len(walk) + 1
      <4>1. walk \in Seq(Nat) /\ rnd % ArrSize \in Nat /\ walk' = Append(walk, rnd % ArrSize)
        BY <1>2, <1>6
      <4> QED
        BY <4>1, Longer
    <3> QED
      BY <1>2, <3>1, <3>2
  <2>2. g \in Seq(Register) /\ g[Len(h) + 1] = Advance(rnd)
    BY <1>4
  <2> QED
    BY <1>6, <2>1, <2>2
<1> HIDE DEF g
<1>10. RandomInv'
  <2>1. \E x \in Seq(Register) : Recorded(ArrSize', x, walk') /\ rnd' = x[Len(walk') + 1]
    BY <1>8, <1>9
  <2> QED
    BY <1>4, <1>6, <2>1 DEF RandomInv
<1>11. SequentialInv'
  BY <1>6 DEF SequentialInv, SequentialLoops
<1> QED
  BY <1>5, <1>10, <1>11 DEF IInv

\* measure_latency, the loop with reads: whatever was read, it goes where the other went.
LEMMA RandomAccessKeeps ==
    ASSUME IInv, RandomAccess
    PROVE  IInv'
<1>1. PICK w \in Words :
         Iterate("random access", RandomIndex, Advance(xor(rnd, and(w, zero))))
  BY DEF RandomAccess
<1>2. pc = "random access" /\ pc \in RandomLoops /\ Len(walk) < Times /\ w \in Register
  BY <1>1, LatencyAssumption DEF Iterate, RandomLoops
<1>3. /\ rnd \in Register /\ rnd \in Nat /\ walk \in Seq(Nat) /\ Len(walk) \in Nat
      /\ RandomIndex \in Register /\ RandomIndex \in Nat /\ Times \in Nat
      /\ rnd % ArrSize \in Nat
      /\ input' = input /\ size' = size => ArrSize' = ArrSize /\ Times' = Times
  BY <1>2, LoopFacts DEF RandomIndex
<1>4. Advance(xor(rnd, and(w, zero))) = Advance(rnd)
  BY <1>2, <1>3, Masked
<1>5. rnd # 0 /\ Advance(rnd) \in Register /\ Advance(rnd) # 0
  BY <1>2, <1>3, AdvanceKeeps DEF IInv, RandomInv
<1>6. TypeOK' /\ ArgsInv'
  BY <1>1, <1>2, <1>3, <1>4, <1>5, IterationKeeps
<1>7. /\ pc' = "random access" /\ walk' = Append(walk, rnd % ArrSize) /\ base' = base
      /\ rnd' = Advance(rnd) /\ ArrSize' = ArrSize /\ Times' = Times
  BY <1>1, <1>2, <1>3, <1>4 DEF Iterate, RandomIndex
<1>8. PICK h \in Seq(Register) :
         /\ Recorded(ArrSize, h, base) /\ rnd = h[Len(walk) + 1] /\ Len(base) = Times
         /\ \A k \in 1..Len(walk) : walk[k] = base[k]
  BY <1>2 DEF IInv, RandomInv
<1>9. base[Len(walk) + 1] = rnd % ArrSize /\ h[(Len(walk) + 1) + 1] = Advance(rnd)
  <2>1. Len(walk) + 1 \in 1..Len(base)
    <3>1. Len(walk) + 1 <= Times
      <4>1. \A a, b \in Nat : a < b => a + 1 <= b
        OBVIOUS
      <4> QED
        BY <1>2, <1>3, <4>1
    <3> QED
      BY <1>3, <1>8, <3>1
  <2> QED
    BY <1>8, <2>1 DEF Recorded
<1>10. /\ Len(walk') = Len(walk) + 1 /\ walk'[Len(walk) + 1] = rnd % ArrSize
       /\ \A k \in 1..Len(walk) : walk'[k] = walk[k]
  <2>1. walk \in Seq(Nat) /\ rnd % ArrSize \in Nat /\ walk' = Append(walk, rnd % ArrSize)
    BY <1>3, <1>7
  <2> QED
    BY <2>1, Longer
<1>11. \A k \in 1..Len(walk') : walk'[k] = base'[k]
  <2>1. \A k \in 1..(Len(walk) + 1) : k \in 1..Len(walk) \/ k = Len(walk) + 1
    BY <1>3
  <2> QED
    BY <1>7, <1>8, <1>9, <1>10, <2>1
<1>12. RandomInv'
  <2>1. /\ Recorded(ArrSize', h, base') /\ rnd' = h[Len(walk') + 1] /\ Len(base') = Times'
    BY <1>7, <1>8, <1>9, <1>10
  <2>2. \E x \in Seq(Register) :
           /\ Recorded(ArrSize', x, base') /\ rnd' = x[Len(walk') + 1] /\ Len(base') = Times'
           /\ \A k \in 1..Len(walk') : walk'[k] = base'[k]
    BY <1>11, <2>1
  <2> QED
    BY <1>5, <1>7, <2>2 DEF RandomInv
<1>13. SequentialInv'
  BY <1>7 DEF SequentialInv, SequentialLoops
<1> QED
  BY <1>6, <1>12, <1>13 DEF IInv

\* From one loop to the next: the walk begins anew.
LEMMA ProceedKeeps ==
    ASSUME IInv, NEW from \in RandomLoops \cup SequentialLoops,
           NEW to \in RandomLoops \cup SequentialLoops,
           NEW r \in Register, NEW b \in Seq(Nat), Proceed(from, to, r, b)
    PROVE  /\ TypeOK' /\ ArgsInv'
           /\ pc = from /\ pc' = to /\ rnd' = r /\ Len(walk') = 0 /\ base' = b
           /\ Len(walk) = Times /\ Times' = Times /\ ArrSize' = ArrSize
<1>1. /\ pc = from /\ pc' = to /\ rnd' = r /\ walk' = <<>> /\ base' = b
      /\ Len(walk) = Times /\ UNCHANGED <<input, size>>
  BY DEF Proceed
<1>2. <<>> \in Seq(Nat) /\ Len(walk') = 0
  BY <1>1
<1>3. Times \in Nat /\ Times' = Times /\ ArrSize' = ArrSize
  BY <1>1, LoopFacts
<1>4. TypeOK'
  <2>1. size' \in Nat
    BY <1>1 DEF IInv, TypeOK
  <2>2. to \in {"random baseline", "random access", "sequential baseline", "sequential access"}
    BY DEF RandomLoops, SequentialLoops
  <2> QED
    BY <1>1, <1>2, <2>1, <2>2 DEF TypeOK
<1>5. ArgsInv'
  <2>1. max_size' = max_size /\ factor' = factor /\ Len(walk') <= Times'
    BY <1>1, <1>2, <1>3 DEF max_size, factor
  <2>2. from \notin {"args", "exit"}
    BY DEF RandomLoops, SequentialLoops
  <2> QED
    BY <1>1, <2>1, <2>2 DEF IInv, ArgsInv
<1> QED
  BY <1>1, <1>2, <1>3, <1>4, <1>5

\* The steps between the loops.
ToReads == Proceed("random baseline", "random access", Reseed(rnd), walk)
ToSequential == Proceed("random access", "sequential baseline", Seed * zero, <<>>)
ToSequentialReads ==
    Proceed("sequential baseline", "sequential access", Reseed(rnd) * zero, walk)

\* measure_latency, between the loops: the seed is set anew.
LEMMA ReadsBegin ==
    ASSUME IInv, ToReads
    PROVE  IInv'
<1>1. "random baseline" \in RandomLoops /\ "random access" \in RandomLoops
  BY DEF RandomLoops
<1>2. rnd \in Register /\ walk \in Seq(Nat)
  BY DEF IInv, TypeOK
<1>3. Reseed(rnd) = Seed /\ Seed \in Register /\ Seed # 0
  BY <1>2, Masked
<1>4. /\ TypeOK' /\ ArgsInv' /\ pc = "random baseline" /\ pc' = "random access" /\ rnd' = Seed
      /\ Len(walk') = 0 /\ base' = walk
      /\ Len(walk) = Times /\ Times' = Times /\ ArrSize' = ArrSize
  BY <1>1, <1>2, <1>3, ProceedKeeps DEF ToReads
<1>5. PICK h \in Seq(Register) : Recorded(ArrSize, h, walk)
  BY <1>4 DEF IInv, RandomInv
<1>6. h[1] = Seed
  BY <1>5 DEF Recorded
<1>7. RandomInv'
  <2>1. rnd' = h[Len(walk') + 1]
    <3>1. Len(walk') = 0
      BY <1>4
    <3>2. Len(walk') + 1 = 1
      BY <3>1
    <3> QED
      BY <1>4, <1>6, <3>2
  <2>2. \A k \in 1..Len(walk') : walk'[k] = base'[k]
    <3>1. Len(walk') = 0
      BY <1>4
    <3> QED
      BY <3>1
  <2>3. \E x \in Seq(Register) :
           /\ Recorded(ArrSize', x, base') /\ rnd' = x[Len(walk') + 1] /\ Len(base') = Times'
           /\ \A k \in 1..Len(walk') : walk'[k] = base'[k]
    BY <1>4, <1>5, <2>1, <2>2
  <2> QED
    BY <1>3, <1>4, <2>3 DEF RandomInv
<1>8. SequentialInv'
  BY <1>4 DEF SequentialInv, SequentialLoops
<1> QED
  BY <1>4, <1>7, <1>8 DEF IInv

\* From measure_latency to measure_sequential_latency, and between the loops of it:
\* the register is multiplied by zero.
LEMMA SequentialBegins ==
    ASSUME IInv, ToSequential \/ ToSequentialReads
    PROVE  IInv'
<1>1. /\ "sequential baseline" \in SequentialLoops /\ "sequential access" \in SequentialLoops
      /\ "random access" \in RandomLoops
      /\ "sequential baseline" \notin RandomLoops /\ "sequential access" \notin RandomLoops
      /\ "sequential baseline" # "random baseline" /\ "sequential baseline" # "random access"
  BY DEF RandomLoops, SequentialLoops
<1>2. rnd \in Register /\ walk \in Seq(Nat) /\ <<>> \in Seq(Nat)
  <2>1. <<>> \in Seq(Nat)
    OBVIOUS
  <2> QED
    BY <2>1 DEF IInv, TypeOK
<1>3. Seed * zero = 0 /\ Reseed(rnd) * zero = 0 /\ 0 \in Register
  <2>1. Reseed(rnd) = Seed /\ 0 \in Register
    BY <1>2, Masked, Halves
  <2>2. Seed * zero = 0
    BY DEF Seed, zero
  <2> QED
    BY <2>1, <2>2
<1>4. CASE ToSequential
  <2>1. /\ TypeOK' /\ ArgsInv' /\ pc' = "sequential baseline" /\ rnd' = 0 /\ Len(walk') = 0
    BY <1>1, <1>2, <1>3, <1>4, ProceedKeeps DEF ToSequential
  <2>2. Sequential(ArrSize', walk')
    <3>1. Len(walk') = 0
      BY <2>1
    <3>2. \A k \in 1..Len(walk') : FALSE
      BY <3>1
    <3> QED
      BY <3>2 DEF Sequential
  <2>3. RandomInv'
    BY <1>1, <2>1 DEF RandomInv
  <2>4. SequentialInv'
    BY <1>1, <2>1, <2>2 DEF SequentialInv
  <2> QED
    BY <2>1, <2>3, <2>4 DEF IInv
<1>5. CASE ToSequentialReads
  <2>1. /\ TypeOK' /\ ArgsInv' /\ pc = "sequential baseline" /\ pc' = "sequential access"
        /\ rnd' = 0 /\ Len(walk') = 0 /\ base' = walk
        /\ Len(walk) = Times /\ Times' = Times /\ ArrSize' = ArrSize
    BY <1>1, <1>2, <1>3, <1>5, ProceedKeeps DEF ToSequentialReads
  <2>2. Sequential(ArrSize', walk')
    <3>1. Len(walk') = 0
      BY <2>1
    <3>2. \A k \in 1..Len(walk') : FALSE
      BY <3>1
    <3> QED
      BY <3>2 DEF Sequential
  <2>3. Sequential(ArrSize', base') /\ Len(base') = Times'
    BY <1>1, <2>1 DEF IInv, SequentialInv
  <2>4. RandomInv'
    BY <1>1, <2>1 DEF RandomInv
  <2>5. SequentialInv'
    BY <2>1, <2>2, <2>3 DEF SequentialInv
  <2> QED
    BY <2>1, <2>4, <2>5 DEF IInv
<1> QED
  BY <1>4, <1>5

\* measure_sequential_latency, an iteration of either loop: the next element is
\* visited, and the register remains zero.
LEMMA SequentialKeeps ==
    ASSUME IInv, SequentialBaseline \/ SequentialAccess
    PROVE  IInv'
<1>1. /\ pc \in {"sequential baseline", "sequential access"} /\ pc \in SequentialLoops
      /\ pc \notin RandomLoops /\ pc # "random baseline" /\ pc # "random access"
  BY DEF SequentialBaseline, SequentialAccess, Iterate, SequentialLoops, RandomLoops
<1>2. /\ rnd = 0 /\ Sequential(ArrSize, walk)
      /\ pc = "sequential access" => Sequential(ArrSize, base) /\ Len(base) = Times
  BY <1>1 DEF IInv, SequentialInv
<1>3. /\ 0 \in Register /\ walk \in Seq(Nat) /\ Len(walk) \in Nat
      /\ Len(walk) % ArrSize \in Register /\ Len(walk) % ArrSize \in Nat
      /\ input' = input /\ size' = size => ArrSize' = ArrSize /\ Times' = Times
  BY <1>1, <1>2, LoopFacts
<1>4. /\ SequentialIndex = Len(walk) % ArrSize /\ SequentialIndex + rnd = Len(walk) % ArrSize
  <2>1. \A i \in Nat : 0 + i = i /\ (0 + i) + 0 = i
    OBVIOUS
  <2>2. SequentialIndex = 0 + (Len(walk) % ArrSize)
    BY <1>2 DEF SequentialIndex
  <2> QED
    BY <1>2, <1>3, <2>1, <2>2
<1>5. ASSUME NEW w \in Register PROVE zero * Advance(xor(rnd, and(w, zero))) = 0
  <2>1. Advance(xor(rnd, and(w, zero))) = 0
    BY <1>2, <1>3, <1>5, Masked, AdvanceKeeps
  <2> QED
    BY <2>1 DEF zero
<1>6. Iterate(pc, Len(walk) % ArrSize, 0)
  <2>1. CASE SequentialBaseline
    <3>1. Iterate("sequential baseline", SequentialIndex,
                  zero * Advance(xor(rnd, and(SequentialIndex + rnd, zero))))
      BY <2>1 DEF SequentialBaseline
    <3>2. zero * Advance(xor(rnd, and(SequentialIndex + rnd, zero))) = 0
      BY <1>3, <1>4, <1>5
    <3>3. Iterate("sequential baseline", Len(walk) % ArrSize, 0)
      BY <1>4, <3>1, <3>2
    <3> QED
      BY <3>3 DEF Iterate
  <2>2. CASE SequentialAccess
    <3>1. PICK w \in Words : Iterate("sequential access", SequentialIndex + rnd,
                                     zero * Advance(xor(rnd, and(w, zero))))
      BY <2>2 DEF SequentialAccess
    <3>2. zero * Advance(xor(rnd, and(w, zero))) = 0
      BY <1>5, LatencyAssumption
    <3>3. Iterate("sequential access", Len(walk) % ArrSize, 0)
      BY <1>4, <3>1, <3>2
    <3> QED
      BY <3>3 DEF Iterate
  <2> QED
    BY <2>1, <2>2
<1>7. TypeOK' /\ ArgsInv'
  BY <1>1, <1>3, <1>6, IterationKeeps
<1>8. /\ pc' = pc /\ rnd' = 0 /\ base' = base /\ walk' = Append(walk, Len(walk) % ArrSize)
      /\ ArrSize' = ArrSize /\ Times' = Times
  BY <1>3, <1>6 DEF Iterate
<1>9. Sequential(ArrSize', walk')
  BY <1>2, <1>3, <1>8, SequentialMore
<1>10. SequentialInv'
  BY <1>2, <1>8, <1>9 DEF SequentialInv
<1>11. RandomInv'
  BY <1>1, <1>8 DEF RandomInv
<1> QED
  BY <1>7, <1>10, <1>11 DEF IInv

\* main: the next size is no smaller.
LEMMA NextArrayKeeps ==
    ASSUME IInv, NextArray
    PROVE  IInv'
<1>1. /\ pc = "sequential access" /\ pc' = "malloc"
      /\ \E p \in Rounded(size * factor) : size' = NextSize(p)
      /\ walk' = <<>> /\ base' = <<>> /\ UNCHANGED <<input, rnd>>
  BY DEF NextArray
<1>2. /\ size \in Nat /\ size >= INITIAL_SIZE /\ factor >= One /\ factor \in Nat
      /\ input \in [max_size : MaxSizes, factor : Factors, repeat : Repeats]
      /\ rnd \in Register /\ <<>> \in Seq(Nat) /\ size < 2 ^ PRECISION
  <2>1. <<>> \in Seq(Nat)
    OBVIOUS
  <2>2. input \in [max_size : MaxSizes, factor : Factors, repeat : Repeats] /\ Factors \subseteq Nat
    BY LatencyAssumption DEF IInv, ArgsInv
  <2>3. factor \in Nat
    BY <2>2 DEF factor
  <2>4. /\ size \in Nat /\ size >= INITIAL_SIZE /\ factor >= One /\ rnd \in Register
        /\ size <= max_size
    BY <1>1 DEF IInv, TypeOK, ArgsInv, SequentialLoops
  <2>5. max_size \in Nat /\ max_size < 2 ^ PRECISION
    <3>1. max_size \in MaxSizes
      BY <2>2 DEF max_size
    <3>2. MaxSizes \subseteq Nat
      BY LatencyAssumption DEF Register
    <3> QED
      BY <3>1, <3>2, SizesAssumption
  <2>6. size < 2 ^ PRECISION
    BY <2>4, <2>5, DoubleBits
  <2> QED
    BY <2>1, <2>2, <2>3, <2>4, <2>6
<1>3. size' \in Nat /\ size' >= INITIAL_SIZE
  <2>1. size' \in Nat /\ size' >= size
    BY <1>1, <1>2, SizesGrow
  <2>2. \A a, b \in Nat : a >= b /\ b >= INITIAL_SIZE => a >= INITIAL_SIZE
    BY DEF INITIAL_SIZE
  <2> QED
    BY <1>1, <1>2, <2>1, <2>2
<1>4. TypeOK'
  BY <1>1, <1>2, <1>3 DEF TypeOK
<1>5. ArgsInv'
  <2>1. factor' = factor /\ pc' \notin RandomLoops \cup SequentialLoops
    BY <1>1 DEF factor, RandomLoops, SequentialLoops
  <2> QED
    <3>1. input' \in [max_size : MaxSizes, factor : Factors, repeat : Repeats]
      BY <1>1, <1>2
    <3>2. factor' >= One
      BY <1>2, <2>1
    <3> QED
      BY <1>3, <2>1, <3>1, <3>2 DEF ArgsInv
<1>6. RandomInv' /\ SequentialInv'
  BY <1>1 DEF RandomInv, SequentialInv, RandomLoops, SequentialLoops
<1> QED
  BY <1>4, <1>5, <1>6 DEF IInv

\* Every step keeps the invariant: one lemma per action.
LEMMA NextInvariant == IInv /\ [Next]_vars => IInv'
<1> SUFFICES ASSUME IInv, [Next]_vars PROVE IInv'
  OBVIOUS
<1>1. CASE UNCHANGED vars
  <2>1. UNCHANGED <<pc, input, size, rnd, walk, base>>
    BY <1>1 DEF vars
  <2>2. ArrSize' = ArrSize /\ Times' = Times /\ max_size' = max_size /\ factor' = factor
    BY <2>1 DEF ArrSize, Times, max_size, factor, repeat
  <2>3. TypeOK'
    BY <2>1 DEF IInv, TypeOK
  <2>5. ArgsInv'
    BY <2>1, <2>2 DEF IInv, ArgsInv
  <2>4. RandomInv' /\ SequentialInv'
    BY <2>1, <2>2 DEF IInv, RandomInv, SequentialInv
  <2> QED
    BY <2>3, <2>4, <2>5 DEF IInv
<1>2. CASE Next
  <2>1. CASE Exited
    BY <1>1, <2>1 DEF Exited
  <2> QED
    BY <1>2, <2>1, CheckKeeps, AllocateKeeps, RandomBaselineKeeps, ReadsBegin,
       RandomAccessKeeps, SequentialBegins, SequentialKeeps, NextArrayKeeps
       DEF Next, ToReads, ToSequential, ToSequentialReads
<1> QED
  BY <1>1, <1>2

\* The register, both walks and the sizes are as IInv says in all reachable states.
THEOREM LatencyInvariant == Spec => []IInv
<1>1. Init => IInv
  BY InitialInvariant
<1>2. IInv /\ [Next]_vars => IInv'
  BY NextInvariant
<1> QED
  BY <1>1, <1>2, PTL DEF Spec

(***************************************************************************)
(* What the invariant says                                                 *)
(***************************************************************************)
\* The register keeps within its bits, however often it is advanced (TypeOK).
THEOREM LatencyTyped == Spec => []TypeOK
<1>1. IInv => TypeOK
  BY DEF IInv
<1> QED
  BY <1>1, LatencyInvariant, PTL

\* measure_latency, measure_sequential_latency: the loop with reads goes where the
\* loop without them went, whatever the array holds (SameWalk).
THEOREM LoopsWalkAlike == Spec => []SameWalk
<1>1. ASSUME IInv, pc \in {"random access", "sequential access"}
      PROVE  IsPrefix(walk, base)
  <2>1. /\ pc \in RandomLoops \cup SequentialLoops /\ walk \in Seq(Nat) /\ base \in Seq(Nat)
    BY <1>1 DEF IInv, TypeOK, RandomLoops, SequentialLoops
  <2>2. Len(walk) \in Nat /\ Len(base) = Times /\ Len(walk) <= Times
    BY <1>1, <2>1, LoopFacts DEF IInv, RandomInv, SequentialInv
  <2>3. \A k \in 1..Len(walk) : walk[k] = base[k]
    <3>1. CASE pc = "random access"
      BY <1>1, <3>1 DEF IInv, RandomInv
    <3>2. CASE pc = "sequential access"
      <4>1. Sequential(ArrSize, walk) /\ Sequential(ArrSize, base)
        BY <1>1, <3>2 DEF IInv, SequentialInv, SequentialLoops
      <4>2. \A k \in 1..Len(walk) : k \in 1..Len(base)
        BY <2>1, <2>2
      <4> QED
        BY <4>1, <4>2 DEF Sequential
    <3> QED
      BY <1>1, <3>1, <3>2
  <2>4. SubSeq(walk, 1, Len(walk)) = SubSeq(base, 1, Len(walk))
    BY <2>1, <2>2, <2>3
  <2> QED
    BY <2>2, <2>4 DEF IsPrefix
<1>2. IInv => SameWalk
  BY <1>1 DEF SameWalk
<1> QED
  BY <1>2, LatencyInvariant, PTL

\* measure_latency: the register never dies in zero, however long the walk
\* (LfsrAlive).
THEOREM RegisterStaysAlive == Spec => []LfsrAlive
<1>1. IInv => LfsrAlive
  BY DEF IInv, RandomInv, RandomLoops, LfsrAlive
<1> QED
  BY <1>1, LatencyInvariant, PTL

\* Every index of a random or sequential walk is one of an element.
LEMMA WalkInArray ==
    ASSUME IInv, pc \in RandomLoops \cup SequentialLoops, NEW k \in 1..Len(walk)
    PROVE  \E i \in Nat : walk[k] = i % ArrSize
<1>1. walk \in Seq(Nat) /\ Len(walk) \in Nat /\ Len(walk) <= Times /\ Times \in Nat
  BY LoopFacts
<1>2. \A h \in Seq(Register) : \A j \in 1..Len(h) : h[j] \in Nat
  <2>1. \A r \in Register : r \in Nat
    BY Halves
  <2>2. \A h \in Seq(Register) : \A j \in 1..Len(h) : h[j] \in Register
    OBVIOUS
  <2> QED
    BY <2>1, <2>2
<1>3. CASE pc = "random baseline"
  <2>1. PICK h \in Seq(Register) : Recorded(ArrSize, h, walk)
    BY <1>3 DEF IInv, RandomInv
  <2>2. Len(h) = Len(walk) + 1 /\ walk[k] = h[k] % ArrSize
    BY <2>1 DEF Recorded
  <2>3. k \in 1..Len(h)
    BY <1>1, <2>2
  <2> QED
    BY <1>2, <2>2, <2>3
<1>4. CASE pc = "random access"
  <2>1. PICK h \in Seq(Register) : /\ Recorded(ArrSize, h, base) /\ Len(base) = Times
                                   /\ walk[k] = base[k]
    BY <1>4 DEF IInv, RandomInv
  <2>2. k \in 1..Len(base)
    BY <1>1, <2>1
  <2>3. Len(h) = Len(base) + 1 /\ base[k] = h[k] % ArrSize
    BY <2>1, <2>2 DEF Recorded
  <2>4. k \in 1..Len(h)
    BY <1>1, <2>1, <2>2, <2>3
  <2> QED
    BY <1>2, <2>1, <2>3, <2>4
<1>5. CASE pc \in SequentialLoops
  <2>1. walk[k] = (k - 1) % ArrSize
    BY <1>5 DEF IInv, SequentialInv, Sequential
  <2>2. k - 1 \in Nat
    OBVIOUS
  <2> QED
    BY <2>1, <2>2
<1> QED
  BY <1>3, <1>4, <1>5 DEF RandomLoops

\* Outside the loops nothing was visited.
NoWalk == pc \notin RandomLoops \cup SequentialLoops => walk = <<>>

\* measure_latency, measure_sequential_latency: no byte is read that malloc was not
\* asked for, whatever the register holds (InArray).
THEOREM ReadsInArray == Spec => []InArray
<1>1. ASSUME IInv, NoWalk PROVE InArray
  <2> SUFFICES ASSUME NEW k \in DOMAIN walk PROVE (walk[k] + 1) * ElementSize <= size
    BY DEF InArray
  <2>1. walk \in Seq(Nat) /\ size \in Nat /\ size >= INITIAL_SIZE
    BY <1>1 DEF IInv, TypeOK, ArgsInv
  <2>2. k \in 1..Len(walk) /\ walk # <<>> /\ walk[k] \in Nat
    BY <2>1
  <2>3. pc \in RandomLoops \cup SequentialLoops
    BY <1>1, <2>2 DEF NoWalk
  <2>4. PICK i \in Nat : walk[k] = i % ArrSize
    BY <1>1, <2>2, <2>3, WalkInArray
  <2>5. /\ ArrSize \in Nat /\ ArrSize * ElementSize <= size
        /\ i % ArrSize \in Nat /\ i % ArrSize < ArrSize
    BY <2>1, Elements
  <2>6. walk[k] < ArrSize
    BY <2>4, <2>5
  <2> QED
    BY <2>1, <2>2, <2>5, <2>6 DEF ElementSize
<1>2. Init => NoWalk
  BY DEF Init, NoWalk
<1>3. ASSUME NoWalk, [Next]_vars PROVE NoWalk'
  <2>1. CASE CheckArgs \/ Exited \/ UNCHANGED vars
    <3>1. CASE CheckArgs
      BY <1>3, <3>1 DEF CheckArgs, NoWalk, RandomLoops, SequentialLoops
    <3>2. CASE UNCHANGED vars
      BY <1>3, <3>2 DEF vars, NoWalk
    <3> QED
      BY <2>1, <3>1, <3>2 DEF Exited
  <2>2. CASE Allocate \/ NextArray
    BY <2>2 DEF Allocate, NextArray, NoWalk
  <2>3. CASE RandomBaseline \/ RandomAccess \/ SequentialBaseline \/ SequentialAccess
    <3>1. pc' \in RandomLoops \cup SequentialLoops
      BY <2>3 DEF RandomBaseline, RandomAccess, SequentialBaseline, SequentialAccess, Iterate,
                  RandomLoops, SequentialLoops
    <3> QED
      BY <3>1 DEF NoWalk
  <2>4. CASE ToReads \/ ToSequential \/ ToSequentialReads
    BY <2>4 DEF ToReads, ToSequential, ToSequentialReads, Proceed, NoWalk
  <2> QED
    BY <1>3, <2>1, <2>2, <2>3, <2>4 DEF Next, ToReads, ToSequential, ToSequentialReads
<1>4. Spec => []NoWalk
  BY <1>2, <1>3, PTL DEF Spec
<1> QED
  BY <1>1, <1>4, LatencyInvariant, PTL

\* measure_sequential_latency: every element is read, however few repetitions were
\* asked for (ReadsAll).
THEOREM EveryElementRead == Spec => []ReadsAll
<1>1. ASSUME IInv, pc = "sequential access", Len(walk) = Times,
             NEW e \in 0..(size \div ElementSize - 1)
      PROVE  \E k \in DOMAIN walk : walk[k] = e
  <2>1. pc \in RandomLoops \cup SequentialLoops /\ Sequential(ArrSize, walk)
    BY <1>1 DEF IInv, SequentialInv, SequentialLoops
  <2>2. ArrSize \in Nat /\ Times \in Nat /\ Times >= ArrSize /\ walk \in Seq(Nat)
    BY <1>1, <2>1, LoopFacts
  <2>3. e \in 0..(ArrSize - 1) /\ e \in Nat
    BY <2>2 DEF ArrSize
  <2>4. e % ArrSize = e
    BY <1>1, <2>3, Elements DEF IInv, TypeOK, ArgsInv
  <2>5. e + 1 \in 1..Len(walk) /\ (e + 1) - 1 = e /\ DOMAIN walk = 1..Len(walk)
    <3>1. Len(walk) >= ArrSize /\ Len(walk) \in Nat /\ DOMAIN walk = 1..Len(walk)
      <4>1. Len(walk) = Times
        BY <1>1
      <4>2. Len(walk) \in Nat /\ DOMAIN walk = 1..Len(walk)
        BY <2>2
      <4> QED
        BY <2>2, <4>1, <4>2
    <3>2. e < ArrSize
      BY <2>2, <2>3
    <3> QED
      BY <2>2, <2>3, <3>1, <3>2
  <2>6. walk[e + 1] = e
    <3>1. walk[e + 1] = ((e + 1) - 1) % ArrSize
      BY <2>1, <2>5 DEF Sequential
    <3> QED
      BY <2>4, <2>5, <3>1
  <2> QED
    BY <2>5, <2>6
<1>2. IInv => ReadsAll
  BY <1>1 DEF ReadsAll
<1> QED
  BY <1>2, LatencyInvariant, PTL

(***************************************************************************)
(* The growth of the sizes                                                 *)
(***************************************************************************)
\* A set of natural numbers that is not empty has a smallest one.
LEMMA Least ==
    ASSUME NEW T \in SUBSET Nat, T # {}
    PROVE  \E m \in T : \A i \in T : m <= i
<1> DEFINE R == OpToRel(<, Nat)
<1>1. \A i, j \in Nat : <<i, j>> \in R <=> i < j
  BY DEF OpToRel
<1>2. IsWellFoundedOn(R, Nat)
  BY NatLessThanWellFounded
<1> HIDE DEF R
<1>3. PICK m \in T : \A i \in T : <<i, m>> \notin R
  BY <1>2, WFMin
<1>4. \A i \in T : ~(i < m)
  BY <1>1, <1>3
<1> QED
  BY <1>4

\* Powers of two multiply as their exponents add.
LEMMA PowersMultiply ==
    ASSUME NEW k \in Nat, NEW m \in Nat
    PROVE  2 ^ (k + m) = 2 ^ k * 2 ^ m
<1> DEFINE T == {i \in Nat : 2 ^ (k + i) # 2 ^ k * 2 ^ i}
<1> SUFFICES ASSUME T # {} PROVE FALSE
  OBVIOUS
<1> HIDE DEF T
<1>1. PICK i \in T : \A j \in T : i <= j
  BY Least DEF T
<1>2. i \in Nat /\ 2 ^ (k + i) # 2 ^ k * 2 ^ i
  BY DEF T
<1>3. 2 ^ k \in Nat /\ 2 ^ 0 = 1 /\ k + 0 = k
  BY PowerDoubles
<1>4. i # 0
  <2>1. \A a \in Nat : a * 1 = a
    OBVIOUS
  <2>2. 2 ^ (k + 0) = 2 ^ k * 2 ^ 0
    BY <1>3, <2>1
  <2> QED
    BY <1>2, <2>2
<1>5. i - 1 \in Nat /\ (i - 1) + 1 = i /\ k + (i - 1) \in Nat /\ (k + (i - 1)) + 1 = k + i
  BY <1>2, <1>4
<1>6. 2 ^ (k + (i - 1)) = 2 ^ k * 2 ^ (i - 1)
  BY <1>1, <1>5 DEF T
<1>7. 2 ^ i = 2 * 2 ^ (i - 1) /\ 2 ^ (i - 1) \in Nat
  BY <1>5, PowerDoubles
<1>8. 2 ^ (k + i) = 2 * 2 ^ (k + (i - 1))
  BY <1>5, PowerDoubles
<1>9. \A a, b \in Nat : 2 * (a * b) = a * (2 * b)
  OBVIOUS
<1> QED
  BY <1>2, <1>3, <1>6, <1>7, <1>8, <1>9

\* A size lies between a power of two and the next; the power divides what a
\* double counts in.
LEMMA SizeBits ==
    ASSUME size \in Nat, size > 0, size < 2 ^ PRECISION
    PROVE  \E e \in 0..(PRECISION - 1) : \E c \in Nat :
              /\ 2 ^ e \in Nat /\ 2 ^ e > 0 /\ 2 ^ e <= size /\ size < 2 * 2 ^ e
              /\ One = 2 ^ e * c /\ c > 0 /\ (c = 1 \/ c >= 2)
<1>1. PRECISION \in Nat /\ PRECISION - 1 \in Nat
  BY LatencyAssumption, SizesAssumption
<1> DEFINE T == {i \in 0..(PRECISION - 1) : size < 2 ^ (i + 1)}
<1>2. PRECISION - 1 \in T /\ T \in SUBSET Nat
  BY <1>1
<1> HIDE DEF T
<1>3. PICK e \in T : \A i \in T : e <= i
  BY <1>2, Least
<1>4. e \in Nat /\ e \in 0..(PRECISION - 1) /\ size < 2 ^ (e + 1)
  BY <1>1, <1>3 DEF T
<1>5. 2 ^ e \in Nat /\ 2 ^ e > 0 /\ size < 2 * 2 ^ e
  BY <1>4, PowerDoubles
<1>6. 2 ^ e <= size
  <2>1. CASE e = 0
    <3>1. 2 ^ 0 = 1
      OBVIOUS
    <3> QED
      BY <2>1, <3>1
  <2>2. CASE e # 0
    <3>1. e - 1 \in 0..(PRECISION - 1) /\ (e - 1) + 1 = e /\ e - 1 \notin T
      BY <1>1, <1>3, <1>4, <2>2
    <3> QED
      BY <1>5, <3>1 DEF T
  <2> QED
    BY <2>1, <2>2
<1> DEFINE m == (PRECISION - 1) - e
           c == 2 ^ m
<1>7. m \in Nat /\ e + m = PRECISION - 1
  BY <1>1, <1>4
<1> HIDE DEF m
<1>8. One = 2 ^ e * c /\ c \in Nat /\ c > 0
  <2>1. 2 ^ (e + m) = 2 ^ e * 2 ^ m
    BY <1>4, <1>7, PowersMultiply
  <2>2. 2 ^ m \in Nat /\ 2 ^ m > 0
    BY <1>7, PowerDoubles
  <2> QED
    BY <1>7, <2>1, <2>2 DEF One
<1> QED
  BY <1>4, <1>5, <1>6, <1>8

\* Above a size there is a double no further than a factor above one takes it.
LEMMA DoubleAbove ==
    ASSUME size \in Nat, size > 0, size < 2 ^ PRECISION
    PROVE  \E q \in Nat : /\ q > size * One /\ q <= size * One + size
                          /\ SignificantBits(q, PRECISION)
<1>1. PICK e \in 0..(PRECISION - 1) : \E c \in Nat :
              /\ 2 ^ e \in Nat /\ 2 ^ e > 0 /\ 2 ^ e <= size /\ size < 2 * 2 ^ e
              /\ One = 2 ^ e * c /\ c > 0 /\ (c = 1 \/ c >= 2)
  BY SizeBits
<1>2. PICK c \in Nat : One = 2 ^ e * c /\ c > 0 /\ (c = 1 \/ c >= 2)
  BY <1>1
<1> DEFINE u == 2 ^ e
           k == size * c + 1
           q == k * u
<1>3. u \in Nat /\ u > 0 /\ u <= size /\ size < 2 * u /\ One = u * c
  BY <1>1, <1>2
<1>4. /\ PRECISION \in Nat /\ e \in 0..WIDTH /\ PRECISION \in 0..WIDTH
      /\ 2 ^ PRECISION = 2 * One /\ One \in Nat /\ One > 0
  <2>1. PRECISION \in 1..WIDTH /\ WIDTH \in Nat
    BY LatencyAssumption, SizesAssumption
  <2>2. PRECISION - 1 \in Nat /\ (PRECISION - 1) + 1 = PRECISION
    BY <2>1
  <2> QED
    BY <2>1, <2>2, PowerDoubles, DoubleBits DEF One
<1> HIDE DEF u
<1>5. k \in Nat /\ q \in Nat /\ q = size * One + u
  <2>1. size * c \in Nat /\ (size * c + 1) * u = size * (u * c) + u
    BY <1>3
  <2>2. q \in Nat
    BY <1>3, <2>1
  <2> QED
    BY <1>3, <2>1, <2>2
<1>6. q > size * One /\ q <= size * One + size
  <2>1. size * One \in Nat
    BY <1>4
  <2> QED
    BY <1>3, <1>5, <2>1
<1>7. CASE c >= 2
  <2>1. k < 2 * One
    <3>1. size + 1 <= 2 * u
      BY <1>3
    <3>2. (size + 1) * c <= (2 * u) * c
      BY <1>3, <3>1
    <3>3. (size + 1) * c = size * c + c /\ (2 * u) * c = 2 * One /\ size * c \in Nat
      BY <1>3
    <3> QED
      BY <1>4, <1>7, <3>2, <3>3
  <2>2. (k * u) % u = 0 /\ (k * u) \div u = k
    BY <1>3, <1>5, Division
  <2> QED
    BY <1>4, <1>5, <1>6, <2>1, <2>2 DEF SignificantBits, u
<1>8. CASE c = 1
  <2>1. u = One
    BY <1>3, <1>8
  <2>2. CASE k < 2 * One
    <3>1. (k * u) % u = 0 /\ (k * u) \div u = k
      BY <1>3, <1>5, Division
    <3> QED
      BY <1>4, <1>5, <1>6, <2>2, <3>1 DEF SignificantBits, u
  <2>3. CASE ~(k < 2 * One)
    <3>1. k = 2 ^ PRECISION
      BY <1>3, <1>4, <1>8, <2>1, <2>3
    <3>2. q = One * 2 ^ PRECISION
      BY <1>4, <2>1, <3>1
    <3>3. q % 2 ^ PRECISION = 0 /\ q \div 2 ^ PRECISION = One
      BY <1>4, <3>2, DoubleBits, Division
    <3>4. One < 2 ^ PRECISION
      BY <1>4
    <3> QED
      BY <1>4, <1>5, <1>6, <3>3, <3>4 DEF SignificantBits
  <2> QED
    BY <2>2, <2>3
<1> QED
  BY <1>2, <1>7, <1>8

\* With a factor above one the next size is larger.
LEMMA SizesGrowAbove ==
    ASSUME size \in Nat, size > 0, size < 2 ^ PRECISION, factor \in Nat, factor > One,
           NEW p \in Rounded(size * factor)
    PROVE  NextSize(p) > size
<1>1. PICK q \in Nat : /\ q > size * One /\ q <= size * One + size
                       /\ SignificantBits(q, PRECISION)
  BY DoubleAbove
<1>2. One \in Nat /\ One > 0 /\ size * One \in Nat /\ size * factor \in Nat
  BY DoubleBits
<1>3. size * factor >= size * One + size
  <2>1. factor >= One + 1
    BY <1>2
  <2>2. size * factor >= size * (One + 1)
    BY <1>2, <2>1
  <2> QED
    BY <1>2, <2>2
<1>4. p \in Nat /\ p >= q
  <2>1. q <= size * factor
    BY <1>1, <1>2, <1>3
  <2> QED
    BY <1>1, <1>2, <2>1, RoundedAbove
<1>5. p + One - 1 \in Nat /\ p + One - 1 >= (size + 1) * One
  <2>1. (size + 1) * One = size * One + One
    BY <1>2
  <2> QED
    BY <1>1, <1>2, <1>4, <2>1
<1>6. NextSize(p) \in Nat /\ NextSize(p) >= size + 1
  BY <1>2, <1>5, Division DEF NextSize
<1> QED
  BY <1>6

\* With a factor of one it is the same.
LEMMA SizesStay ==
    ASSUME size \in Nat, size < 2 ^ PRECISION, factor = One,
           NEW p \in Rounded(size * factor)
    PROVE  NextSize(p) = size
<1> DEFINE n == size * One
<1>1. One \in Nat /\ One > 0 /\ n \in Nat
  BY DoubleBits
<1>2. SignificantBits(n, PRECISION)
  BY SizesAreDoubles
<1> HIDE DEF n
<1>3. n \in Doubles(n)
  <2>1. \A b \in Nat : b > 0 => n \div b \in Nat
    BY <1>1
  <2>2. n \in (n - n \div 2 ^ PRECISION)..(n + n \div 2 ^ PRECISION)
    BY <1>1, <2>1, DoubleBits
  <2> QED
    BY <1>2, <2>2 DEF Doubles
<1>4. p \in Rounded(n) /\ p \in Nat /\ p >= n
  <2>1. p \in Rounded(n)
    BY DEF n
  <2> QED
    BY <1>1, <1>2, <2>1, RoundedAbove
<1>5. p = n
  <2>1. Distance(p, n) <= Distance(n, n)
    BY <1>3, <1>4 DEF Rounded, Nearest
  <2> QED
    BY <1>1, <1>4, <2>1 DEF Distance
<1>6. (n + One - 1) \div One = size
  <2>1. n = size * One
    BY DEF n
  <2> QED
    BY <1>1, <2>1
<1> QED
  BY <1>5, <1>6 DEF NextSize

\* The next size is larger with a factor above one, and the same with one.
Growth ==
    [][NextArray => IF factor = One THEN size' = size ELSE size' > size]_vars

\* main: with any double above 1.0 the next size is larger, for every precision:
\* what is rounded up by ceil was never rounded down to the size before (Growth).
THEOREM SizesGrowStrictly == Spec => Growth
<1>1. ASSUME IInv, NextArray
      PROVE  IF factor = One THEN size' = size ELSE size' > size
  <2>1. PICK p \in Rounded(size * factor) : size' = NextSize(p)
    BY <1>1 DEF NextArray
  <2>2. size \in Nat /\ size >= INITIAL_SIZE /\ factor >= One /\ size <= max_size
    BY <1>1 DEF NextArray, IInv, TypeOK, ArgsInv, SequentialLoops
  <2>3. input \in [max_size : MaxSizes, factor : Factors, repeat : Repeats]
    BY <1>1 DEF IInv, ArgsInv
  <2>4. factor \in Nat /\ max_size \in MaxSizes
    BY <2>3, LatencyAssumption DEF factor, max_size
  <2>5. max_size \in Nat /\ max_size < 2 ^ PRECISION
    <3>1. MaxSizes \subseteq Nat
      BY LatencyAssumption DEF Register
    <3> QED
      BY <2>4, <3>1, SizesAssumption
  <2>6. size > 0 /\ size < 2 ^ PRECISION
    BY <2>2, <2>5, DoubleBits DEF INITIAL_SIZE
  <2>7. factor = One \/ factor > One
    BY <2>2, <2>4, DoubleBits
  <2> QED
    BY <2>1, <2>2, <2>4, <2>6, <2>7, SizesGrowAbove, SizesStay
<1>2. IInv /\ [Next]_vars => [NextArray => IF factor = One THEN size' = size ELSE size' > size]_vars
  BY <1>1
<1> QED
  BY <1>2, LatencyInvariant, PTL DEF Spec, Growth

=============================================================================

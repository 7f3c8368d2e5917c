--------------------------- MODULE PageTreeProofs ----------------------------
(***************************************************************************)
(* Lemmas about the tree of VirtualMemory, for every width of addresses    *)
(* and offsets and for any content of the RAM: the prefixes of a page, the *)
(* routes, and what linking and unlinking a frame changes of them.         *)
(***************************************************************************)
EXTENDS VirtualMemory, FiniteSetTheorems, WellFoundedInduction, TLAPS

(***************************************************************************)
(* Numbers                                                                 *)
(***************************************************************************)
\* A set of natural numbers that is not empty has a smallest one.
LEMMA Smallest ==
    ASSUME NEW T \in SUBSET Nat, T # {}
    PROVE  \E m \in T : \A i \in T : m <= i
<1> DEFINE R == OpToRel(<, Nat)
<1>1. \A i, j \in Nat : <<i, j>> \in R <=> i < j
  BY DEF OpToRel
<1>2. IsWellFoundedOn(R, Nat)
  BY NatLessThanWellFounded
<1> HIDE DEF R
<1>3. PICK m \in T : \A i \in T : <<i, m>> \notin R
  BY <1>2, WFMin
<1>4. \A i \in T : ~(i < m)
  BY <1>1, <1>3
<1> QED
  BY <1>4

\* Induction over the numbers up to a bound, for a set.
LEMMA SetInduction ==
    ASSUME NEW n \in Nat, NEW S, 0 \in S, \A i \in 0..(n - 1) : i \in S => i + 1 \in S
    PROVE  0..n \subseteq S
<1> DEFINE T == {i \in 0..n : i \notin S}
<1> SUFFICES ASSUME T # {} PROVE FALSE
  OBVIOUS
<1>1. T \in SUBSET Nat
  OBVIOUS
<1> HIDE DEF T
<1>2. PICK i \in T : \A j \in T : i <= j
  BY <1>1, Smallest
<1> USE DEF T
<1>3. i \in 1..n /\ i - 1 \in 0..(n - 1)
  BY <1>2
<1>4. i - 1 \in S
  BY <1>2, <1>3
<1>5. i - 1 + 1 = i
  BY <1>3
<1> QED
  BY <1>2, <1>3, <1>4, <1>5

\* A set of numbers that is bounded has a largest one.
LEMMA BoundedMax ==
    ASSUME NEW n \in Int, NEW S \in SUBSET Int, S # {}, \A x \in S : x <= n
    PROVE  \E m \in S : \A x \in S : x <= m
<1> DEFINE T == {n - x : x \in S}
<1>1. T \in SUBSET Nat /\ T # {}
  <2>1. \A x \in S : n - x \in Nat
    OBVIOUS
  <2> QED
    BY <2>1
<1> HIDE DEF T
<1>2. PICK t \in T : \A u \in T : t <= u
  BY <1>1, Smallest
<1>3. PICK m \in S : t = n - m
  BY <1>2 DEF T
<1>4. ASSUME NEW x \in S PROVE x <= m
  <2>1. n - x \in T
    BY DEF T
  <2>2. n - m <= n - x
    BY <1>2, <1>3, <2>1
  <2> QED
    BY <2>2
<1> QED
  BY <1>4

\* A power of two counts the sets of numbers up to its exponent.
LEMMA PowerCounts ==
    ASSUME NEW n \in Nat
    PROVE  /\ IsFiniteSet(SUBSET (1..n)) /\ Cardinality(SUBSET (1..n)) = 2 ^ n
           /\ 2 ^ n \in Nat
<1>1. IsFiniteSet(1..n) /\ Cardinality(1..n) = n
  BY FS_Interval
<1>2. /\ IsFiniteSet(SUBSET (1..n)) /\ Cardinality(SUBSET (1..n)) = 2 ^ Cardinality(1..n)
  BY <1>1, FS_SUBSET
<1> QED
  BY <1>1, <1>2, FS_CardinalityType

\* Powers of two multiply as their exponents add: a set of numbers up to the sum
\* is a set of those up to the first and one of those behind.
LEMMA PowerAdds ==
    ASSUME NEW m \in Nat, NEW n \in Nat
    PROVE  2 ^ (m + n) = 2 ^ m * 2 ^ n
<1> DEFINE A == SUBSET (1..m)
           B == SUBSET (1..n)
           C == SUBSET (1..(m + n))
           up(V) == {v + m : v \in V}
           f == [x \in A \X B |-> x[1] \cup up(x[2])]
<1>1. /\ IsFiniteSet(A) /\ Cardinality(A) = 2 ^ m /\ IsFiniteSet(B) /\ Cardinality(B) = 2 ^ n
      /\ Cardinality(C) = 2 ^ (m + n) /\ IsFiniteSet(C)
  <2>1. m + n \in Nat
    OBVIOUS
  <2> QED
    BY <2>1, PowerCounts
<1>2. ASSUME NEW U \in A, NEW V \in B
      PROVE  /\ U \cup up(V) \in C
             /\ \A i \in 1..m : i \in U \cup up(V) <=> i \in U
             /\ \A j \in 1..n : j + m \in U \cup up(V) <=> j \in V
  <2>1. \A i \in 1..m : i \notin up(V)
    OBVIOUS
  <2>2. \A j \in 1..n : j + m \notin U
    OBVIOUS
  <2>3. \A j \in 1..n : j + m \in up(V) <=> j \in V
    OBVIOUS
  <2>4. U \subseteq 1..(m + n) /\ up(V) \subseteq 1..(m + n)
    OBVIOUS
  <2> QED
    BY <2>1, <2>2, <2>3, <2>4
<1>3. f \in Bijection(A \X B, C)
  <2>1. f \in [A \X B -> C]
    BY <1>2
  <2>2. ASSUME NEW x \in A \X B, NEW y \in A \X B, f[x] = f[y] PROVE x = y
    <3>1. /\ x[1] \in A /\ x[2] \in B /\ y[1] \in A /\ y[2] \in B
          /\ x = <<x[1], x[2]>> /\ y = <<y[1], y[2]>>
          /\ x[1] \cup up(x[2]) = y[1] \cup up(y[2])
      BY <2>2
    <3> DEFINE W == x[1] \cup up(x[2])
    <3>2. ASSUME NEW i \in 1..m PROVE i \in x[1] <=> i \in y[1]
      <4>1. (i \in W <=> i \in x[1]) /\ (i \in y[1] \cup up(y[2]) <=> i \in y[1])
        BY <1>2, <3>1
      <4> QED
        BY <3>1, <4>1
    <3>3. ASSUME NEW j \in 1..n PROVE j \in x[2] <=> j \in y[2]
      <4>1. (j + m \in W <=> j \in x[2]) /\ (j + m \in y[1] \cup up(y[2]) <=> j \in y[2])
        BY <1>2, <3>1
      <4> QED
        BY <3>1, <4>1
    <3>4. x[1] = y[1] /\ x[2] = y[2]
      BY <3>1, <3>2, <3>3
    <3> QED
      BY <3>1, <3>4
  <2>3. ASSUME NEW W \in C PROVE \E x \in A \X B : f[x] = W
    <3> DEFINE U == {i \in 1..m : i \in W}
               V == {j \in 1..n : j + m \in W}
    <3>1. U \in A /\ V \in B
      OBVIOUS
    <3>2. ASSUME NEW k \in W PROVE k \in U \cup up(V)
      <4>1. k \in 1..(m + n)
        OBVIOUS
      <4>2. CASE k <= m
        BY <4>1, <4>2
      <4>3. CASE k > m
        <5>1. k - m \in 1..n /\ k - m + m = k
          BY <4>1, <4>3
        <5> QED
          BY <5>1
      <4> QED
        BY <4>1, <4>2, <4>3
    <3>3. U \cup up(V) \subseteq W
      OBVIOUS
    <3>4. f[<<U, V>>] = W
      BY <3>1, <3>2, <3>3
    <3> QED
      BY <3>1, <3>4
  <2> HIDE DEF f, A, B, C
  <2> QED
    BY <2>1, <2>2, <2>3 DEF Bijection, Injection, Surjection, IsInjective
<1> HIDE DEF f, A, B, C
<1>4. IsFiniteSet(A \X B) /\ Cardinality(A \X B) = Cardinality(A) * Cardinality(B)
  BY <1>1, FS_Product
<1>5. Cardinality(A \X B) = Cardinality(C)
  BY <1>1, <1>3, <1>4, FS_Bijection DEF ExistsBijection
<1> QED
  BY <1>1, <1>4, <1>5

\* A power of two is not zero.
LEMMA PowerPositive ==
    ASSUME NEW n \in Nat
    PROVE  2 ^ n \in Nat \ {0}
<1>1. IsFiniteSet(SUBSET (1..n)) /\ Cardinality(SUBSET (1..n)) = 2 ^ n /\ 2 ^ n \in Nat
  BY PowerCounts
<1>2. {} \in SUBSET (1..n)
  OBVIOUS
<1>3. Cardinality(SUBSET (1..n)) # 0
  BY <1>1, <1>2, FS_EmptySet
<1> QED
  BY <1>1, <1>3

\* Division by a product, of a product, and of a product with a rest.
LEMMA Divisions ==
    /\ \A a \in Nat : \A b, c \in Nat \ {0} : (a \div b) \div c = a \div (b * c)
    /\ \A a \in Nat : \A b, c \in Nat \ {0} : a < b * c => a \div c < b
    /\ \A a \in Nat : \A c \in Nat \ {0} : (a * c) \div c = a
    /\ \A a, b \in Nat : \A c \in Nat \ {0} :
          b < c => (a * c + b) \div c = a /\ (a * c + b) % c = b
    /\ \A a \in Nat : \A c \in Nat \ {0} :
          /\ a \div c \in Nat /\ a % c \in 0..(c - 1)
          /\ a = (a \div c) * c + (a % c)
<1>1. \A a \in Nat : \A b, c \in Nat \ {0} : (a \div b) \div c = a \div (b * c)
  OBVIOUS
<1>2. \A a \in Nat : \A b, c \in Nat \ {0} : a < b * c => a \div c < b
  OBVIOUS
<1>3. \A a \in Nat : \A c \in Nat \ {0} : (a * c) \div c = a
  OBVIOUS
<1>4. ASSUME NEW a \in Nat, NEW b \in Nat, NEW c \in Nat \ {0}, b < c
      PROVE  (a * c + b) \div c = a /\ (a * c + b) % c = b
  BY <1>4
<1>5. ASSUME NEW a \in Nat, NEW c \in Nat \ {0}
      PROVE  /\ a \div c \in Nat /\ a % c \in 0..(c - 1)
             /\ a = (a \div c) * c + (a % c)
  <2>1. a \div c \in Nat
    OBVIOUS
  <2>2. a % c \in 0..(c - 1)
    OBVIOUS
  <2>3. a = (a \div c) * c + (a % c)
    OBVIOUS
  <2> QED
    BY <2>1, <2>2, <2>3
<1> QED
  BY <1>1, <1>2, <1>3, <1>4, <1>5

\* The first of these, for two numbers by name.
LEMMA DivideTwice ==
    ASSUME NEW a \in Nat, NEW b \in Nat \ {0}, NEW c \in Nat \ {0}
    PROVE  (a \div b) \div c = a \div (b * c)
OBVIOUS

\* And the last.
LEMMA DivideOnce ==
    ASSUME NEW a \in Nat, NEW c \in Nat \ {0}
    PROVE  a \div c \in Nat
OBVIOUS

(***************************************************************************)
(* Pages and their prefixes                                                *)
(***************************************************************************)
\* What the digits of a prefix are shifted by.
Shift(d) == 2 ^ (PAGE_INDEX_WIDTH - OFFSET_WIDTH * d)

\* The sizes of the memory.
LEMMA Sizes ==
    /\ PAGE_SIZE \in Nat \ {0}
    /\ TABLES_DEPTH \in Nat \ {0} /\ PAGE_INDEX_WIDTH = OFFSET_WIDTH * TABLES_DEPTH
    /\ NUM_PAGES = 2 ^ PAGE_INDEX_WIDTH /\ NUM_PAGES \in Nat \ {0}
    /\ VIRTUAL_MEMORY_SIZE = NUM_PAGES * PAGE_SIZE
    /\ NUM_FRAMES \in Nat \ {0}
<1> DEFINE O == OFFSET_WIDTH
           W == PAGE_INDEX_WIDTH
           k == W \div O
<1>1. /\ O \in Nat \ {0} /\ W \in Nat \ {0} /\ W % O = 0
      /\ VIRTUAL_ADDRESS_WIDTH \in Nat /\ PHYSICAL_ADDRESS_WIDTH \in Nat
  BY WidthsAssumption
<1>2. VIRTUAL_ADDRESS_WIDTH = W + O
  BY <1>1 DEF PAGE_INDEX_WIDTH
<1> HIDE DEF O, W
<1>3. W = k * O /\ k \in Nat \ {0}
  BY <1>1
<1>4. (W + O - 1) \div O = k
  <2>1. W + O - 1 = k * O + (O - 1) /\ O - 1 \in Nat /\ O - 1 < O
    BY <1>1, <1>3
  <2> HIDE DEF k
  <2> QED
    BY <1>1, <1>3, <2>1, Divisions
<1>5. TABLES_DEPTH = k
  BY <1>4 DEF TABLES_DEPTH, O, W
<1>6. /\ 2 ^ O \in Nat \ {0} /\ 2 ^ W \in Nat \ {0} /\ 2 ^ PHYSICAL_ADDRESS_WIDTH \in Nat
  BY <1>1, PowerPositive
<1>7. 2 ^ (W + O) = 2 ^ W * 2 ^ O
  BY <1>1, PowerAdds
<1>8. /\ PAGE_SIZE = 2 ^ O /\ VIRTUAL_MEMORY_SIZE = 2 ^ W * PAGE_SIZE
  BY <1>2, <1>7 DEF PAGE_SIZE, VIRTUAL_MEMORY_SIZE, O
<1>9. NUM_PAGES = 2 ^ W
  BY <1>6, <1>8, Divisions DEF NUM_PAGES
<1>10. NUM_FRAMES \in Nat \ {0}
  <2>1. NUM_FRAMES \in Nat
    BY <1>6, <1>8, Divisions DEF NUM_FRAMES
  <2> QED
    BY <1>3, <1>5, <2>1, RamAssumption
<1> QED
  BY <1>1, <1>3, <1>5, <1>6, <1>8, <1>9, <1>10 DEF O, W

\* A shift by one digit less is one by a page size more.
LEMMA Shifts ==
    /\ \A d \in Depths : Shift(d) \in Nat \ {0}
    /\ \A d \in 0..(TABLES_DEPTH - 1) : Shift(d) = Shift(d + 1) * PAGE_SIZE
    /\ Shift(0) = NUM_PAGES /\ Shift(TABLES_DEPTH) = 1
    /\ \A d \in Depths : \E c \in Nat \ {0} : NUM_PAGES = c * Shift(d)
<1> DEFINE O == OFFSET_WIDTH
           D == TABLES_DEPTH
<1>1. /\ O \in Nat \ {0} /\ D \in Nat \ {0} /\ PAGE_INDEX_WIDTH = O * D
      /\ NUM_PAGES = 2 ^ (O * D) /\ PAGE_SIZE = 2 ^ O
  BY Sizes, WidthsAssumption DEF PAGE_SIZE
<1>2. \A d \in Depths : d \in Nat /\ O * D - O * d \in Nat /\ O * d \in Nat
  BY <1>1 DEF Depths
<1>3. \A d \in Depths : Shift(d) = 2 ^ (O * D - O * d)
  BY <1>1 DEF Shift
<1> HIDE DEF O, D
<1>4. \A d \in Depths : Shift(d) \in Nat \ {0}
  BY <1>2, <1>3, PowerPositive
<1>5. ASSUME NEW d \in 0..(D - 1) PROVE Shift(d) = Shift(d + 1) * PAGE_SIZE
  <2>1. d \in Depths /\ d + 1 \in Depths
    BY <1>1 DEF Depths, D
  <2>2. O * D - O * d = (O * D - O * (d + 1)) + O /\ O * D - O * (d + 1) \in Nat
    BY <1>1, <1>2, <2>1
  <2>3. 2 ^ ((O * D - O * (d + 1)) + O) = 2 ^ (O * D - O * (d + 1)) * 2 ^ O
    BY <1>1, <2>2, PowerAdds
  <2> QED
    BY <1>1, <1>3, <2>1, <2>2, <2>3
<1>6. Shift(0) = NUM_PAGES /\ Shift(D) = 1
  <2>1. 0 \in Depths /\ D \in Depths /\ O * D - O * 0 = O * D /\ O * D - O * D = 0
    BY <1>1 DEF Depths, D
  <2>2. 2 ^ 0 = 1
    OBVIOUS
  <2> QED
    BY <1>1, <1>3, <2>1, <2>2
<1>7. ASSUME NEW d \in Depths PROVE \E c \in Nat \ {0} : NUM_PAGES = c * Shift(d)
  <2>1. O * d \in Nat /\ O * D - O * d \in Nat /\ O * d + (O * D - O * d) = O * D
    BY <1>1, <1>2
  <2>2. 2 ^ (O * d + (O * D - O * d)) = 2 ^ (O * d) * 2 ^ (O * D - O * d)
    BY <2>1, PowerAdds
  <2>3. 2 ^ (O * d) \in Nat \ {0}
    BY <2>1, PowerPositive
  <2> QED
    BY <1>1, <1>3, <2>1, <2>2, <2>3
<1> QED
  BY <1>4, <1>5, <1>6, <1>7 DEF D

\* The root is the prefix of all pages, every prefix goes on with one index, and
\* a page is the last of its prefixes.
LEMMA Prefixes ==
    ASSUME NEW p \in Pages
    PROVE  /\ Prefix(p, 0) = 0 /\ Prefix(p, TABLES_DEPTH) = p
           /\ \A d \in Depths : Prefix(p, d) \in Nat
           /\ \A d \in 0..(TABLES_DEPTH - 1) :
                 /\ Prefix(p, d) = Prefix(p, d + 1) \div PAGE_SIZE
                 /\ page_get_index_depth(p, d) = Prefix(p, d + 1) % PAGE_SIZE
                 /\ page_get_index_depth(p, d) \in Offsets
<1>1. /\ p \in Nat /\ p < NUM_PAGES /\ NUM_PAGES \in Nat \ {0} /\ PAGE_SIZE \in Nat \ {0}
      /\ TABLES_DEPTH \in Nat \ {0}
  BY Sizes DEF Pages
<1>2. \A d : Prefix(p, d) = p \div Shift(d)
  BY DEF Prefix, Shift
<1>3. Prefix(p, 0) = 0 /\ Prefix(p, TABLES_DEPTH) = p
  <2>1. Shift(0) = NUM_PAGES /\ Shift(TABLES_DEPTH) = 1
    BY Shifts
  <2>2. p \div NUM_PAGES = 0 /\ p \div 1 = p
    BY <1>1
  <2> QED
    BY <1>2, <2>1, <2>2
<1>4. \A d \in Depths : Prefix(p, d) \in Nat
  <2> TAKE d \in Depths
  <2>1. Shift(d) \in Nat \ {0}
    BY Shifts
  <2> HIDE DEF Shift
  <2>2. p \div Shift(d) \in Nat
    BY <1>1, <2>1, DivideOnce
  <2> QED
    BY <1>2, <2>2
<1>5. ASSUME NEW d \in 0..(TABLES_DEPTH - 1)
      PROVE  /\ Prefix(p, d) = Prefix(p, d + 1) \div PAGE_SIZE
             /\ page_get_index_depth(p, d) = Prefix(p, d + 1) % PAGE_SIZE
             /\ page_get_index_depth(p, d) \in Offsets
  <2>1. d + 1 \in Depths
    BY <1>1 DEF Depths
  <2>2. Shift(d) = Shift(d + 1) * PAGE_SIZE /\ Shift(d + 1) \in Nat \ {0}
    BY <2>1, Shifts
  <2>3. (p \div Shift(d + 1)) \div PAGE_SIZE = p \div (Shift(d + 1) * PAGE_SIZE)
    BY <1>1, <2>2, DivideTwice
  <2>4. page_get_index_depth(p, d) = Prefix(p, d + 1) % PAGE_SIZE
    BY <1>2 DEF page_get_index_depth, Shift
  <2>5. Prefix(p, d + 1) % PAGE_SIZE \in 0..(PAGE_SIZE - 1)
    BY <1>1, <1>4, <2>1, Divisions
  <2> QED
    BY <1>2, <2>2, <2>3, <2>4, <2>5 DEF Offsets
<1> QED
  BY <1>3, <1>4, <1>5

\* Two pages share a prefix when they share the one before and its index.
LEMMA SamePrefix ==
    ASSUME NEW p \in Pages, NEW q \in Pages, NEW d \in 0..(TABLES_DEPTH - 1)
    PROVE  Prefix(p, d + 1) = Prefix(q, d + 1)
             <=> /\ Prefix(p, d) = Prefix(q, d)
                 /\ page_get_index_depth(p, d) = page_get_index_depth(q, d)
<1>1. d + 1 \in Depths /\ PAGE_SIZE \in Nat \ {0}
  BY Sizes DEF Depths
<1>2. /\ Prefix(p, d + 1) \in Nat /\ Prefix(p, d) = Prefix(p, d + 1) \div PAGE_SIZE
      /\ page_get_index_depth(p, d) = Prefix(p, d + 1) % PAGE_SIZE
      /\ Prefix(q, d + 1) \in Nat /\ Prefix(q, d) = Prefix(q, d + 1) \div PAGE_SIZE
      /\ page_get_index_depth(q, d) = Prefix(q, d + 1) % PAGE_SIZE
  BY <1>1, Prefixes
<1>3. /\ Prefix(p, d + 1) = (Prefix(p, d + 1) \div PAGE_SIZE) * PAGE_SIZE
                             + (Prefix(p, d + 1) % PAGE_SIZE)
      /\ Prefix(q, d + 1) = (Prefix(q, d + 1) \div PAGE_SIZE) * PAGE_SIZE
                             + (Prefix(q, d + 1) % PAGE_SIZE)
  BY <1>1, <1>2, Divisions
<1> QED
  BY <1>2, <1>3

\* Two pages that share a prefix share those before, with their indices.
LEMMA PrefixUp ==
    ASSUME NEW p \in Pages, NEW q \in Pages, NEW e \in Depths,
           Prefix(p, e) = Prefix(q, e)
    PROVE  /\ \A d \in 0..e : Prefix(p, d) = Prefix(q, d)
           /\ \A d \in 0..(e - 1) : page_get_index_depth(p, d) = page_get_index_depth(q, d)
<1> DEFINE S == {i \in 0..e : Prefix(p, e - i) = Prefix(q, e - i)}
<1>1. e \in 0..TABLES_DEPTH /\ e \in Nat /\ TABLES_DEPTH \in Nat
  BY Sizes DEF Depths
<1>2. 0 \in S
  BY <1>1
<1>3. ASSUME NEW i \in 0..(e - 1), i \in S PROVE i + 1 \in S
  <2>1. e - (i + 1) \in 0..(TABLES_DEPTH - 1) /\ (e - (i + 1)) + 1 = e - i /\ i + 1 \in 0..e
    BY <1>1
  <2>2. Prefix(p, (e - (i + 1)) + 1) = Prefix(q, (e - (i + 1)) + 1)
    BY <1>3, <2>1
  <2>3. Prefix(p, e - (i + 1)) = Prefix(q, e - (i + 1))
    BY <2>1, <2>2, SamePrefix
  <2> QED
    BY <2>1, <2>3
<1> HIDE DEF S
<1>4. 0..e \subseteq S
  BY <1>1, <1>2, <1>3, SetInduction
<1>5. ASSUME NEW d \in 0..e PROVE Prefix(p, d) = Prefix(q, d)
  <2>1. e - d \in 0..e /\ e - (e - d) = d
    BY <1>1
  <2>2. e - d \in S
    BY <1>4, <2>1
  <2>3. Prefix(p, e - (e - d)) = Prefix(q, e - (e - d))
    BY <2>2 DEF S
  <2> QED
    BY <2>1, <2>3
<1>6. ASSUME NEW d \in 0..(e - 1)
      PROVE  page_get_index_depth(p, d) = page_get_index_depth(q, d)
  <2>1. d + 1 \in 0..e /\ d \in 0..(TABLES_DEPTH - 1)
    BY <1>1
  <2>2. Prefix(p, d + 1) = Prefix(q, d + 1)
    BY <1>5, <2>1
  <2> QED
    BY <2>1, <2>2, SamePrefix
<1> QED
  BY <1>5, <1>6

\* Every entry of a table is on the route of a page.
LEMMA Branch ==
    ASSUME NEW p \in Pages, NEW d \in 0..(TABLES_DEPTH - 1), NEW o \in Offsets
    PROVE  \E q \in Pages : Prefix(q, d) = Prefix(p, d) /\ page_get_index_depth(q, d) = o
<1> DEFINE P == Prefix(p, d)
           G == PAGE_SIZE
           s == Shift(d + 1)
           x == P * G + o
           q == x * s
<1>1. d \in Depths /\ d + 1 \in Depths
  BY Sizes DEF Depths
<1>2. /\ G \in Nat \ {0} /\ s \in Nat \ {0} /\ P \in Nat /\ o \in Nat /\ o < G
      /\ Shift(d) = s * G /\ p \in Nat /\ p < NUM_PAGES /\ NUM_PAGES \in Nat
  BY <1>1, Sizes, Shifts, Prefixes DEF Offsets, Pages
<1>3. PICK c \in Nat \ {0} : NUM_PAGES = c * (s * G)
  BY <1>1, <1>2, Shifts
<1>4. P = p \div (s * G)
  BY <1>2 DEF Prefix, Shift
<1> HIDE DEF P, G, s
<1>5. s * G \in Nat \ {0}
  BY <1>2
<1>6. P < c
  BY <1>2, <1>3, <1>4, <1>5, Divisions
<1>7. x \in Nat /\ q \in Nat
  BY <1>2
<1>8. x < c * G
  <2>1. P + 1 <= c
    BY <1>2, <1>6
  <2>2. (P + 1) * G <= c * G
    BY <1>2, <2>1
  <2> QED
    BY <1>2, <2>2
<1>9. q \in Pages
  <2>1. x * s < (c * G) * s
    BY <1>2, <1>7, <1>8
  <2>2. (c * G) * s = c * (s * G)
    BY <1>2
  <2> QED
    BY <1>2, <1>3, <1>7, <2>1, <2>2 DEF Pages
<1>10. Prefix(q, d + 1) = x
  <2>1. Prefix(q, d + 1) = q \div s
    BY DEF Prefix, Shift, s
  <2> QED
    BY <1>2, <1>7, <2>1, Divisions
<1>11. x \div G = P /\ x % G = o
  BY <1>2, Divisions
<1>12. /\ Prefix(q, d) = Prefix(q, d + 1) \div G
       /\ page_get_index_depth(q, d) = Prefix(q, d + 1) % G
  <2> HIDE DEF q
  <2> QED
    BY <1>9, Prefixes DEF G
<1> HIDE DEF x, q
<1> QED
  BY <1>9, <1>10, <1>11, <1>12 DEF P

(***************************************************************************)
(* Routes in a RAM m                                                       *)
(***************************************************************************)
\* Route, with the RAM as a parameter.
RouteIn(m, page) ==
    LET r[d \in Depths] ==
            IF d = 0 THEN ROOT_FRAME
            ELSE LET table == r[d - 1]
                     f == IF table = NoFrame THEN ROOT_FRAME
                          ELSE m[table][page_get_index_depth(page, d - 1)]
                 IN  IF f = ROOT_FRAME THEN NoFrame ELSE f
    IN  r

\* The frame at a depth of the route.
At(m, p, d) == RouteIn(m, p)[d]

\* The routes of the model are those in its RAM, before and after a step.
LEMMA RoutesAreIn ==
    ASSUME NEW p
    PROVE  Route(p) = RouteIn(ram, p) /\ Route(p)' = RouteIn(ram', p)
BY DEF Route, RouteIn

\* A route starts at the root and goes on with the entry of the page, if any.
LEMMA RouteSteps ==
    ASSUME NEW m, NEW p
    PROVE  /\ At(m, p, 0) = ROOT_FRAME /\ DOMAIN RouteIn(m, p) = Depths
           /\ \A d \in 0..(TABLES_DEPTH - 1) :
                 LET t == At(m, p, d)
                     e == m[t][page_get_index_depth(p, d)]
                 IN  At(m, p, d + 1) = IF t = NoFrame \/ e = ROOT_FRAME THEN NoFrame ELSE e
<1> DEFINE next(d, t) ==
               LET f == IF t = NoFrame THEN ROOT_FRAME
                        ELSE m[t][page_get_index_depth(p, d - 1)]
               IN  IF f = ROOT_FRAME THEN NoFrame ELSE f
           Good(n, g) == g = [d \in 0..n |-> IF d = 0 THEN ROOT_FRAME ELSE next(d, g[d - 1])]
           S == {n \in Depths : \E g : Good(n, g)}
<1>1. TABLES_DEPTH \in Nat \ {0} /\ Depths = 0..TABLES_DEPTH /\ 0 \in Depths
  BY Sizes DEF Depths
<1>2. 0 \in S
  <2> DEFINE g == [d \in 0..0 |-> ROOT_FRAME]
  <2>1. Good(0, g)
    OBVIOUS
  <2> HIDE DEF Good, g
  <2> QED
    BY <1>1, <2>1
<1>3. ASSUME NEW n \in 0..(TABLES_DEPTH - 1), n \in S PROVE n + 1 \in S
  <2>1. PICK g : Good(n, g)
    BY <1>3
  <2> HIDE DEF next
  <2> DEFINE h == [d \in 0..(n + 1) |-> IF d = n + 1 THEN next(n + 1, g[n]) ELSE g[d]]
  <2>2. h[n] = g[n] /\ \A d \in 0..n : h[d] = g[d]
    BY <1>1
  <2>3. ASSUME NEW d \in 0..(n + 1)
        PROVE  h[d] = IF d = 0 THEN ROOT_FRAME ELSE next(d, h[d - 1])
    <3>1. CASE d = n + 1
      <4>1. d - 1 = n /\ d # 0
        BY <1>1, <3>1
      <4> QED
        BY <2>2, <3>1, <4>1
    <3>2. CASE d \in 0..n /\ d # 0
      <4>1. d - 1 \in 0..n
        BY <1>1, <3>2
      <4> QED
        BY <2>1, <2>2, <3>2, <4>1
    <3>3. CASE d = 0
      BY <1>1, <2>1, <2>2, <3>3
    <3> QED
      BY <1>1, <3>1, <3>2, <3>3
  <2>4. Good(n + 1, h)
    BY <2>3
  <2>5. n + 1 \in Depths
    BY <1>1
  <2> HIDE DEF Good, h
  <2> QED
    BY <2>4, <2>5
<1> HIDE DEF S
<1>4. TABLES_DEPTH \in S
  <2>1. 0..TABLES_DEPTH \subseteq S
    BY <1>1, <1>2, <1>3, SetInduction
  <2> QED
    BY <1>1, <2>1
<1>5. \E g : g = [d \in Depths |-> IF d = 0 THEN ROOT_FRAME ELSE next(d, g[d - 1])]
  BY <1>1, <1>4 DEF S
<1>6. RouteIn(m, p) =
        [d \in Depths |-> IF d = 0 THEN ROOT_FRAME ELSE next(d, RouteIn(m, p)[d - 1])]
  BY <1>5 DEF RouteIn
<1> HIDE DEF next
<1>7. At(m, p, 0) = ROOT_FRAME
  BY <1>1, <1>6 DEF At
<1>8. ASSUME NEW d \in 0..(TABLES_DEPTH - 1)
      PROVE  At(m, p, d + 1) = next(d + 1, At(m, p, d))
  <2>1. d + 1 \in Depths /\ d + 1 # 0 /\ (d + 1) - 1 = d
    BY <1>1
  <2> QED
    BY <1>6, <2>1 DEF At
<1>9. \A d \in 0..(TABLES_DEPTH - 1) : (d + 1) - 1 = d
  BY <1>1
<1>10. DOMAIN RouteIn(m, p) = Depths
  BY <1>6
<1> QED
  BY <1>7, <1>8, <1>9, <1>10 DEF next

\* What the frames of the tree hold: tables hold frames, pages hold words.
FramesTyped(m) ==
    /\ m \in [Frames -> [Offsets -> Frames \cup Values]]
    /\ \A p \in Pages, d \in Depths :
          At(m, p, d) # NoFrame =>
              m[At(m, p, d)] \in [Offsets -> IF d < TABLES_DEPTH THEN Frames ELSE Values]

\* No frame is at two places of the tree.
LinkedOnce(m) ==
    \A p, q \in Pages, d, e \in Depths :
        At(m, p, d) # NoFrame /\ At(m, p, d) = At(m, q, e)
            => d = e /\ Prefix(p, d) = Prefix(q, d)

Tree(m) == FramesTyped(m) /\ LinkedOnce(m)

\* The frames of the tree.
InTree(m) == {At(m, p, d) : p \in Pages, d \in Depths} \ {NoFrame}

\* The numbers of the frames, and of the depths.
LEMMA FrameNumbers ==
    /\ ROOT_FRAME \in Frames /\ NoFrame \notin Frames /\ Frames \subseteq Nat
    /\ 0 \in Pages /\ Pages \subseteq Nat
    /\ Depths = 0..TABLES_DEPTH /\ TABLES_DEPTH \in Nat \ {0}
    /\ \A d \in 0..(TABLES_DEPTH - 1) : d \in Depths /\ d + 1 \in Depths /\ d < TABLES_DEPTH
    /\ ROOT_FRAME = 0 /\ NoFrame = -1
    /\ ZeroFrame \in [Offsets -> Frames] /\ ZeroFrame \in [Offsets -> Values]
<1>1. /\ NUM_FRAMES \in Nat \ {0} /\ TABLES_DEPTH \in Nat \ {0} /\ NUM_PAGES \in Nat \ {0}
      /\ 0 \in Values
  BY Sizes, ClientAssumption
<1>2. 0 \in Frames
  BY <1>1 DEF Frames
<1> QED
  BY <1>1, <1>2 DEF Frames, Depths, ROOT_FRAME, NoFrame, Pages, ZeroFrame

\* The frames of a route are frames.
LEMMA RouteTypes ==
    ASSUME NEW m, FramesTyped(m), NEW p \in Pages, NEW d \in Depths
    PROVE  At(m, p, d) \in Frames \cup {NoFrame}
<1>1. CASE d = 0
  BY <1>1, RouteSteps, FrameNumbers
<1>2. CASE d # 0
  <2>1. d - 1 \in 0..(TABLES_DEPTH - 1) /\ (d - 1) + 1 = d /\ d - 1 \in Depths
        /\ d - 1 < TABLES_DEPTH
    BY <1>2, FrameNumbers
  <2>2. page_get_index_depth(p, d - 1) \in Offsets
    BY <2>1, Prefixes
  <2>3. At(m, p, d - 1) # NoFrame => m[At(m, p, d - 1)] \in [Offsets -> Frames]
    BY <2>1 DEF FramesTyped
  <2>4. At(m, p, (d - 1) + 1) =
          IF \/ At(m, p, d - 1) = NoFrame
             \/ m[At(m, p, d - 1)][page_get_index_depth(p, d - 1)] = ROOT_FRAME
          THEN NoFrame ELSE m[At(m, p, d - 1)][page_get_index_depth(p, d - 1)]
    BY <2>1, RouteSteps
  <2> QED
    BY <2>1, <2>2, <2>3, <2>4
<1> QED
  BY <1>1, <1>2

\* A route that comes to a depth has come by those before.
LEMMA RouteDown ==
    ASSUME NEW m, NEW p, NEW e \in Depths, At(m, p, e) # NoFrame, NEW d \in 0..e
    PROVE  At(m, p, d) # NoFrame
<1> DEFINE S == {i \in 0..e : At(m, p, e - i) # NoFrame}
<1>1. e \in Nat /\ e <= TABLES_DEPTH /\ TABLES_DEPTH \in Nat
  BY FrameNumbers
<1>2. 0 \in S
  BY <1>1
<1>3. ASSUME NEW i \in 0..(e - 1), i \in S PROVE i + 1 \in S
  <2>1. e - (i + 1) \in 0..(TABLES_DEPTH - 1) /\ (e - (i + 1)) + 1 = e - i /\ i + 1 \in 0..e
    BY <1>1
  <2>2. At(m, p, (e - (i + 1)) + 1) # NoFrame
    BY <1>3, <2>1
  <2>3. At(m, p, e - (i + 1)) # NoFrame
    BY <2>1, <2>2, RouteSteps
  <2> QED
    BY <2>1, <2>3
<1> HIDE DEF S
<1>4. 0..e \subseteq S
  BY <1>1, <1>2, <1>3, SetInduction
<1>5. e - d \in 0..e /\ e - (e - d) = d
  BY <1>1
<1>6. At(m, p, e - (e - d)) # NoFrame
  BY <1>4, <1>5 DEF S
<1> QED
  BY <1>5, <1>6

\* Pages that share a prefix share the route to it.
LEMMA RouteOfPrefix ==
    ASSUME NEW m, NEW p \in Pages, NEW q \in Pages, NEW e \in Depths,
           Prefix(p, e) = Prefix(q, e), NEW d \in 0..e
    PROVE  At(m, p, d) = At(m, q, d)
<1> DEFINE S == {i \in 0..e : At(m, p, i) = At(m, q, i)}
<1>1. e \in Nat /\ e <= TABLES_DEPTH /\ TABLES_DEPTH \in Nat
  BY FrameNumbers
<1>2. 0 \in S
  BY <1>1, RouteSteps
<1>3. ASSUME NEW i \in 0..(e - 1), i \in S PROVE i + 1 \in S
  <2>1. i \in 0..(TABLES_DEPTH - 1) /\ i + 1 \in 0..e
    BY <1>1
  <2>2. page_get_index_depth(p, i) = page_get_index_depth(q, i)
    BY PrefixUp
  <2>3. At(m, p, i) = At(m, q, i)
    BY <1>3
  <2>4. At(m, p, i + 1) = At(m, q, i + 1)
    <3>1. At(m, p, i + 1) =
             IF \/ At(m, p, i) = NoFrame
                \/ m[At(m, p, i)][page_get_index_depth(p, i)] = ROOT_FRAME
             THEN NoFrame ELSE m[At(m, p, i)][page_get_index_depth(p, i)]
      BY <2>1, RouteSteps
    <3>2. At(m, q, i + 1) =
             IF \/ At(m, q, i) = NoFrame
                \/ m[At(m, q, i)][page_get_index_depth(q, i)] = ROOT_FRAME
             THEN NoFrame ELSE m[At(m, q, i)][page_get_index_depth(q, i)]
      BY <2>1, RouteSteps
    <3> QED
      BY <2>2, <2>3, <3>1, <3>2
  <2> QED
    BY <2>1, <2>4
<1> HIDE DEF S
<1>4. 0..e \subseteq S
  BY <1>1, <1>2, <1>3, SetInduction
<1> QED
  BY <1>4 DEF S

\* A route remains when its entries do.
LEMMA RouteRemains ==
    ASSUME NEW m, NEW n, NEW p, NEW e \in Depths,
           \A d \in 0..(e - 1) :
               At(m, p, d) # NoFrame =>
                   n[At(m, p, d)][page_get_index_depth(p, d)]
                     = m[At(m, p, d)][page_get_index_depth(p, d)],
           NEW d \in 0..e
    PROVE  At(n, p, d) = At(m, p, d)
<1> DEFINE S == {i \in 0..e : At(n, p, i) = At(m, p, i)}
<1>1. e \in Nat /\ e <= TABLES_DEPTH /\ TABLES_DEPTH \in Nat
  BY FrameNumbers
<1>2. 0 \in S
  BY <1>1, RouteSteps
<1>3. ASSUME NEW i \in 0..(e - 1), i \in S PROVE i + 1 \in S
  <2>1. i \in 0..(TABLES_DEPTH - 1) /\ i + 1 \in 0..e
    BY <1>1
  <2>2. At(m, p, i) # NoFrame =>
           n[At(m, p, i)][page_get_index_depth(p, i)]
             = m[At(m, p, i)][page_get_index_depth(p, i)]
    OBVIOUS
  <2>3. At(n, p, i) = At(m, p, i)
    BY <1>3
  <2>4. /\ At(m, p, i + 1) =
              IF \/ At(m, p, i) = NoFrame
                 \/ m[At(m, p, i)][page_get_index_depth(p, i)] = ROOT_FRAME
              THEN NoFrame ELSE m[At(m, p, i)][page_get_index_depth(p, i)]
        /\ At(n, p, i + 1) =
              IF \/ At(n, p, i) = NoFrame
                 \/ n[At(n, p, i)][page_get_index_depth(p, i)] = ROOT_FRAME
              THEN NoFrame ELSE n[At(n, p, i)][page_get_index_depth(p, i)]
    BY <2>1, RouteSteps
  <2>5. At(n, p, i + 1) = At(m, p, i + 1)
    BY <2>2, <2>3, <2>4
  <2> QED
    BY <2>1, <2>5
<1> HIDE DEF S
<1>4. 0..e \subseteq S
  BY <1>1, <1>2, <1>3, SetInduction
<1> QED
  BY <1>4 DEF S

\* The length of a route: up to there it has frames, and none behind.
LengthIn(m, p) == Cardinality({d \in Depths \ {0} : At(m, p, d) # NoFrame})

\* A route has its first frames up to its length, and is complete at the full depth.
LEMMA RouteLengths ==
    ASSUME NEW m, NEW p
    PROVE  /\ LengthIn(m, p) \in Depths
           /\ \A d \in Depths : At(m, p, d) # NoFrame <=> d <= LengthIn(m, p)
<1> DEFINE S == {d \in Depths : At(m, p, d) # NoFrame}
<1>1. At(m, p, 0) # NoFrame /\ Depths = 0..TABLES_DEPTH /\ TABLES_DEPTH \in Nat
  BY RouteSteps, FrameNumbers
<1>2. S \in SUBSET Int /\ S # {} /\ (\A d \in S : d <= TABLES_DEPTH) /\ TABLES_DEPTH \in Int
  BY <1>1
<1> HIDE DEF S
<1>3. PICK l \in S : \A d \in S : d <= l
  BY <1>2, BoundedMax
<1>4. l \in Depths /\ At(m, p, l) # NoFrame
  BY <1>3 DEF S
<1>5. \A d \in Depths : At(m, p, d) # NoFrame <=> d <= l
  <2>1. ASSUME NEW d \in Depths, d <= l PROVE At(m, p, d) # NoFrame
    <3>1. d \in 0..l
      BY <1>1, <1>4, <2>1
    <3> QED
      BY <1>4, <3>1, RouteDown
  <2> QED
    BY <1>3, <2>1 DEF S
<1>6. {d \in Depths \ {0} : At(m, p, d) # NoFrame} = 1..l
  BY <1>1, <1>4, <1>5
<1>7. Cardinality(1..l) = l
  <2>1. 1 \in Int /\ l \in Int
    BY <1>1, <1>4
  <2>2. Cardinality(1..l) = IF 1 > l THEN 0 ELSE l - 1 + 1
    BY <2>1, FS_Interval
  <2> QED
    BY <1>1, <1>4, <2>2
<1> QED
  BY <1>4, <1>5, <1>6, <1>7 DEF LengthIn

(***************************************************************************)
(* What a step changes of the tree                                         *)
(***************************************************************************)
\* The RAM with one word changed.
Put(m, t, o, v) == [m EXCEPT ![t][o] = v]

\* It is a RAM again, changed in that word only; a table remains a table.
LEMMA PutWord ==
    ASSUME NEW m \in [Frames -> [Offsets -> Frames \cup Values]],
           NEW t \in Frames, NEW o \in Offsets, NEW v \in Frames \cup Values
    PROVE  /\ Put(m, t, o, v) \in [Frames -> [Offsets -> Frames \cup Values]]
           /\ \A u \in Frames : u # t => Put(m, t, o, v)[u] = m[u]
           /\ \A u \in Frames, x \in Offsets :
                 Put(m, t, o, v)[u][x] = IF u = t /\ x = o THEN v ELSE m[u][x]
           /\ m[t] \in [Offsets -> Frames] /\ v \in Frames
                 => Put(m, t, o, v)[t] \in [Offsets -> Frames]
           /\ m[t] \in [Offsets -> Values] /\ v \in Values
                 => Put(m, t, o, v)[t] \in [Offsets -> Values]
BY DEF Put

\* The other frames are as they were.
LEMMA PutOther ==
    ASSUME NEW m, NEW t, NEW o, NEW v, DOMAIN m = Frames, NEW u \in Frames, u # t
    PROVE  Put(m, t, o, v)[u] = m[u]
BY DEF Put

\* A changed entry of a table changes the routes that take it, behind the table.
LEMMA Putting ==
    ASSUME NEW m, Tree(m), NEW q \in Pages, NEW d \in 0..(TABLES_DEPTH - 1),
           At(m, q, d) # NoFrame, NEW v \in Frames, NEW n,
           n = Put(m, At(m, q, d), page_get_index_depth(q, d), v)
    PROVE  /\ At(m, q, d) \in Frames
           /\ n \in [Frames -> [Offsets -> Frames \cup Values]]
           /\ \A p \in Pages : Prefix(p, d + 1) # Prefix(q, d + 1) =>
                 \A e \in Depths : At(n, p, e) = At(m, p, e)
           /\ \A p \in Pages, e \in 0..d : At(n, p, e) = At(m, p, e)
           /\ \A p \in Pages : Prefix(p, d + 1) = Prefix(q, d + 1) =>
                 At(n, p, d + 1) = IF v = ROOT_FRAME THEN NoFrame ELSE v
<1> DEFINE t == At(m, q, d)
           o == page_get_index_depth(q, d)
<1>1. d \in Depths /\ d + 1 \in Depths /\ d \in Nat /\ d < TABLES_DEPTH /\ TABLES_DEPTH \in Nat
      /\ Depths = 0..TABLES_DEPTH /\ Frames \subseteq Nat /\ NoFrame \notin Frames
  BY FrameNumbers
<1>2. t \in Frames /\ o \in Offsets
  BY <1>1, RouteTypes, Prefixes DEF Tree
<1>3. /\ n \in [Frames -> [Offsets -> Frames \cup Values]]
      /\ \A u \in Frames, x \in Offsets : n[u][x] = IF u = t /\ x = o THEN v ELSE m[u][x]
  <2>1. m \in [Frames -> [Offsets -> Frames \cup Values]] /\ v \in Frames \cup Values
    BY DEF Tree, FramesTyped
  <2> HIDE DEF t, o
  <2>2. n = Put(m, t, o, v)
    BY DEF t, o
  <2> QED
    BY <1>2, <2>1, <2>2, PutWord
<1>4. ASSUME NEW p \in Pages, NEW i \in Depths, i < TABLES_DEPTH, At(m, p, i) # NoFrame,
             i = d => Prefix(p, d + 1) # Prefix(q, d + 1)
      PROVE  n[At(m, p, i)][page_get_index_depth(p, i)]
               = m[At(m, p, i)][page_get_index_depth(p, i)]
  <2>1. At(m, p, i) \in Frames /\ page_get_index_depth(p, i) \in Offsets
    BY <1>1, <1>4, RouteTypes, Prefixes DEF Tree
  <2>2. At(m, p, i) = t => i = d /\ Prefix(p, i) = Prefix(q, d)
    BY <1>1, <1>4 DEF Tree, LinkedOnce
  <2>3. ~(At(m, p, i) = t /\ page_get_index_depth(p, i) = o)
    BY <1>4, <2>2, SamePrefix
  <2> QED
    BY <1>3, <2>1, <2>3
<1>5. ASSUME NEW p \in Pages, Prefix(p, d + 1) # Prefix(q, d + 1), NEW e \in Depths
      PROVE  At(n, p, e) = At(m, p, e)
  <2>1. \A i \in 0..(e - 1) : i \in Depths /\ i < TABLES_DEPTH
    BY <1>1
  <2>2. e \in 0..e
    BY <1>1
  <2>3. \A i \in 0..(e - 1) : At(m, p, i) # NoFrame =>
           n[At(m, p, i)][page_get_index_depth(p, i)]
             = m[At(m, p, i)][page_get_index_depth(p, i)]
    BY <1>4, <1>5, <2>1
  <2> QED
    BY <2>2, <2>3, RouteRemains
<1>6. ASSUME NEW p \in Pages, NEW e \in 0..d PROVE At(n, p, e) = At(m, p, e)
  <2>1. \A i \in 0..(e - 1) : i \in Depths /\ i < TABLES_DEPTH /\ i # d
    BY <1>1
  <2>2. e \in Depths /\ e \in 0..e
    BY <1>1
  <2>3. \A i \in 0..(e - 1) : At(m, p, i) # NoFrame =>
           n[At(m, p, i)][page_get_index_depth(p, i)]
             = m[At(m, p, i)][page_get_index_depth(p, i)]
    BY <1>4, <2>1
  <2> QED
    BY <2>2, <2>3, RouteRemains
<1>7. ASSUME NEW p \in Pages, Prefix(p, d + 1) = Prefix(q, d + 1)
      PROVE  At(n, p, d + 1) = IF v = ROOT_FRAME THEN NoFrame ELSE v
  <2>1. Prefix(p, d) = Prefix(q, d) /\ page_get_index_depth(p, d) = o
    BY <1>7, SamePrefix
  <2>2. At(m, p, d) = t
    <3>1. d \in 0..d
      BY <1>1
    <3> QED
      BY <1>1, <2>1, <3>1, RouteOfPrefix
  <2>3. At(n, p, d) = t
    <3>1. d \in 0..d
      BY <1>1
    <3> QED
      BY <1>6, <2>2, <3>1
  <2>4. n[t][o] = v
    BY <1>2, <1>3
  <2>5. At(n, p, d + 1) =
           IF \/ At(n, p, d) = NoFrame
              \/ n[At(n, p, d)][page_get_index_depth(p, d)] = ROOT_FRAME
           THEN NoFrame ELSE n[At(n, p, d)][page_get_index_depth(p, d)]
    BY RouteSteps
  <2> QED
    BY <2>1, <2>3, <2>4, <2>5
<1> QED
  BY <1>2, <1>3, <1>5, <1>6, <1>7

\* A frame unlinked: what was behind the link is off the tree, all else remains.
LEMMA Unlinking ==
    ASSUME NEW m, Tree(m), NEW q \in Pages, NEW d \in 0..(TABLES_DEPTH - 1),
           At(m, q, d) # NoFrame, NEW n,
           n = Put(m, At(m, q, d), page_get_index_depth(q, d), ROOT_FRAME)
    PROVE  /\ Tree(n)
           /\ \A p \in Pages, e \in Depths :
                 At(n, p, e) = IF e > d /\ Prefix(p, d + 1) = Prefix(q, d + 1) THEN NoFrame
                               ELSE At(m, p, e)
<1> DEFINE t == At(m, q, d)
<1>1. d \in Depths /\ d + 1 \in Depths /\ d \in Nat /\ d < TABLES_DEPTH /\ TABLES_DEPTH \in Nat
      /\ Depths = 0..TABLES_DEPTH /\ ROOT_FRAME \in Frames
  BY FrameNumbers
<1>2. /\ At(m, q, d) \in Frames
      /\ n \in [Frames -> [Offsets -> Frames \cup Values]]
      /\ \A p \in Pages : Prefix(p, d + 1) # Prefix(q, d + 1) =>
            \A e \in Depths : At(n, p, e) = At(m, p, e)
      /\ \A p \in Pages, e \in 0..d : At(n, p, e) = At(m, p, e)
      /\ \A p \in Pages : Prefix(p, d + 1) = Prefix(q, d + 1) => At(n, p, d + 1) = NoFrame
  BY <1>1, Putting
<1>3. ASSUME NEW p \in Pages, NEW e \in Depths
      PROVE  At(n, p, e) = IF e > d /\ Prefix(p, d + 1) = Prefix(q, d + 1) THEN NoFrame
                           ELSE At(m, p, e)
  <2>1. CASE Prefix(p, d + 1) # Prefix(q, d + 1)
    BY <1>2, <2>1
  <2>2. CASE ~(e > d)
    <3>1. e \in 0..d
      BY <1>1, <2>2
    <3> QED
      BY <1>2, <2>2, <3>1
  <2>3. CASE e > d /\ Prefix(p, d + 1) = Prefix(q, d + 1)
    <3>1. d + 1 \in 0..e
      BY <1>1, <2>3
    <3>2. At(n, p, d + 1) = NoFrame
      BY <1>2, <2>3
    <3>3. At(n, p, e) = NoFrame
      BY <3>1, <3>2, RouteDown
    <3> QED
      BY <2>3, <3>3
  <2> QED
    BY <2>1, <2>2, <2>3
<1>4. LinkedOnce(n)
  BY <1>3 DEF Tree, LinkedOnce
<1>5. ASSUME NEW p \in Pages, NEW e \in Depths, At(n, p, e) # NoFrame
      PROVE  n[At(n, p, e)] \in [Offsets -> IF e < TABLES_DEPTH THEN Frames ELSE Values]
  <2>1. At(n, p, e) = At(m, p, e) /\ At(m, p, e) # NoFrame
    BY <1>3, <1>5
  <2>2. m[At(m, p, e)] \in [Offsets -> IF e < TABLES_DEPTH THEN Frames ELSE Values]
    BY <2>1 DEF Tree, FramesTyped
  <2> DEFINE o == page_get_index_depth(q, d)
  <2>3. /\ m \in [Frames -> [Offsets -> Frames \cup Values]] /\ At(m, p, e) \in Frames
        /\ o \in Offsets /\ t \in Frames /\ ROOT_FRAME \in Frames \cup Values
        /\ n = Put(m, t, o, ROOT_FRAME)
    <3>1. At(m, p, e) \in Frames
      BY <2>1, RouteTypes DEF Tree
    <3>2. o \in Offsets
      BY Prefixes
    <3> QED
      BY <1>1, <1>2, <3>1, <3>2 DEF Tree, FramesTyped
  <2> HIDE DEF t, o
  <2>4. CASE At(m, p, e) = t
    <3>1. e < TABLES_DEPTH
      BY <1>1, <2>1, <2>4 DEF Tree, LinkedOnce, t
    <3>2. m[t] \in [Offsets -> Frames]
      BY <2>2, <2>4, <3>1
    <3>3. ROOT_FRAME \in Frames
      BY <1>1
    <3>4. Put(m, t, o, ROOT_FRAME)[t] \in [Offsets -> Frames]
      BY <2>3, <3>2, <3>3, PutWord
    <3> QED
      BY <2>1, <2>3, <2>4, <3>1, <3>4
  <2>5. CASE At(m, p, e) # t
    <3>1. n[At(m, p, e)] = m[At(m, p, e)]
      BY <1>1, <2>3, <2>5, PutWord
    <3> QED
      BY <2>1, <2>2, <3>1
  <2> QED
    BY <2>4, <2>5
<1> QED
  BY <1>2, <1>3, <1>4, <1>5 DEF Tree, FramesTyped

\* A blank frame linked where nothing was: it is on the tree, all else remains.
LEMMA Linking ==
    ASSUME NEW m, Tree(m), NEW q \in Pages, NEW d \in 0..(TABLES_DEPTH - 1),
           At(m, q, d) # NoFrame,
           m[At(m, q, d)][page_get_index_depth(q, d)] = ROOT_FRAME,
           NEW f \in Frames, f \notin InTree(m), m[f] = ZeroFrame, NEW n,
           n = Put(m, At(m, q, d), page_get_index_depth(q, d), f)
    PROVE  /\ Tree(n) /\ n[f] = ZeroFrame
           /\ \A p \in Pages, e \in Depths :
                 At(n, p, e) = IF e = d + 1 /\ Prefix(p, d + 1) = Prefix(q, d + 1) THEN f
                               ELSE At(m, p, e)
<1> DEFINE t == At(m, q, d)
           o == page_get_index_depth(q, d)
<1>1. d \in Depths /\ d + 1 \in Depths /\ d \in Nat /\ d < TABLES_DEPTH /\ TABLES_DEPTH \in Nat
      /\ Depths = 0..TABLES_DEPTH /\ ROOT_FRAME \in Frames /\ NoFrame \notin Frames
  BY FrameNumbers
<1>2. \A p \in Pages, e \in Depths : At(m, p, e) # f
  BY <1>1 DEF InTree
<1>3. f # ROOT_FRAME /\ f # t
  <2>1. At(m, q, 0) = ROOT_FRAME /\ 0 \in Depths
    BY <1>1, RouteSteps
  <2> QED
    BY <1>1, <1>2, <2>1
<1>4. /\ t \in Frames
      /\ n \in [Frames -> [Offsets -> Frames \cup Values]]
      /\ \A p \in Pages : Prefix(p, d + 1) # Prefix(q, d + 1) =>
            \A e \in Depths : At(n, p, e) = At(m, p, e)
      /\ \A p \in Pages, e \in 0..d : At(n, p, e) = At(m, p, e)
      /\ \A p \in Pages : Prefix(p, d + 1) = Prefix(q, d + 1) => At(n, p, d + 1) = f
  BY <1>3, Putting
<1>5. /\ m \in [Frames -> [Offsets -> Frames \cup Values]] /\ o \in Offsets
      /\ f \in Frames \cup Values
  BY Prefixes DEF Tree, FramesTyped
<1>6. n[f] = ZeroFrame
  <2> HIDE DEF t, o
  <2>1. n = Put(m, t, o, f)
    BY DEF t, o
  <2>2. Put(m, t, o, f)[f] = m[f]
    BY <1>3, <1>4, <1>5, PutWord
  <2> QED
    BY <2>1, <2>2
<1>7. ASSUME NEW p \in Pages, NEW e \in Depths
      PROVE  At(n, p, e) = IF e = d + 1 /\ Prefix(p, d + 1) = Prefix(q, d + 1) THEN f
                           ELSE At(m, p, e)
  <2>1. CASE Prefix(p, d + 1) # Prefix(q, d + 1)
    BY <1>4, <2>1
  <2>2. CASE e <= d
    <3>1. e \in 0..d /\ e # d + 1
      BY <1>1, <2>2
    <3> QED
      BY <1>4, <3>1
  <2>3. CASE e = d + 1 /\ Prefix(p, d + 1) = Prefix(q, d + 1)
    BY <1>4, <2>3
  <2>4. CASE e > d + 1 /\ Prefix(p, d + 1) = Prefix(q, d + 1)
    <3>1. /\ d + 1 \in 0..(TABLES_DEPTH - 1) /\ (d + 1) + 1 \in 0..e /\ d + 1 \in 0..e
          /\ e # d + 1
      BY <1>1, <2>4
    <3>2. At(n, p, d + 1) = f
      BY <1>4, <2>4
    <3>3. n[f][page_get_index_depth(p, d + 1)] = ROOT_FRAME
      <4>1. page_get_index_depth(p, d + 1) \in Offsets
        BY <3>1, Prefixes
      <4> QED
        BY <1>6, <4>1 DEF ZeroFrame, ROOT_FRAME
    <3>4. At(n, p, (d + 1) + 1) = NoFrame
      BY <3>1, <3>2, <3>3, RouteSteps
    <3>5. At(n, p, e) = NoFrame
      BY <3>1, <3>4, RouteDown
    <3>6. At(m, p, d + 1) = NoFrame
      <4>1. Prefix(p, d) = Prefix(q, d) /\ page_get_index_depth(p, d) = o
        BY <2>4, SamePrefix
      <4>2. d \in 0..d
        BY <1>1
      <4>3. At(m, p, d) = t
        BY <1>1, <4>1, <4>2, RouteOfPrefix
      <4> QED
        BY <4>1, <4>3, RouteSteps
    <3>7. At(m, p, e) = NoFrame
      BY <3>1, <3>6, RouteDown
    <3> QED
      BY <3>1, <3>5, <3>7
  <2> QED
    <3>1. e <= d \/ e = d + 1 \/ e > d + 1
      BY <1>1
    <3> QED
      BY <2>1, <2>2, <2>3, <2>4, <3>1
<1>8. ASSUME NEW p \in Pages, NEW r \in Pages, NEW i \in Depths, NEW e \in Depths,
             At(n, p, i) # NoFrame, At(n, p, i) = At(n, r, e)
      PROVE  i = e /\ Prefix(p, i) = Prefix(r, i)
  <2>1. CASE At(n, p, i) = f
    <3>1. i = d + 1 /\ Prefix(p, d + 1) = Prefix(q, d + 1)
      BY <1>2, <1>7, <2>1
    <3>2. e = d + 1 /\ Prefix(r, d + 1) = Prefix(q, d + 1)
      BY <1>2, <1>7, <1>8, <2>1
    <3> QED
      BY <3>1, <3>2
  <2>2. CASE At(n, p, i) # f
    <3>1. At(n, p, i) = At(m, p, i) /\ At(n, r, e) = At(m, r, e)
      BY <1>7, <1>8, <2>2
    <3>2. LinkedOnce(m)
      BY DEF Tree
    <3>3. At(m, p, i) # NoFrame /\ At(m, p, i) = At(m, r, e)
      BY <1>8, <3>1
    <3> QED
      BY <3>2, <3>3 DEF LinkedOnce
  <2> QED
    BY <2>1, <2>2
<1>9. ASSUME NEW p \in Pages, NEW e \in Depths, At(n, p, e) # NoFrame
      PROVE  n[At(n, p, e)] \in [Offsets -> IF e < TABLES_DEPTH THEN Frames ELSE Values]
  <2>1. CASE At(n, p, e) = f
    BY <1>6, <2>1, FrameNumbers
  <2>2. CASE At(n, p, e) # f
    <3>1. At(n, p, e) = At(m, p, e) /\ At(m, p, e) # NoFrame
      BY <1>7, <1>9, <2>2
    <3>2. m[At(m, p, e)] \in [Offsets -> IF e < TABLES_DEPTH THEN Frames ELSE Values]
      BY <3>1 DEF Tree, FramesTyped
    <3>3. At(m, p, e) \in Frames
      BY <3>1, RouteTypes DEF Tree
    <3>4. n = Put(m, t, o, f)
      OBVIOUS
    <3>5. CASE At(m, p, e) = t
      <4>1. e < TABLES_DEPTH
        BY <1>1, <3>1, <3>5 DEF Tree, LinkedOnce
      <4>2. m[t] \in [Offsets -> Frames]
        BY <3>2, <3>5, <4>1
      <4> HIDE DEF t, o
      <4>3. Put(m, t, o, f)[t] \in [Offsets -> Frames]
        BY <1>4, <1>5, <4>2, PutWord
      <4> QED
        BY <3>1, <3>4, <3>5, <4>1, <4>3
    <3>6. CASE At(m, p, e) # t
      <4> HIDE DEF t, o
      <4>1. DOMAIN m = Frames
        BY <1>5
      <4>2. Put(m, t, o, f)[At(m, p, e)] = m[At(m, p, e)]
        BY <3>3, <3>6, <4>1, PutOther
      <4> QED
        BY <3>1, <3>2, <3>4, <4>2
    <3> QED
      BY <3>5, <3>6
  <2> QED
    BY <2>1, <2>2
<1> QED
  BY <1>4, <1>6, <1>7, <1>8, <1>9 DEF Tree, FramesTyped, LinkedOnce

\* Frames rewritten that are no tables: the tree remains.
LEMMA Rewriting ==
    ASSUME NEW m, Tree(m), NEW n \in [Frames -> [Offsets -> Frames \cup Values]],
           \A p \in Pages, d \in Depths :
               At(m, p, d) # NoFrame =>
                   IF d < TABLES_DEPTH THEN n[At(m, p, d)] = m[At(m, p, d)]
                   ELSE n[At(m, p, d)] \in [Offsets -> Values]
    PROVE  /\ Tree(n)
           /\ \A p \in Pages, e \in Depths : At(n, p, e) = At(m, p, e)
<1>1. Depths = 0..TABLES_DEPTH /\ TABLES_DEPTH \in Nat
  BY FrameNumbers
<1>2. ASSUME NEW p \in Pages, NEW e \in Depths PROVE At(n, p, e) = At(m, p, e)
  <2>1. e \in 0..e /\ \A i \in 0..(e - 1) : i \in Depths /\ i < TABLES_DEPTH
    BY <1>1
  <2>2. \A i \in 0..(e - 1) : At(m, p, i) # NoFrame =>
           n[At(m, p, i)][page_get_index_depth(p, i)]
             = m[At(m, p, i)][page_get_index_depth(p, i)]
    BY <2>1
  <2> QED
    BY <2>1, <2>2, RouteRemains
<1>3. LinkedOnce(n)
  BY <1>2 DEF Tree, LinkedOnce
<1>4. FramesTyped(n)
  BY <1>2 DEF Tree, FramesTyped
<1> QED
  BY <1>2, <1>3, <1>4 DEF Tree

\* A page or an empty table unlinked: its frame is off the tree, and no other.
LEMMA UnlinkingLeaf ==
    ASSUME NEW m, Tree(m), NEW q \in Pages, NEW d \in 0..(TABLES_DEPTH - 1),
           At(m, q, d + 1) # NoFrame,
           d + 1 = TABLES_DEPTH \/ m[At(m, q, d + 1)] = ZeroFrame, NEW n,
           n = Put(m, At(m, q, d), page_get_index_depth(q, d), ROOT_FRAME)
    PROVE  /\ Tree(n)
           /\ \A p \in Pages, e \in Depths :
                 At(n, p, e) = IF At(m, p, e) = At(m, q, d + 1) THEN NoFrame ELSE At(m, p, e)
<1> DEFINE f == At(m, q, d + 1)
<1>1. d \in Depths /\ d + 1 \in Depths /\ d \in Nat /\ d < TABLES_DEPTH /\ TABLES_DEPTH \in Nat
      /\ Depths = 0..TABLES_DEPTH /\ d \in 0..(d + 1)
  BY FrameNumbers
<1>2. At(m, q, d) # NoFrame
  BY <1>1, RouteDown
<1>3. /\ Tree(n)
      /\ \A p \in Pages, e \in Depths :
            At(n, p, e) = IF e > d /\ Prefix(p, d + 1) = Prefix(q, d + 1) THEN NoFrame
                          ELSE At(m, p, e)
  BY <1>2, Unlinking
<1>4. ASSUME NEW p \in Pages, NEW e \in Depths
      PROVE  At(n, p, e) = IF At(m, p, e) = f THEN NoFrame ELSE At(m, p, e)
  <2>1. CASE At(m, p, e) = f
    <3>1. LinkedOnce(m)
      BY DEF Tree
    <3>2. e = d + 1 /\ Prefix(p, d + 1) = Prefix(q, d + 1)
      BY <1>1, <2>1, <3>1 DEF LinkedOnce
    <3> QED
      BY <1>1, <1>3, <2>1, <3>2
  <2>2. CASE At(m, p, e) # f /\ ~(e > d /\ Prefix(p, d + 1) = Prefix(q, d + 1))
    BY <1>3, <2>2
  <2>3. CASE At(m, p, e) # f /\ e > d /\ Prefix(p, d + 1) = Prefix(q, d + 1)
    <3>1. d + 1 \in 0..(d + 1)
      BY <1>1
    <3>2. At(m, p, d + 1) = f
      BY <1>1, <2>3, <3>1, RouteOfPrefix
    <3>3. d + 1 \in 0..(TABLES_DEPTH - 1) /\ (d + 1) + 1 \in 0..e
      BY <1>1, <2>3, <3>2
    <3>4. m[f] = ZeroFrame
      BY <1>1, <3>3
    <3>5. page_get_index_depth(p, d + 1) \in Offsets
      BY <3>3, Prefixes
    <3>6. m[f][page_get_index_depth(p, d + 1)] = ROOT_FRAME
      BY <3>4, <3>5 DEF ZeroFrame, ROOT_FRAME
    <3>7. At(m, p, (d + 1) + 1) = NoFrame
      BY <3>2, <3>3, <3>6, RouteSteps
    <3>8. At(m, p, e) = NoFrame
      BY <3>3, <3>7, RouteDown
    <3> QED
      BY <1>3, <2>3, <3>8
  <2> QED
    BY <2>1, <2>2, <2>3
<1> QED
  BY <1>3, <1>4

=============================================================================

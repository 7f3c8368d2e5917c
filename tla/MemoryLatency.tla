--------------------------- MODULE MemoryLatency ---------------------------
(***************************************************************************)
(* ex1: arrays of growing sizes are read in the order of an LFSR and then  *)
(* from first to last; a loop without the reads comes before each, and its *)
(* time is subtracted.  Time itself is not modelled.                       *)
(***************************************************************************)
EXTENDS Integers, Sequences, SequencesExt

CONSTANTS
    WIDTH,     \* the bits of rnd: 64 in the code
    PRECISION, \* the bits of the significand of a double: 53
    MaxSizes,  \* the arguments: the largest size,
    Factors,   \* the factors, in units of the last bit of 1.0,
    Repeats,   \* and the number of repetitions
    Words,     \* what an array that was not initialised may hold
    xor(_, _), \* the operators ^
    and(_, _)  \* and & of the code

INITIAL_SIZE == 100
ElementSize == 8  \* sizeof(array_element_t)
Seed == 12345
zero == 0         \* what main computes from a clock past its first second

Register == 0..(2 ^ WIDTH - 1)  \* the values of a word
One == 2 ^ (PRECISION - 1)      \* the factor 1.0: every double above it is a natural number

ASSUME LatencyAssumption ==
    /\ WIDTH \in Nat /\ WIDTH > 4 /\ Seed \in Register
    /\ MaxSizes \subseteq Register /\ Words \subseteq Register
    /\ Factors \subseteq Nat /\ Repeats \subseteq Nat

\* Sizes are doubles themselves, and a word holds the next one: the conversion of
\* a double that no word holds is undefined.
ASSUME SizesAssumption ==
    /\ PRECISION \in 1..WIDTH
    /\ \A m \in MaxSizes : m < 2 ^ PRECISION
    /\ \A m \in MaxSizes, f \in Factors : 2 * m * f <= 2 ^ WIDTH * One

GALOIS_POLYNOMIAL ==
    2 ^ (WIDTH - 1) + 2 ^ (WIDTH - 2) + 2 ^ (WIDTH - 4) + 2 ^ (WIDTH - 5)

\* Zero changes no word and masks every one; words that differ do not cancel out.
ASSUME BitsAssumption ==
    \A r \in Register :
        /\ and(r, 0) = 0
        /\ xor(r, 0) = r /\ xor(0, r) = r
        /\ xor(r, GALOIS_POLYNOMIAL) \in Register
        /\ xor(r, GALOIS_POLYNOMIAL) = 0 => r = GALOIS_POLYNOMIAL

VARIABLES
    pc,     \* "args", "malloc", one of the four loops, or "exit"
    input,  \* the arguments
    size,   \* current_size
    rnd,    \* the register that is advanced pseudo-randomly
    walk,   \* the indices this loop has visited: its length is i
    base    \* those of the loop without reads that came before it

vars == <<pc, input, size, rnd, walk, base>>

max_size == input.max_size
factor == input.factor
repeat == input.repeat

\* Mutation: the last element may be cut off by the end of the array.
ArrSizeUp == (size + ElementSize - 1) \div ElementSize

ArrSize == size \div ElementSize

\* Mutation: repeat is taken as it is.
TimesAsAsked == repeat

\* Make sure repeat >= arr_size.
Times == IF ArrSize > repeat THEN ArrSize ELSE repeat

\* Mutation: the bit that falls out is not fed back.
ShiftOnly(r) == r \div 2

\* Mutation: the shift goes to the left.
ShiftLeft(r) == xor(r * 2, IF r % 2 = 1 THEN GALOIS_POLYNOMIAL ELSE 0)

\* Advance rnd pseudo-randomly (using Galois LFSR).
Advance(r) == xor(r \div 2, IF r % 2 = 1 THEN GALOIS_POLYNOMIAL ELSE 0)

Init ==
    /\ pc = "args"
    /\ input \in [max_size : MaxSizes, factor : Factors, repeat : Repeats]
    /\ size = INITIAL_SIZE
    /\ rnd = Seed /\ walk = <<>> /\ base = <<>>

\* The arguments are numbers; what does not parse is refused in the same way.
CheckArgs ==
    /\ pc = "args"
    /\ pc' = IF max_size < 100 \/ factor < One \/ repeat < 1 THEN "exit" ELSE "malloc"
    /\ UNCHANGED <<input, size, rnd, walk, base>>

\* malloc may fail.
Allocate ==
    /\ pc = "malloc"
    /\ pc' \in IF size <= max_size THEN {"random baseline", "exit"} ELSE {"exit"}
    /\ rnd' = Seed /\ walk' = <<>> /\ base' = <<>>
    /\ UNCHANGED <<input, size>>

\* One iteration: an index is visited, read or not, and rnd takes the value r.
Iterate(loop, index, r) ==
    /\ pc = loop
    /\ Len(walk) < Times
    /\ walk' = Append(walk, index)
    /\ rnd' = r
    /\ UNCHANGED <<pc, input, size, base>>

\* The random loops.
RandomIndex == rnd % ArrSize
RandomBaseline == Iterate("random baseline", RandomIndex, Advance(xor(rnd, and(RandomIndex, zero))))
RandomAccess ==
    \E w \in Words : Iterate("random access", RandomIndex, Advance(xor(rnd, and(w, zero))))

\* The sequential loops: rnd is zero, for it is multiplied by zero.
SequentialIndex == rnd + (Len(walk) % ArrSize)
SequentialBaseline ==
    Iterate("sequential baseline", SequentialIndex,
            zero * Advance(xor(rnd, and(SequentialIndex + rnd, zero))))
SequentialAccess ==
    \E w \in Words : Iterate("sequential access", SequentialIndex + rnd,
                             zero * Advance(xor(rnd, and(w, zero))))

\* Mutation: rnd goes on from where the loop without reads left it.
GoOn(r) == r

Reseed(r) == xor(and(r, zero), Seed)

\* From one loop to the next; base is kept for the loop with reads.
Proceed(from, to, r, b) ==
    /\ pc = from
    /\ Len(walk) = Times
    /\ pc' = to
    /\ rnd' = r
    /\ walk' = <<>>
    /\ base' = b
    /\ UNCHANGED <<input, size>>

\* The product of doubles: of the numbers with PRECISION significant bits around
\* n, the one nearest to it; of two, the one that is even in its last bit.
SignificantBits(n, bits) == \E e \in 0..WIDTH : n % 2 ^ e = 0 /\ n \div 2 ^ e < 2 ^ bits

Doubles(n) ==
    {p \in (n - n \div 2 ^ PRECISION)..(n + n \div 2 ^ PRECISION) :
        SignificantBits(p, PRECISION)}

Distance(p, n) == IF p < n THEN n - p ELSE p - n

Nearest(n) == {p \in Doubles(n) : \A q \in Doubles(n) : Distance(p, n) <= Distance(q, n)}

Rounded(n) ==
    {p \in Nearest(n) : SignificantBits(p, PRECISION - 1) \/ Nearest(n) = {p}}

\* Mutation: the next size is rounded down.
NextSizeDown(p) == p \div One

\* ceil.
NextSize(p) == (p + One - 1) \div One

\* print, free, and the next size.
NextArray ==
    /\ pc = "sequential access"
    /\ Len(walk) = Times
    /\ pc' = "malloc"
    /\ \E p \in Rounded(size * factor) : size' = NextSize(p)
    /\ walk' = <<>> /\ base' = <<>>
    /\ UNCHANGED <<input, rnd>>

Exited == pc = "exit" /\ UNCHANGED vars

Next ==
    \/ CheckArgs \/ Allocate
    \/ RandomBaseline
    \/ Proceed("random baseline", "random access", Reseed(rnd), walk)
    \/ RandomAccess
    \/ Proceed("random access", "sequential baseline", Seed * zero, <<>>)
    \/ SequentialBaseline
    \/ Proceed("sequential baseline", "sequential access", Reseed(rnd) * zero, walk)
    \/ SequentialAccess
    \/ NextArray
    \/ Exited

Spec == Init /\ [][Next]_vars /\ WF_vars(Next)

-----------------------------------------------------------------------------
\* Types: rnd keeps within its bits, however often it is advanced.
TypeOK ==
    /\ pc \in {"args", "malloc", "random baseline", "random access",
               "sequential baseline", "sequential access", "exit"}
    /\ rnd \in Register
    /\ size \in Nat /\ walk \in Seq(Nat) /\ base \in Seq(Nat)

\* measure_latency, measure_sequential_latency: the loop with reads visits what the
\* loop without them did, whatever the array holds; otherwise the difference of
\* their times would not be that of the reads.
SameWalk ==
    pc \in {"random access", "sequential access"} => IsPrefix(walk, base)

\* Both measurements read within the bytes that malloc was asked for.
InArray == \A k \in DOMAIN walk : (walk[k] + 1) * ElementSize <= size

\* measure_latency: the LFSR does not die in zero, where the random walk would
\* stay at the first element.
LfsrAlive == pc \in {"random baseline", "random access"} => rnd # 0

\* measure_sequential_latency: every element is read, also when fewer repetitions
\* were asked for.
ReadsAll ==
    pc = "sequential access" /\ Len(walk) = Times =>
        \A e \in 0..(size \div ElementSize - 1) : \E k \in DOMAIN walk : walk[k] = e

\* main: with a factor above one the sizes outgrow max_size and the program ends,
\* however close to one it is: the product is rounded to a double, but never back
\* to the size.  With a factor of 1.0, which the arguments may be, they stay, and
\* nothing but a malloc that fails ends the program.
ProgramEnds ==
    /\ factor # One => <>(pc = "exit")
    /\ factor = One => [](size = INITIAL_SIZE)

=============================================================================

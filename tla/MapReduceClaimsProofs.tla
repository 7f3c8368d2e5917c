------------------------ MODULE MapReduceClaimsProofs ------------------------
(***************************************************************************)
(* Theorems about the counting of MapReduceJob: the claims of the workers, *)
(* the groups of the queue and the progress a client sees.  The phases of  *)
(* the workers are those of MapReduceJobProofs.                            *)
(***************************************************************************)
EXTENDS MapReduceJobProofs, SequenceTheorems

USE DEF UNDEFINED_STAGE, MAP_STAGE, SHUFFLE_STAGE, REDUCE_STAGE

(***************************************************************************)
(* The inductive invariant                                                 *)
(***************************************************************************)
\* Where a worker holds a claim, in the order it comes there.
Looping == {"check", "dispatch", "map", "lock", "back", "pop", "reduce"}

\* The workers whose claim was beyond the total: each adds one to the count.
Spent ==
    {w \in Workers :
        \/ pc[w] = "check" /\ ~InStage(w)
        \/ pc[w] = "done"
        \/ /\ status.stage = MAP_STAGE
           /\ pc[w] \in {"sort", "barrier", "wait", "assign", "shuffle", "semwait"}}

\* A claim is below the count, no other worker has it, and it is looked at once
\* only: what is below the total stays below it.
TicketInv ==
    /\ \A w \in Workers :
         /\ pc[w] \in Looping \cup {"done"} => old[w] < status.processed
         /\ pc[w] \in Looping \ {"check"} => InStage(w)
         /\ pc[w] = "done" => ~InStage(w)
         /\ pc[w] = "map" => call[w] = 1
    /\ \A w, v \in Workers :
         w # v /\ {pc[w], pc[v]} \subseteq Looping => old[w] # old[v]

\* The fields of the status word do not overflow.
CountInv ==
    /\ status.stage = MAP_STAGE => status.total = NumInputs
    /\ status.stage \in {SHUFFLE_STAGE, REDUCE_STAGE} => status.total <= NumInputs * MaxEmit
    /\ status.stage \in {MAP_STAGE, REDUCE_STAGE} =>
           status.processed <= status.total + Cardinality(Spent)

PairAt(x) == vec[x[1]][x[2]]

\* The pairs in the vectors are different ones, of inputs claimed and let go.
PairsInv ==
    /\ status.stage = UNDEFINED_STAGE => Slots = {}
    /\ \A x, y \in Slots :
         PairAt(x).input = PairAt(y).input /\ PairAt(x).pos = PairAt(y).pos => x = y
    /\ \A x \in Slots : PairAt(x).input \in 1..NumInputs
    /\ status.stage = MAP_STAGE =>
         \A x \in Slots :
            /\ PairAt(x).input <= status.processed
            /\ \A w \in Workers : pc[w] \in Looping => PairAt(x).input # old[w] + 1

Reducing == {w \in Workers : pc[w] = "reduce"}

\* The shuffle counts the pairs it takes, and every group is in one place.
QueueInv ==
    /\ status.stage \in {UNDEFINED_STAGE, MAP_STAGE} => queue = <<>>
    /\ status.stage # REDUCE_STAGE => output = <<>>
    /\ status.stage = SHUFFLE_STAGE =>
         /\ status.processed + Cardinality(Slots) = status.total
         /\ Len(queue) <= status.processed
    /\ status.stage = REDUCE_STAGE =>
         Len(output) + Cardinality(Reducing) + Len(queue) = status.total
    /\ GroupsReady

ClaimInv == TicketInv /\ CountInv /\ PairsInv /\ QueueInv

\* All that is known of a job between two steps.
JobInv == TypeOK /\ PhaseInv /\ ClaimInv

-----------------------------------------------------------------------------
(* Where the workers are in each stage.                                    *)

\* A worker in a call of worker_handle_current_stage is in the stage of that call.
LEMMA LoopStage ==
    ASSUME TypeOK, PhaseInv, NEW w \in Workers,
           pc[w] \in {"claim", "check", "dispatch", "map", "lock", "back", "pop",
                      "reduce", "sort", "barrier", "wait"}
    PROVE  /\ call[w] = 1 => status.stage = MAP_STAGE
           /\ call[w] = 2 => status.stage = REDUCE_STAGE
<1>1. ASSUME call[w] = 1 PROVE status.stage = MAP_STAGE
  <2>1. w \notin Past
    BY <1>1 DEF Past
  <2>2. ~assigned /\ main # "new"
    BY <2>1 DEF PhaseInv, BarrierInv, MainInv
  <2> QED
    BY <2>2 DEF PhaseInv, StageInv
<1>2. ASSUME call[w] = 2 PROVE status.stage = REDUCE_STAGE
  BY <1>2 DEF PhaseInv, StageInv
<1> QED
  BY <1>1, <1>2

\* Nobody holds a claim while a worker shuffles.
LEMMA NobodyLoops ==
    ASSUME TypeOK, PhaseInv, NEW w \in Workers, pc[w] \in {"shuffle", "group"}
    PROVE  /\ \A v \in Workers : pc[v] \in {"shuffle", "group", "assign", "semwait"}
           /\ \A v \in Workers : pc[v] \notin Looping \cup {"done"}
           /\ \A v \in Workers : call[v] = 1
<1>1. \A v \in Workers : pc[v] \in {"shuffle", "group", "assign", "semwait"}
  BY DEF PhaseInv, ShuffleInv
<1>2. \A v \in Workers : pc[v] \notin Looping \cup {"done"}
  BY <1>1 DEF Looping
<1>3. status.stage # REDUCE_STAGE
  BY DEF PhaseInv, StageInv
<1>4. \A v \in Workers : call[v] = 1
  BY <1>3 DEF PhaseInv, StageInv, TypeOK
<1> QED
  BY <1>1, <1>2, <1>4

\* The workers are finitely many, and so are those of any kind.
LEMMA WorkersFinite ==
    /\ IsFiniteSet(Workers) /\ Cardinality(Workers) = NumWorkers
    /\ \A S \in SUBSET Workers :
         IsFiniteSet(S) /\ Cardinality(S) \in Nat /\ Cardinality(S) <= NumWorkers
<1>1. IsFiniteSet(Workers) /\ Cardinality(Workers) = NumWorkers
  BY FS_Interval, CountsAssumption DEF Workers
<1> QED
  BY <1>1, FS_Subset, FS_CardinalityType

\* A worker that is not in a set of workers leaves room in it.
LEMMA RoomForOne ==
    ASSUME NEW S \in SUBSET Workers, NEW w \in Workers, w \notin S
    PROVE  /\ Cardinality(S) + 1 <= NumWorkers
           /\ Cardinality(S \cup {w}) = Cardinality(S) + 1
<1>1. IsFiniteSet(S) /\ S \cup {w} \in SUBSET Workers
  BY WorkersFinite
<1>2. Cardinality(S \cup {w}) = Cardinality(S) + 1
  BY <1>1, FS_AddElement
<1> QED
  BY <1>1, <1>2, WorkersFinite

\* The products and sums of the constants, as numbers.
LEMMA Bounds ==
    /\ NumInputs \in Nat /\ NumWorkers \in Nat /\ NumInputs * MaxEmit \in Nat
    /\ FieldSize \in Nat
    /\ NumInputs + NumWorkers < FieldSize
    /\ NumInputs * MaxEmit + NumWorkers < FieldSize
BY CountsAssumption, EmitAssumption, FieldAssumption

\* fetch_add in a claim does not carry: those who claimed in vain are other workers.
LEMMA ClaimCounts ==
    ASSUME JobInv, NEW w \in Workers, Claim(w)
    PROVE  /\ status.stage \in {MAP_STAGE, REDUCE_STAGE}
           /\ w \notin Spent
           /\ status' = [status EXCEPT !.processed = @ + 1]
<1>1. status.stage \in {MAP_STAGE, REDUCE_STAGE}
  BY LoopStage DEF JobInv, Claim, TypeOK
<1>2. w \notin Spent /\ Spent \in SUBSET Workers
  BY DEF Claim, Spent
<1>3. Cardinality(Spent) \in Nat /\ Cardinality(Spent) + 1 <= NumWorkers
  BY <1>2, RoomForOne, WorkersFinite
<1>4. status.processed <= status.total + Cardinality(Spent)
  BY <1>1 DEF JobInv, ClaimInv, CountInv
<1>5. status.total + NumWorkers < FieldSize
  <2>1. status.total <= NumInputs \/ status.total <= NumInputs * MaxEmit
    BY <1>1, Bounds DEF JobInv, ClaimInv, CountInv
  <2>2. status.total \in Nat
    BY DEF JobInv, TypeOK
  <2> QED
    BY <2>1, <2>2, Bounds
<1>6. status.processed \in Nat /\ status.total \in Nat
  BY DEF JobInv, TypeOK
<1>7. status.processed + 1 < FieldSize
  BY <1>3, <1>4, <1>5, <1>6, Bounds
<1> QED
  BY <1>1, <1>2, <1>7 DEF Claim, IncStageProcessed

-----------------------------------------------------------------------------
(* Claims.                                                                 *)

\* A step that makes no claim and ends in no loop but the one it was in.
LEMMA TicketStays ==
    ASSUME TicketInv, UNCHANGED <<status, old>>,
           \A v \in Workers :
              /\ pc'[v] \in Looping \cup {"done"} => pc'[v] = pc[v]
              /\ pc'[v] = "map" => call'[v] = call[v]
    PROVE  TicketInv'
<1>1. ASSUME NEW v \in Workers
      PROVE  /\ pc'[v] \in Looping \cup {"done"} => old'[v] < status'.processed
             /\ pc'[v] \in Looping \ {"check"} => InStage(v)'
             /\ pc'[v] = "done" => ~InStage(v)'
             /\ pc'[v] = "map" => call'[v] = 1
  BY DEF TicketInv, InStage, Looping
<1>2. ASSUME NEW v \in Workers, NEW u \in Workers, u # v, {pc'[u], pc'[v]} \subseteq Looping
      PROVE  old'[u] # old'[v]
  BY <1>2 DEF TicketInv
<1> QED
  BY <1>1, <1>2 DEF TicketInv

\* A step of a worker that has a claim and keeps it.
LEMMA TicketMoves ==
    ASSUME JobInv, NEW w \in Workers, NEW l \in Looping, Goto(w, l),
           pc[w] \in Looping, InStage(w), l = "map" => call[w] = 1,
           UNCHANGED <<status, old, call>>
    PROVE  TicketInv'
<1>1. \A v \in Workers : pc'[v] = IF v = w THEN l ELSE pc[v]
  BY DEF Goto, JobInv, TypeOK
<1> QED
  BY <1>1 DEF JobInv, ClaimInv, TicketInv, InStage, Looping

\* fetch_add hands out each value once.
LEMMA ClaimTicket ==
    ASSUME JobInv, NEW w \in Workers, Claim(w)
    PROVE  TicketInv'
<1>1. \A v \in Workers : pc'[v] = IF v = w THEN "check" ELSE pc[v]
  BY DEF Claim, Goto, JobInv, TypeOK
<1>2. \A v \in Workers : old'[v] = IF v = w THEN status.processed ELSE old[v]
  BY DEF Claim, JobInv, TypeOK
<1>3. status'.total = status.total /\ status'.processed = status.processed + 1
  BY ClaimCounts DEF JobInv, TypeOK
<1>4. status.processed \in Nat /\ \A v \in Workers : old[v] \in Nat
  BY DEF JobInv, TypeOK
<1>5. call' = call
  BY DEF Claim
<1> QED
  BY <1>1, <1>2, <1>3, <1>4, <1>5 DEF JobInv, ClaimInv, TicketInv, InStage, Looping

\* When nobody has a claim there is nothing to keep.
LEMMA NoTickets ==
    ASSUME \A v \in Workers : pc'[v] \notin Looping \cup {"done"}
    PROVE  TicketInv'
BY DEF TicketInv, Looping

\* Every step keeps the claims apart.
LEMMA NextTicketInv == JobInv /\ [Next]_vars => TicketInv'
<1> SUFFICES ASSUME JobInv, [Next]_vars PROVE TicketInv'
  OBVIOUS
<1> USE DEF JobInv, ClaimInv, TypeOK, Goto, Looping, workerVars
<1>1. CASE StartJob
  BY <1>1, NoTickets DEF StartJob, PhaseInv, MainInv
<1>2. CASE RunWorker
  BY <1>2, TicketStays DEF RunWorker
<1>3. CASE WaitForJob \/ JoinWorker \/ CloseJobHandle \/ UNCHANGED vars
  BY <1>3, TicketStays DEF WaitForJob, JoinWorker, CloseJobHandle, vars
<1>4. ASSUME NEW w \in Workers, Worker(w)
      PROVE  TicketInv'
  <2>1. CASE Claim(w)
    BY <2>1, ClaimTicket
  <2>2. CASE Check(w)
    <3>1. CASE InStage(w)
      BY <2>2, <3>1, TicketMoves DEF Check
    <3>2. CASE ~InStage(w)
      <4>1. \A v \in Workers : v # w => pc'[v] = pc[v]
        BY <2>2 DEF Check
      <4>2. pc'[w] \in {"sort", "done"} /\ UNCHANGED <<status, old, call>>
        BY <2>2, <3>2 DEF Check
      <4>3. old[w] < status.processed
        BY <2>2 DEF Check, TicketInv
      <4>4. ASSUME NEW v \in Workers
            PROVE  /\ pc'[v] \in Looping \cup {"done"} => old'[v] < status'.processed
                   /\ pc'[v] \in Looping \ {"check"} => InStage(v)'
                   /\ pc'[v] = "done" => ~InStage(v)'
                   /\ pc'[v] = "map" => call'[v] = 1
        BY <4>1, <4>2, <4>3, <3>2 DEF TicketInv, InStage
      <4>5. ASSUME NEW v \in Workers, NEW u \in Workers, u # v,
                   {pc'[u], pc'[v]} \subseteq Looping
            PROVE  old'[u] # old'[v]
        <5>1. /\ old' = old
              /\ {pc[u], pc[v]} \subseteq Looping
          BY <2>2, <4>1, <4>2, <4>5 DEF Looping, Check
        <5> QED
          BY <4>5, <5>1 DEF TicketInv
      <4> QED
        BY <4>4, <4>5 DEF TicketInv
    <3> QED
      BY <3>1, <3>2
  <2>3. CASE Dispatch(w)
    <3>1. InStage(w)
      BY <2>3 DEF Dispatch, TicketInv
    <3>2. CASE status.stage = MAP_STAGE
      <4>1. call[w] = 1
        BY <2>3, <3>2, LoopStage DEF Dispatch
      <4>2. pc' = [pc EXCEPT ![w] = "map"]
        BY <2>3, <3>2 DEF Dispatch
      <4> QED
        BY <2>3, <3>1, <4>1, <4>2, TicketMoves DEF Dispatch
    <3>3. CASE status.stage = REDUCE_STAGE
      <4>1. pc' = [pc EXCEPT ![w] = "lock"]
        BY <2>3, <3>3 DEF Dispatch
      <4> QED
        BY <2>3, <3>1, <4>1, TicketMoves DEF Dispatch
    <3> QED
      BY <2>3, <3>2, <3>3, LoopStage DEF Dispatch
  <2>4. CASE MapCall(w) \/ ReduceCall(w)
    BY <2>4, TicketStays DEF MapCall, ReduceCall
  <2>5. CASE LockReduce(w) \/ CopyBack(w) \/ PopBack(w)
    <3>1. InStage(w)
      BY <2>5 DEF LockReduce, CopyBack, PopBack, TicketInv
    <3> QED
      BY <2>5, <3>1, TicketMoves DEF LockReduce, CopyBack, PopBack
  <2>6. CASE Sort(w) \/ BarrierWait(w) \/ BarrierRelease(w) \/ AssignShuffle(w)
    BY <2>6, TicketStays DEF Sort, BarrierWait, BarrierRelease, AssignShuffle, OneShuffles
  <2>7. CASE StartShuffle(w) \/ GroupMaxKey(w) \/ EndShuffle(w)
    <3>1. pc[w] \in {"shuffle", "group"}
      BY <2>7 DEF StartShuffle, GroupMaxKey, EndShuffle
    <3>2. \A v \in Workers : pc[v] \notin Looping \cup {"done"}
      BY <3>1, NobodyLoops
    <3> QED
      BY <2>7, <3>2, NoTickets DEF StartShuffle, GroupMaxKey, EndShuffle
  <2>8. CASE SemaphoreWait(w) \/ SemaphorePost(w)
    BY <2>8, TicketStays DEF SemaphoreWait, SemaphorePost
  <2> QED
    BY <1>4, <2>1, <2>2, <2>3, <2>4, <2>5, <2>6, <2>7, <2>8 DEF Worker
<1> QED
  BY <1>1, <1>2, <1>3, <1>4 DEF Next, StartMapReduceJob, Closed

-----------------------------------------------------------------------------
(* The slots of the vectors, and what an iteration of the shuffle takes.   *)

\* A slot is a worker and a position of its vector.
LEMMA SlotsAre ==
    /\ \A v, i : <<v, i>> \in Slots <=> v \in Workers /\ i \in 1..Len(vec[v])
    /\ \A x \in Slots : x = <<x[1], x[2]>> /\ x[1] \in Workers /\ x[2] \in 1..Len(vec[x[1]])
BY DEF Slots

\* The pairs of different slots are different, so the inputs and the positions
\* of the emit2 calls bound the number of slots.
LEMMA SlotsBounded ==
    ASSUME JobInv
    PROVE  Cardinality(Slots) \in Nat /\ Cardinality(Slots) <= NumInputs * MaxEmit
<1> DEFINE T == (1..NumInputs) \X (1..MaxEmit)
           f == [x \in Slots |-> <<PairAt(x).input, PairAt(x).pos>>]
<1>1. \A x \in Slots : PairAt(x) \in Pair
  <2> SUFFICES ASSUME NEW x \in Slots PROVE PairAt(x) \in Pair
    OBVIOUS
  <2>1. x[1] \in Workers /\ x[2] \in 1..Len(vec[x[1]])
    BY SlotsAre
  <2>2. vec[x[1]] \in Seq(Pair)
    BY <2>1 DEF JobInv, TypeOK
  <2> QED
    BY <2>1, <2>2 DEF PairAt
<1>2. f \in Injection(Slots, T)
  <2>1. \A x \in Slots : f[x] \in T
    BY <1>1 DEF JobInv, ClaimInv, PairsInv, Pair
  <2>2. ASSUME NEW x \in Slots, NEW y \in Slots, f[x] = f[y] PROVE x = y
    BY <2>2 DEF JobInv, ClaimInv, PairsInv
  <2> QED
    BY <2>1, <2>2 DEF Injection, IsInjective
<1>3. IsFiniteSet(T) /\ Cardinality(T) = NumInputs * MaxEmit
  <2>1. IsFiniteSet(1..NumInputs) /\ Cardinality(1..NumInputs) = NumInputs
    BY FS_Interval, CountsAssumption
  <2>2. IsFiniteSet(1..MaxEmit) /\ Cardinality(1..MaxEmit) = MaxEmit
    BY FS_Interval, EmitAssumption
  <2>3. /\ IsFiniteSet(T)
        /\ Cardinality(T) = Cardinality(1..NumInputs) * Cardinality(1..MaxEmit)
    BY <2>1, <2>2, FS_Product, Zenon
  <2> QED
    BY <2>1, <2>2, <2>3, Zenon
<1>4. IsFiniteSet(Slots)
  BY SlotsFinite DEF JobInv
<1> HIDE DEF T, f
<1>5. Cardinality(Slots) <= Cardinality(T)
  BY <1>2, <1>3, FS_Injection
<1> QED
  BY <1>3, <1>4, <1>5, FS_CardinalityType

\* A set of positions that has, with each one, all those behind it.
LEMMA TrailingRunIsInterval ==
    ASSUME NEW s \in Seq(Pair), NEW k
    PROVE  /\ Cardinality(TrailingRun(s, k)) \in 0..Len(s)
           /\ TrailingRun(s, k) = (Len(s) - Cardinality(TrailingRun(s, k)) + 1)..Len(s)
<1> DEFINE T == TrailingRun(s, k)
           c == Cardinality(T)
           n == Len(s)
<1>1. n \in Nat /\ T \subseteq 1..n
  BY DEF TrailingRun
<1>2. IsFiniteSet(1..n) /\ Cardinality(1..n) = n
  <2> HIDE DEF n
  <2> QED
    BY <1>1, FS_Interval
<1>3. IsFiniteSet(T) /\ c <= n
  BY <1>1, <1>2, FS_Subset
<1>4. c \in Nat
  BY <1>3, FS_CardinalityType
<1>5. ASSUME NEW i \in T PROVE i >= n - c + 1
  <2>1. i \in 1..n /\ i..n \subseteq T
    BY DEF TrailingRun
  <2>2. IsFiniteSet(i..n) /\ Cardinality(i..n) = n - i + 1
    BY <1>1, <2>1, FS_Interval
  <2> HIDE DEF T
  <2>3. n - i + 1 <= c
    BY <1>3, <2>1, <2>2, FS_Subset
  <2> QED
    BY <1>1, <1>4, <2>1, <2>3
<1>6. T \subseteq (n - c + 1)..n
  BY <1>1, <1>4, <1>5
<1>7. IsFiniteSet((n - c + 1)..n) /\ Cardinality((n - c + 1)..n) = c
  <2>1. n - c + 1 \in Int
    BY <1>1, <1>4
  <2> HIDE DEF n, c
  <2> QED
    BY <1>1, <1>3, <1>4, <2>1, FS_Interval
<1>8. T = (n - c + 1)..n
  <2> HIDE DEF n, T
  <2> QED
    BY <1>6, <1>7, FS_Subset
<1> QED
  BY <1>1, <1>3, <1>4, <1>8

\* A finite set of numbers that has a member has a largest one.
LEMMA FiniteMax ==
    ASSUME NEW S \in SUBSET Nat, IsFiniteSet(S), S # {}
    PROVE  \E m \in S : \A n \in S : n <= m
<1> DEFINE HasMax(U) == \E m \in U : \A n \in U : n <= m
           T == {U \in FiniteSubsetsOf(S) : U # {} /\ ~HasMax(U)}
<1> SUFFICES ASSUME ~HasMax(S) PROVE FALSE
  OBVIOUS
<1>1. S \in T
  BY DEF FiniteSubsetsOf
<1>2. T \subseteq FiniteSubsetsOf(S) /\ T # {}
  BY <1>1
<1>3. IsWellFoundedOn(StrictSubsetOrdering(S), FiniteSubsetsOf(S))
  BY FS_StrictSubsetOrderingWellFounded
<1> HIDE DEF T
<1>4. PICK U \in T : \A V \in T : <<V, U>> \notin StrictSubsetOrdering(S)
  BY <1>2, <1>3, WFMin
<1> USE DEF T
<1>5. U \subseteq S /\ IsFiniteSet(U) /\ U # {} /\ ~HasMax(U)
  BY DEF FiniteSubsetsOf
<1>6. PICK x \in U : TRUE
  BY <1>5
<1>7. IsFiniteSet(U \ {x})
  BY <1>5, FS_RemoveElement
<1>8. <<U \ {x}, U>> \in StrictSubsetOrdering(S)
  BY <1>5, <1>6 DEF StrictSubsetOrdering
<1>9. U \ {x} \notin T
  BY <1>4, <1>8
<1>10. CASE U \ {x} = {}
  BY <1>5, <1>6, <1>10
<1>11. CASE HasMax(U \ {x})
  <2>1. PICK m \in U \ {x} : \A n \in U \ {x} : n <= m
    BY <1>11
  <2>2. m \in Nat /\ x \in Nat
    BY <1>5, <1>6
  <2>3. CASE x <= m
    BY <1>5, <2>1, <2>3
  <2>4. CASE m <= x
    <3>1. \A n \in U : n <= x
      BY <1>5, <2>1, <2>2, <2>4
    <3> QED
      BY <1>5, <1>6, <3>1
  <2> QED
    BY <2>2, <2>3, <2>4
<1> QED
  BY <1>5, <1>7, <1>9, <1>10, <1>11 DEF FiniteSubsetsOf

\* While a vector has a pair the largest key at the back of one exists.
LEMMA MaxKeyIsMax ==
    ASSUME TypeOK, NonEmpty # {}
    PROVE  /\ MaxKey \in BackKeys
           /\ \A b \in BackKeys : b <= MaxKey
<1>1. \A v \in NonEmpty : vec[v][Len(vec[v])] \in Pair
  <2> SUFFICES ASSUME NEW v \in NonEmpty PROVE vec[v][Len(vec[v])] \in Pair
    OBVIOUS
  <2>1. vec[v] \in Seq(Pair) /\ vec[v] # <<>>
    BY DEF NonEmpty, TypeOK
  <2> QED
    BY <2>1
<1>2. BackKeys \in SUBSET Nat
  BY <1>1 DEF BackKeys, Pair
<1>3. IsFiniteSet(BackKeys)
  <2> DEFINE f == [v \in NonEmpty |-> vec[v][Len(vec[v])].key]
  <2>1. IsFiniteSet(NonEmpty)
    BY WorkersFinite DEF NonEmpty
  <2>2. f \in Surjection(NonEmpty, BackKeys)
    BY DEF Surjection, BackKeys
  <2> QED
    BY <2>1, <2>2, FS_Surjection
<1>4. BackKeys # {}
  BY DEF BackKeys
<1>5. \E k \in BackKeys : \A b \in BackKeys : b <= k
  BY <1>2, <1>3, <1>4, FiniteMax
<1> QED
  BY <1>5 DEF MaxKey

\* A vector's back belongs to what is taken from it when it has the largest key.
LEMMA MaxSlotsNonempty ==
    ASSUME TypeOK, NonEmpty # {}
    PROVE  MaxSlots # {}
<1>1. PICK v \in NonEmpty : vec[v][Len(vec[v])].key = MaxKey
  BY MaxKeyIsMax DEF BackKeys
<1>2. v \in Workers /\ vec[v] \in Seq(Pair) /\ vec[v] # <<>>
  BY DEF NonEmpty, TypeOK
<1>3. Len(vec[v]) \in 1..Len(vec[v])
  BY <1>2
<1>4. Len(vec[v]) \in MaxRun(v)
  BY <1>1, <1>3 DEF MaxRun, TrailingRun
<1>5. <<v, Len(vec[v])>> \in Slots
  BY <1>2, <1>3, SlotsAre
<1> QED
  BY <1>4, <1>5 DEF MaxSlots

\* One iteration of the shuffle loop takes the slots of the largest key and
\* counts each of them, without a carry.
LEMMA GroupCounts ==
    ASSUME JobInv, NEW w \in Workers, GroupMaxKey(w)
    PROVE  /\ Slots' = Slots \ MaxSlots
           /\ \A x \in Slots' : PairAt(x)' = PairAt(x)
           /\ Cardinality(MaxSlots) \in Nat /\ Cardinality(MaxSlots) >= 1
           /\ Cardinality(Slots') = Cardinality(Slots) - Cardinality(MaxSlots)
           /\ status.stage = SHUFFLE_STAGE
           /\ status' = [status EXCEPT !.processed = @ + Cardinality(MaxSlots)]
<1>1. /\ NonEmpty # {}
      /\ vec' = [v \in Workers |->
                   SubSeq(vec[v], 1, Len(vec[v]) - Cardinality(MaxRun(v)))]
      /\ IncStageProcessed(Cardinality(MaxSlots))
      /\ pc[w] = "group"
  BY DEF GroupMaxKey
<1>2. ASSUME NEW v \in Workers
      PROVE  /\ Cardinality(MaxRun(v)) \in 0..Len(vec[v])
             /\ MaxRun(v) = (Len(vec[v]) - Cardinality(MaxRun(v)) + 1)..Len(vec[v])
             /\ Len(vec[v]) \in Nat
             /\ Len(vec'[v]) = Len(vec[v]) - Cardinality(MaxRun(v))
             /\ \A i \in 1..Len(vec'[v]) : vec'[v][i] = vec[v][i]
  <2> DEFINE c == Cardinality(MaxRun(v))
             n == Len(vec[v])
  <2>1. vec[v] \in Seq(Pair) /\ n \in Nat
    BY DEF JobInv, TypeOK
  <2>2. c \in 0..n /\ MaxRun(v) = (n - c + 1)..n
    BY <2>1, TrailingRunIsInterval DEF MaxRun
  <2>3. vec'[v] = SubSeq(vec[v], 1, n - c)
    BY <1>1
  <2> HIDE DEF c
  <2>4. \A i \in 1..(n - c) : vec[v][i] \in Pair
    BY <2>1, <2>2
  <2>5. /\ Len(vec'[v]) = n - c
        /\ \A i \in 1..(n - c) : vec'[v][i] = vec[v][i]
    BY <2>1, <2>2, <2>3, <2>4, SubSeqProperties
  <2> QED
    BY <2>1, <2>2, <2>5 DEF c
<1>3. Slots' = Slots \ MaxSlots
  <2>1. ASSUME NEW v \in Workers, NEW i \in Nat
        PROVE  i \in 1..Len(vec'[v]) <=> i \in 1..Len(vec[v]) /\ i \notin MaxRun(v)
    <3> DEFINE c == Cardinality(MaxRun(v))
               n == Len(vec[v])
    <3>1. c \in 0..n /\ MaxRun(v) = (n - c + 1)..n /\ n \in Nat /\ Len(vec'[v]) = n - c
      BY <1>2
    <3> HIDE DEF c, n
    <3> QED
      BY <3>1 DEF n
  <2>2. \A v \in Workers : Len(vec[v]) \in Nat /\ Len(vec'[v]) \in Nat
    BY <1>2
  <2>3. ASSUME NEW x PROVE x \in Slots' <=> x \in Slots \ MaxSlots
    BY <2>1, <2>2 DEF Slots, MaxSlots
  <2> QED
    BY <2>3
<1>4. \A x \in Slots' : PairAt(x)' = PairAt(x)
  BY <1>2 DEF Slots, PairAt
<1>5. IsFiniteSet(Slots) /\ MaxSlots \subseteq Slots
  BY SlotsFinite DEF JobInv, MaxSlots
<1>6. /\ IsFiniteSet(MaxSlots) /\ Cardinality(MaxSlots) \in Nat
      /\ Cardinality(Slots) \in Nat
      /\ Cardinality(MaxSlots) <= Cardinality(Slots)
  BY <1>5, FS_Subset, FS_CardinalityType
<1>7. Cardinality(MaxSlots) >= 1
  <2>1. Cardinality(MaxSlots) # 0
    BY <1>1, <1>6, MaxSlotsNonempty, FS_EmptySet DEF JobInv
  <2> QED
    BY <1>6, <2>1
<1>8. Cardinality(Slots') = Cardinality(Slots) - Cardinality(MaxSlots)
  <2>1. Slots \cap MaxSlots = MaxSlots
    BY <1>5
  <2> QED
    BY <1>3, <1>5, <2>1, FS_Difference
<1>9. status.stage = SHUFFLE_STAGE
  BY <1>1 DEF JobInv, PhaseInv, StageInv
<1>10. status.processed + Cardinality(MaxSlots) < FieldSize
  <2>1. /\ status.processed + Cardinality(Slots) = status.total
        /\ status.total <= NumInputs * MaxEmit
    BY <1>9 DEF JobInv, ClaimInv, QueueInv, CountInv
  <2>2. status.processed \in Nat /\ status.total \in Nat
    BY DEF JobInv, TypeOK
  <2> QED
    BY <1>6, <2>1, <2>2, Bounds
<1> QED
  BY <1>1, <1>3, <1>4, <1>6, <1>7, <1>8, <1>9, <1>10 DEF IncStageProcessed

-----------------------------------------------------------------------------
(* The fields of the status word.                                          *)

\* The set of those who claimed in vain does not shrink within a stage.
LEMMA CountStays ==
    ASSUME CountInv, status' = status, Spent \subseteq Spent', status.processed \in Nat,
           status.total \in Nat
    PROVE  CountInv'
<1>1. Spent \in SUBSET Workers /\ Spent' \in SUBSET Workers
  BY DEF Spent, Workers
<1>2. IsFiniteSet(Spent')
  BY <1>1, WorkersFinite
<1>3. /\ Cardinality(Spent) <= Cardinality(Spent')
      /\ Cardinality(Spent) \in Nat /\ Cardinality(Spent') \in Nat
  BY <1>1, <1>2, FS_Subset, WorkersFinite
<1> QED
  BY <1>3 DEF CountInv

\* Every step keeps the counts in their fields.
LEMMA NextCountInv == JobInv /\ [Next]_vars => CountInv'
<1> SUFFICES ASSUME JobInv, [Next]_vars PROVE CountInv'
  OBVIOUS
<1>1. /\ TypeOK /\ PhaseInv /\ CountInv
      /\ status.processed \in Nat /\ status.total \in Nat
      /\ \A v \in Workers : call[v] \in {1, 2}
  BY DEF JobInv, ClaimInv, TypeOK
<1>2. Spent' \in SUBSET Workers
  BY DEF Spent, Workers
<1>3. Cardinality(Spent') \in Nat
  BY <1>2, WorkersFinite
<1>4. CASE StartJob
  BY <1>3, <1>4, Bounds DEF StartJob, SetStage, CountInv
<1>5. CASE RunWorker
  <2>1. cursor + 1 \in Workers /\ pc[cursor + 1] = "off"
    BY <1>1, <1>5, CountsAssumption DEF RunWorker, TypeOK, PhaseInv, MainInv, Workers
  <2>2. Spent \subseteq Spent'
    BY <1>1, <1>5, <2>1 DEF RunWorker, Goto, TypeOK, Spent, InStage, workerVars
  <2> QED
    BY <1>1, <1>5, <2>2, CountStays DEF RunWorker
<1>6. CASE WaitForJob \/ JoinWorker \/ CloseJobHandle \/ UNCHANGED vars
  BY <1>1, <1>6, CountStays
     DEF WaitForJob, JoinWorker, CloseJobHandle, vars, Spent, InStage, workerVars
\* A step of a worker that stays where it is counted, or uncounted.
<1>7. ASSUME NEW w \in Workers, NEW l, Goto(w, l), UNCHANGED <<status, old>>,
             w \in Spent => \/ l = "done"
                            \/ /\ status.stage = MAP_STAGE
                               /\ l \in {"sort", "barrier", "wait", "assign", "shuffle",
                                         "semwait"}
      PROVE  CountInv'
  <2>1. \A v \in Workers : pc'[v] = IF v = w THEN l ELSE pc[v]
    BY <1>1, <1>7 DEF Goto, TypeOK
  <2>2. Spent \subseteq Spent'
    BY <1>7, <2>1 DEF Spent, InStage
  <2> QED
    BY <1>1, <1>7, <2>2, CountStays
<1>8. ASSUME NEW w \in Workers, Worker(w)
      PROVE  CountInv'
  <2> USE DEF workerVars
  <2>1. CASE Claim(w)
    <3>1. /\ status.stage \in {MAP_STAGE, REDUCE_STAGE} /\ w \notin Spent
          /\ status' = [status EXCEPT !.processed = @ + 1]
      BY <2>1, ClaimCounts
    <3>2. \A v \in Workers : /\ pc'[v] = IF v = w THEN "check" ELSE pc[v]
                             /\ old'[v] = IF v = w THEN status.processed ELSE old[v]
      BY <1>1, <2>1 DEF Claim, Goto, TypeOK
    <3>3. Spent' = IF status.processed < status.total THEN Spent ELSE Spent \cup {w}
      BY <1>1, <3>1, <3>2 DEF Spent, InStage, TypeOK
    <3>4. Spent \in SUBSET Workers
      BY DEF Spent
    <3>5. Cardinality(Spent \cup {w}) = Cardinality(Spent) + 1 /\ Cardinality(Spent) \in Nat
      BY <3>1, <3>4, RoomForOne, WorkersFinite
    <3>6. /\ status'.stage = status.stage /\ status'.total = status.total
          /\ status'.processed = status.processed + 1
      BY <1>1, <3>1 DEF TypeOK
    <3> QED
      BY <1>1, <3>1, <3>3, <3>5, <3>6 DEF CountInv
  <2>2. CASE Check(w)
    <3>1. CASE InStage(w)
      <4>1. w \notin Spent /\ Goto(w, "dispatch")
        BY <2>2, <3>1 DEF Check, Spent
      <4> QED
        BY <1>7, <2>2, <4>1 DEF Check
    <3>2. CASE ~InStage(w) /\ call[w] = 1
      <4>1. status.stage = MAP_STAGE /\ Goto(w, "sort")
        BY <1>1, <2>2, <3>2, LoopStage DEF Check
      <4> QED
        BY <1>7, <2>2, <4>1 DEF Check
    <3>3. CASE ~InStage(w) /\ call[w] = 2
      <4>1. Goto(w, "done")
        BY <2>2, <3>3 DEF Check
      <4> QED
        BY <1>7, <2>2, <4>1 DEF Check
    <3> QED
      BY <1>1, <3>1, <3>2, <3>3
  <2>3. CASE Dispatch(w)
    <3>1. w \notin Spent
      BY <2>3 DEF Dispatch, Spent
    <3>2. PICK l : Goto(w, l) /\ UNCHANGED <<status, old>>
      BY <2>3 DEF Dispatch
    <3> QED
      BY <1>7, <3>1, <3>2
  <2>4. CASE MapCall(w)
    BY <1>7, <2>4 DEF MapCall, Spent
  <2>5. CASE LockReduce(w)
    BY <1>7, <2>5 DEF LockReduce, Spent
  <2>6. CASE CopyBack(w)
    BY <1>7, <2>6 DEF CopyBack, Spent
  <2>7. CASE PopBack(w)
    BY <1>7, <2>7 DEF PopBack, Spent
  <2>8. CASE ReduceCall(w)
    BY <1>7, <2>8 DEF ReduceCall, Spent
  <2>9. CASE Sort(w)
    BY <1>7, <2>9 DEF Sort, Spent
  <2>10. CASE BarrierWait(w)
    BY <1>7, <2>10 DEF BarrierWait, Spent
  <2>11. CASE BarrierRelease(w)
    <3>1. /\ UNCHANGED <<status, old>>
          /\ pc' = [v \in Workers |-> IF v = w \/ pc[v] = "wait" THEN "assign" ELSE pc[v]]
      BY <2>11 DEF BarrierRelease
    <3>2. Spent \subseteq Spent'
      BY <1>1, <2>11, <3>1 DEF Spent, InStage, BarrierRelease
    <3> QED
      BY <1>1, <3>1, <3>2, CountStays
  <2>12. CASE AssignShuffle(w)
    <3>1. w \in Spent => status.stage = MAP_STAGE
      BY <2>12 DEF AssignShuffle, Spent
    <3>2. PICK l \in {"semwait", "shuffle"} : Goto(w, l)
      BY <2>12 DEF AssignShuffle, OneShuffles
    <3> QED
      BY <1>7, <2>12, <3>1, <3>2 DEF AssignShuffle
  <2>13. CASE StartShuffle(w)
    <3>1. Cardinality(Slots) <= NumInputs * MaxEmit
      BY SlotsBounded
    <3> QED
      BY <2>13, <3>1 DEF StartShuffle, SetStage, CountInv
  <2>14. CASE GroupMaxKey(w)
    <3>1. status'.stage = status.stage /\ status.stage = SHUFFLE_STAGE /\ status'.total = status.total
      BY <1>1, <2>14, GroupCounts DEF TypeOK
    <3> QED
      BY <1>1, <3>1 DEF CountInv
  <2>15. CASE EndShuffle(w)
    <3>1. status.stage = SHUFFLE_STAGE
      BY <1>1, <2>15 DEF EndShuffle, PhaseInv, StageInv
    <3>2. /\ Len(queue) <= status.processed
          /\ status.processed + Cardinality(Slots) = status.total
          /\ status.total <= NumInputs * MaxEmit
      BY <1>1, <3>1 DEF CountInv, JobInv, ClaimInv, QueueInv
    <3>3. Cardinality(Slots) \in Nat /\ Len(queue) \in Nat
      BY <1>1, SlotsBounded DEF TypeOK
    <3>4. Len(queue) <= NumInputs * MaxEmit
      BY <1>1, <3>2, <3>3, Bounds
    <3>5. /\ status'.stage = REDUCE_STAGE /\ status'.total = Len(queue)
          /\ status'.processed = 0
      BY <2>15 DEF EndShuffle, SetStage
    <3> QED
      BY <1>3, <3>3, <3>4, <3>5 DEF CountInv
  <2>16. CASE SemaphoreWait(w)
    <3>1. status.stage = REDUCE_STAGE
      BY <1>1, <2>16 DEF SemaphoreWait, PhaseInv, StageInv
    <3> QED
      BY <1>7, <2>16, <3>1 DEF SemaphoreWait, Spent
  <2>17. CASE SemaphorePost(w)
    BY <1>7, <2>17 DEF SemaphorePost, Spent
  <2> QED
    BY <1>8, <2>1, <2>2, <2>3, <2>4, <2>5, <2>6, <2>7, <2>8, <2>9, <2>10,
       <2>11, <2>12, <2>13, <2>14, <2>15, <2>16, <2>17 DEF Worker
<1> QED
  BY <1>4, <1>5, <1>6, <1>8 DEF Next, StartMapReduceJob, Closed

-----------------------------------------------------------------------------
(* The pairs in the vectors.                                               *)

\* A step that neither touches a vector nor makes a claim.
LEMMA PairsStay ==
    ASSUME PairsInv, UNCHANGED <<status, old, vec>>,
           \A v \in Workers : pc'[v] \in Looping => pc[v] \in Looping
    PROVE  PairsInv'
<1>1. Slots' = Slots
  BY DEF Slots
<1>2. \A x \in Slots : PairAt(x)' = PairAt(x)
  BY DEF PairAt
<1> QED
  BY <1>1, <1>2 DEF PairsInv

\* A step of the shuffle only takes pairs away.
LEMMA PairsShrink ==
    ASSUME PairsInv, Slots' \subseteq Slots, \A x \in Slots' : PairAt(x)' = PairAt(x),
           status'.stage \in {SHUFFLE_STAGE, REDUCE_STAGE}
    PROVE  PairsInv'
BY DEF PairsInv

\* A map call adds pairs of the input it was given, which has none yet.
LEMMA MapCallPairs ==
    ASSUME JobInv, NEW w \in Workers, MapCall(w)
    PROVE  PairsInv'
<1>1. PICK keys \in EmitChoices :
        vec' = [vec EXCEPT ![w] = @ \o
                  [p \in 1..Len(keys) |->
                      [key |-> keys[p], input |-> old[w] + 1, pos |-> p]]]
  BY DEF MapCall
<1> DEFINE new == [p \in 1..Len(keys) |->
                      [key |-> keys[p], input |-> old[w] + 1, pos |-> p]]
           n == Len(vec[w])
<1>2. /\ TypeOK /\ TicketInv /\ PairsInv /\ CountInv
      /\ status.stage = MAP_STAGE /\ status.total = NumInputs
      /\ pc[w] = "map" /\ old[w] \in Nat /\ old[w] < NumInputs
      /\ old[w] < status.processed /\ status.processed \in Nat
  <2>1. pc[w] = "map" /\ TypeOK /\ TicketInv /\ PairsInv /\ CountInv
    BY DEF MapCall, JobInv, ClaimInv
  <2>2. call[w] = 1 /\ old[w] < status.processed /\ InStage(w)
    BY <2>1 DEF TicketInv, Looping
  <2>3. status.stage = MAP_STAGE
    BY <2>1, <2>2, LoopStage DEF JobInv
  <2> QED
    BY <2>1, <2>2, <2>3 DEF CountInv, InStage, TypeOK
<1>3. /\ status' = status /\ old' = old
      /\ \A v \in Workers : pc'[v] = IF v = w THEN "claim" ELSE pc[v]
  BY <1>2 DEF MapCall, Goto, TypeOK
<1>4. Len(keys) \in Nat /\ n \in Nat
  BY <1>2, EmitAssumption DEF TypeOK
<1>5. /\ \A v \in Workers : v # w => vec'[v] = vec[v]
      /\ vec'[w] = vec[w] \o new
  BY <1>1, <1>2 DEF TypeOK
<1>6. /\ Len(vec'[w]) = n + Len(keys)
      /\ \A i \in 1..n : vec'[w][i] = vec[w][i]
      /\ \A i \in (n + 1)..(n + Len(keys)) :
           vec'[w][i].input = old[w] + 1 /\ vec'[w][i].pos = i - n
  <2>1. \A p \in 1..Len(keys) : new[p] \in Pair
    BY <1>2, EmitAssumption DEF Pair
  <2>2. new \in Seq(Pair) /\ Len(new) = Len(keys) /\ vec[w] \in Seq(Pair)
    BY <1>2, <1>4, <2>1 DEF TypeOK
  <2>3. \A p \in 1..Len(keys) : new[p].input = old[w] + 1 /\ new[p].pos = p
    OBVIOUS
  <2> HIDE DEF new
  <2>4. /\ Len(vec'[w]) = n + Len(keys)
        /\ \A i \in 1..(n + Len(keys)) :
             vec'[w][i] = IF i <= n THEN vec[w][i] ELSE new[i - n]
    <3>1. /\ Len(vec[w] \o new) = Len(vec[w]) + Len(new)
          /\ \A i \in 1..(Len(vec[w]) + Len(new)) :
               (vec[w] \o new)[i] = IF i <= Len(vec[w]) THEN vec[w][i] ELSE new[i - Len(vec[w])]
      BY <2>2, ConcatProperties
    <3> QED
      BY <1>5, <2>2, <3>1
  <2>5. \A i \in (n + 1)..(n + Len(keys)) : i - n \in 1..Len(keys) /\ ~(i <= n)
    BY <1>4
  <2>6. \A i \in 1..n : i \in 1..(n + Len(keys)) /\ i <= n
    BY <1>4
  <2>7. \A i \in (n + 1)..(n + Len(keys)) : i \in 1..(n + Len(keys))
    BY <1>4
  <2> HIDE DEF n
  <2> QED
    BY <2>3, <2>4, <2>5, <2>6, <2>7
<1> HIDE DEF new, n
\* Every slot is an old one or holds a pair of the claimed input.
<1>7. ASSUME NEW x \in Slots'
      PROVE  \/ x \in Slots /\ PairAt(x)' = PairAt(x)
             \/ /\ x[1] = w /\ x[2] \in Nat /\ PairAt(x)'.input = old[w] + 1
                /\ PairAt(x)'.pos = x[2] - n
  <2>1. x[1] \in Workers /\ x[2] \in 1..Len(vec'[x[1]]) /\ x = <<x[1], x[2]>>
    BY DEF Slots
  <2>2. CASE x[1] # w
    BY <1>5, <2>1, <2>2 DEF Slots, PairAt
  <2>3. CASE x[1] = w /\ x[2] <= n
    <3>1. x[2] \in 1..n
      BY <1>4, <1>6, <2>1, <2>3
    <3>2. x \in Slots
      BY <2>1, <2>3, <3>1, SlotsAre DEF n
    <3> QED
      BY <1>6, <2>3, <3>1, <3>2 DEF PairAt
  <2>4. CASE x[1] = w /\ x[2] > n
    <3>1. x[2] \in (n + 1)..(n + Len(keys))
      BY <1>4, <1>6, <2>1, <2>4
    <3>2. vec'[w][x[2]].input = old[w] + 1 /\ vec'[w][x[2]].pos = x[2] - n
      BY <1>6, <3>1
    <3>3. x[2] \in Nat
      BY <1>4, <3>1
    <3> QED
      BY <2>4, <3>2, <3>3 DEF PairAt
  <2> QED
    BY <1>4, <2>1, <2>2, <2>3, <2>4
<1>8. \A x \in Slots : PairAt(x).input # old[w] + 1
  BY <1>2 DEF PairsInv, Looping
<1>9. ASSUME NEW x \in Slots', NEW y \in Slots',
             PairAt(x)'.input = PairAt(y)'.input, PairAt(x)'.pos = PairAt(y)'.pos
      PROVE  x = y
  <2>1. CASE x \in Slots /\ PairAt(x)' = PairAt(x) /\ y \in Slots /\ PairAt(y)' = PairAt(y)
    BY <1>2, <1>9, <2>1 DEF PairsInv
  <2>2. CASE /\ x[1] = w /\ x[2] \in Nat /\ PairAt(x)'.pos = x[2] - n
             /\ y[1] = w /\ y[2] \in Nat /\ PairAt(y)'.pos = y[2] - n
    <3>1. x[2] - n = y[2] - n
      BY <1>9, <2>2, Zenon
    <3>2. x[2] = y[2]
      BY <1>4, <2>2, <3>1
    <3> QED
      BY <2>2, <3>2 DEF Slots
  <2> QED
    BY <1>7, <1>8, <1>9, <2>1, <2>2
<1>10. \A x \in Slots' : PairAt(x)'.input \in 1..NumInputs
  <2>1. old[w] + 1 \in 1..NumInputs
    BY <1>2, CountsAssumption
  <2> QED
    BY <1>2, <1>7, <2>1 DEF PairsInv
<1>11. ASSUME NEW x \in Slots'
       PROVE  /\ PairAt(x)'.input <= status.processed
              /\ \A v \in Workers : pc'[v] \in Looping => PairAt(x)'.input # old[v] + 1
  <2>1. CASE x \in Slots /\ PairAt(x)' = PairAt(x)
    BY <1>2, <1>3, <2>1 DEF PairsInv, Looping
  <2>2. CASE PairAt(x)'.input = old[w] + 1
    <3>1. ASSUME NEW v \in Workers, pc'[v] \in Looping PROVE old[v] # old[w] /\ old[v] \in Nat
      <4>1. v # w /\ pc[v] \in Looping /\ pc[w] \in Looping
        BY <1>2, <1>3, <3>1 DEF Looping
      <4> QED
        BY <1>2, <4>1 DEF TicketInv, TypeOK
    <3> QED
      BY <1>2, <2>2, <3>1
  <2> QED
    BY <1>7, <2>1, <2>2
<1> QED
  BY <1>2, <1>3, <1>9, <1>10, <1>11 DEF PairsInv

\* A sequence without repetitions, and a permutation of it.
LEMMA PermutationIsInjective ==
    ASSUME NEW t \in Seq(Pair), NEW s \in [1..Len(t) -> Range(t)],
           \A i, j \in 1..Len(t) : t[i] = t[j] => i = j,
           Range(s) = Range(t)
    PROVE  \A i, j \in 1..Len(t) : s[i] = s[j] => i = j
<1> DEFINE D == 1..Len(t)
           R == Range(t)
<1>1. IsFiniteSet(D)
  <2>1. Len(t) \in Nat
    OBVIOUS
  <2> QED
    BY <2>1, FS_Interval
<1>2. t \in Surjection(D, R) /\ t \in Injection(D, R)
  BY DEF Surjection, Injection, IsInjective, Range
<1>3. s \in Surjection(D, R)
  <2>1. DOMAIN s = D /\ s \in [D -> R]
    OBVIOUS
  <2>2. \A r \in R : \E i \in D : s[i] = r
    BY <2>1 DEF Range
  <2> QED
    BY <2>1, <2>2 DEF Surjection
<1> HIDE DEF D, R
<1>4. Cardinality(D) = Cardinality(R)
  BY <1>1, <1>2, FS_Surjection
<1>5. s \in Injection(D, R)
  BY <1>1, <1>3, <1>4, FS_SurjSameCardinalityImpliesInj
<1> QED
  BY <1>5 DEF Injection, IsInjective, D

\* Sorting a vector moves its pairs and makes none of them two.
LEMMA SortPairs ==
    ASSUME JobInv, NEW w \in Workers, Sort(w)
    PROVE  PairsInv'
<1>1. PICK s \in [1..Len(vec[w]) -> Range(vec[w])] :
        Range(s) = Range(vec[w]) /\ vec' = [vec EXCEPT ![w] = s]
  BY DEF Sort
<1>2. /\ TypeOK /\ PairsInv /\ status' = status /\ old' = old
      /\ pc[w] = "sort" /\ vec[w] \in Seq(Pair)
      /\ \A v \in Workers : pc'[v] \in Looping => pc[v] \in Looping
  BY DEF Sort, JobInv, ClaimInv, TypeOK, Goto, Looping
<1>3. \A i, j \in 1..Len(vec[w]) : vec[w][i] = vec[w][j] => i = j
  <2> SUFFICES ASSUME NEW i \in 1..Len(vec[w]), NEW j \in 1..Len(vec[w]),
                      vec[w][i] = vec[w][j]
               PROVE  i = j
    OBVIOUS
  <2>1. <<w, i>> \in Slots /\ <<w, j>> \in Slots
    BY SlotsAre
  <2>2. PairAt(<<w, i>>) = PairAt(<<w, j>>)
    BY DEF PairAt
  <2>3. <<w, i>> = <<w, j>>
    BY <1>2, <2>1, <2>2 DEF PairsInv
  <2> QED
    BY <2>3
<1>4. \A i, j \in 1..Len(vec[w]) : s[i] = s[j] => i = j
  BY <1>1, <1>2, <1>3, PermutationIsInjective
<1>5. /\ vec'[w] = s /\ Len(s) = Len(vec[w])
      /\ \A v \in Workers : v # w => vec'[v] = vec[v]
  <2>1. Len(vec[w]) \in Nat
    BY <1>2
  <2> QED
    BY <1>1, <1>2, <2>1 DEF TypeOK
<1>6. ASSUME NEW x \in Slots'
      PROVE  \E y \in Slots : y[1] = x[1] /\ PairAt(y) = PairAt(x)'
  <2>1. x[1] \in Workers /\ x[2] \in 1..Len(vec'[x[1]]) /\ x = <<x[1], x[2]>>
    BY DEF Slots
  <2>2. CASE x[1] # w
    BY <1>5, <2>1, <2>2 DEF Slots, PairAt
  <2>3. CASE x[1] = w
    <3>1. PICK j \in 1..Len(vec[w]) : s[x[2]] = vec[w][j]
      <4>1. x[2] \in 1..Len(vec[w])
        BY <1>5, <2>1, <2>3
      <4>2. s[x[2]] \in Range(vec[w])
        BY <4>1
      <4>3. DOMAIN vec[w] = 1..Len(vec[w])
        BY <1>2
      <4> QED
        BY <4>2, <4>3 DEF Range
    <3>2. <<w, j>> \in Slots
      BY SlotsAre
    <3> QED
      BY <1>5, <2>3, <3>1, <3>2 DEF PairAt
  <2> QED
    BY <2>2, <2>3
<1>7. ASSUME NEW x \in Slots', NEW y \in Slots',
             PairAt(x)'.input = PairAt(y)'.input, PairAt(x)'.pos = PairAt(y)'.pos
      PROVE  x = y
  <2>1. PICK x0 \in Slots : x0[1] = x[1] /\ PairAt(x0) = PairAt(x)'
    BY <1>6
  <2>2. PICK y0 \in Slots : y0[1] = y[1] /\ PairAt(y0) = PairAt(y)'
    BY <1>6
  <2>3. x0 = y0
    BY <1>2, <1>7, <2>1, <2>2 DEF PairsInv
  <2>4. x[1] = y[1] /\ PairAt(x)' = PairAt(y)'
    BY <2>1, <2>2, <2>3
  <2>5. /\ x[1] \in Workers /\ x[2] \in 1..Len(vec'[x[1]]) /\ x = <<x[1], x[2]>>
        /\ y[2] \in 1..Len(vec'[y[1]]) /\ y = <<y[1], y[2]>>
    BY DEF Slots
  <2>6. x[2] = y[2]
    <3>1. CASE x[1] = w
      BY <1>4, <1>5, <2>4, <2>5, <3>1 DEF PairAt
    <3>2. CASE x[1] # w
      <4>1. <<x[1], x[2]>> \in Slots /\ <<x[1], y[2]>> \in Slots
        BY <1>5, <2>4, <2>5, <3>2, SlotsAre
      <4>2. PairAt(<<x[1], x[2]>>) = PairAt(<<x[1], y[2]>>)
        BY <1>5, <2>4, <2>5, <3>2 DEF PairAt
      <4>3. <<x[1], x[2]>> = <<x[1], y[2]>>
        BY <1>2, <4>1, <4>2 DEF PairsInv
      <4> QED
        BY <4>3
    <3> QED
      BY <3>1, <3>2
  <2> QED
    BY <2>4, <2>5, <2>6
<1>8. \A x \in Slots' : PairAt(x)'.input \in 1..NumInputs
  BY <1>2, <1>6 DEF PairsInv
<1>9. status.stage = MAP_STAGE =>
        \A x \in Slots' :
           /\ PairAt(x)'.input <= status.processed
           /\ \A v \in Workers : pc'[v] \in Looping => PairAt(x)'.input # old[v] + 1
  <2> SUFFICES ASSUME status.stage = MAP_STAGE, NEW x \in Slots'
               PROVE  /\ PairAt(x)'.input <= status.processed
                      /\ \A v \in Workers : pc'[v] \in Looping =>
                             PairAt(x)'.input # old[v] + 1
    OBVIOUS
  <2>1. PICK x0 \in Slots : PairAt(x0) = PairAt(x)'
    BY <1>6
  <2> QED
    BY <1>2, <2>1 DEF PairsInv
<1>10. status.stage = UNDEFINED_STAGE => Slots' = {}
  BY <1>2, <1>6 DEF PairsInv
<1> QED
  BY <1>2, <1>7, <1>8, <1>9, <1>10 DEF PairsInv

\* Every step keeps the pairs of the vectors apart.
LEMMA NextPairsInv == JobInv /\ [Next]_vars => PairsInv'
<1> SUFFICES ASSUME JobInv, [Next]_vars PROVE PairsInv'
  OBVIOUS
<1>1. TypeOK /\ PhaseInv /\ TicketInv /\ PairsInv
  BY DEF JobInv, ClaimInv
<1>2. CASE StartJob
  <2>1. status.stage = UNDEFINED_STAGE /\ status'.stage = MAP_STAGE /\ vec' = vec
    BY <1>1, <1>2 DEF StartJob, SetStage, PhaseInv, StageInv, workerVars
  <2>2. Slots' = {}
    BY <1>1, <2>1 DEF Slots, PairsInv
  <2> QED
    BY <2>1, <2>2 DEF PairsInv
<1>3. CASE RunWorker
  BY <1>1, <1>3, PairsStay DEF RunWorker, Goto, TypeOK, Looping, workerVars
<1>4. CASE WaitForJob \/ JoinWorker \/ CloseJobHandle \/ UNCHANGED vars
  BY <1>1, <1>4, PairsStay DEF WaitForJob, JoinWorker, CloseJobHandle, vars, workerVars
<1>5. ASSUME NEW w \in Workers, Worker(w)
      PROVE  PairsInv'
  <2> USE DEF workerVars
  <2>1. CASE Claim(w)
    <3>1. /\ status.stage \in {MAP_STAGE, REDUCE_STAGE}
          /\ status'.stage = status.stage
          /\ status'.processed = status.processed + 1 /\ status.processed \in Nat
      BY <1>1, <2>1, ClaimCounts DEF TypeOK
    <3>2. \A v \in Workers : /\ pc'[v] \in Looping => v = w \/ pc[v] \in Looping
                             /\ old'[v] = IF v = w THEN status.processed ELSE old[v]
      BY <1>1, <2>1 DEF Claim, Goto, TypeOK
    <3>3. Slots' = Slots /\ \A x \in Slots : PairAt(x)' = PairAt(x)
      BY <2>1 DEF Claim, Slots, PairAt
    <3>4. ASSUME status.stage = MAP_STAGE, NEW x \in Slots
          PROVE  /\ PairAt(x).input <= status.processed + 1
                 /\ \A v \in Workers : pc'[v] \in Looping => PairAt(x).input # old'[v] + 1
      <4>1. /\ PairAt(x).input <= status.processed /\ PairAt(x).input \in Nat
            /\ \A v \in Workers : pc[v] \in Looping => PairAt(x).input # old[v] + 1
        BY <1>1, <3>4 DEF PairsInv
      <4> QED
        BY <3>1, <3>2, <4>1
    <3> QED
      BY <1>1, <3>1, <3>3, <3>4 DEF PairsInv
  <2>2. CASE Check(w) \/ Dispatch(w) \/ LockReduce(w) \/ CopyBack(w) \/ PopBack(w)
             \/ ReduceCall(w)
    <3>1. \A v \in Workers : pc'[v] \in Looping => pc[v] \in Looping
      BY <1>1, <2>2
         DEF Check, Dispatch, LockReduce, CopyBack, PopBack, ReduceCall, Goto, TypeOK, Looping
    <3> QED
      BY <1>1, <2>2, <3>1, PairsStay
         DEF Check, Dispatch, LockReduce, CopyBack, PopBack, ReduceCall
  <2>3. CASE MapCall(w)
    BY <2>3, MapCallPairs
  <2>4. CASE Sort(w)
    BY <2>4, SortPairs
  <2>5. CASE BarrierWait(w) \/ BarrierRelease(w) \/ AssignShuffle(w) \/ SemaphoreWait(w)
             \/ SemaphorePost(w)
    <3>1. \A v \in Workers : pc'[v] \in Looping => pc[v] \in Looping
      BY <1>1, <2>5
         DEF BarrierWait, BarrierRelease, AssignShuffle, OneShuffles, SemaphoreWait,
             SemaphorePost, Goto, TypeOK, Looping
    <3> QED
      BY <1>1, <2>5, <3>1, PairsStay
         DEF BarrierWait, BarrierRelease, AssignShuffle, SemaphoreWait, SemaphorePost
  <2>6. CASE StartShuffle(w) \/ EndShuffle(w)
    <3>1. /\ Slots' = Slots /\ \A x \in Slots : PairAt(x)' = PairAt(x)
          /\ status'.stage \in {SHUFFLE_STAGE, REDUCE_STAGE}
      BY <2>6 DEF StartShuffle, EndShuffle, SetStage, Slots, PairAt
    <3> QED
      BY <1>1, <3>1, PairsShrink
  <2>7. CASE GroupMaxKey(w)
    <3>1. /\ Slots' \subseteq Slots /\ \A x \in Slots' : PairAt(x)' = PairAt(x)
          /\ status'.stage = SHUFFLE_STAGE
      BY <1>1, <2>7, GroupCounts DEF TypeOK
    <3> QED
      BY <1>1, <3>1, PairsShrink
  <2> QED
    BY <1>5, <2>1, <2>2, <2>3, <2>4, <2>5, <2>6, <2>7 DEF Worker
<1> QED
  BY <1>2, <1>3, <1>4, <1>5 DEF Next, StartMapReduceJob, Closed

-----------------------------------------------------------------------------
(* The groups.                                                             *)

\* A step that leaves the groups where they are.
LEMMA QueueStays ==
    ASSUME QueueInv, UNCHANGED <<status, queue, output>>,
           status.stage = SHUFFLE_STAGE => Slots' = Slots,
           status.stage = REDUCE_STAGE => Reducing' = Reducing /\ Poppers' = Poppers
    PROVE  QueueInv'
BY DEF QueueInv, GroupsReady

\* A step of a worker that has not a group in hand before or after, and is
\* counted among those who will pop one before and after, or not at all.
LEMMA QueueMoves ==
    ASSUME TypeOK, QueueInv, NEW w \in Workers, NEW l, Goto(w, l),
           UNCHANGED <<status, old, vec, queue, output>>,
           \A v \in Workers : v # w => call'[v] = call[v],
           pc[w] # "reduce", l # "reduce",
           status.stage = REDUCE_STAGE =>
              (w \in Poppers <=> /\ call'[w] = 2
                                 /\ \/ l = "check" /\ old[w] < status.total
                                    \/ l \in {"dispatch", "lock", "back", "pop"})
    PROVE  QueueInv'
<1>1. \A v \in Workers : pc'[v] = IF v = w THEN l ELSE pc[v]
  BY DEF Goto, TypeOK
<1>2. Slots' = Slots
  BY DEF Slots
<1>3. Reducing' = Reducing
  BY <1>1 DEF Reducing
<1>4. ASSUME status.stage = REDUCE_STAGE PROVE Poppers' = Poppers
  BY <1>1, <1>4 DEF Poppers
<1> QED
  BY <1>2, <1>3, <1>4, QueueStays

\* A claim is a place in the queue while there is one.
LEMMA ClaimQueue ==
    ASSUME JobInv, NEW w \in Workers, Claim(w)
    PROVE  QueueInv'
<1>1. /\ TypeOK /\ QueueInv /\ pc[w] = "claim" /\ Poppers \in SUBSET Workers
      /\ UNCHANGED <<call, queue, output>>
  BY DEF JobInv, ClaimInv, Claim, Poppers, dataVars
<1>2. /\ status.stage \in {MAP_STAGE, REDUCE_STAGE}
      /\ status'.stage = status.stage /\ status'.total = status.total
      /\ status'.processed = status.processed + 1
      /\ status.processed \in Nat /\ status.total \in Nat
  BY <1>1, ClaimCounts DEF TypeOK
<1>3. \A v \in Workers : /\ pc'[v] = IF v = w THEN "check" ELSE pc[v]
                         /\ old'[v] = IF v = w THEN status.processed ELSE old[v]
  BY <1>1 DEF Claim, Goto, TypeOK
<1>4. CASE status.stage = MAP_STAGE
  BY <1>1, <1>2, <1>4 DEF QueueInv, GroupsReady
<1>5. CASE status.stage = REDUCE_STAGE
  <2>1. call[w] = 2
    BY <1>1, <1>5, LoopStage DEF JobInv, TypeOK
  <2>2. Reducing' = Reducing
    BY <1>1, <1>3 DEF Reducing
  <2>3. Poppers' = IF status.processed < status.total THEN Poppers \cup {w} ELSE Poppers
    BY <1>1, <1>2, <1>3, <2>1 DEF Poppers
  <2>4. w \notin Poppers
    BY <1>1 DEF Poppers
  <2>5. Cardinality(Poppers \cup {w}) = Cardinality(Poppers) + 1 /\ Cardinality(Poppers) \in Nat
    BY <1>1, <2>4, RoomForOne, WorkersFinite
  <2>6. GroupsReady'
    <3>1. Len(queue) = Cardinality(Poppers) +
              IF status.processed < status.total
              THEN status.total - status.processed ELSE 0
      BY <1>1, <1>5 DEF GroupsReady, QueueInv
    <3>2. Len(queue') = Cardinality(Poppers') +
              IF status'.processed < status'.total
              THEN status'.total - status'.processed ELSE 0
      <4>1. CASE status.processed < status.total
        <5>1. Cardinality(Poppers') = Cardinality(Poppers) + 1
          BY <2>3, <2>5, <4>1
        <5> QED
          BY <1>1, <1>2, <2>5, <3>1, <4>1, <5>1
      <4>2. CASE ~(status.processed < status.total)
        <5>1. Cardinality(Poppers') = Cardinality(Poppers)
          BY <2>3, <4>2
        <5> QED
          BY <1>1, <1>2, <3>1, <4>2, <5>1
      <4> QED
        BY <4>1, <4>2
    <3> QED
      BY <3>2 DEF GroupsReady
  <2> QED
    BY <1>1, <1>2, <1>5, <2>2, <2>6 DEF QueueInv
<1> QED
  BY <1>2, <1>4, <1>5

\* Taking one worker out of a set of workers.
LEMMA OneLess ==
    ASSUME NEW S \in SUBSET Workers, NEW w \in S
    PROVE  /\ Cardinality(S) \in Nat /\ Cardinality(S) >= 1
           /\ Cardinality(S \ {w}) = Cardinality(S) - 1
<1>1. IsFiniteSet(S) /\ Cardinality(S) \in Nat
  BY WorkersFinite
<1>2. Cardinality(S \ {w}) = Cardinality(S) - 1
  BY <1>1, FS_RemoveElement
<1>3. Cardinality(S) # 0
  BY <1>1, FS_EmptySet
<1> QED
  BY <1>1, <1>2, <1>3

\* The worker that pops is one of those the queue has a group for.
LEMMA PopBackQueue ==
    ASSUME JobInv, NEW w \in Workers, PopBack(w)
    PROVE  QueueInv' /\ Len(queue) >= 1
<1>1. /\ TypeOK /\ QueueInv /\ TicketInv /\ pc[w] = "pop"
      /\ Poppers \in SUBSET Workers /\ Reducing \in SUBSET Workers
      /\ UNCHANGED <<status, call, old, output>>
      /\ queue' = SubSeq(queue, 1, Len(queue) - 1)
  BY DEF JobInv, ClaimInv, PopBack, Poppers, Reducing, workerVars
<1>2. call[w] = 2
  BY <1>1 DEF JobInv, PhaseInv, BarrierInv
<1>3. status.stage = REDUCE_STAGE
  BY <1>1, <1>2, LoopStage DEF JobInv
<1>4. \A v \in Workers : pc'[v] = IF v = w THEN "reduce" ELSE pc[v]
  BY <1>1 DEF PopBack, Goto, TypeOK
<1>5. w \in Poppers /\ Poppers' = Poppers \ {w}
  BY <1>1, <1>2, <1>4 DEF Poppers
<1>6. w \notin Reducing /\ Reducing' = Reducing \cup {w}
  BY <1>1, <1>4 DEF Reducing
<1>7. /\ Cardinality(Poppers) \in Nat /\ Cardinality(Poppers) >= 1
      /\ Cardinality(Poppers') = Cardinality(Poppers) - 1
  BY <1>1, <1>5, OneLess
<1>8. Cardinality(Reducing') = Cardinality(Reducing) + 1 /\ Cardinality(Reducing) \in Nat
  BY <1>1, <1>6, RoomForOne, WorkersFinite
<1>9. /\ status.total \in Nat /\ status.processed \in Nat
      /\ Len(queue) \in Nat /\ Len(output) \in Nat
  BY <1>1 DEF TypeOK
<1>10. Len(queue) = Cardinality(Poppers) +
            IF status.processed < status.total THEN status.total - status.processed ELSE 0
  BY <1>1, <1>3 DEF QueueInv, GroupsReady
<1>11. Len(queue) >= 1
  BY <1>7, <1>9, <1>10
<1>12. Len(queue') = Len(queue) - 1
  <2>1. \A i \in 1..(Len(queue) - 1) : queue[i] \in SUBSET Pair
    BY <1>1, <1>9 DEF TypeOK
  <2>2. Len(SubSeq(queue, 1, Len(queue) - 1))
          = IF 1 <= Len(queue) - 1 THEN Len(queue) - 1 - 1 + 1 ELSE 0
    BY <1>9, <2>1, SubSeqProperties
  <2>3. Len(queue') = IF 1 <= Len(queue) - 1 THEN Len(queue) - 1 - 1 + 1 ELSE 0
    BY <1>1, <2>2, Zenon
  <2> DEFINE n == Len(queue)
             m == Len(queue')
  <2>4. n \in Nat /\ n >= 1 /\ m = IF 1 <= n - 1 THEN n - 1 - 1 + 1 ELSE 0
    BY <1>9, <1>11, <2>3
  <2>5. m = n - 1
    <3> HIDE DEF n, m
    <3> QED
      BY <2>4
  <2> QED
    BY <2>5
<1>13. GroupsReady'
  BY <1>1, <1>7, <1>9, <1>10, <1>12 DEF GroupsReady
<1>14. Len(output') + Cardinality(Reducing') + Len(queue') = status'.total
  <2>1. Len(output) + Cardinality(Reducing) + Len(queue) = status.total
    BY <1>1, <1>3 DEF QueueInv
  <2>2. Len(output') = Len(output) /\ status'.total = status.total
    BY <1>1
  <2> QED
    BY <1>8, <1>9, <1>12, <2>1, <2>2
<1> QED
  BY <1>1, <1>3, <1>11, <1>13, <1>14 DEF QueueInv

\* A reduce call moves a group from a hand to the output.
LEMMA ReduceCallQueue ==
    ASSUME JobInv, NEW w \in Workers, ReduceCall(w)
    PROVE  QueueInv'
<1>1. /\ TypeOK /\ QueueInv /\ pc[w] = "reduce" /\ Reducing \in SUBSET Workers
      /\ UNCHANGED <<status, call, old, queue>>
      /\ output' = Append(output, hand[w])
  BY DEF JobInv, ClaimInv, ReduceCall, Reducing
<1>2. status.stage = REDUCE_STAGE
  BY <1>1, LoopStage DEF JobInv, PhaseInv, BarrierInv
<1>3. \A v \in Workers : pc'[v] = IF v = w THEN "claim" ELSE pc[v]
  BY <1>1 DEF ReduceCall, Goto, TypeOK
<1>4. Poppers' = Poppers
  BY <1>1, <1>3 DEF Poppers
<1>5. w \in Reducing /\ Reducing' = Reducing \ {w}
  BY <1>1, <1>3 DEF Reducing
<1>6. Cardinality(Reducing') = Cardinality(Reducing) - 1 /\ Cardinality(Reducing) \in Nat
  BY <1>1, <1>5, OneLess
<1>7. Len(output') = Len(output) + 1 /\ Len(output) \in Nat /\ Len(queue) \in Nat
  BY <1>1 DEF TypeOK
<1> QED
  BY <1>1, <1>2, <1>4, <1>6, <1>7 DEF QueueInv, GroupsReady

\* What the shuffle counts is what it takes, and all of it is there at its end.
LEMMA ShuffleQueue ==
    ASSUME JobInv, NEW w \in Workers,
           StartShuffle(w) \/ GroupMaxKey(w) \/ EndShuffle(w)
    PROVE  QueueInv'
<1>1. /\ TypeOK /\ PhaseInv /\ QueueInv
      /\ status.total \in Nat /\ status.processed \in Nat
      /\ Len(queue) \in Nat
  BY DEF JobInv, ClaimInv, TypeOK
<1>2. Cardinality(Slots) \in Nat
  BY SlotsBounded
<1>3. CASE StartShuffle(w)
  <2>1. status.stage = MAP_STAGE
    BY <1>1, <1>3 DEF StartShuffle, PhaseInv, StageInv
  <2>2. /\ status' = [stage |-> SHUFFLE_STAGE, total |-> Cardinality(Slots), processed |-> 0]
        /\ UNCHANGED <<vec, queue, output>>
    BY <1>3 DEF StartShuffle, SetStage, workerVars, dataVars
  <2>3. Slots' = Slots
    BY <2>2 DEF Slots
  <2>4. queue = <<>> /\ output = <<>>
    BY <1>1, <2>1 DEF QueueInv
  <2> QED
    BY <1>2, <2>2, <2>3, <2>4 DEF QueueInv, GroupsReady
<1>4. CASE GroupMaxKey(w)
  <2> DEFINE c == Cardinality(MaxSlots)
  <2>1. /\ c \in Nat /\ c >= 1 /\ Cardinality(Slots') = Cardinality(Slots) - c
        /\ status.stage = SHUFFLE_STAGE
        /\ status' = [status EXCEPT !.processed = @ + c]
    BY <1>4, GroupCounts
  <2> HIDE DEF c
  <2>2. /\ status'.stage = SHUFFLE_STAGE /\ status'.total = status.total
        /\ status'.processed = status.processed + c
    BY <1>1, <2>1 DEF TypeOK
  <2>3. Len(queue') = Len(queue) + 1 /\ output' = output
    BY <1>1, <1>4 DEF GroupMaxKey, TypeOK
  <2> QED
    BY <1>1, <1>2, <2>1, <2>2, <2>3 DEF QueueInv, GroupsReady
<1>5. CASE EndShuffle(w)
  <2>1. status.stage = SHUFFLE_STAGE /\ pc[w] = "group"
    BY <1>1, <1>5 DEF EndShuffle, PhaseInv, StageInv
  <2>2. /\ \A v \in Workers : pc[v] \notin Looping
        /\ \A v \in Workers : call[v] = 1
    BY <1>1, <2>1, NobodyLoops
  <2>3. /\ status' = [stage |-> REDUCE_STAGE, total |-> Len(queue), processed |-> 0]
        /\ UNCHANGED <<queue, output, call>>
        /\ \A v \in Workers : pc'[v] = IF v = w THEN "post" ELSE pc[v]
    BY <1>1, <1>5 DEF EndShuffle, SetStage, workerVars, dataVars, Goto, TypeOK
  <2>4. Poppers' = {} /\ Reducing' = {}
    BY <2>2, <2>3 DEF Poppers, Reducing, Looping
  <2>5. Cardinality(Poppers') = 0 /\ Cardinality(Reducing') = 0
    BY <2>4, FS_EmptySet
  <2>6. output = <<>>
    BY <1>1, <2>1 DEF QueueInv
  <2> QED
    BY <1>1, <2>3, <2>5, <2>6 DEF QueueInv, GroupsReady
<1> QED
  BY <1>3, <1>4, <1>5

\* Every step keeps account of the groups.
LEMMA NextQueueInv == JobInv /\ [Next]_vars => QueueInv'
<1> SUFFICES ASSUME JobInv, [Next]_vars PROVE QueueInv'
  OBVIOUS
<1>1. TypeOK /\ PhaseInv /\ TicketInv /\ QueueInv /\ \A v \in Workers : call[v] \in {1, 2}
  BY DEF JobInv, ClaimInv, TypeOK
<1>2. CASE StartJob
  <2>1. status.stage = UNDEFINED_STAGE /\ status'.stage = MAP_STAGE
    BY <1>1, <1>2 DEF StartJob, SetStage, PhaseInv, StageInv
  <2> QED
    BY <1>1, <1>2, <2>1 DEF QueueInv, GroupsReady, StartJob, dataVars
<1>3. CASE RunWorker
  <2>1. cursor + 1 \in Workers /\ pc[cursor + 1] = "off"
    BY <1>1, <1>3, CountsAssumption DEF RunWorker, TypeOK, PhaseInv, MainInv, Workers
  <2>2. cursor + 1 \notin Poppers
    BY <2>1 DEF Poppers
  <2>3. Goto(cursor + 1, "claim") /\ UNCHANGED <<status, old, vec, queue, output, call>>
    BY <1>3 DEF RunWorker, workerVars, dataVars
  <2> HIDE DEF Workers
  <2> DEFINE w == cursor + 1
  <2>4. w \in Workers /\ pc[w] = "off" /\ w \notin Poppers /\ Goto(w, "claim")
    BY <2>1, <2>2, <2>3
  <2> HIDE DEF w
  <2> QED
    BY <1>1, <2>3, <2>4, QueueMoves
<1>4. CASE WaitForJob \/ JoinWorker \/ CloseJobHandle \/ UNCHANGED vars
  <2>1. UNCHANGED <<status, pc, call, old, vec, queue, output>>
    BY <1>4 DEF WaitForJob, JoinWorker, CloseJobHandle, vars, workerVars, dataVars
  <2>2. Slots' = Slots /\ Reducing' = Reducing /\ Poppers' = Poppers
    BY <2>1 DEF Slots, Reducing, Poppers
  <2> QED
    BY <1>1, <2>1, <2>2, QueueStays
<1>5. ASSUME NEW w \in Workers, Worker(w)
      PROVE  QueueInv'
  <2> USE DEF workerVars, dataVars
  <2>1. CASE Claim(w)
    BY <2>1, ClaimQueue
  <2>2. CASE Check(w)
    <3>1. UNCHANGED <<status, old, vec, queue, output, call>> /\ pc[w] = "check"
      BY <2>2 DEF Check
    <3>2. w \in Poppers <=> call[w] = 2 /\ InStage(w)
      BY <3>1 DEF Poppers, InStage
    <3>3. CASE InStage(w)
      <4>1. Goto(w, "dispatch")
        BY <2>2, <3>3 DEF Check
      <4> QED
        BY <1>1, <3>1, <3>2, <3>3, <4>1, QueueMoves
    <3>4. CASE ~InStage(w)
      <4>1. PICK l \in {"sort", "done"} : Goto(w, l)
        BY <2>2, <3>4 DEF Check
      <4> QED
        BY <1>1, <3>1, <3>2, <3>4, <4>1, QueueMoves
    <3> QED
      BY <3>3, <3>4
  <2>3. CASE Dispatch(w)
    <3>1. UNCHANGED <<status, old, vec, queue, output, call>> /\ pc[w] = "dispatch"
      BY <2>3 DEF Dispatch
    <3>2. w \in Poppers <=> call[w] = 2
      BY <3>1 DEF Poppers
    <3>3. CASE status.stage = MAP_STAGE
      <4>1. Goto(w, "map")
        BY <2>3, <3>3 DEF Dispatch, Goto
      <4> QED
        BY <1>1, <3>1, <3>3, <4>1, QueueMoves
    <3>4. CASE status.stage = REDUCE_STAGE
      <4>1. Goto(w, "lock")
        BY <2>3, <3>4 DEF Dispatch, Goto
      <4> QED
        BY <1>1, <3>1, <3>2, <3>4, <4>1, QueueMoves
    <3> QED
      BY <1>1, <3>1, <3>3, <3>4, LoopStage
  <2>4. CASE MapCall(w)
    <3>1. call[w] = 1
      BY <1>1, <2>4 DEF MapCall, TicketInv
    <3>2. status.stage = MAP_STAGE
      BY <1>1, <2>4, <3>1, LoopStage DEF MapCall
    <3> QED
      BY <1>1, <2>4, <3>2, QueueStays DEF MapCall
  <2>5. CASE Sort(w)
    <3>1. status.stage = MAP_STAGE
      BY <1>1, <2>5, LoopStage DEF Sort, PhaseInv, BarrierInv
    <3> QED
      BY <1>1, <2>5, <3>1, QueueStays DEF Sort
  <2>6. CASE LockReduce(w) \/ CopyBack(w)
    <3>1. PICK l \in {"back", "pop"} : Goto(w, l)
      BY <2>6 DEF LockReduce, CopyBack
    <3>2. UNCHANGED <<status, old, vec, queue, output, call>> /\ pc[w] \in {"lock", "back"}
      BY <2>6 DEF LockReduce, CopyBack
    <3>3. call[w] = 2 /\ w \in Poppers
      BY <1>1, <3>2 DEF PhaseInv, BarrierInv, Poppers
    <3> QED
      BY <1>1, <3>1, <3>2, <3>3, QueueMoves
  <2>7. CASE PopBack(w)
    BY <2>7, PopBackQueue
  <2>8. CASE ReduceCall(w)
    BY <2>8, ReduceCallQueue
  <2>9. CASE BarrierRelease(w)
    <3>1. /\ UNCHANGED <<status, old, vec, queue, output, call>> /\ pc[w] = "barrier"
          /\ pc' = [v \in Workers |-> IF v = w \/ pc[v] = "wait" THEN "assign" ELSE pc[v]]
      BY <2>9 DEF BarrierRelease
    <3>2. Slots' = Slots /\ Reducing' = Reducing /\ Poppers' = Poppers
      BY <3>1 DEF Slots, Reducing, Poppers
    <3> QED
      BY <1>1, <3>1, <3>2, QueueStays
  <2>10. CASE BarrierWait(w) \/ AssignShuffle(w) \/ SemaphoreWait(w) \/ SemaphorePost(w)
    <3>1. PICK l \in {"wait", "semwait", "shuffle", "post", "claim"} : Goto(w, l)
      BY <2>10 DEF BarrierWait, AssignShuffle, OneShuffles, SemaphoreWait, SemaphorePost
    <3>2. /\ UNCHANGED <<status, old, vec, queue, output>>
          /\ \A v \in Workers : v # w => call'[v] = call[v]
      BY <1>1, <2>10 DEF BarrierWait, AssignShuffle, SemaphoreWait, SemaphorePost, TypeOK
    <3>3. pc[w] \in {"barrier", "assign", "semwait", "post"}
      BY <2>10 DEF BarrierWait, AssignShuffle, SemaphoreWait, SemaphorePost
    <3>4. w \notin Poppers
      BY <3>3 DEF Poppers
    <3> QED
      BY <1>1, <3>1, <3>2, <3>3, <3>4, QueueMoves
  <2>11. CASE StartShuffle(w) \/ GroupMaxKey(w) \/ EndShuffle(w)
    BY <2>11, ShuffleQueue
  <2> QED
    BY <1>5, <2>1, <2>2, <2>3, <2>4, <2>5, <2>6, <2>7, <2>8, <2>9, <2>10, <2>11 DEF Worker
<1> QED
  BY <1>2, <1>3, <1>4, <1>5 DEF Next, StartMapReduceJob, Closed

-----------------------------------------------------------------------------
(* The theorems.                                                           *)

\* The job as its constructor leaves it has no claim, no pair and no group.
LEMMA InitClaimInv == Init => ClaimInv
<1> SUFFICES ASSUME Init PROVE ClaimInv
  OBVIOUS
<1>1. TicketInv
  BY DEF Init, TicketInv, Looping
<1>2. CountInv
  BY DEF Init, CountInv
<1>3. Slots = {}
  <2>1. \A v \in Workers : Len(vec[v]) = 0
    BY DEF Init
  <2> QED
    BY <2>1 DEF Slots
<1>4. PairsInv
  BY <1>3 DEF Init, PairsInv
<1>5. QueueInv
  BY DEF Init, QueueInv, GroupsReady
<1> QED
  BY <1>1, <1>2, <1>4, <1>5 DEF ClaimInv

\* The claims are different and below the count, the counts fit their fields,
\* the pairs are different and every group is in one place, at every step.
THEOREM ClaimsInvariant == Spec => []JobInv
<1>1. Init => ClaimInv
  BY InitClaimInv
<1>2. JobInv /\ [Next]_vars => ClaimInv'
  BY NextTicketInv, NextCountInv, NextPairsInv, NextQueueInv DEF ClaimInv
<1>3. TypeOK /\ PhaseInv /\ ClaimInv <=> JobInv
  BY DEF JobInv
<1> QED
  BY <1>1, <1>2, <1>3, TypeCorrect, PhasesInvariant, PTL DEF Spec

\* No input is mapped twice and no place in the queue is given twice: the
\* values fetch_add returns to the workers of one stage are different.
THEOREM ClaimsAreDistinct == Spec => []ClaimsDistinct
<1>1. JobInv => ClaimsDistinct
  BY DEF JobInv, ClaimInv, TicketInv, ClaimsDistinct, Looping
<1> QED
  BY <1>1, ClaimsInvariant, PTL

\* The queue has a group for every place given out and not used and for every
\* place still to be given.
THEOREM GroupsAreReady == Spec => []GroupsReady
<1>1. JobInv => GroupsReady
  BY DEF JobInv, ClaimInv, QueueInv
<1> QED
  BY <1>1, ClaimsInvariant, PTL

\* back() and pop_back(), which do not look, find a group in the queue.
QueueNeverEmptyAtPop == \A w \in Workers : pc[w] \in {"back", "pop"} => queue # <<>>

\* A worker that holds the reduce mutex is one of those the queue has a group for.
LEMMA GroupAtPop == JobInv => QueueNeverEmptyAtPop
<1> SUFFICES ASSUME JobInv, NEW w \in Workers, pc[w] \in {"back", "pop"}
             PROVE  queue # <<>>
  BY DEF QueueNeverEmptyAtPop
<1>1. call[w] = 2
  BY DEF JobInv, PhaseInv, BarrierInv
<1>2. status.stage = REDUCE_STAGE
  BY <1>1, LoopStage DEF JobInv
<1>3. w \in Poppers /\ Poppers \in SUBSET Workers
  BY <1>1 DEF Poppers
<1>4. Cardinality(Poppers) \in Nat /\ Cardinality(Poppers) >= 1
  BY <1>3, OneLess
<1>5. /\ Len(queue) = Cardinality(Poppers) +
            IF status.processed < status.total
            THEN status.total - status.processed ELSE 0
      /\ status.total \in Nat /\ status.processed \in Nat
  BY <1>2 DEF JobInv, TypeOK, ClaimInv, QueueInv, GroupsReady
<1>6. Len(queue) # 0
  BY <1>4, <1>5
<1> QED
  BY <1>6

\* The worker with the reduce mutex never reads the back of an empty vector:
\* the undefined behaviour of CopyBack and PopBack does not occur.
THEOREM PopsFindGroups == Spec => []QueueNeverEmptyAtPop
BY GroupAtPop, ClaimsInvariant, PTL

\* No field of the 64-bit status word reaches the width it has.
FieldsFit ==
    status.stage # UNDEFINED_STAGE =>
        status.total < FieldSize /\ status.processed < FieldSize

\* Whatever the workers claim in vain, fetch_add never carries from the
\* processed count into the total, nor from the total into the stage.
THEOREM FieldsDoNotOverflow == Spec => []FieldsFit
<1>1. JobInv => FieldsFit
  <2> SUFFICES ASSUME JobInv, status.stage # UNDEFINED_STAGE
               PROVE  status.total < FieldSize /\ status.processed < FieldSize
    BY DEF FieldsFit
  <2>1. /\ status.stage \in {MAP_STAGE, SHUFFLE_STAGE, REDUCE_STAGE}
        /\ status.total \in Nat /\ status.processed \in Nat
    BY DEF JobInv, TypeOK
  <2>2. Spent \in SUBSET Workers
    BY DEF Spent, Workers
  <2>3. Cardinality(Spent) \in Nat /\ Cardinality(Spent) <= NumWorkers
    BY <2>2, WorkersFinite
  <2>4. status.total <= NumInputs \/ status.total <= NumInputs * MaxEmit
    BY <2>1, Bounds DEF JobInv, ClaimInv, CountInv
  <2>5. status.total + NumWorkers < FieldSize
    BY <2>1, <2>4, Bounds
  <2>6. status.processed <= status.total + Cardinality(Spent)
    <3>1. CASE status.stage \in {MAP_STAGE, REDUCE_STAGE}
      BY <3>1 DEF JobInv, ClaimInv, CountInv
    <3>2. CASE status.stage = SHUFFLE_STAGE
      <4>1. status.processed + Cardinality(Slots) = status.total /\ Cardinality(Slots) \in Nat
        BY <3>2, SlotsBounded DEF JobInv, ClaimInv, QueueInv
      <4> QED
        BY <2>1, <2>3, <4>1
    <3> QED
      BY <2>1, <3>1, <3>2
  <2> QED
    BY <2>1, <2>3, <2>5, <2>6, Bounds
<1> QED
  BY <1>1, ClaimsInvariant, PTL

\* What a client that polls the status sees of one step.
Forward ==
    /\ status'.stage \in {status.stage, status.stage + 1}
    /\ status'.stage = status.stage =>
         /\ status'.total = status.total
         /\ status'.processed >= status.processed

\* No step takes the stage or the count back.
LEMMA NextForward == JobInv /\ [Next]_vars => Forward
<1> USE DEF Forward
<1> SUFFICES ASSUME JobInv, [Next]_vars PROVE Forward
  OBVIOUS
<1>1. /\ TypeOK /\ PhaseInv
      /\ status.stage \in 0..3 /\ status.total \in Nat /\ status.processed \in Nat
  BY DEF JobInv, TypeOK
<1>2. ASSUME status' = status PROVE Forward
  BY <1>1, <1>2
<1>3. CASE StartJob
  BY <1>1, <1>3 DEF StartJob, SetStage, PhaseInv, StageInv
<1>4. ASSUME NEW w \in Workers, Worker(w) PROVE Forward
  <2>1. CASE Claim(w)
    <3>1. status' = [status EXCEPT !.processed = @ + 1]
      BY <2>1, ClaimCounts
    <3>2. /\ status'.stage = status.stage /\ status'.total = status.total
          /\ status'.processed = status.processed + 1
      BY <1>1, <3>1 DEF TypeOK
    <3> QED
      BY <1>1, <3>2
  <2>2. CASE StartShuffle(w)
    <3>1. status.stage = MAP_STAGE /\ status'.stage = SHUFFLE_STAGE
      BY <1>1, <2>2 DEF StartShuffle, SetStage, PhaseInv, StageInv
    <3> QED
      BY <3>1
  <2>3. CASE GroupMaxKey(w)
    <3>1. /\ Cardinality(MaxSlots) \in Nat
          /\ status' = [status EXCEPT !.processed = @ + Cardinality(MaxSlots)]
      BY <2>3, GroupCounts
    <3> QED
      BY <1>1, <3>1
  <2>4. CASE EndShuffle(w)
    <3>1. status.stage = SHUFFLE_STAGE /\ status'.stage = REDUCE_STAGE
      BY <1>1, <2>4 DEF EndShuffle, SetStage, PhaseInv, StageInv
    <3> QED
      BY <3>1
  <2>5. CASE \/ Check(w) \/ Dispatch(w) \/ MapCall(w) \/ LockReduce(w) \/ CopyBack(w)
             \/ PopBack(w) \/ ReduceCall(w) \/ Sort(w) \/ BarrierWait(w)
             \/ BarrierRelease(w) \/ AssignShuffle(w) \/ SemaphoreWait(w)
             \/ SemaphorePost(w)
    BY <1>2, <2>5 DEF Check, Dispatch, MapCall, LockReduce, CopyBack, PopBack, ReduceCall,
          Sort, BarrierWait, BarrierRelease, AssignShuffle, SemaphoreWait, SemaphorePost
  <2> QED
    BY <1>4, <2>1, <2>2, <2>3, <2>4, <2>5 DEF Worker
<1>5. CASE RunWorker \/ WaitForJob \/ JoinWorker \/ CloseJobHandle \/ UNCHANGED vars
  BY <1>2, <1>5 DEF RunWorker, WaitForJob, JoinWorker, CloseJobHandle, vars
<1> QED
  BY <1>3, <1>4, <1>5 DEF Next, StartMapReduceJob, Closed

\* What a client polls moves forward only: the stages in order, and a count
\* that grows under a total that stays.
THEOREM ProgressIsMonotone == Spec => ProgressMonotone
<1>1. JobInv /\ [Next]_vars => [Forward]_vars
  BY NextForward
<1> QED
  BY <1>1, ClaimsInvariant, PTL DEF Spec, ProgressMonotone, Forward

=============================================================================

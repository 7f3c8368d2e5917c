----------------------- MODULE MapReduceContractProofs -----------------------
(***************************************************************************)
(* MapReduceJob implements MapReduceContract: whatever the workers do and  *)
(* in whatever order, what a client can tell is that every input is mapped *)
(* once, that the pairs are then grouped by key, and that every group is   *)
(* reduced once.                                                           *)
(***************************************************************************)
EXTENDS MapReduceClaimsProofs

USE DEF UNDEFINED_STAGE, MAP_STAGE, SHUFFLE_STAGE, REDUCE_STAGE

(***************************************************************************)
(* The inductive invariant                                                 *)
(***************************************************************************)
\* The workers past the loop of the map stage found no input left.
MapOver ==
    status.stage = MAP_STAGE =>
        \A w \in Workers :
            pc[w] \in {"sort", "barrier", "wait", "assign", "shuffle", "semwait"} =>
                status.processed >= status.total

\* A vector stays sorted once the worker has sorted it.
SortedInv ==
    \A w \in Workers :
        \/ call[w] = 2
        \/ pc[w] \in {"barrier", "wait", "assign", "shuffle", "group", "semwait", "post"}
        => SortedByKey(vec[w])

\* The reduce mutex is held from the copy of the back to its removal.
LockInv == \A w \in Workers : lock = w <=> pc[w] \in {"back", "pop"}

\* A group is in the queue or in the hand of one worker, except that the one
\* which has copied the back has not removed it yet.
HandInv ==
    /\ \A i, j \in 1..Len(queue) : queue[i] = queue[j] => i = j
    /\ \A w \in Workers :
         /\ pc[w] = "pop" => hand[w] = queue[Len(queue)]
         /\ pc[w] = "reduce" => hand[w] \notin Range(queue)
         /\ pc[w] \notin {"pop", "reduce"} => hand[w] = {}
    /\ \A w, v \in Workers :
         w # v /\ pc[w] = "reduce" /\ pc[v] = "reduce" => hand[w] # hand[v]

\* A group of the shuffle has all the pairs of its key, and none of them is
\* left in a vector.
WholeInv ==
    status.stage = SHUFFLE_STAGE =>
        \A i \in 1..Len(queue) :
            /\ queue[i] \in Contract!GroupsOf(AllPairs)
            /\ \A x \in Slots : PairAt(x) \notin queue[i]

GroupInv == MapOver /\ SortedInv /\ LockInv /\ HandInv /\ WholeInv

\* What the refinement rests on.
FullInv == JobInv /\ GroupInv
-----------------------------------------------------------------------------
(* Between the map stage and the shuffle.                                  *)

\* Where a worker that has left the loop of the map stage is.
Waiting == {"sort", "barrier", "wait", "assign", "shuffle", "semwait"}

\* A worker leaves the loop with a claim that was beyond the total.
LEMMA StartsWaiting ==
    ASSUME JobInv, [Next]_vars, NEW v \in Workers, pc[v] \notin Waiting, pc'[v] \in Waiting
    PROVE  pc[v] = "check" /\ ~InStage(v)
<1> USE DEF Waiting
<1>1. /\ TypeOK /\ \A u \in Workers : pc[u] = "check" => call[u] \in {1, 2}
      /\ cursor \in 0..NumWorkers /\ (main = "starting" => cursor + 1 \in Workers)
  BY CountsAssumption DEF JobInv, TypeOK, Workers
<1>2. CASE StartJob \/ WaitForJob \/ JoinWorker \/ CloseJobHandle \/ UNCHANGED vars
  BY <1>2 DEF StartJob, WaitForJob, JoinWorker, CloseJobHandle, vars
<1>3. CASE RunWorker
  BY <1>1, <1>3 DEF RunWorker, Goto, TypeOK
<1>4. ASSUME NEW w \in Workers, Worker(w) PROVE pc[v] = "check" /\ ~InStage(v)
  <2> USE <1>1 DEF Goto, TypeOK
  <2>1. CASE Check(w)
    BY <2>1 DEF Check
  <2>2. CASE Claim(w) \/ Dispatch(w) \/ MapCall(w) \/ SemaphorePost(w)
    BY <2>2 DEF Claim, Dispatch, MapCall, SemaphorePost
  <2>3. CASE LockReduce(w) \/ CopyBack(w) \/ PopBack(w) \/ ReduceCall(w)
    BY <2>3 DEF LockReduce, CopyBack, PopBack, ReduceCall
  <2>4. CASE Sort(w) \/ BarrierWait(w) \/ AssignShuffle(w)
    BY <2>4 DEF Sort, BarrierWait, AssignShuffle, OneShuffles
  <2>5. CASE BarrierRelease(w)
    BY <2>5 DEF BarrierRelease
  <2>6. CASE StartShuffle(w) \/ GroupMaxKey(w) \/ EndShuffle(w) \/ SemaphoreWait(w)
    BY <2>6 DEF StartShuffle, GroupMaxKey, EndShuffle, SemaphoreWait
  <2> QED
    BY <1>4, <2>1, <2>2, <2>3, <2>4, <2>5, <2>6 DEF Worker
<1> QED
  BY <1>2, <1>3, <1>4 DEF Next, StartMapReduceJob, Closed

\* No input is left once a worker has left the loop of the map stage.
LEMMA NextMapOver == JobInv /\ MapOver /\ [Next]_vars => MapOver'
<1> SUFFICES ASSUME JobInv, MapOver, [Next]_vars, status'.stage = MAP_STAGE,
                    NEW v \in Workers, pc'[v] \in Waiting
             PROVE  status'.processed >= status'.total
  BY DEF MapOver, Waiting
<1>1. /\ status.stage \in 0..3 /\ status.total \in Nat /\ status.processed \in Nat
      /\ status'.processed \in Nat /\ old[v] \in Nat /\ TicketInv /\ PhaseInv
  <2>1. TypeOK'
    BY NextTypeOK DEF JobInv
  <2> QED
    BY <2>1 DEF JobInv, ClaimInv, TypeOK
<1>2. status.stage # UNDEFINED_STAGE
  <2> SUFFICES ASSUME status.stage = UNDEFINED_STAGE PROVE FALSE
    OBVIOUS
  <2>1. pc[v] = "off"
    BY <1>1 DEF PhaseInv, StageInv, MainInv
  <2> QED
    BY <2>1, StartsWaiting DEF Waiting
<1>3. /\ status.stage = MAP_STAGE /\ status'.total = status.total
      /\ status'.processed >= status.processed
  <2>1. Forward
    BY NextForward
  <2>2. status.stage = MAP_STAGE
    BY <1>1, <1>2, <2>1 DEF Forward
  <2> QED
    BY <2>1, <2>2 DEF Forward
<1>4. status.processed >= status.total
  <2>1. CASE pc[v] \in Waiting
    BY <1>3, <2>1 DEF MapOver, Waiting
  <2>2. CASE pc[v] \notin Waiting
    <3>1. pc[v] = "check" /\ ~InStage(v)
      BY <2>2, StartsWaiting
    <3>2. old[v] < status.processed
      BY <1>1, <3>1 DEF TicketInv, Looping
    <3> QED
      BY <1>1, <3>1, <3>2 DEF InStage
  <2> QED
    BY <2>1, <2>2
<1> QED
  BY <1>1, <1>3, <1>4

-----------------------------------------------------------------------------
(* The sorted vectors.                                                     *)

Sorted(v) ==
    \/ call[v] = 2
    \/ pc[v] \in {"barrier", "wait", "assign", "shuffle", "group", "semwait", "post"}

\* A step that leaves the vectors alone, in which nobody leaves the sort.
LEMMA SortedStays ==
    ASSUME SortedInv, vec' = vec, \A v \in Workers : Sorted(v)' => Sorted(v)
    PROVE  SortedInv'
BY DEF SortedInv, Sorted

\* An iteration of the shuffle leaves of a vector what is in front.
LEMMA GroupSorted ==
    ASSUME JobInv, NEW w \in Workers, GroupMaxKey(w), NEW v \in Workers, SortedByKey(vec[v])
    PROVE  SortedByKey(vec'[v])
<1>1. Slots' \subseteq Slots /\ \A x \in Slots' : PairAt(x)' = PairAt(x)
  BY GroupCounts
<1>2. ASSUME NEW i \in 1..Len(vec'[v]) PROVE i \in 1..Len(vec[v]) /\ vec'[v][i] = vec[v][i]
  <2>1. <<v, i>> \in Slots'
    BY DEF Slots
  <2>2. <<v, i>> \in Slots /\ PairAt(<<v, i>>)' = PairAt(<<v, i>>)
    BY <1>1, <2>1
  <2> QED
    BY <2>2, SlotsAre DEF PairAt
<1> QED
  BY <1>2 DEF SortedByKey

\* Every step keeps sorted what is.
LEMMA NextSortedInv == JobInv /\ SortedInv /\ [Next]_vars => SortedInv'
<1> SUFFICES ASSUME JobInv, SortedInv, [Next]_vars PROVE SortedInv'
  OBVIOUS
<1>1. /\ TypeOK /\ cursor \in 0..NumWorkers /\ (main = "starting" => cursor + 1 \in Workers)
      /\ \A v \in Workers : call[v] \in {1, 2}
  BY CountsAssumption DEF JobInv, TypeOK, Workers
<1>2. CASE StartJob \/ WaitForJob \/ JoinWorker \/ CloseJobHandle \/ UNCHANGED vars
  BY <1>2, SortedStays
     DEF StartJob, WaitForJob, JoinWorker, CloseJobHandle, vars, workerVars, Sorted
<1>3. CASE RunWorker
  BY <1>1, <1>3, SortedStays DEF RunWorker, Goto, TypeOK, workerVars, Sorted
<1>4. ASSUME NEW w \in Workers, Worker(w) PROVE SortedInv'
  <2> USE <1>1 DEF Goto, TypeOK, workerVars, Sorted
  <2>1. CASE Claim(w) \/ Check(w) \/ Dispatch(w) \/ SemaphorePost(w)
    BY <2>1, SortedStays DEF Claim, Check, Dispatch, SemaphorePost
  <2>2. CASE LockReduce(w) \/ CopyBack(w) \/ PopBack(w) \/ ReduceCall(w)
    BY <2>2, SortedStays DEF LockReduce, CopyBack, PopBack, ReduceCall
  <2>3. CASE BarrierWait(w) \/ BarrierRelease(w) \/ AssignShuffle(w)
    BY <2>3, SortedStays DEF BarrierWait, BarrierRelease, AssignShuffle, OneShuffles
  <2>4. CASE StartShuffle(w) \/ EndShuffle(w) \/ SemaphoreWait(w)
    BY <2>4, SortedStays DEF StartShuffle, EndShuffle, SemaphoreWait
  <2>5. CASE MapCall(w)
    <3>1. /\ \A v \in Workers : v # w => vec'[v] = vec[v] /\ pc'[v] = pc[v]
          /\ pc'[w] = "claim" /\ call' = call
      BY <2>5 DEF MapCall
    <3>2. call[w] = 1
      BY <2>5 DEF MapCall, JobInv, ClaimInv, TicketInv, Looping
    <3>3. ASSUME NEW v \in Workers, Sorted(v)' PROVE SortedByKey(vec'[v])
      <4>1. v # w
        BY <3>1, <3>2, <3>3
      <4>2. vec'[v] = vec[v] /\ pc'[v] = pc[v] /\ call'[v] = call[v]
        BY <3>1, <4>1
      <4>3. SortedByKey(vec[v])
        BY <3>3, <4>2 DEF SortedInv
      <4> QED
        BY <4>2, <4>3
    <3> QED
      BY <3>3 DEF SortedInv
  <2>6. CASE Sort(w)
    <3>1. PICK s : SortedByKey(s) /\ vec' = [vec EXCEPT ![w] = s]
      BY <2>6 DEF Sort
    <3>2. /\ \A v \in Workers : v # w => vec'[v] = vec[v] /\ pc'[v] = pc[v]
          /\ vec'[w] = s /\ call' = call
      BY <2>6, <3>1 DEF Sort
    <3>3. ASSUME NEW v \in Workers, Sorted(v)' PROVE SortedByKey(vec'[v])
      <4>1. CASE v = w
        BY <3>1, <3>2, <4>1
      <4>2. CASE v # w
        <5>1. vec'[v] = vec[v] /\ pc'[v] = pc[v] /\ call'[v] = call[v]
          BY <3>2, <4>2
        <5>2. SortedByKey(vec[v])
          BY <3>3, <5>1 DEF SortedInv
        <5> QED
          BY <5>1, <5>2
      <4> QED
        BY <4>1, <4>2
    <3> QED
      BY <3>3 DEF SortedInv
  <2>7. CASE GroupMaxKey(w)
    <3>1. pc' = pc /\ call' = call
      BY <2>7 DEF GroupMaxKey
    <3> QED
      BY <2>7, <3>1, GroupSorted DEF SortedInv
  <2> QED
    BY <1>4, <2>1, <2>2, <2>3, <2>4, <2>5, <2>6, <2>7 DEF Worker
<1> QED
  BY <1>2, <1>3, <1>4 DEF Next, StartMapReduceJob, Closed
-----------------------------------------------------------------------------
(* The reduce mutex and the groups.                                        *)

\* A step that leaves the mutex alone, and nobody to or from where it is held.
LEMMA LockStays ==
    ASSUME LockInv, lock' = lock,
           \A v \in Workers : pc'[v] \in {"back", "pop"} <=> pc[v] \in {"back", "pop"}
    PROVE  LockInv'
BY DEF LockInv

\* Every step keeps the mutex with the worker that is inside.
LEMMA NextLockInv == JobInv /\ LockInv /\ [Next]_vars => LockInv'
<1> SUFFICES ASSUME JobInv, LockInv, [Next]_vars PROVE LockInv'
  OBVIOUS
<1>1. /\ pc \in [Workers -> WorkerStates] /\ (main = "starting" => cursor + 1 \in Workers)
      /\ (main = "starting" => pc[cursor + 1] = "off") /\ Nobody \notin Workers
  BY CountsAssumption DEF JobInv, TypeOK, Workers, Nobody, PhaseInv, MainInv
<1>2. CASE StartJob \/ WaitForJob \/ JoinWorker \/ CloseJobHandle \/ UNCHANGED vars
  BY <1>2, LockStays DEF StartJob, WaitForJob, JoinWorker, CloseJobHandle, vars, syncVars
<1>3. CASE RunWorker
  BY <1>1, <1>3, LockStays DEF RunWorker, Goto, syncVars
<1>4. ASSUME NEW w \in Workers, Worker(w) PROVE LockInv'
  <2> USE <1>1 DEF Goto, syncVars
  <2>1. CASE Claim(w) \/ Check(w) \/ Dispatch(w) \/ MapCall(w)
    BY <2>1, LockStays DEF Claim, Check, Dispatch, MapCall
  <2>2. CASE LockReduce(w)
    <3>1. /\ lock = Nobody /\ lock' = w
          /\ \A v \in Workers : pc'[v] = IF v = w THEN "back" ELSE pc[v]
      BY <2>2 DEF LockReduce, Acquire
    <3> QED
      BY <3>1 DEF LockInv
  <2>3. CASE CopyBack(w) \/ ReduceCall(w)
    BY <2>3, LockStays DEF CopyBack, ReduceCall
  <2>4. CASE PopBack(w)
    <3>1. /\ lock' = Nobody /\ pc[w] = "pop"
          /\ \A v \in Workers : pc'[v] = IF v = w THEN "reduce" ELSE pc[v]
      BY <2>4 DEF PopBack
    <3> QED
      BY <3>1 DEF LockInv
  <2>5. CASE Sort(w) \/ BarrierWait(w) \/ BarrierRelease(w) \/ AssignShuffle(w)
    BY <2>5, LockStays DEF Sort, BarrierWait, BarrierRelease, AssignShuffle, OneShuffles
  <2>6. CASE StartShuffle(w) \/ GroupMaxKey(w) \/ EndShuffle(w)
    BY <2>6, LockStays DEF StartShuffle, GroupMaxKey, EndShuffle
  <2>7. CASE SemaphoreWait(w) \/ SemaphorePost(w)
    BY <2>7, LockStays DEF SemaphoreWait, SemaphorePost
  <2> QED
    BY <1>4, <2>1, <2>2, <2>3, <2>4, <2>5, <2>6, <2>7 DEF Worker
<1> QED
  BY <1>2, <1>3, <1>4 DEF Next, StartMapReduceJob, Closed

\* The members of a sequence are its elements.
LEMMA MembersAre ==
    ASSUME NEW S, NEW s \in Seq(S)
    PROVE  /\ Len(s) \in Nat
           /\ \A g : g \in Range(s) <=> \E i \in 1..Len(s) : g = s[i]
BY DEF Range

\* No group twice.
NoRepeats(q) == \A i, j \in 1..Len(q) : q[i] = q[j] => i = j

\* The back of a queue, and what is left without it.
LEMMA WithoutBack ==
    ASSUME NEW S, NEW q \in Seq(S), q # <<>>, NoRepeats(q)
    PROVE  /\ NoRepeats(SubSeq(q, 1, Len(q) - 1))
           /\ q[Len(q)] \in Range(q)
           /\ Range(SubSeq(q, 1, Len(q) - 1)) = Range(q) \ {q[Len(q)]}
<1> DEFINE n == Len(q)
           m == n - 1
           u == SubSeq(q, 1, m)
<1>1. n \in Nat /\ n >= 1 /\ m \in 0..n
  BY EmptySeq
<1>2. /\ u \in Seq(S) /\ Len(u) = m /\ \A i \in 1..m : u[i] = q[i]
  <2>1. \A i \in 1..m : q[i] \in S
    BY <1>1
  <2>2. Len(u) = IF 1 <= m THEN m - 1 + 1 ELSE 0
    <3> HIDE DEF m
    <3> QED
      BY <1>1, <2>1, SubSeqProperties
  <2>3. u \in Seq(S) /\ \A i \in 1..(m - 1 + 1) : u[i] = q[1 + i - 1]
    <3> HIDE DEF m
    <3> QED
      BY <1>1, <2>1, SubSeqProperties
  <2> HIDE DEF u, m
  <2>4. Len(u) = m
    BY <1>1, <2>2
  <2>5. ASSUME NEW i \in 1..m PROVE u[i] = q[i]
    <3>1. i \in 1..(m - 1 + 1) /\ 1 + i - 1 = i
      BY <1>1
    <3> QED
      BY <2>3, <3>1
  <2> QED
    BY <2>3, <2>4, <2>5
<1> HIDE DEF u
<1>3. /\ \A g : g \in Range(q) <=> \E i \in 1..n : g = q[i]
      /\ \A g : g \in Range(u) <=> \E i \in 1..m : g = q[i]
  <2>1. \A g : g \in Range(u) <=> \E i \in 1..Len(u) : g = u[i]
    BY <1>2, MembersAre
  <2> QED
    BY <1>2, <2>1, MembersAre
<1>4. NoRepeats(u) /\ q[n] \in Range(q)
  BY <1>1, <1>2, <1>3 DEF NoRepeats
<1>5. Range(u) = Range(q) \ {q[n]}
  BY <1>1, <1>3 DEF NoRepeats
<1> QED
  BY <1>4, <1>5 DEF u
-----------------------------------------------------------------------------
(* The pairs, and the groups the shuffle makes of them.                    *)

\* A pair is in a vector, in a hand, in the queue or in the output.
PairsKnown ==
    \A p : p \in AllPairs <=>
        \/ \E x \in Slots : p = PairAt(x)
        \/ \E w \in Workers : p \in hand[w]
        \/ \E i \in 1..Len(queue) : p \in queue[i]
        \/ \E i \in 1..Len(output) : p \in output[i]

\* The pairs of the contract are those.
LEMMA AllPairsAre == TypeOK => PairsKnown
<1> SUFFICES ASSUME TypeOK, NEW p
             PROVE  p \in AllPairs <=>
                      \/ \E x \in Slots : p = PairAt(x)
                      \/ \E w \in Workers : p \in hand[w]
                      \/ \E i \in 1..Len(queue) : p \in queue[i]
                      \/ \E i \in 1..Len(output) : p \in output[i]
  BY DEF PairsKnown
<1>1. /\ \A w \in Workers : vec[w] \in Seq(Pair)
      /\ queue \in Seq(SUBSET Pair) /\ output \in Seq(SUBSET Pair)
  BY DEF TypeOK
<1>2. (\E x \in Slots : p = PairAt(x)) <=> \E w \in Workers : p \in Range(vec[w])
  <2>1. ASSUME NEW x \in Slots, p = PairAt(x) PROVE \E w \in Workers : p \in Range(vec[w])
    <3>1. x[1] \in Workers /\ x[2] \in 1..Len(vec[x[1]])
      BY SlotsAre
    <3>2. p \in Range(vec[x[1]])
      BY <1>1, <2>1, <3>1, MembersAre DEF PairAt
    <3> QED
      BY <3>1, <3>2
  <2>2. ASSUME NEW w \in Workers, p \in Range(vec[w]) PROVE \E x \in Slots : p = PairAt(x)
    <3>1. PICK i \in 1..Len(vec[w]) : p = vec[w][i]
      BY <1>1, <2>2, MembersAre
    <3>2. <<w, i>> \in Slots /\ p = PairAt(<<w, i>>)
      BY <3>1, SlotsAre DEF PairAt
    <3> QED
      BY <3>2
  <2> QED
    BY <2>1, <2>2
<1>3. p \in UNION Range(queue) <=> \E i \in 1..Len(queue) : p \in queue[i]
  <2>1. \A g : g \in Range(queue) <=> \E i \in 1..Len(queue) : g = queue[i]
    BY <1>1, MembersAre
  <2> QED
    BY <2>1
<1>4. p \in UNION Range(output) <=> \E i \in 1..Len(output) : p \in output[i]
  <2>1. \A g : g \in Range(output) <=> \E i \in 1..Len(output) : g = output[i]
    BY <1>1, MembersAre
  <2> QED
    BY <2>1
<1>5. p \in UNION {Range(vec[w]) \cup hand[w] : w \in Workers}
        <=> \E w \in Workers : p \in Range(vec[w]) \/ p \in hand[w]
  OBVIOUS
<1>6. p \in AllPairs <=>
        \/ p \in UNION {Range(vec[w]) \cup hand[w] : w \in Workers}
        \/ p \in UNION Range(queue) \/ p \in UNION Range(output)
  BY DEF AllPairs
<1> QED
  BY <1>2, <1>3, <1>4, <1>5, <1>6, Zenon

\* The same after a step.
LEMMA AllPairsNextAre == TypeOK' => PairsKnown'
BY AllPairsAre, PTL

\* During the shuffle nothing is in a hand or in the output.
LEMMA ShufflePairs ==
    ASSUME FullInv, status.stage = SHUFFLE_STAGE
    PROVE  /\ output = <<>> /\ \A w \in Workers : hand[w] = {}
           /\ \A p : p \in AllPairs <=> \/ \E x \in Slots : p = PairAt(x)
                                        \/ \E i \in 1..Len(queue) : p \in queue[i]
<1>1. output = <<>>
  BY DEF FullInv, JobInv, ClaimInv, QueueInv
<1>2. \A w \in Workers : hand[w] = {}
  <2> SUFFICES ASSUME NEW w \in Workers PROVE pc[w] \notin {"pop", "reduce"}
    BY DEF FullInv, GroupInv, HandInv
  <2>1. ASSUME pc[w] \in {"pop", "reduce"} PROVE FALSE
    <3>1. call[w] = 2
      BY <2>1 DEF FullInv, JobInv, PhaseInv, BarrierInv
    <3> QED
      BY <2>1, <3>1, LoopStage DEF FullInv, JobInv
  <2> QED
    BY <2>1
<1>3. \A i \in 1..Len(output) : FALSE
  BY <1>1
<1>4. TypeOK
  BY DEF FullInv, JobInv
<1> QED
  BY <1>1, <1>2, <1>3, <1>4, AllPairsAre DEF PairsKnown

\* The pairs of the largest key are at the ends of the vectors.
LEMMA MaxSlotsAre ==
    ASSUME JobInv, SortedInv, NEW w \in Workers, GroupMaxKey(w)
    PROVE  \A x \in Slots : x \in MaxSlots <=> PairAt(x).key = MaxKey
<1>1. NonEmpty # {} /\ pc[w] = "group" /\ TypeOK
  BY DEF GroupMaxKey, JobInv
<1>2. \A v \in Workers : SortedByKey(vec[v]) /\ vec[v] \in Seq(Pair)
  <2>1. \A v \in Workers : pc[v] \in {"shuffle", "group", "assign", "semwait"}
    BY <1>1, NobodyLoops DEF JobInv
  <2> QED
    BY <1>1, <2>1 DEF SortedInv, TypeOK
<1> SUFFICES ASSUME NEW x \in Slots PROVE x \in MaxSlots <=> PairAt(x).key = MaxKey
  OBVIOUS
<1>3. x[1] \in Workers /\ x[2] \in 1..Len(vec[x[1]])
  BY SlotsAre
<1>4. PICK v \in Workers, i \in 1..Len(vec[x[1]]) : v = x[1] /\ i = x[2]
  BY <1>3
<1> DEFINE n == Len(vec[v])
<1>5. /\ n \in Nat /\ i \in 1..n /\ n \in 1..n
      /\ \A j \in 1..n : vec[v][j] \in Pair
  BY <1>2, <1>4
<1>6. vec[v][n].key <= MaxKey /\ MaxKey \in Nat
  <2>1. v \in NonEmpty /\ vec[v][n].key \in BackKeys
    BY <1>5 DEF NonEmpty, BackKeys
  <2>2. MaxKey \in BackKeys /\ \A b \in BackKeys : b <= MaxKey
    BY <1>1, MaxKeyIsMax
  <2>3. MaxKey \in Nat
    <3>1. PICK u \in NonEmpty : MaxKey = vec[u][Len(vec[u])].key
      BY <2>2 DEF BackKeys
    <3>2. vec[u] \in Seq(Pair) /\ vec[u] # <<>>
      BY <1>2, <3>1 DEF NonEmpty
    <3>3. vec[u][Len(vec[u])] \in Pair
      BY <3>2
    <3> QED
      BY <3>1, <3>3 DEF Pair
  <2> QED
    BY <2>1, <2>2, <2>3
<1>7. \A j \in i..n : vec[v][i].key <= vec[v][j].key /\ vec[v][j].key <= vec[v][n].key
  <2> SUFFICES ASSUME NEW j \in i..n
               PROVE  vec[v][i].key <= vec[v][j].key /\ vec[v][j].key <= vec[v][n].key
    OBVIOUS
  <2>1. j \in 1..n /\ (i < j \/ i = j) /\ (j < n \/ j = n)
    BY <1>5
  <2>2. vec[v][i].key \in Nat /\ vec[v][j].key \in Nat /\ vec[v][n].key \in Nat
    BY <1>5, <2>1 DEF Pair
  <2>3. \A k, l \in 1..n : k < l => vec[v][k].key <= vec[v][l].key
    BY <1>2 DEF SortedByKey
  <2>4. vec[v][i].key <= vec[v][j].key
    BY <1>5, <2>1, <2>2, <2>3
  <2>5. vec[v][j].key <= vec[v][n].key
    BY <1>5, <2>1, <2>2, <2>3
  <2> QED
    BY <2>4, <2>5
<1>8. i \in MaxRun(v) <=> vec[v][i].key = MaxKey
  <2>1. ASSUME i \in MaxRun(v) PROVE vec[v][i].key = MaxKey
    <3>1. i \in i..n
      BY <1>5
    <3> QED
      BY <2>1, <3>1 DEF MaxRun, TrailingRun
  <2>2. ASSUME vec[v][i].key = MaxKey PROVE i \in MaxRun(v)
    <3>1. ASSUME NEW j \in i..n PROVE vec[v][j].key = MaxKey
      <4>1. j \in 1..n
        BY <1>5
      <4>2. vec[v][j].key \in Nat /\ vec[v][n].key \in Nat
        BY <1>5, <4>1 DEF Pair
      <4> QED
        BY <1>6, <1>7, <2>2, <4>2
    <3> QED
      BY <1>5, <3>1 DEF MaxRun, TrailingRun
  <2> QED
    BY <2>1, <2>2
<1> QED
  BY <1>4, <1>8 DEF MaxSlots, PairAt
\* An iteration of the shuffle makes a new group, of all the pairs of the
\* largest key wherever they are, and loses none.
LEMMA MaxGroupIsWhole ==
    ASSUME FullInv, NEW w \in Workers, GroupMaxKey(w)
    PROVE  /\ MaxGroup \in Contract!GroupsOf(AllPairs)
           /\ \A i \in 1..Len(queue) : queue[i] # MaxGroup
           /\ \A x \in Slots' : PairAt(x)' \notin MaxGroup
           /\ \A p : p \in MaxGroup \/ (\E x \in Slots' : p = PairAt(x)')
                     <=> \E x \in Slots : p = PairAt(x)
<1>1. /\ JobInv /\ SortedInv /\ WholeInv /\ TypeOK /\ PairsInv /\ NonEmpty # {}
  BY DEF FullInv, GroupInv, JobInv, ClaimInv, GroupMaxKey
<1>2. /\ Slots' = Slots \ MaxSlots /\ \A x \in Slots' : PairAt(x)' = PairAt(x)
      /\ status.stage = SHUFFLE_STAGE
  BY <1>1, GroupCounts
<1>3. \A x \in Slots : x \in MaxSlots <=> PairAt(x).key = MaxKey
  BY <1>1, MaxSlotsAre
<1>4. PICK y \in MaxSlots : TRUE
  BY <1>1, MaxSlotsNonempty
<1>5. MaxSlots \subseteq Slots /\ y \in Slots /\ PairAt(y).key = MaxKey
  BY <1>3, <1>4 DEF MaxSlots
<1>6. \A p : p \in MaxGroup <=> \E x \in MaxSlots : p = PairAt(x)
  BY DEF MaxGroup, PairAt
<1>7. PairAt(y) \in MaxGroup /\ PairAt(y) \in AllPairs
  BY <1>1, <1>2, <1>4, <1>5, <1>6, ShufflePairs
<1>8. \A i \in 1..Len(queue) : /\ queue[i] \in Contract!GroupsOf(AllPairs)
                               /\ \A x \in Slots : PairAt(x) \notin queue[i]
  BY <1>1, <1>2 DEF WholeInv
<1>9. ASSUME NEW i \in 1..Len(queue), NEW p \in queue[i] PROVE p.key # MaxKey
  <2>1. PICK k : queue[i] = {q \in AllPairs : q.key = k}
    BY <1>8 DEF Contract!GroupsOf
  <2>2. PairAt(y) \notin queue[i]
    BY <1>5, <1>8
  <2>3. PairAt(y).key # k
    BY <1>7, <2>1, <2>2
  <2> QED
    BY <1>5, <1>9, <2>1, <2>3
<1>10. MaxGroup = {p \in AllPairs : p.key = MaxKey}
  <2>1. ASSUME NEW p \in MaxGroup PROVE p \in AllPairs /\ p.key = MaxKey
    BY <1>1, <1>2, <1>3, <1>5, <1>6, ShufflePairs
  <2>2. ASSUME NEW p \in AllPairs, p.key = MaxKey PROVE p \in MaxGroup
    <3>1. \/ \E x \in Slots : p = PairAt(x)
          \/ \E i \in 1..Len(queue) : p \in queue[i]
      BY <1>2, ShufflePairs
    <3> QED
      BY <1>3, <1>6, <1>9, <2>2, <3>1
  <2> QED
    BY <2>1, <2>2
<1>11. MaxGroup \in Contract!GroupsOf(AllPairs)
  <2>1. MaxKey \in {p.key : p \in AllPairs}
    BY <1>5, <1>7
  <2> QED
    BY <1>10, <2>1 DEF Contract!GroupsOf
<1>12. \A i \in 1..Len(queue) : queue[i] # MaxGroup
  BY <1>5, <1>7, <1>9
<1>13. ASSUME NEW x \in Slots' PROVE PairAt(x)' \notin MaxGroup
  <2>1. x \in Slots /\ PairAt(x).key # MaxKey /\ PairAt(x)' = PairAt(x)
    BY <1>2, <1>3
  <2> QED
    BY <1>10, <2>1
<1>14. ASSUME NEW p
       PROVE  p \in MaxGroup \/ (\E x \in Slots' : p = PairAt(x)')
              <=> \E x \in Slots : p = PairAt(x)
  BY <1>2, <1>5, <1>6
<1> QED
  BY <1>11, <1>12, <1>13, <1>14

\* The queue after an iteration of the shuffle.
LEMMA GroupQueue ==
    ASSUME FullInv, NEW w \in Workers, GroupMaxKey(w)
    PROVE  /\ Len(queue') = Len(queue) + 1 /\ Len(queue) \in Nat
           /\ \A i \in 1..Len(queue) : queue'[i] = queue[i]
           /\ queue'[Len(queue) + 1] = MaxGroup
<1>1. queue \in Seq(SUBSET Pair) /\ queue' = Append(queue, MaxGroup)
  BY DEF FullInv, JobInv, TypeOK, GroupMaxKey
<1> QED
  BY <1>1

\* No pair is lost or made by the shuffle.
LEMMA GroupPairs ==
    ASSUME FullInv, TypeOK', NEW w \in Workers, GroupMaxKey(w)
    PROVE  AllPairs' = AllPairs
<1>1. status.stage = SHUFFLE_STAGE
  BY GroupCounts DEF FullInv
<1>2. /\ output' = <<>> /\ \A v \in Workers : hand'[v] = {}
      /\ \A p : p \in AllPairs <=> \/ \E x \in Slots : p = PairAt(x)
                                   \/ \E i \in 1..Len(queue) : p \in queue[i]
  BY <1>1, ShufflePairs DEF GroupMaxKey
<1>3. \A p : p \in AllPairs' <=> \/ \E x \in Slots' : p = PairAt(x)'
                                 \/ \E i \in 1..Len(queue') : p \in queue'[i]
  <2>1. \A i \in 1..Len(output') : FALSE
    BY <1>2
  <2> QED
    BY <1>2, <2>1, AllPairsNextAre DEF PairsKnown
<1>4. \A p : (\E i \in 1..Len(queue') : p \in queue'[i])
             <=> (\E i \in 1..Len(queue) : p \in queue[i]) \/ p \in MaxGroup
  BY GroupQueue
<1>5. \A p : p \in MaxGroup \/ (\E x \in Slots' : p = PairAt(x)')
             <=> \E x \in Slots : p = PairAt(x)
  BY MaxGroupIsWhole
<1> QED
  BY <1>2, <1>3, <1>4, <1>5

\* A step that leaves the groups of the shuffle alone.
LEMMA WholeStays ==
    ASSUME WholeInv, UNCHANGED <<status, vec, hand, queue, output>>
    PROVE  WholeInv'
<1>1. AllPairs' = AllPairs /\ Slots' = Slots /\ \A x : PairAt(x)' = PairAt(x)
  BY DEF AllPairs, Slots, PairAt
<1> QED
  BY <1>1 DEF WholeInv

\* Every step keeps the groups of the shuffle whole.
LEMMA NextWholeInv == FullInv /\ [Next]_vars => WholeInv'
<1> SUFFICES ASSUME FullInv, [Next]_vars PROVE WholeInv'
  OBVIOUS
<1>1. JobInv /\ WholeInv /\ TypeOK /\ TypeOK' /\ PhaseInv
  BY NextTypeOK DEF FullInv, JobInv, GroupInv
<1>2. CASE StartJob
  BY <1>2 DEF StartJob, SetStage, WholeInv
<1>3. CASE RunWorker \/ WaitForJob \/ JoinWorker \/ CloseJobHandle \/ UNCHANGED vars
  BY <1>1, <1>3, WholeStays
     DEF RunWorker, WaitForJob, JoinWorker, CloseJobHandle, vars, workerVars, dataVars
<1>4. ASSUME NEW w \in Workers, Worker(w) PROVE WholeInv'
  <2> USE DEF workerVars, dataVars
  <2>1. CASE Check(w) \/ Dispatch(w) \/ LockReduce(w)
    BY <1>1, <2>1, WholeStays DEF Check, Dispatch, LockReduce
  <2>2. CASE \/ BarrierWait(w) \/ BarrierRelease(w) \/ AssignShuffle(w)
             \/ SemaphoreWait(w) \/ SemaphorePost(w)
    BY <1>1, <2>2, WholeStays
       DEF BarrierWait, BarrierRelease, AssignShuffle, SemaphoreWait, SemaphorePost
  <2>3. CASE Claim(w)
    <3>1. /\ status.stage \in {MAP_STAGE, REDUCE_STAGE}
          /\ status' = [status EXCEPT !.processed = @ + 1]
      BY <1>1, <2>3, ClaimCounts
    <3>2. status'.stage = status.stage
      BY <1>1, <3>1 DEF TypeOK
    <3> QED
      BY <3>1, <3>2 DEF WholeInv
  <2>4. CASE MapCall(w) \/ CopyBack(w) \/ PopBack(w) \/ ReduceCall(w) \/ Sort(w)
    <3>1. pc[w] \in {"map", "back", "pop", "reduce", "sort"} /\ status' = status
      BY <2>4 DEF MapCall, CopyBack, PopBack, ReduceCall, Sort
    <3>2. call[w] \in {1, 2}
      BY <1>1 DEF TypeOK
    <3>3. status.stage # SHUFFLE_STAGE
      BY <1>1, <3>1, <3>2, LoopStage
    <3> QED
      BY <3>1, <3>3 DEF WholeInv
  <2>5. CASE StartShuffle(w)
    <3>1. queue' = queue /\ queue = <<>>
      BY <1>1, <2>5 DEF StartShuffle, PhaseInv, StageInv, JobInv, ClaimInv, QueueInv
    <3> QED
      BY <3>1 DEF WholeInv
  <2>6. CASE GroupMaxKey(w)
    <3>1. status.stage = SHUFFLE_STAGE
      BY <1>1, <2>6, GroupCounts
    <3>2. AllPairs' = AllPairs
      BY <1>1, <2>6, GroupPairs
    <3>3. /\ Len(queue') = Len(queue) + 1 /\ Len(queue) \in Nat
          /\ \A i \in 1..Len(queue) : queue'[i] = queue[i]
          /\ queue'[Len(queue) + 1] = MaxGroup
      BY <2>6, GroupQueue
    <3>4. /\ MaxGroup \in Contract!GroupsOf(AllPairs)
          /\ \A x \in Slots' : PairAt(x)' \notin MaxGroup
      BY <2>6, MaxGroupIsWhole
    <3>5. ASSUME NEW i \in 1..Len(queue), NEW x \in Slots' PROVE PairAt(x)' \notin queue[i]
      <4>1. x \in Slots /\ PairAt(x)' = PairAt(x)
        BY <1>1, <2>6, GroupCounts
      <4> QED
        BY <1>1, <3>1, <4>1 DEF WholeInv
    <3>6. ASSUME NEW i \in 1..Len(queue')
          PROVE  /\ queue'[i] \in Contract!GroupsOf(AllPairs)
                 /\ \A x \in Slots' : PairAt(x)' \notin queue'[i]
      <4>1. CASE i \in 1..Len(queue)
        BY <1>1, <3>1, <3>3, <3>5, <4>1 DEF WholeInv
      <4>2. CASE i = Len(queue) + 1
        BY <3>3, <3>4, <4>2
      <4> QED
        BY <3>3, <4>1, <4>2
    <3>7. (Contract!GroupsOf(AllPairs))' = Contract!GroupsOf(AllPairs)
      BY <3>2 DEF Contract!GroupsOf
    <3> QED
      BY <3>6, <3>7 DEF WholeInv
  <2>7. CASE EndShuffle(w)
    BY <2>7 DEF EndShuffle, SetStage, WholeInv
  <2> QED
    BY <1>4, <2>1, <2>2, <2>3, <2>4, <2>5, <2>6, <2>7 DEF Worker
<1> QED
  BY <1>2, <1>3, <1>4 DEF Next, StartMapReduceJob, Closed
\* A step that leaves the groups where they are.
LEMMA HandStays ==
    ASSUME HandInv, UNCHANGED <<hand, queue>>,
           \A v \in Workers : /\ pc'[v] = "pop" <=> pc[v] = "pop"
                              /\ pc'[v] = "reduce" <=> pc[v] = "reduce"
    PROVE  HandInv'
BY DEF HandInv

\* The back is copied: the group is in the hand and in the queue.
LEMMA CopyBackHand ==
    ASSUME FullInv, NEW w \in Workers, CopyBack(w)
    PROVE  HandInv' /\ hand'[w] \in Range(queue)
<1>1. /\ HandInv /\ pc[w] = "back" /\ queue' = queue /\ queue \in Seq(SUBSET Pair)
      /\ queue # <<>>
      /\ \A v \in Workers : /\ pc'[v] = IF v = w THEN "pop" ELSE pc[v]
                            /\ hand'[v] = IF v = w THEN queue[Len(queue)] ELSE hand[v]
  <2>1. queue # <<>>
    BY GroupAtPop DEF FullInv, QueueNeverEmptyAtPop, CopyBack
  <2>2. /\ HandInv /\ queue \in Seq(SUBSET Pair) /\ pc \in [Workers -> WorkerStates]
        /\ hand \in [Workers -> SUBSET Pair]
    BY DEF FullInv, GroupInv, JobInv, TypeOK
  <2>3. /\ pc[w] = "back" /\ queue' = queue
        /\ pc' = [pc EXCEPT ![w] = "pop"]
        /\ hand' = [hand EXCEPT ![w] = IF queue = <<>> THEN {} ELSE queue[Len(queue)]]
    BY DEF CopyBack, Goto, dataVars
  <2>4. \A v \in Workers : pc'[v] = IF v = w THEN "pop" ELSE pc[v]
    BY <2>2, <2>3
  <2>5. \A v \in Workers : hand'[v] = IF v = w THEN queue[Len(queue)] ELSE hand[v]
    BY <2>1, <2>2, <2>3
  <2> QED
    BY <2>1, <2>2, <2>3, <2>4, <2>5
<1>2. queue[Len(queue)] \in Range(queue)
  <2>1. Len(queue) \in 1..Len(queue)
    BY <1>1, EmptySeq
  <2> QED
    BY <1>1, <2>1, MembersAre
<1> QED
  BY <1>1, <1>2 DEF HandInv

\* The back is removed: the group is in the hand only.
LEMMA PopBackHand ==
    ASSUME FullInv, NEW w \in Workers, PopBack(w)
    PROVE  /\ HandInv' /\ hand[w] \in Range(queue)
           /\ \A g : g \in Range(queue') <=> g \in Range(queue) /\ g # hand[w]
<1>1. /\ HandInv /\ LockInv /\ pc[w] = "pop" /\ hand' = hand
      /\ queue \in Seq(SUBSET Pair) /\ queue' = SubSeq(queue, 1, Len(queue) - 1)
      /\ \A v \in Workers : pc'[v] = IF v = w THEN "reduce" ELSE pc[v]
  BY DEF FullInv, GroupInv, JobInv, TypeOK, PopBack, Goto, workerVars
<1>2. queue # <<>> /\ hand[w] = queue[Len(queue)]
  BY <1>1, GroupAtPop DEF FullInv, QueueNeverEmptyAtPop, HandInv
<1>3. NoRepeats(queue)
  BY <1>1 DEF HandInv, NoRepeats
<1>4. /\ NoRepeats(SubSeq(queue, 1, Len(queue) - 1))
      /\ queue[Len(queue)] \in Range(queue)
      /\ Range(SubSeq(queue, 1, Len(queue) - 1)) = Range(queue) \ {queue[Len(queue)]}
  BY <1>1, <1>2, <1>3, WithoutBack
<1>5. /\ NoRepeats(queue') /\ hand[w] \in Range(queue)
      /\ \A g : g \in Range(queue') <=> g \in Range(queue) /\ g # hand[w]
  BY <1>1, <1>2, <1>4
<1>6. \A i, j \in 1..Len(queue') : queue'[i] = queue'[j] => i = j
  BY <1>5 DEF NoRepeats
<1>7. \A v \in Workers : v # w => pc[v] # "pop"
  BY <1>1 DEF LockInv
<1>8. ASSUME NEW v \in Workers
      PROVE  /\ pc'[v] = "pop" => hand'[v] = queue'[Len(queue')]
             /\ pc'[v] = "reduce" => hand'[v] \notin Range(queue')
             /\ pc'[v] \notin {"pop", "reduce"} => hand'[v] = {}
  BY <1>1, <1>5, <1>7 DEF HandInv
<1>9. ASSUME NEW v \in Workers, NEW u \in Workers, v # u, pc'[v] = "reduce", pc'[u] = "reduce"
      PROVE  hand'[v] # hand'[u]
  BY <1>1, <1>5, <1>9 DEF HandInv
<1> QED
  BY <1>5, <1>6, <1>8, <1>9 DEF HandInv

\* Every step keeps each group in one place.
LEMMA NextHandInv == FullInv /\ [Next]_vars => HandInv'
<1> SUFFICES ASSUME FullInv, [Next]_vars PROVE HandInv'
  OBVIOUS
<1>1. /\ JobInv /\ HandInv /\ pc \in [Workers -> WorkerStates]
      /\ hand \in [Workers -> SUBSET Pair]
      /\ (main = "starting" => cursor + 1 \in Workers /\ pc[cursor + 1] = "off")
  BY CountsAssumption
     DEF FullInv, GroupInv, JobInv, TypeOK, Workers, PhaseInv, MainInv
<1>2. CASE StartJob \/ WaitForJob \/ JoinWorker \/ CloseJobHandle \/ UNCHANGED vars
  BY <1>1, <1>2, HandStays
     DEF StartJob, WaitForJob, JoinWorker, CloseJobHandle, vars, workerVars, dataVars
<1>3. CASE RunWorker
  BY <1>1, <1>3, HandStays DEF RunWorker, Goto, workerVars, dataVars
<1>4. ASSUME NEW w \in Workers, Worker(w) PROVE HandInv'
  <2> USE <1>1 DEF Goto, workerVars, dataVars
  <2>1. CASE Claim(w) \/ Check(w) \/ Dispatch(w) \/ MapCall(w) \/ LockReduce(w)
    BY <2>1, HandStays DEF Claim, Check, Dispatch, MapCall, LockReduce
  <2>2. CASE Sort(w) \/ BarrierWait(w) \/ BarrierRelease(w) \/ AssignShuffle(w)
    BY <2>2, HandStays DEF Sort, BarrierWait, BarrierRelease, AssignShuffle, OneShuffles
  <2>3. CASE StartShuffle(w) \/ EndShuffle(w) \/ SemaphoreWait(w) \/ SemaphorePost(w)
    BY <2>3, HandStays DEF StartShuffle, EndShuffle, SemaphoreWait, SemaphorePost
  <2>4. CASE CopyBack(w)
    BY <2>4, CopyBackHand
  <2>5. CASE PopBack(w)
    BY <2>5, PopBackHand
  <2>6. CASE ReduceCall(w)
    <3>1. /\ queue' = queue
          /\ \A v \in Workers : /\ pc'[v] = IF v = w THEN "claim" ELSE pc[v]
                                /\ hand'[v] = IF v = w THEN {} ELSE hand[v]
      BY <2>6 DEF ReduceCall
    <3> QED
      BY <3>1 DEF HandInv
  <2>7. CASE GroupMaxKey(w)
    <3>1. pc' = pc /\ hand' = hand
      BY <2>7 DEF GroupMaxKey
    <3>2. \A v \in Workers : pc[v] \notin {"pop", "reduce"}
      BY <2>7, NobodyLoops DEF GroupMaxKey, JobInv
    <3>3. /\ Len(queue') = Len(queue) + 1 /\ Len(queue) \in Nat
          /\ \A i \in 1..Len(queue) : queue'[i] = queue[i]
          /\ queue'[Len(queue) + 1] = MaxGroup
          /\ \A i \in 1..Len(queue) : queue[i] # MaxGroup
      BY <2>7, GroupQueue, MaxGroupIsWhole
    <3>4. \A i, j \in 1..Len(queue') : queue'[i] = queue'[j] => i = j
      BY <3>3 DEF HandInv
    <3> QED
      BY <3>1, <3>2, <3>4 DEF HandInv
  <2> QED
    BY <1>4, <2>1, <2>2, <2>3, <2>4, <2>5, <2>6, <2>7 DEF Worker
<1> QED
  BY <1>2, <1>3, <1>4 DEF Next, StartMapReduceJob, Closed

\* At the start there is nothing to keep.
LEMMA InitGroupInv == Init => GroupInv
<1> SUFFICES ASSUME Init PROVE GroupInv
  OBVIOUS
<1>1. MapOver /\ WholeInv /\ HandInv
  BY DEF Init, MapOver, WholeInv, HandInv
<1>2. LockInv /\ SortedInv
  BY CountsAssumption DEF Init, LockInv, SortedInv, Workers, Nobody
<1> QED
  BY <1>1, <1>2 DEF GroupInv

\* The vectors are sorted when they are shuffled, the groups are whole, and each
\* is in one place at every step.
THEOREM GroupsInvariant == Spec => []FullInv
<1>1. FullInv /\ [Next]_vars => GroupInv'
  BY NextMapOver, NextSortedInv, NextLockInv, NextHandInv, NextWholeInv
     DEF FullInv, GroupInv
<1>2. JobInv /\ GroupInv <=> FullInv
  BY DEF FullInv
<1> QED
  BY <1>1, <1>2, InitGroupInv, ClaimsInvariant, PTL DEF Spec

-----------------------------------------------------------------------------
(* What a wait that has returned means.                                    *)

\* The shuffle leaves nothing in the vectors, and nobody maps after it.
VectorsGone == status.stage = REDUCE_STAGE => \A w \in Workers : vec[w] = <<>>

\* A step that leaves the vectors alone and does not begin the reduce stage.
LEMMA GoneStays ==
    ASSUME VectorsGone, vec' = vec,
           status'.stage = REDUCE_STAGE => status.stage = REDUCE_STAGE
    PROVE  VectorsGone'
BY DEF VectorsGone

\* The reduce stage begins when all the vectors are empty, and lasts.
LEMMA NextVectorsGone == JobInv /\ VectorsGone /\ [Next]_vars => VectorsGone'
<1> SUFFICES ASSUME JobInv, VectorsGone, [Next]_vars PROVE VectorsGone'
  OBVIOUS
<1>1. status \in [stage : 0..3, total : Nat, processed : Nat] /\ TypeOK /\ PhaseInv /\ TicketInv
  BY DEF JobInv, TypeOK, ClaimInv
<1>2. CASE StartJob
  BY <1>2 DEF StartJob, SetStage, VectorsGone
<1>3. CASE RunWorker \/ WaitForJob \/ JoinWorker \/ CloseJobHandle \/ UNCHANGED vars
  BY <1>3, GoneStays
     DEF RunWorker, WaitForJob, JoinWorker, CloseJobHandle, vars, workerVars
<1>4. ASSUME NEW w \in Workers, Worker(w) PROVE VectorsGone'
  <2> USE DEF workerVars
  <2>1. CASE Claim(w)
    <3>1. status'.stage = status.stage
      BY <1>1, <2>1, ClaimCounts
    <3> QED
      BY <2>1, <3>1, GoneStays DEF Claim
  <2>2. CASE Check(w) \/ Dispatch(w) \/ LockReduce(w) \/ CopyBack(w) \/ PopBack(w) \/ ReduceCall(w)
    BY <2>2, GoneStays DEF Check, Dispatch, LockReduce, CopyBack, PopBack, ReduceCall
  <2>3. CASE BarrierWait(w) \/ BarrierRelease(w) \/ AssignShuffle(w) \/ SemaphoreWait(w) \/ SemaphorePost(w)
    BY <2>3, GoneStays
       DEF BarrierWait, BarrierRelease, AssignShuffle, SemaphoreWait, SemaphorePost
  <2>4. CASE MapCall(w) \/ Sort(w)
    <3>1. status' = status /\ pc[w] \in {"map", "sort"}
      BY <2>4 DEF MapCall, Sort
    <3>2. call[w] = 1
      BY <1>1, <3>1 DEF TicketInv, PhaseInv, BarrierInv
    <3>3. status.stage = MAP_STAGE
      BY <1>1, <3>1, <3>2, LoopStage
    <3> QED
      BY <3>1, <3>3 DEF VectorsGone
  <2>5. CASE StartShuffle(w)
    BY <2>5 DEF StartShuffle, SetStage, VectorsGone
  <2>6. CASE GroupMaxKey(w)
    <3>1. status.stage = SHUFFLE_STAGE /\ status'.stage = status.stage
      BY <1>1, <2>6, GroupCounts
    <3> QED
      BY <3>1 DEF VectorsGone
  <2>7. CASE EndShuffle(w)
    BY <2>7 DEF EndShuffle, NonEmpty, VectorsGone
  <2> QED
    BY <1>4, <2>1, <2>2, <2>3, <2>4, <2>5, <2>6, <2>7 DEF Worker
<1> QED
  BY <1>2, <1>3, <1>4 DEF Next, StartMapReduceJob, Closed

\* When waitForJob has returned there is an output for every group, and no pair
\* is left in a vector, in the queue or in a hand.
THEOREM WaitIsComplete == Spec => []WaitMeansComplete
<1>1. FullInv /\ VectorsGone => WaitMeansComplete
  <2> SUFFICES ASSUME FullInv, VectorsGone, main \in {"joined", "closed"}
               PROVE  /\ status.stage = REDUCE_STAGE /\ Len(output) = status.total
                      /\ queue = <<>>
                      /\ \A w \in Workers : vec[w] = <<>> /\ hand[w] = {}
    BY DEF WaitMeansComplete
  <2> USE DEF FullInv
  <2>1. \A w \in Workers : pc[w] = "done"
    BY DEF JobInv, PhaseInv, MainInv
  <2>2. 1 \in Workers
    BY CountsAssumption DEF Workers
  <2>3. status.stage = REDUCE_STAGE
    <3>1. call[1] = 2
      BY <2>1, <2>2 DEF JobInv, PhaseInv, BarrierInv
    <3> QED
      BY <2>2, <3>1 DEF JobInv, PhaseInv, StageInv
  <2>4. Poppers = {} /\ Reducing = {}
    BY <2>1 DEF Poppers, Reducing
  <2>5. Cardinality(Poppers) = 0 /\ Cardinality(Reducing) = 0
    BY <2>4, FS_EmptySet
  <2>6. /\ status.total \in Nat /\ status.processed \in Nat /\ old[1] \in Nat
        /\ ~(old[1] < status.total) /\ old[1] < status.processed
    BY <2>1, <2>2 DEF JobInv, TypeOK, ClaimInv, TicketInv, InStage
  <2>7. Len(queue) = 0
    <3>1. Len(queue) = Cardinality(Poppers) +
              IF status.processed < status.total
              THEN status.total - status.processed ELSE 0
      BY <2>3 DEF JobInv, ClaimInv, QueueInv, GroupsReady
    <3> QED
      BY <2>5, <2>6, <3>1
  <2>8. queue \in Seq(SUBSET Pair) /\ Len(output) \in Nat
    BY DEF JobInv, TypeOK
  <2>9. Len(output) = status.total
    BY <2>3, <2>5, <2>7, <2>8 DEF JobInv, ClaimInv, QueueInv
  <2>10. queue = <<>>
    BY <2>7, <2>8
  <2>11. \A w \in Workers : vec[w] = <<>>
    BY <2>3 DEF VectorsGone
  <2>12. \A w \in Workers : hand[w] = {}
    BY <2>1 DEF GroupInv, HandInv
  <2> QED
    BY <2>3, <2>9, <2>10, <2>11, <2>12
<1>2. Init => VectorsGone
  BY DEF Init, VectorsGone
<1>3. FullInv => JobInv
  BY DEF FullInv
<1> QED
  BY <1>1, <1>2, <1>3, NextVectorsGone, GroupsInvariant, PTL DEF Spec
-----------------------------------------------------------------------------
(* What the contract sees of the job.                                      *)

\* The workers with an input in hand, and those with a group in hand.
Holding ==
    {w \in Workers : call[w] = 1 /\ pc[w] \in {"check", "dispatch", "map"}}

Taking == {w \in Workers : pc[w] \in {"pop", "reduce"}}

\* The inputs the contract has to do, one by one.
InputsKnown ==
    \A i : i \in Unmapped <=>
        /\ i \in 1..NumInputs
        /\ \/ status.stage = UNDEFINED_STAGE
           \/ status.stage = MAP_STAGE /\ i > status.processed
           \/ \E w \in Holding : i = old[w] + 1

\* The groups the contract has to do, one by one.
GroupsKnown ==
    \A g : g \in Unreduced <=>
        /\ status.stage = REDUCE_STAGE
        /\ g \in Range(queue) \/ \E w \in Taking : g = hand[w]

\* An input is to be mapped when nobody has claimed it, or the one who has is
\* not through with it.
LEMMA UnmappedAre == InputsKnown
<1> DEFINE held == {old[w] + 1 : w \in {v \in Workers :
                      /\ call[v] = 1
                      /\ pc[v] \in {"check", "dispatch", "map"}}}
           fresh == CASE status.stage = UNDEFINED_STAGE -> 1..NumInputs
                      [] status.stage = MAP_STAGE ->
                           {i \in 1..NumInputs : i > status.processed}
                      [] OTHER -> {}
<1>1. Unmapped = fresh \cup (held \cap (1..NumInputs))
  BY DEF Unmapped
<1>2. \A i : i \in held <=> \E w \in Holding : i = old[w] + 1
  BY DEF Holding
<1>3. \A i : i \in fresh <=> /\ i \in 1..NumInputs
                             /\ \/ status.stage = UNDEFINED_STAGE
                                \/ status.stage = MAP_STAGE /\ i > status.processed
  <2>1. CASE status.stage = UNDEFINED_STAGE
    BY <2>1
  <2>2. CASE status.stage = MAP_STAGE
    BY <2>2
  <2>3. CASE status.stage # UNDEFINED_STAGE /\ status.stage # MAP_STAGE
    BY <2>3
  <2> QED
    BY <2>1, <2>2, <2>3
<1> HIDE DEF held, fresh
<1> QED
  BY <1>1, <1>2, <1>3 DEF InputsKnown

\* A group is to be reduced when it is in the queue or in a hand.
LEMMA UnreducedAre == GroupsKnown
BY DEF GroupsKnown, Unreduced, Taking

\* The same after a step.
LEMMA KnownNext == InputsKnown' /\ GroupsKnown'
BY UnmappedAre, UnreducedAre, PTL

\* A step that neither queues a group nor takes one.
LEMMA UnreducedStays ==
    ASSUME status'.stage = status.stage, UNCHANGED <<queue, hand>>, Taking' = Taking
    PROVE  Unreduced' = Unreduced
<1>1. \A g : g \in Unreduced' <=> g \in Unreduced
  BY KnownNext, UnreducedAre DEF GroupsKnown
<1> QED
  BY <1>1

\* A step that moves neither an input nor a pair nor a group.
LEMMA QuietStep ==
    ASSUME UNCHANGED <<status, old, vec, hand, queue, output>>,
           Holding' = Holding, Taking' = Taking
    PROVE  UNCHANGED Contract!vars
<1>1. Unmapped' = Unmapped
  BY KnownNext, UnmappedAre DEF InputsKnown
<1>2. Unreduced' = Unreduced
  BY UnreducedStays
<1>3. AllPairs' = AllPairs
  BY DEF AllPairs
<1> QED
  BY <1>1, <1>2, <1>3 DEF Contract!vars

\* The start of the job: every input is to be mapped, before and after.
LEMMA StartJobMaps ==
    ASSUME FullInv, StartJob
    PROVE  UNCHANGED Contract!vars
<1>1. /\ main = "new" /\ UNCHANGED <<vec, hand, queue, output>>
      /\ status'.stage = MAP_STAGE /\ status'.processed = 0
      /\ pc' = pc /\ call' = call
  BY DEF StartJob, SetStage, workerVars, dataVars
<1>2. status.stage = UNDEFINED_STAGE /\ \A w \in Workers : pc[w] = "off"
  BY <1>1 DEF FullInv, JobInv, PhaseInv, MainInv, StageInv
<1>3. Unmapped' = Unmapped
  <2>1. Holding' = {} /\ Holding = {}
    BY <1>1, <1>2 DEF Holding
  <2>2. \A i \in 1..NumInputs : i > 0
    OBVIOUS
  <2> QED
    BY <1>1, <1>2, <2>1, <2>2, KnownNext, UnmappedAre DEF InputsKnown
<1>4. Unreduced' = Unreduced
  BY <1>1, <1>2, KnownNext, UnreducedAre DEF GroupsKnown
<1>5. AllPairs' = AllPairs
  BY <1>1 DEF AllPairs
<1> QED
  BY <1>1, <1>2, <1>3, <1>4, <1>5 DEF Contract!vars

\* A claim moves an input from those not handed out to those in hand.
LEMMA ClaimMaps ==
    ASSUME FullInv, NEW w \in Workers, Claim(w)
    PROVE  UNCHANGED Contract!vars
<1>1. /\ TypeOK /\ JobInv /\ pc[w] = "claim" /\ UNCHANGED <<call, vec, hand, queue, output>>
      /\ old' = [old EXCEPT ![w] = status.processed]
      /\ \A v \in Workers : pc'[v] = IF v = w THEN "check" ELSE pc[v]
  BY DEF FullInv, JobInv, TypeOK, Claim, Goto, dataVars
<1>2. /\ status.stage \in {MAP_STAGE, REDUCE_STAGE}
      /\ status' = [status EXCEPT !.processed = @ + 1]
  BY <1>1, ClaimCounts
<1>3. /\ status'.stage = status.stage /\ status'.processed = status.processed + 1
      /\ status.processed \in Nat
  BY <1>1, <1>2 DEF TypeOK
<1>4. \A v \in Workers : old'[v] = IF v = w THEN status.processed ELSE old[v]
  BY <1>1 DEF TypeOK
<1>5. status.stage = MAP_STAGE <=> call[w] = 1
  BY <1>1, <1>2, LoopStage DEF JobInv, TypeOK
<1>6. Holding' = IF call[w] = 1 THEN Holding \cup {w} ELSE Holding
  BY <1>1 DEF Holding
<1>7. w \notin Holding
  BY <1>1 DEF Holding
<1>8. Unmapped' = Unmapped
  <2> SUFFICES ASSUME NEW i \in 1..NumInputs PROVE i \in Unmapped' <=> i \in Unmapped
    BY KnownNext, UnmappedAre DEF InputsKnown
  <2>1. i \in Unmapped <=> \/ status.stage = MAP_STAGE /\ i > status.processed
                           \/ \E v \in Holding : i = old[v] + 1
    BY <1>2, UnmappedAre DEF InputsKnown
  <2>2. i \in Unmapped' <=> \/ status.stage = MAP_STAGE /\ i > status.processed + 1
                            \/ \E v \in Holding' : i = old'[v] + 1
    BY <1>2, <1>3, KnownNext DEF InputsKnown
  <2>3. (\E v \in Holding' : i = old'[v] + 1)
          <=> \/ \E v \in Holding : i = old[v] + 1
              \/ call[w] = 1 /\ i = status.processed + 1
    <3>1. Holding \subseteq Workers
      BY DEF Holding
    <3> QED
      BY <1>4, <1>6, <1>7, <3>1
  <2> QED
    BY <1>3, <1>5, <2>1, <2>2, <2>3
<1>9. Unreduced' = Unreduced
  <2>1. Taking' = Taking
    BY <1>1 DEF Taking
  <2> QED
    BY <1>1, <1>3, <2>1, UnreducedStays
<1>10. AllPairs' = AllPairs
  BY <1>1 DEF AllPairs
<1> QED
  BY <1>1, <1>3, <1>8, <1>9, <1>10 DEF Contract!vars
\* A claim beyond the total is of no input.
LEMMA CheckMaps ==
    ASSUME FullInv, NEW w \in Workers, Check(w)
    PROVE  UNCHANGED Contract!vars
<1>1. /\ JobInv /\ pc[w] = "check" /\ call[w] \in {1, 2}
      /\ UNCHANGED <<status, call, old, vec, hand, queue, output>>
      /\ \A v \in Workers :
            pc'[v] = IF v = w THEN IF InStage(w) THEN "dispatch"
                                   ELSE IF call[w] = 1 THEN "sort" ELSE "done"
                              ELSE pc[v]
  BY DEF FullInv, JobInv, TypeOK, Check, Goto, workerVars, dataVars
<1>2. Taking' = Taking
  BY <1>1 DEF Taking
<1>3. CASE InStage(w) \/ call[w] = 2
  <2>1. Holding' = Holding
    BY <1>1, <1>3 DEF Holding
  <2> QED
    BY <1>1, <1>2, <2>1, QuietStep
<1>4. CASE ~InStage(w) /\ call[w] = 1
  <2>1. /\ status.stage = MAP_STAGE /\ status.total = NumInputs
        /\ old[w] \in Nat /\ old[w] >= NumInputs /\ NumInputs \in Nat
    <3>1. status.stage = MAP_STAGE
      BY <1>1, <1>4, LoopStage DEF JobInv
    <3> QED
      BY <1>1, <1>4, <3>1, CountsAssumption
         DEF JobInv, ClaimInv, CountInv, InStage, TypeOK
  <2>2. Holding' = Holding \ {w} /\ w \in Holding
    BY <1>1, <1>4 DEF Holding
  <2>3. old[w] + 1 \notin 1..NumInputs
    BY <2>1
  <2>4. \A i \in 1..NumInputs : (\E v \in Holding' : i = old[v] + 1)
                                  <=> \E v \in Holding : i = old[v] + 1
    BY <2>2, <2>3
  <2>5. \A i : i \in Unmapped' <=> i \in Unmapped
    BY <1>1, <2>4, KnownNext, UnmappedAre DEF InputsKnown
  <2>6. AllPairs' = AllPairs /\ Unreduced' = Unreduced
    BY <1>1, <1>2, UnreducedStays DEF AllPairs
  <2> QED
    BY <1>1, <2>5, <2>6 DEF Contract!vars
<1> QED
  BY <1>1, <1>3, <1>4

\* A map call is one of the contract's: of an input nobody has mapped.
LEMMA MapCallMaps ==
    ASSUME FullInv, TypeOK', NEW w \in Workers, MapCall(w)
    PROVE  Contract!Next
<1>1. PICK keys \in EmitChoices :
        vec' = [vec EXCEPT ![w] = @ \o
                  [p \in 1..Len(keys) |->
                      [key |-> keys[p], input |-> old[w] + 1, pos |-> p]]]
  BY DEF MapCall
<1> DEFINE new == [p \in 1..Len(keys) |->
                      [key |-> keys[p], input |-> old[w] + 1, pos |-> p]]
<1>2. /\ TypeOK /\ JobInv /\ TicketInv /\ pc[w] = "map" /\ call[w] = 1
      /\ UNCHANGED <<status, call, old, hand, queue, output>>
      /\ \A v \in Workers : pc'[v] = IF v = w THEN "claim" ELSE pc[v]
  BY DEF FullInv, JobInv, ClaimInv, TicketInv, Looping, TypeOK, MapCall, Goto, dataVars
<1>3. /\ status.stage = MAP_STAGE /\ status.total = NumInputs /\ NumInputs \in Nat
      /\ old[w] \in Nat /\ old[w] < NumInputs /\ old[w] < status.processed
      /\ status.processed \in Nat
  <2>1. status.stage = MAP_STAGE
    BY <1>2, LoopStage DEF JobInv
  <2>2. InStage(w) /\ old[w] < status.processed
    BY <1>2 DEF TicketInv, Looping
  <2> QED
    BY <1>2, <2>1, <2>2, CountsAssumption
       DEF JobInv, ClaimInv, CountInv, InStage, TypeOK
<1>4. w \in Holding /\ Holding' = Holding \ {w} /\ Holding \subseteq Workers
  BY <1>2 DEF Holding
<1>5. \A v \in Holding : v # w => old[v] # old[w] /\ old[v] \in Nat
  BY <1>2, <1>4 DEF TicketInv, Holding, Looping, TypeOK
<1>6. old[w] + 1 \in Unmapped /\ Unmapped' = Unmapped \ {old[w] + 1}
  <2>1. old[w] + 1 \in 1..NumInputs /\ ~(old[w] + 1 > status.processed)
    BY <1>3
  <2>2. ASSUME NEW i \in 1..NumInputs
        PROVE  i \in Unmapped' <=> i \in Unmapped /\ i # old[w] + 1
    <3>1. i \in Unmapped <=> i > status.processed \/ \E v \in Holding : i = old[v] + 1
      BY <1>3, UnmappedAre DEF InputsKnown
    <3>2. i \in Unmapped' <=> i > status.processed \/ \E v \in Holding' : i = old[v] + 1
      BY <1>2, <1>3, KnownNext DEF InputsKnown
    <3>3. (\E v \in Holding' : i = old[v] + 1)
            <=> i # old[w] + 1 /\ \E v \in Holding : i = old[v] + 1
      BY <1>3, <1>4, <1>5
    <3> QED
      BY <2>1, <3>1, <3>2, <3>3
  <2>3. old[w] + 1 \in Unmapped
    BY <1>4, <2>1, UnmappedAre DEF InputsKnown
  <2>4. \A i : i \in Unmapped \/ i \in Unmapped' => i \in 1..NumInputs
    BY KnownNext, UnmappedAre DEF InputsKnown
  <2> QED
    BY <2>2, <2>3, <2>4
<1>7. AllPairs' = AllPairs \cup Contract!Emitted(old[w] + 1, keys)
  <2>1. /\ \A v \in Workers : v # w => vec'[v] = vec[v]
        /\ vec'[w] = vec[w] \o new
    BY <1>1, <1>2 DEF TypeOK
  <2>2. Len(keys) \in Nat /\ vec[w] \in Seq(Pair) /\ Len(vec[w]) \in Nat
    <3>1. keys \in Seq(Nat)
      BY EmitAssumption
    <3>2. vec[w] \in Seq(Pair)
      BY <1>2 DEF TypeOK
    <3> QED
      BY <3>1, <3>2
  <2>3. \A p : p \in Contract!Emitted(old[w] + 1, keys) <=> \E j \in 1..Len(keys) : p = new[j]
    BY DEF Contract!Emitted
  <2>4. \A p : (\E x \in Slots' : p = PairAt(x)')
               <=> \/ \E x \in Slots : p = PairAt(x)
                   \/ \E j \in 1..Len(keys) : p = new[j]
    <3>1. /\ Len(vec'[w]) = Len(vec[w]) + Len(keys)
          /\ \A i \in 1..Len(vec[w]) : vec'[w][i] = vec[w][i]
          /\ \A j \in 1..Len(keys) : vec'[w][Len(vec[w]) + j] = new[j]
      <4>1. new \in Seq({new[j] : j \in 1..Len(keys)}) /\ Len(new) = Len(keys)
        BY <2>2
      <4> HIDE DEF new
      <4> DEFINE u == vec[w]
                 S == Pair \cup {new[j] : j \in 1..Len(keys)}
      <4>2. u \in Seq(S) /\ new \in Seq(S)
        <5>1. \A i \in 1..Len(u) : u[i] \in S
          BY <2>2
        <5>2. \A i \in 1..Len(new) : new[i] \in S
          BY <4>1
        <5> QED
          BY <2>2, <4>1, <5>1, <5>2
      <4> HIDE DEF u, S
      <4>3. /\ Len(u \o new) = Len(u) + Len(new)
            /\ \A i \in 1..(Len(u) + Len(new)) :
                 (u \o new)[i] = IF i <= Len(u) THEN u[i] ELSE new[i - Len(u)]
        BY <4>2, ConcatProperties
      <4>4. vec'[w] = u \o new /\ u = vec[w] /\ Len(u) \in Nat
        BY <2>1, <2>2 DEF u
      <4>5. ASSUME NEW i \in 1..Len(u) PROVE vec'[w][i] = u[i]
        <5>1. i \in 1..(Len(u) + Len(new)) /\ i <= Len(u)
          BY <2>2, <4>1, <4>4
        <5> QED
          BY <4>3, <4>4, <5>1
      <4>6. ASSUME NEW j \in 1..Len(keys) PROVE vec'[w][Len(u) + j] = new[j]
        <5>1. /\ Len(u) + j \in 1..(Len(u) + Len(new)) /\ ~(Len(u) + j <= Len(u))
              /\ Len(u) + j - Len(u) = j
          <6>1. \A m, k \in Nat : \A i \in 1..k :
                  /\ m + i \in 1..(m + k) /\ ~(m + i <= m) /\ m + i - m = i
            OBVIOUS
          <6> QED
            BY <2>2, <4>1, <4>4, <6>1
        <5> QED
          BY <4>3, <4>4, <5>1
      <4> QED
        BY <4>1, <4>3, <4>4, <4>5, <4>6
    <3> HIDE DEF new
    <3>2. ASSUME NEW x \in Slots'
          PROVE  \/ \E y \in Slots : PairAt(x)' = PairAt(y)
                 \/ \E j \in 1..Len(keys) : PairAt(x)' = new[j]
      <4>1. x[1] \in Workers /\ x[2] \in 1..Len(vec'[x[1]])
        BY DEF Slots
      <4>2. CASE x[1] # w \/ x[2] <= Len(vec[w])
        <5>1. x[2] \in 1..Len(vec[x[1]]) /\ vec'[x[1]][x[2]] = vec[x[1]][x[2]]
          <6>1. CASE x[1] # w
            <7>1. vec'[x[1]] = vec[x[1]]
              BY <2>1, <2>2, <4>1, <6>1
            <7> QED
              BY <4>1, <7>1
          <6>2. CASE x[1] = w /\ x[2] <= Len(vec[w])
            <7>1. x[2] \in 1..Len(vec[w])
              BY <4>1, <6>2, <2>2, <3>1
            <7> QED
              BY <3>1, <6>2, <7>1
          <6> QED
            BY <4>2, <6>1, <6>2
        <5>2. <<x[1], x[2]>> \in Slots
          BY <4>1, <5>1, SlotsAre
        <5> QED
          BY <5>1, <5>2 DEF PairAt
      <4>3. CASE x[1] = w /\ x[2] > Len(vec[w])
        <5>1. PICK j \in 1..Len(keys) : x[2] = Len(vec[w]) + j
          <6>1. x[2] - Len(vec[w]) \in 1..Len(keys)
            BY <2>2, <3>1, <4>1, <4>3
          <6> QED
            BY <2>2, <4>1, <6>1
        <5> QED
          BY <3>1, <4>3, <5>1 DEF PairAt
      <4> QED
        BY <2>2, <4>1, <4>2, <4>3
    <3>3. ASSUME NEW y \in Slots PROVE \E x \in Slots' : PairAt(x)' = PairAt(y)
      <4>1. y[1] \in Workers /\ y[2] \in 1..Len(vec[y[1]])
        BY SlotsAre
      <4>2. y[2] \in 1..Len(vec'[y[1]]) /\ vec'[y[1]][y[2]] = vec[y[1]][y[2]]
        <5>1. CASE y[1] # w
          BY <2>1, <4>1, <5>1
        <5>2. CASE y[1] = w
          <6>1. y[2] \in 1..Len(vec[w])
            BY <4>1, <5>2
          <6>2. y[2] \in 1..Len(vec'[w])
            BY <2>2, <3>1, <6>1
          <6> QED
            BY <3>1, <5>2, <6>1, <6>2
        <5> QED
          BY <5>1, <5>2
      <4>3. <<y[1], y[2]>> \in Slots'
        BY <4>1, <4>2 DEF Slots
      <4> QED
        BY <4>2, <4>3 DEF PairAt
    <3>4. ASSUME NEW j \in 1..Len(keys) PROVE \E x \in Slots' : PairAt(x)' = new[j]
      <4>1. Len(vec[w]) + j \in 1..Len(vec'[w])
        BY <2>2, <3>1
      <4>2. <<w, Len(vec[w]) + j>> \in Slots'
        BY <4>1 DEF Slots
      <4> QED
        BY <3>1, <4>2 DEF PairAt
    <3> QED
      BY <3>2, <3>3, <3>4
  <2> HIDE DEF new
  <2>5. \A p : p \in AllPairs' <=> p \in AllPairs \/ \E j \in 1..Len(keys) : p = new[j]
    BY <1>2, <2>4, AllPairsAre, AllPairsNextAre DEF PairsKnown
  <2> QED
    BY <2>3, <2>5
<1>8. Unreduced' = Unreduced
  <2>1. Taking' = Taking
    BY <1>2 DEF Taking
  <2> QED
    BY <1>2, <2>1, UnreducedStays
<1>9. PICK i : i = old[w] + 1
  OBVIOUS
<1>10. Contract!MapInput(i)
  BY <1>2, <1>3, <1>6, <1>7, <1>8, <1>9 DEF Contract!MapInput
<1> QED
  BY <1>6, <1>9, <1>10 DEF Contract!Next

\* The sort moves the pairs of one vector.
LEMMA SortMaps ==
    ASSUME FullInv, NEW w \in Workers, Sort(w)
    PROVE  UNCHANGED Contract!vars
<1>1. PICK s : Range(s) = Range(vec[w]) /\ vec' = [vec EXCEPT ![w] = s]
  BY DEF Sort
<1>2. /\ TypeOK /\ pc[w] = "sort" /\ UNCHANGED <<status, call, old, hand, queue, output>>
      /\ \A v \in Workers : pc'[v] = IF v = w THEN "barrier" ELSE pc[v]
  BY DEF FullInv, JobInv, TypeOK, Sort, Goto, dataVars
<1>3. Holding' = Holding /\ Taking' = Taking
  BY <1>2 DEF Holding, Taking
<1>4. AllPairs' = AllPairs
  <2>1. \A v \in Workers : vec'[v] = IF v = w THEN s ELSE vec[v]
    BY <1>1, <1>2 DEF TypeOK
  <2>2. \A v \in Workers : Range(vec'[v]) = Range(vec[v])
    BY <1>1, <2>1
  <2>3. \A v \in Workers : Range(vec'[v]) \cup hand'[v] = Range(vec[v]) \cup hand[v]
    BY <1>2, <2>2
  <2>4. {Range(vec'[v]) \cup hand'[v] : v \in Workers}
          = {Range(vec[v]) \cup hand[v] : v \in Workers}
    BY <2>3
  <2> QED
    BY <1>2, <2>4 DEF AllPairs
<1>5. Unmapped' = Unmapped
  BY <1>2, <1>3, KnownNext, UnmappedAre DEF InputsKnown
<1>6. Unreduced' = Unreduced
  BY <1>2, <1>3, UnreducedStays
<1> QED
  BY <1>2, <1>4, <1>5, <1>6 DEF Contract!vars

\* Nothing is left to map when the shuffle starts.
LEMMA StartShuffleMaps ==
    ASSUME FullInv, NEW w \in Workers, StartShuffle(w)
    PROVE  UNCHANGED Contract!vars
<1>1. /\ TypeOK /\ JobInv /\ MapOver /\ pc[w] = "shuffle"
      /\ UNCHANGED <<call, old, vec, hand, queue, output>>
      /\ status'.stage = SHUFFLE_STAGE
      /\ \A v \in Workers : pc'[v] = IF v = w THEN "group" ELSE pc[v]
  BY DEF FullInv, GroupInv, JobInv, TypeOK, StartShuffle, SetStage, Goto, workerVars, dataVars
<1>2. status.stage = MAP_STAGE
  BY <1>1 DEF JobInv, PhaseInv, StageInv
<1>3. status.processed >= NumInputs /\ status.processed \in Nat /\ NumInputs \in Nat
  BY <1>1, <1>2, CountsAssumption DEF MapOver, JobInv, ClaimInv, CountInv, TypeOK
<1>4. Holding = {} /\ Holding' = {}
  <2>1. \A v \in Workers : pc[v] \notin Looping
    BY <1>1, NobodyLoops DEF JobInv
  <2> QED
    BY <1>1, <2>1 DEF Holding, Looping
<1>5. Unmapped = {} /\ Unmapped' = {}
  <2>1. \A i : i \notin Unmapped
    BY <1>2, <1>3, <1>4, UnmappedAre DEF InputsKnown
  <2>2. \A i : i \notin Unmapped'
    BY <1>1, <1>4, KnownNext DEF InputsKnown
  <2> QED
    BY <2>1, <2>2
<1>6. Unreduced' = Unreduced
  BY <1>1, <1>2, KnownNext, UnreducedAre DEF GroupsKnown
<1>7. AllPairs' = AllPairs
  BY <1>1 DEF AllPairs
<1> QED
  BY <1>1, <1>2, <1>5, <1>6, <1>7 DEF Contract!vars

\* While a worker makes groups nothing is left to map.
LEMMA GroupingMapped ==
    ASSUME FullInv, NEW w \in Workers, pc[w] = "group"
    PROVE  Unmapped = {} /\ Holding = {} /\ Taking = {} /\ status.stage = SHUFFLE_STAGE
<1>1. \A v \in Workers : pc[v] \in {"shuffle", "group", "assign", "semwait"}
  BY NobodyLoops DEF FullInv, JobInv
<1>2. status.stage = SHUFFLE_STAGE
  BY DEF FullInv, JobInv, PhaseInv, StageInv
<1>3. Holding = {} /\ Taking = {}
  BY <1>1 DEF Holding, Taking
<1>4. \A i : i \notin Unmapped
  BY <1>2, <1>3, UnmappedAre DEF InputsKnown
<1> QED
  BY <1>2, <1>3, <1>4

\* A group is the contract's only when all of them are made.
LEMMA GroupMaxKeyMaps ==
    ASSUME FullInv, TypeOK', NEW w \in Workers, GroupMaxKey(w)
    PROVE  UNCHANGED Contract!vars
<1>1. /\ pc[w] = "group" /\ UNCHANGED <<pc, call, old, output>>
      /\ status.stage = SHUFFLE_STAGE /\ status'.stage = SHUFFLE_STAGE
  <2>1. /\ status.stage = SHUFFLE_STAGE
        /\ status' = [status EXCEPT !.processed = @ + Cardinality(MaxSlots)]
    BY GroupCounts DEF FullInv
  <2> QED
    BY <2>1 DEF GroupMaxKey, FullInv, JobInv, TypeOK
<1>2. Unmapped = {} /\ Holding = {} /\ Holding' = {}
  BY <1>1, GroupingMapped DEF Holding
<1>3. \A i : i \notin Unmapped'
  BY <1>1, <1>2, KnownNext DEF InputsKnown
<1>4. Unreduced' = Unreduced
  BY <1>1, KnownNext, UnreducedAre DEF GroupsKnown
<1>5. AllPairs' = AllPairs
  BY GroupPairs
<1> QED
  BY <1>1, <1>2, <1>3, <1>4, <1>5 DEF Contract!vars

\* The end of the shuffle is the contract's shuffle: one group per key.
LEMMA EndShuffleMaps ==
    ASSUME FullInv, NEW w \in Workers, EndShuffle(w)
    PROVE  Contract!Next
<1>1. /\ TypeOK /\ WholeInv /\ pc[w] = "group" /\ NonEmpty = {}
      /\ UNCHANGED <<call, old, vec, hand, queue, output>>
      /\ status'.stage = REDUCE_STAGE
      /\ \A v \in Workers : pc'[v] = IF v = w THEN "post" ELSE pc[v]
  BY DEF FullInv, GroupInv, JobInv, TypeOK, EndShuffle, SetStage, Goto, workerVars, dataVars
<1>2. Unmapped = {} /\ Holding = {} /\ Taking = {} /\ status.stage = SHUFFLE_STAGE
  BY <1>1, GroupingMapped
<1>3. Holding' = {} /\ Taking' = {}
  BY <1>1, <1>2 DEF Holding, Taking
<1>4. Unmapped' = {}
  <2>1. \A i : i \notin Unmapped'
    BY <1>1, <1>3, KnownNext DEF InputsKnown
  <2> QED
    BY <2>1
<1>5. AllPairs' = AllPairs
  BY <1>1 DEF AllPairs
<1>6. \A g : g \in Unreduced' <=> \E i \in 1..Len(queue) : g = queue[i]
  <2>1. \A g : g \in Unreduced' <=> g \in Range(queue)
    BY <1>1, <1>3, KnownNext DEF GroupsKnown
  <2>2. \A g : g \in Range(queue) <=> \E i \in 1..Len(queue) : g = queue[i]
    <3>1. queue \in Seq(SUBSET Pair)
      BY <1>1 DEF TypeOK
    <3> QED
      BY <3>1, MembersAre
  <2> QED
    BY <2>1, <2>2
<1>7. \A i \in 1..Len(queue) : queue[i] \in Contract!GroupsOf(AllPairs)
  BY <1>1, <1>2 DEF WholeInv
<1>8. Slots = {}
  <2> SUFFICES ASSUME NEW x \in Slots PROVE FALSE
    OBVIOUS
  <2>1. x[1] \in Workers /\ x[2] \in 1..Len(vec[x[1]])
    BY SlotsAre
  <2>2. vec[x[1]] # <<>>
    BY <2>1
  <2> QED
    BY <1>1, <2>1, <2>2 DEF NonEmpty
<1>9. ASSUME NEW g \in Contract!GroupsOf(AllPairs)
      PROVE  \E i \in 1..Len(queue) : g = queue[i]
  <2>1. PICK p \in AllPairs : g = {q \in AllPairs : q.key = p.key}
    BY DEF Contract!GroupsOf
  <2>2. PICK i \in 1..Len(queue) : p \in queue[i]
    BY <1>2, <1>8, <2>1, ShufflePairs
  <2>3. PICK k : queue[i] = {q \in AllPairs : q.key = k}
    BY <1>7 DEF Contract!GroupsOf
  <2>4. p.key = k
    BY <2>2, <2>3
  <2> QED
    BY <2>1, <2>3, <2>4
<1>10. Unreduced' = Contract!GroupsOf(AllPairs)
  BY <1>6, <1>7, <1>9
<1>11. Contract!Shuffle
  BY <1>1, <1>2, <1>4, <1>5, <1>10 DEF Contract!Shuffle
<1> QED
  BY <1>11 DEF Contract!Next

\* A worker that holds or pops a group is in the reduce stage.
LEMMA TakingStage ==
    ASSUME FullInv, NEW w \in Workers, pc[w] \in {"back", "pop", "reduce"}
    PROVE  status.stage = REDUCE_STAGE
<1>1. call[w] = 2
  BY DEF FullInv, JobInv, PhaseInv, BarrierInv
<1> QED
  BY <1>1, LoopStage DEF FullInv, JobInv

\* The pairs after a step that leaves the vectors alone.
LEMMA SamePairs ==
    ASSUME TypeOK, TypeOK', vec' = vec,
           \A p : \/ \E w \in Workers : p \in hand'[w]
                  \/ p \in UNION Range(queue')
                  \/ p \in UNION Range(output')
                  <=> \/ \E w \in Workers : p \in hand[w]
                      \/ p \in UNION Range(queue)
                      \/ p \in UNION Range(output)
    PROVE  AllPairs' = AllPairs
<1>1. \A p : p \in AllPairs <=> \/ \E w \in Workers : p \in Range(vec[w])
                                \/ \/ \E w \in Workers : p \in hand[w]
                                   \/ p \in UNION Range(queue)
                                   \/ p \in UNION Range(output)
  BY DEF AllPairs
<1>2. \A p : p \in AllPairs' <=> \/ \E w \in Workers : p \in Range(vec[w])
                                 \/ \/ \E w \in Workers : p \in hand'[w]
                                    \/ p \in UNION Range(queue')
                                    \/ p \in UNION Range(output')
  BY DEF AllPairs
<1>3. \A p : p \in AllPairs' <=> p \in AllPairs
  BY <1>1, <1>2
<1> QED
  BY <1>3

\* A group that is copied is still in the queue.
LEMMA CopyBackMaps ==
    ASSUME FullInv, TypeOK', NEW w \in Workers, CopyBack(w)
    PROVE  UNCHANGED Contract!vars
<1>1. /\ TypeOK /\ HandInv /\ pc[w] = "back"
      /\ UNCHANGED <<status, call, old, vec, queue, output>>
      /\ \A v \in Workers : pc'[v] = IF v = w THEN "pop" ELSE pc[v]
      /\ \A v \in Workers : v # w => hand'[v] = hand[v]
  BY DEF FullInv, GroupInv, JobInv, TypeOK, CopyBack, Goto, dataVars
<1>2. hand[w] = {} /\ hand'[w] \in Range(queue)
  BY <1>1, CopyBackHand DEF HandInv
<1>3. Holding' = Holding
  BY <1>1 DEF Holding
<1>4. Unmapped' = Unmapped
  BY <1>1, <1>3, KnownNext, UnmappedAre DEF InputsKnown
<1>5. Unreduced' = Unreduced
  <2>1. Taking' = Taking \cup {w} /\ w \notin Taking /\ Taking \subseteq Workers
    BY <1>1 DEF Taking
  <2>2. \A g : (\E v \in Taking' : g = hand'[v])
                 <=> g = hand'[w] \/ \E v \in Taking : g = hand[v]
    BY <1>1, <2>1
  <2>3. \A g : g \in Unreduced' <=> g \in Unreduced
    BY <1>1, <1>2, <2>2, KnownNext, UnreducedAre DEF GroupsKnown
  <2> QED
    BY <2>3
<1>6. AllPairs' = AllPairs
  <2>1. \A p : (\E v \in Workers : p \in hand'[v])
                 <=> p \in hand'[w] \/ \E v \in Workers : p \in hand[v]
    BY <1>1, <1>2
  <2>2. \A p \in hand'[w] : p \in UNION Range(queue)
    BY <1>2
  <2>3. queue' = queue /\ output' = output /\ vec' = vec /\ TypeOK
    BY <1>1
  <2> QED
    BY <2>1, <2>2, <2>3, SamePairs
<1> QED
  BY <1>1, <1>4, <1>5, <1>6 DEF Contract!vars

\* A group that is popped is in the hand of the worker that popped it.
LEMMA PopBackMaps ==
    ASSUME FullInv, TypeOK', NEW w \in Workers, PopBack(w)
    PROVE  UNCHANGED Contract!vars
<1>1. /\ TypeOK /\ HandInv /\ pc[w] = "pop"
      /\ UNCHANGED <<status, call, old, vec, hand, output>>
      /\ \A v \in Workers : pc'[v] = IF v = w THEN "reduce" ELSE pc[v]
  BY DEF FullInv, GroupInv, JobInv, TypeOK, PopBack, Goto, workerVars
<1>2. /\ hand[w] \in Range(queue)
      /\ \A g : g \in Range(queue') <=> g \in Range(queue) /\ g # hand[w]
  BY PopBackHand
<1>3. Holding' = Holding /\ Taking' = Taking /\ w \in Taking
  BY <1>1 DEF Holding, Taking
<1>4. Unmapped' = Unmapped
  BY <1>1, <1>3, KnownNext, UnmappedAre DEF InputsKnown
<1>5. Unreduced' = Unreduced
  <2>1. \A g : g \in Unreduced' <=> g \in Unreduced
    BY <1>1, <1>2, <1>3, KnownNext, UnreducedAre DEF GroupsKnown
  <2> QED
    BY <2>1
<1>6. AllPairs' = AllPairs
  <2>1. \A p : p \in UNION Range(queue)
               <=> p \in UNION Range(queue') \/ p \in hand[w]
    BY <1>2
  <2>2. hand' = hand /\ output' = output /\ vec' = vec /\ TypeOK
    BY <1>1
  <2> QED
    BY <2>1, <2>2, SamePairs
<1> QED
  BY <1>1, <1>4, <1>5, <1>6 DEF Contract!vars

\* A reduce call is one of the contract's: of a group nobody has reduced.
LEMMA ReduceCallMaps ==
    ASSUME FullInv, TypeOK', NEW w \in Workers, ReduceCall(w)
    PROVE  Contract!Next
<1>1. /\ TypeOK /\ HandInv /\ LockInv /\ pc[w] = "reduce"
      /\ UNCHANGED <<status, call, old, vec, queue>>
      /\ output' = Append(output, hand[w])
      /\ output \in Seq(SUBSET Pair) /\ hand[w] \in SUBSET Pair
      /\ \A v \in Workers : pc'[v] = IF v = w THEN "claim" ELSE pc[v]
      /\ \A v \in Workers : hand'[v] = IF v = w THEN {} ELSE hand[v]
  BY DEF FullInv, GroupInv, JobInv, TypeOK, ReduceCall, Goto
<1>2. status.stage = REDUCE_STAGE
  BY <1>1, TakingStage
<1>3. Holding' = Holding /\ Taking' = Taking \ {w} /\ w \in Taking /\ Taking \subseteq Workers
  BY <1>1 DEF Holding, Taking
<1>4. Unmapped' = Unmapped
  BY <1>1, <1>3, KnownNext, UnmappedAre DEF InputsKnown
<1>5. hand[w] \notin Range(queue)
  BY <1>1 DEF HandInv
<1>6. ASSUME NEW v \in Taking, v # w PROVE hand[v] # hand[w]
  <2>1. CASE pc[v] = "reduce"
    BY <1>1, <1>3, <1>6, <2>1 DEF HandInv
  <2>2. CASE pc[v] = "pop"
    <3>1. queue # <<>> /\ queue \in Seq(SUBSET Pair) /\ hand[v] = queue[Len(queue)]
      BY <1>1, <1>3, <2>2, GroupAtPop DEF FullInv, QueueNeverEmptyAtPop, HandInv, TypeOK
    <3>2. Len(queue) \in 1..Len(queue)
      BY <3>1, EmptySeq
    <3>3. hand[v] \in Range(queue)
      BY <3>1, <3>2, MembersAre
    <3> QED
      BY <1>5, <3>3
  <2> QED
    BY <2>1, <2>2 DEF Taking
<1>7. hand[w] \in Unreduced /\ Unreduced' = Unreduced \ {hand[w]}
  <2>1. hand[w] \in Unreduced
    BY <1>2, <1>3, UnreducedAre DEF GroupsKnown
  <2>2. \A g : (\E v \in Taking' : g = hand'[v])
                 <=> g # hand[w] /\ \E v \in Taking : g = hand[v]
    BY <1>1, <1>3, <1>6
  <2>3. \A g : g \in Unreduced' <=> g \in Unreduced /\ g # hand[w]
    BY <1>1, <1>2, <1>5, <2>2, KnownNext, UnreducedAre DEF GroupsKnown
  <2> QED
    BY <2>1, <2>3
<1>8. AllPairs' = AllPairs
  <2>1. \A p : (\E v \in Workers : p \in hand[v])
                 <=> p \in hand[w] \/ \E v \in Workers : p \in hand'[v]
    BY <1>1
  <2>2. \A g : g \in Range(output') <=> g \in Range(output) \/ g = hand[w]
    <3>1. /\ output' \in Seq(SUBSET Pair) /\ Len(output') = Len(output) + 1
          /\ Len(output) \in Nat /\ output'[Len(output) + 1] = hand[w]
          /\ \A i \in 1..Len(output) : output'[i] = output[i]
      BY <1>1
    <3>2. \A g : g \in Range(output') <=> \E i \in 1..Len(output') : g = output'[i]
      BY <3>1 DEF Range
    <3>3. \A g : g \in Range(output) <=> \E i \in 1..Len(output) : g = output[i]
      BY <1>1, MembersAre
    <3> QED
      BY <3>1, <3>2, <3>3
  <2>3. \A p : p \in UNION Range(output') <=> p \in UNION Range(output) \/ p \in hand[w]
    BY <2>2
  <2>4. queue' = queue /\ vec' = vec /\ TypeOK
    BY <1>1
  <2> QED
    BY <2>1, <2>3, <2>4, SamePairs
<1>9. PICK g : g = hand[w]
  OBVIOUS
<1>10. Contract!ReduceGroup(g)
  BY <1>1, <1>2, <1>4, <1>7, <1>8, <1>9 DEF Contract!ReduceGroup
<1> QED
  BY <1>7, <1>9, <1>10 DEF Contract!Next

\* At the start every input is to be mapped and there is no pair.
LEMMA InitMaps == Init => Contract!Init
<1> SUFFICES ASSUME Init PROVE Contract!Init
  OBVIOUS
<1>1. /\ status.stage = UNDEFINED_STAGE /\ queue = <<>> /\ output = <<>>
      /\ \A w \in Workers : pc[w] = "off" /\ vec[w] = <<>> /\ hand[w] = {}
  BY DEF Init
<1>2. Unmapped = 1..NumInputs
  <2>1. Holding = {}
    BY <1>1 DEF Holding
  <2> QED
    BY <1>1, <2>1, UnmappedAre DEF InputsKnown
<1>3. Unreduced = {}
  BY <1>1 DEF Unreduced
<1>4. AllPairs = {}
  <2>1. Slots = {}
    BY <1>1 DEF Slots
  <2>2. \A p : p \notin AllPairs
    <3>1. \A i \in 1..Len(queue) : FALSE
      BY <1>1
    <3>2. \A i \in 1..Len(output) : FALSE
      BY <1>1
    <3> QED
      BY <1>1, <2>1, <3>1, <3>2, InitTypeOK, AllPairsAre DEF PairsKnown
  <2> QED
    BY <2>2
<1> QED
  BY <1>1, <1>2, <1>3, <1>4 DEF Contract!Init

\* Every step of the job is a step of the contract or changes nothing in it.
LEMMA NextMaps == FullInv /\ [Next]_vars => [Contract!Next]_(Contract!vars)
<1> SUFFICES ASSUME FullInv, [Next]_vars PROVE Contract!Next \/ UNCHANGED Contract!vars
  OBVIOUS
<1>1. /\ TypeOK /\ TypeOK' /\ (main = "starting" => pc[cursor + 1] = "off")
      /\ (main = "starting" => cursor + 1 \in Workers)
  <2>1. TypeOK /\ MainInv
    BY DEF FullInv, JobInv, PhaseInv
  <2>2. TypeOK'
    BY <2>1, NextTypeOK
  <2>3. main = "starting" => cursor + 1 \in Workers /\ cursor + 1 > cursor
    BY <2>1, CountsAssumption DEF TypeOK, Workers
  <2> QED
    BY <2>1, <2>2, <2>3 DEF MainInv
<1>2. CASE StartJob
  BY <1>2, StartJobMaps
<1>3. CASE WaitForJob \/ JoinWorker \/ CloseJobHandle \/ UNCHANGED vars
  BY <1>3, QuietStep
     DEF WaitForJob, JoinWorker, CloseJobHandle, vars, workerVars, dataVars, Holding, Taking
<1>4. CASE RunWorker
  <2>1. /\ UNCHANGED <<status, call, old, vec, hand, queue, output>>
        /\ \A v \in Workers : pc'[v] = IF v = cursor + 1 THEN "claim" ELSE pc[v]
    BY <1>1, <1>4 DEF RunWorker, Goto, TypeOK, workerVars, dataVars
  <2>2. Holding' = Holding /\ Taking' = Taking
    BY <1>1, <1>4, <2>1 DEF Holding, Taking, RunWorker
  <2> QED
    BY <2>1, <2>2, QuietStep
<1>5. ASSUME NEW w \in Workers, Worker(w)
      PROVE  Contract!Next \/ UNCHANGED Contract!vars
  <2>1. CASE Claim(w) \/ Check(w)
    BY <2>1, ClaimMaps, CheckMaps
  <2>2. CASE Dispatch(w)
    <3>1. /\ UNCHANGED <<status, call, old, vec, hand, queue, output>>
          /\ pc[w] = "dispatch" /\ call[w] \in {1, 2}
          /\ pc' = [pc EXCEPT ![w] = CASE status.stage = MAP_STAGE -> "map"
                                       [] status.stage = REDUCE_STAGE -> "lock"
                                       [] OTHER -> "claim"]
      BY <1>1, <2>2
         DEF Dispatch, Goto, TypeOK, workerVars, dataVars
    <3>2. \A v \in Workers : pc'[v] = IF v = w THEN IF call[w] = 1 THEN "map" ELSE "lock"
                                               ELSE pc[v]
      <4>1. /\ call[w] = 1 => status.stage = MAP_STAGE
            /\ call[w] = 2 => status.stage = REDUCE_STAGE
        BY <3>1, LoopStage DEF FullInv, JobInv
      <4> QED
        BY <1>1, <3>1, <4>1 DEF TypeOK
    <3>3. Holding' = Holding /\ Taking' = Taking
      BY <3>1, <3>2 DEF Holding, Taking
    <3> QED
      BY <3>1, <3>3, QuietStep
  <2>3. CASE MapCall(w) \/ CopyBack(w) \/ PopBack(w) \/ ReduceCall(w)
    BY <1>1, <2>3, MapCallMaps, CopyBackMaps, PopBackMaps, ReduceCallMaps
  <2>4. CASE Sort(w) \/ StartShuffle(w) \/ GroupMaxKey(w) \/ EndShuffle(w)
    BY <1>1, <2>4, SortMaps, StartShuffleMaps, GroupMaxKeyMaps, EndShuffleMaps
  <2>5. CASE LockReduce(w) \/ BarrierWait(w) \/ AssignShuffle(w) \/ SemaphoreWait(w)
    <3>1. /\ UNCHANGED <<status, call, old, vec, hand, queue, output>>
          /\ pc[w] \in {"lock", "barrier", "assign", "semwait"}
          /\ \E l \in {"back", "wait", "semwait", "shuffle", "post"} :
                pc' = [pc EXCEPT ![w] = l]
      BY <2>5 DEF LockReduce, BarrierWait, AssignShuffle, OneShuffles, SemaphoreWait,
                  Goto, workerVars, dataVars
    <3>2. PICK l \in {"back", "wait", "semwait", "shuffle", "post"} :
            \A v \in Workers : pc'[v] = IF v = w THEN l ELSE pc[v]
      BY <1>1, <3>1 DEF TypeOK
    <3>3. Holding' = Holding /\ Taking' = Taking
      BY <3>1, <3>2 DEF Holding, Taking
    <3> QED
      BY <3>1, <3>3, QuietStep
  <2>6. CASE BarrierRelease(w)
    <3>1. /\ UNCHANGED <<status, call, old, vec, hand, queue, output>>
          /\ pc[w] = "barrier"
          /\ \A v \in Workers :
                pc'[v] = IF v = w \/ pc[v] = "wait" THEN "assign" ELSE pc[v]
      BY <2>6 DEF BarrierRelease, workerVars, dataVars
    <3>2. Holding' = Holding /\ Taking' = Taking
      BY <3>1 DEF Holding, Taking
    <3> QED
      BY <3>1, <3>2, QuietStep
  <2>7. CASE SemaphorePost(w)
    <3>1. /\ UNCHANGED <<status, old, vec, hand, queue, output>>
          /\ pc[w] = "post"
          /\ \A v \in Workers : /\ pc'[v] = IF v = w THEN "claim" ELSE pc[v]
                                /\ call'[v] = IF v = w THEN 2 ELSE call[v]
      BY <1>1, <2>7 DEF SemaphorePost, Goto, TypeOK, dataVars
    <3>2. Holding' = Holding /\ Taking' = Taking
      BY <3>1 DEF Holding, Taking
    <3> QED
      BY <3>1, <3>2, QuietStep
  <2> QED
    BY <1>5, <2>1, <2>2, <2>3, <2>4, <2>5, <2>6, <2>7 DEF Worker
<1> QED
  BY <1>2, <1>3, <1>4, <1>5 DEF Next, StartMapReduceJob, Closed

\* Whatever the workers do, a client sees every input mapped once, no pair lost
\* or doubled, one group per key and only after the last map call, and every
\* group reduced once.
THEOREM JobImplementsContract == Spec => ImplementsContract
<1>1. Init => Contract!Init
  BY InitMaps
<1>2. FullInv /\ [Next]_vars => [Contract!Next]_(Contract!vars)
  BY NextMaps
<1> QED
  BY <1>1, <1>2, GroupsInvariant, PTL DEF Spec, ImplementsContract, Contract!Spec
=============================================================================

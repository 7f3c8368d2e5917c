------------------------- MODULE MapReduceJobProofs -------------------------
(***************************************************************************)
(* Theorems about MapReduceJob, for every number of workers and inputs and *)
(* every client.                                                           *)
(***************************************************************************)
EXTENDS MapReduceJob, FiniteSetTheorems, TLAPS

USE DEF UNDEFINED_STAGE, MAP_STAGE, SHUFFLE_STAGE, REDUCE_STAGE, Workers, Nobody,
        Ended, Acquire, ResetCount, OneShuffles, Post

(***************************************************************************)
(* Type correctness                                                        *)
(***************************************************************************)

\* A vector has finitely many slots, so the sizes the shuffle adds up are
\* numbers.
LEMMA SlotsFinite ==
    ASSUME TypeOK
    PROVE  IsFiniteSet(Slots)
<1> DEFINE slots == [v \in Workers |-> {v} \X (1..Len(vec[v]))]
           S == {{v} \X (1..Len(vec[v])) : v \in Workers}
<1>1. \A v \in Workers : Len(vec[v]) \in Nat
  BY DEF TypeOK
<1>2. IsFiniteSet(Workers)
  BY FS_Interval, CountsAssumption
<1>3. slots \in Surjection(Workers, S)
  BY Zenon DEF Surjection
<1>4. IsFiniteSet(S)
  BY <1>2, <1>3, FS_Surjection
<1>5. \A T \in S : IsFiniteSet(T)
  <2> SUFFICES ASSUME NEW v \in Workers
               PROVE  IsFiniteSet({v} \X (1..Len(vec[v])))
    OBVIOUS
  <2>1. IsFiniteSet({v})
    BY FS_Singleton
  <2>2. IsFiniteSet(1..Len(vec[v]))
    BY <1>1, FS_Interval
  <2> QED
    BY <2>1, <2>2, FS_Product
<1>6. IsFiniteSet(UNION S)
  BY <1>4, <1>5, FS_UNION
<1> QED
  BY <1>6 DEF Slots

\* The job as its constructor leaves it is well typed.
LEMMA InitTypeOK == Init => TypeOK
<1> SUFFICES ASSUME Init PROVE TypeOK
  OBVIOUS
<1> USE CountsAssumption DEF Init
<1>1. main \in MainStates /\ contexts \in BOOLEAN /\ assigned \in BOOLEAN
  BY DEF MainStates
<1>2. /\ cursor \in 0..NumWorkers
      /\ main \in {"new", "starting", "joining"} => cursor < NumWorkers
      /\ count \in 0..(NumWorkers - 1)
      /\ sem \in Nat
      /\ lock \in Workers \cup {Nobody}
  OBVIOUS
<1>3. status \in [stage : 0..3, total : Nat, processed : Nat]
  OBVIOUS
<1>4. pc \in [Workers -> WorkerStates]
  BY DEF WorkerStates
<1>5. call \in [Workers -> {1, 2}] /\ old \in [Workers -> Nat]
  OBVIOUS
<1>6. vec \in [Workers -> Seq(Pair)] /\ hand \in [Workers -> SUBSET Pair]
  OBVIOUS
<1>7. queue \in Seq(SUBSET Pair) /\ output \in Seq(SUBSET Pair)
  OBVIOUS
<1> QED
  BY <1>1, <1>2, <1>3, <1>4, <1>5, <1>6, <1>7 DEF TypeOK

\* Carrying out of a field of the status word stays within the naturals.
LEMMA NatDivMod ==
    ASSUME NEW a \in Nat, NEW b \in Nat, b > 0
    PROVE  a % b \in Nat /\ a \div b \in Nat
<1>1. a % b \in Int /\ a % b >= 0
  OBVIOUS
<1>2. a \div b \in Int /\ a \div b >= 0
  OBVIOUS
<1> QED
  BY <1>1, <1>2

\* Counting keeps the three fields of the status word in their types.
LEMMA IncType ==
    ASSUME TypeOK, NEW val \in Nat, IncStageProcessed(val)
    PROVE  status' \in [stage : 0..3, total : Nat, processed : Nat]
<1> DEFINE sum == status.processed + val
<1>1. sum \in Nat /\ FieldSize \in Nat /\ FieldSize > 0
  BY FieldAssumption, CountsAssumption DEF TypeOK
<1>2. sum % FieldSize \in Nat /\ sum \div FieldSize \in Nat
  <2> HIDE DEF sum
  <2> QED BY <1>1, NatDivMod, Zenon
<1>3. CASE sum < FieldSize
  BY <1>1, <1>3 DEF TypeOK, IncStageProcessed
<1>4. CASE ~(sum < FieldSize)
  <2>1. status' = [stage |-> status.stage,
                   total |-> status.total + sum \div FieldSize,
                   processed |-> sum % FieldSize]
    BY <1>4 DEF IncStageProcessed
  <2> HIDE DEF sum
  <2> QED
    BY <1>2, <2>1 DEF TypeOK
<1> QED
  BY <1>3, <1>4

\* The steps that append pairs keep the vectors sequences of pairs.
LEMMA MapCallType ==
    ASSUME TypeOK, NEW w \in Workers, MapCall(w)
    PROVE  vec' \in [Workers -> Seq(Pair)]
<1>1. PICK keys \in EmitChoices :
        vec' = [vec EXCEPT ![w] = @ \o
                  [p \in 1..Len(keys) |->
                      [key |-> keys[p], input |-> old[w] + 1, pos |-> p]]]
  BY DEF MapCall
<1> DEFINE new == [p \in 1..Len(keys) |->
                      [key |-> keys[p], input |-> old[w] + 1, pos |-> p]]
<1>2. keys \in Seq(Nat) /\ Len(keys) <= MaxEmit /\ MaxEmit \in Nat
  BY EmitAssumption
<1>3. \A p \in 1..Len(keys) : new[p] \in Pair
  <2>1. old[w] + 1 \in Nat
    BY DEF TypeOK
  <2>2. ASSUME NEW p \in 1..Len(keys) PROVE keys[p] \in Nat /\ p \in 1..MaxEmit
    BY <1>2
  <2> QED
    BY <2>1, <2>2 DEF Pair
<1>4. new \in Seq(Pair)
  BY <1>2, <1>3
<1>5. vec[w] \o new \in Seq(Pair)
  BY <1>4 DEF TypeOK
<1> QED
  BY <1>1, <1>5 DEF TypeOK

\* A sorted vector is a sequence of the pairs it had.
LEMMA SortType ==
    ASSUME TypeOK, NEW w \in Workers, Sort(w)
    PROVE  vec' \in [Workers -> Seq(Pair)]
<1>1. PICK s \in [1..Len(vec[w]) -> Range(vec[w])] :
        vec' = [vec EXCEPT ![w] = s]
  BY DEF Sort
<1>2. vec[w] \in Seq(Pair) /\ Len(vec[w]) \in Nat
  BY DEF TypeOK
<1>3. Range(vec[w]) \subseteq Pair
  BY <1>2 DEF Range
<1>4. s \in Seq(Pair)
  BY <1>1, <1>2, <1>3
<1> QED
  BY <1>1, <1>4 DEF TypeOK

\* One iteration of the shuffle loop leaves sequences of pairs in the vectors
\* and adds a set of pairs to the queue.
LEMMA GroupMaxKeyType ==
    ASSUME TypeOK, NEW w \in Workers, GroupMaxKey(w)
    PROVE  TypeOK'
<1>1. /\ queue' = Append(queue, MaxGroup)
      /\ vec' = [v \in Workers |->
                   SubSeq(vec[v], 1, Len(vec[v]) - Cardinality(MaxRun(v)))]
      /\ IncStageProcessed(Cardinality(MaxSlots))
      /\ UNCHANGED <<mainVars, pc, call, old, hand, syncVars, output>>
  BY DEF GroupMaxKey
<1>2. \A v \in Workers : vec[v] \in Seq(Pair) /\ Len(vec[v]) \in Nat
  <2> TAKE v \in Workers
  <2>1. vec[v] \in Seq(Pair)
    BY DEF TypeOK
  <2> QED
    BY <2>1
<1>3. MaxGroup \subseteq Pair
  <2> SUFFICES ASSUME NEW x \in Slots PROVE vec[x[1]][x[2]] \in Pair
    BY DEF MaxGroup, MaxSlots
  <2>1. x[1] \in Workers /\ x[2] \in 1..Len(vec[x[1]])
    BY DEF Slots
  <2> QED
    BY <1>2, <2>1
<1>4. queue' \in Seq(SUBSET Pair)
  BY <1>1, <1>3 DEF TypeOK
<1>5. \A v \in Workers : Cardinality(MaxRun(v)) \in Nat
  <2> TAKE v \in Workers
  <2>1. IsFiniteSet(1..Len(vec[v]))
    BY <1>2, FS_Interval
  <2>2. MaxRun(v) \subseteq 1..Len(vec[v])
    BY DEF MaxRun, TrailingRun
  <2>3. IsFiniteSet(MaxRun(v))
    BY <2>1, <2>2, FS_Subset, Zenon
  <2> QED
    BY <2>3, FS_CardinalityType, Zenon
<1>6. vec' \in [Workers -> Seq(Pair)]
  <2> SUFFICES ASSUME NEW v \in Workers
               PROVE  SubSeq(vec[v], 1, Len(vec[v]) - Cardinality(MaxRun(v)))
                          \in Seq(Pair)
    BY <1>1
  <2> DEFINE n == Len(vec[v]) - Cardinality(MaxRun(v))
  <2>1. n \in Int /\ n <= Len(vec[v])
    BY <1>2, <1>5
  <2> HIDE DEF n
  <2>2. \A i \in 1..n : i \in 1..Len(vec[v])
    BY <1>2, <2>1
  <2>3. SubSeq(vec[v], 1, n) \in Seq(Pair)
    BY <1>2, <2>1, <2>2
  <2> QED
    BY <2>3 DEF n
<1>7. Cardinality(MaxSlots) \in Nat
  <2>1. IsFiniteSet(MaxSlots)
    BY SlotsFinite, FS_Subset DEF MaxSlots
  <2> QED
    BY <2>1, FS_CardinalityType, Zenon
<1>8. status' \in [stage : 0..3, total : Nat, processed : Nat]
  BY <1>1, <1>7, IncType
<1> QED
  BY <1>1, <1>4, <1>6, <1>8
     DEF TypeOK, mainVars, syncVars

\* Every step keeps the types: one case per action.
LEMMA NextTypeOK == TypeOK /\ [Next]_vars => TypeOK'
<1> SUFFICES ASSUME TypeOK, [Next]_vars
             PROVE  TypeOK'
  OBVIOUS
<1> USE CountsAssumption
        DEF TypeOK, WorkerStates, MainStates, Goto, mainVars, workerVars,
            syncVars, dataVars
<1>1. CASE StartJob
  BY <1>1, CountsAssumption DEF StartJob, SetStage
<1>2. CASE RunWorker
  BY <1>2 DEF RunWorker
<1>3. CASE WaitForJob
  BY <1>3 DEF WaitForJob
<1>4. CASE JoinWorker
  <2>1. /\ main' \in MainStates /\ cursor' \in 0..NumWorkers
        /\ main' \in {"new", "starting", "joining"} => cursor' < NumWorkers
    BY <1>4 DEF JoinWorker
  <2> QED
    BY <1>4, <2>1 DEF JoinWorker
<1>5. CASE CloseJobHandle
  BY <1>5 DEF CloseJobHandle
<1>6. ASSUME NEW w \in Workers, Worker(w)
      PROVE  TypeOK'
  <2>1. CASE Claim(w)
    <3>1. status' \in [stage : 0..3, total : Nat, processed : Nat]
      BY <2>1, IncType DEF Claim
    <3> QED
      BY <2>1, <3>1 DEF Claim
  <2>2. CASE Check(w)
    BY <2>2 DEF Check
  <2>3. CASE Dispatch(w)
    BY <2>3 DEF Dispatch
  <2>4. CASE MapCall(w)
    BY <2>4, MapCallType DEF MapCall
  <2>5. CASE LockReduce(w)
    BY <2>5 DEF LockReduce
  <2>6. CASE CopyBack(w)
    <3>1. queue # <<>> => queue[Len(queue)] \in SUBSET Pair
      OBVIOUS
    <3>2. hand' \in [Workers -> SUBSET Pair]
      BY <2>6, <3>1 DEF CopyBack
    <3> QED
      BY <2>6, <3>2 DEF CopyBack
  <2>7. CASE PopBack(w)
    <3>1. queue' \in Seq(SUBSET Pair)
      <4>1. queue \in Seq(SUBSET Pair) /\ queue' = SubSeq(queue, 1, Len(queue) - 1)
        BY <2>7 DEF PopBack
      <4> QED
        BY <4>1
    <3>2. pc' \in [Workers -> WorkerStates] /\ hand' = hand
      BY <2>7 DEF PopBack
    <3> QED
      BY <2>7, <3>1, <3>2 DEF PopBack
  <2>8. CASE ReduceCall(w)
    BY <2>8 DEF ReduceCall
  <2>9. CASE Sort(w)
    BY <2>9, SortType DEF Sort
  <2>10. CASE BarrierWait(w)
    BY <2>10 DEF BarrierWait, BarrierHolds
  <2>11. CASE BarrierRelease(w)
    BY <2>11 DEF BarrierRelease
  <2>12. CASE AssignShuffle(w)
    BY <2>12 DEF AssignShuffle
  <2>13. CASE StartShuffle(w)
    <3>1. Cardinality(Slots) \in Nat
      BY SlotsFinite, FS_CardinalityType, Zenon
    <3> QED
      BY <2>13, <3>1 DEF StartShuffle, SetStage
  <2>14. CASE GroupMaxKey(w)
    BY <2>14, GroupMaxKeyType
  <2>15. CASE EndShuffle(w)
    BY <2>15 DEF EndShuffle, SetStage
  <2>16. CASE SemaphoreWait(w)
    BY <2>16 DEF SemaphoreWait
  <2>17. CASE SemaphorePost(w)
    BY <2>17 DEF SemaphorePost
  <2> QED
    BY <1>6, <2>1, <2>2, <2>3, <2>4, <2>5, <2>6, <2>7, <2>8, <2>9, <2>10,
       <2>11, <2>12, <2>13, <2>14, <2>15, <2>16, <2>17 DEF Worker
<1>7. CASE UNCHANGED vars
  BY <1>7 DEF vars
<1> QED
  BY <1>1, <1>2, <1>3, <1>4, <1>5, <1>6, <1>7
     DEF Next, StartMapReduceJob, Closed

\* Every variable of the job keeps to its type, whatever the client emits and
\* however the workers interleave: the barrier's count stays below the number
\* of workers, the semaphore and the counters never go below zero.
THEOREM TypeCorrect == Spec => []TypeOK
<1>1. Init => TypeOK
  BY InitTypeOK
<1>2. TypeOK /\ [Next]_vars => TypeOK'
  BY NextTypeOK
<1> QED
  BY <1>1, <1>2, PTL DEF Spec

(***************************************************************************)
(* The phases of the workers                                               *)
(***************************************************************************)

\* A step of a worker leaves the owner alone and neither starts nor revives a
\* thread.
LEMMA WorkerFrame ==
    ASSUME TypeOK, NEW w \in Workers, Worker(w)
    PROVE  /\ UNCHANGED mainVars
           /\ \A v \in Workers : pc[v] \in {"off", "done"} => pc'[v] = pc[v]
<1> USE DEF TypeOK, Goto, mainVars, workerVars, syncVars, dataVars
<1>1. CASE Claim(w) \/ Check(w) \/ Dispatch(w) \/ MapCall(w)
  BY <1>1 DEF Claim, Check, Dispatch, MapCall
<1>2. CASE LockReduce(w) \/ CopyBack(w) \/ PopBack(w) \/ ReduceCall(w)
  BY <1>2 DEF LockReduce, CopyBack, PopBack, ReduceCall
<1>3. CASE Sort(w) \/ BarrierWait(w) \/ BarrierRelease(w) \/ AssignShuffle(w)
  BY <1>3 DEF Sort, BarrierWait, BarrierRelease, AssignShuffle
<1>4. CASE StartShuffle(w) \/ GroupMaxKey(w) \/ EndShuffle(w)
  BY <1>4 DEF StartShuffle, GroupMaxKey, EndShuffle
<1>5. CASE SemaphoreWait(w) \/ SemaphorePost(w)
  BY <1>5 DEF SemaphoreWait, SemaphorePost
<1> QED
  BY <1>1, <1>2, <1>3, <1>4, <1>5 DEF Worker

\* The owner's loops: what is started is not yet joined, what is joined is done.
LEMMA NextMainInv == TypeOK /\ MainInv /\ [Next]_vars => MainInv'
<1> SUFFICES ASSUME TypeOK, MainInv, [Next]_vars
             PROVE  MainInv'
  OBVIOUS
<1> USE CountsAssumption DEF TypeOK, MainInv
<1>1. CASE StartJob
  BY <1>1 DEF StartJob
<1>2. CASE RunWorker
  BY <1>2 DEF RunWorker, Goto
<1>3. CASE WaitForJob
  BY <1>3 DEF WaitForJob
<1>4. CASE JoinWorker
  BY <1>4 DEF JoinWorker
<1>5. CASE CloseJobHandle
  BY <1>5 DEF CloseJobHandle
<1>6. ASSUME NEW w \in Workers, Worker(w)
      PROVE  MainInv'
  <2>1. main # "new"
    BY <1>6 DEF Worker, Claim, Check, Dispatch, MapCall, LockReduce, CopyBack,
                PopBack, ReduceCall, Sort, BarrierWait, BarrierRelease,
                AssignShuffle, StartShuffle, GroupMaxKey, EndShuffle,
                SemaphoreWait, SemaphorePost
  <2> QED
    BY <1>6, <2>1, WorkerFrame DEF mainVars
<1>7. CASE UNCHANGED vars
  BY <1>7 DEF vars
<1> QED
  BY <1>1, <1>2, <1>3, <1>4, <1>5, <1>6, <1>7
     DEF Next, StartMapReduceJob, Closed

\* The last arrival finds every other worker waiting: their count says so.
LEMMA BarrierFull ==
    ASSUME TypeOK, BarrierInv, NEW w \in Workers, BarrierRelease(w)
    PROVE  /\ Past = {} /\ ~assigned
           /\ \A v \in Workers \ {w} : pc[v] = "wait"
<1> DEFINE waiting == {v \in Workers : pc[v] = "wait"}
<1>1. w \notin waiting /\ w \notin Past
  BY DEF BarrierRelease, BarrierInv, Past
<1>2. Past = {} /\ ~assigned /\ count = Cardinality(waiting)
  BY <1>1 DEF BarrierInv
<1>3. IsFiniteSet(Workers) /\ Cardinality(Workers) = NumWorkers
  BY FS_Interval, CountsAssumption
<1>4. waiting \cup {w} \subseteq Workers
  OBVIOUS
<1>5. IsFiniteSet(waiting)
  BY <1>3, <1>4, FS_Subset
<1>6. /\ IsFiniteSet(waiting \cup {w})
      /\ Cardinality(waiting \cup {w}) = count + 1
  BY <1>1, <1>2, <1>5, FS_AddElement
<1>7. Cardinality(waiting \cup {w}) = Cardinality(Workers)
  <2>1. Cardinality(waiting \cup {w}) <= Cardinality(Workers)
    BY <1>3, <1>4, FS_Subset
  <2>2. count + 1 >= NumWorkers
    BY CountsAssumption DEF BarrierRelease, BarrierHolds, TypeOK
  <2> QED
    BY <1>3, <1>6, <2>1, <2>2, CountsAssumption DEF TypeOK
<1>8. waiting \cup {w} = Workers
  BY <1>3, <1>4, <1>7, FS_Subset
<1> QED
  BY <1>2, <1>8

\* A step that stays on its side of the barrier keeps BarrierInv.
LEMMA SameSide ==
    ASSUME TypeOK, BarrierInv, NEW w \in Workers, NEW l \in WorkerStates,
           Goto(w, l), UNCHANGED <<call, count, assigned>>,
           pc[w] # "wait", l # "wait",
           w \in Past <=> \/ l \in {"assign", "shuffle", "group", "semwait", "post"}
                         \/ call[w] = 2,
           l \in {"off", "sort", "barrier"} => call[w] = 1,
           l \in {"lock", "back", "pop", "reduce", "done"} => call[w] = 2
    PROVE  BarrierInv'
<1>1. pc' = [pc EXCEPT ![w] = l]
  BY DEF Goto
<1>2. Past' = Past
  BY <1>1 DEF TypeOK, Past
<1>3. {v \in Workers : pc[v] = "wait"}' = {v \in Workers : pc[v] = "wait"}
  BY <1>1 DEF TypeOK
<1>4. \A v \in Workers :
        /\ pc'[v] \in {"off", "sort", "barrier", "wait"} => call[v] = 1
        /\ pc'[v] \in {"lock", "back", "pop", "reduce", "done"} => call[v] = 2
  BY <1>1 DEF TypeOK, BarrierInv
<1> QED
  BY <1>2, <1>3, <1>4 DEF BarrierInv

\* Every step keeps the barrier's count and its two sides apart.
LEMMA NextBarrierInv ==
    TypeOK /\ MainInv /\ BarrierInv /\ StageInv /\ [Next]_vars => BarrierInv'
<1> SUFFICES ASSUME TypeOK, MainInv, BarrierInv, StageInv, [Next]_vars
             PROVE  BarrierInv'
  OBVIOUS
<1> USE DEF mainVars, workerVars, syncVars, dataVars
<1>1. ASSUME UNCHANGED <<pc, call, count, assigned>>
      PROVE  BarrierInv'
  BY <1>1 DEF BarrierInv, Past
<1>2. CASE StartJob \/ WaitForJob \/ JoinWorker \/ CloseJobHandle
  BY <1>1, <1>2 DEF StartJob, WaitForJob, JoinWorker, CloseJobHandle
<1>3. CASE RunWorker
  <2>1. cursor + 1 \in Workers /\ pc[cursor + 1] = "off"
    BY <1>3, CountsAssumption DEF RunWorker, TypeOK, MainInv
  <2>2. call[cursor + 1] = 1 /\ cursor + 1 \notin Past
    BY <2>1 DEF BarrierInv, Past
  <2> QED
    BY <1>3, <2>1, <2>2, SameSide DEF RunWorker, WorkerStates
<1>4. ASSUME NEW w \in Workers, Worker(w)
      PROVE  BarrierInv'
  <2>0. call[w] \in {1, 2}
    BY DEF TypeOK
  <2>1. CASE Claim(w)
    BY <2>1, SameSide DEF Claim, WorkerStates, Past
  <2>2. CASE Check(w)
    <3> DEFINE l == IF InStage(w) THEN "dispatch"
                    ELSE IF call[w] = 1 THEN "sort" ELSE "done"
    <3>1. Goto(w, l) /\ l \in {"dispatch", "sort", "done"}
      BY <2>2 DEF Check
    <3>2. (l = "sort" => call[w] = 1) /\ (l = "done" => call[w] = 2)
      BY <2>0
    <3> HIDE DEF l
    <3> QED
      BY <2>2, <3>1, <3>2, SameSide DEF Check, WorkerStates, Past
  <2>3. CASE Dispatch(w)
    <3> DEFINE l == CASE status.stage = MAP_STAGE -> "map"
                      [] status.stage = REDUCE_STAGE -> "lock"
                      [] OTHER -> "claim"
    <3>1. Goto(w, l) /\ l \in {"map", "lock", "claim"}
      BY <2>3 DEF Dispatch
    <3>2. l = "lock" => call[w] = 2
      <4> SUFFICES ASSUME status.stage = REDUCE_STAGE, call[w] = 1
                   PROVE  FALSE
        BY <2>0
      <4>1. w \notin Past
        BY <2>3 DEF Dispatch, Past
      <4>2. ~assigned
        BY <4>1 DEF BarrierInv
      <4> QED
        BY <2>3, <4>2 DEF StageInv, MainInv, Dispatch
    <3> HIDE DEF l
    <3> QED
      BY <2>3, <3>1, <3>2, SameSide DEF Dispatch, WorkerStates, Past
  <2>4. CASE MapCall(w)
    BY <2>4, SameSide DEF MapCall, WorkerStates, Past
  <2>5. CASE LockReduce(w)
    BY <2>5, SameSide DEF LockReduce, WorkerStates, Past, BarrierInv
  <2>6. CASE CopyBack(w)
    BY <2>6, SameSide DEF CopyBack, WorkerStates, Past, BarrierInv
  <2>7. CASE PopBack(w)
    BY <2>7, SameSide DEF PopBack, WorkerStates, Past, BarrierInv
  <2>8. CASE ReduceCall(w)
    BY <2>8, SameSide DEF ReduceCall, WorkerStates, Past, BarrierInv
  <2>9. CASE Sort(w)
    BY <2>9, SameSide DEF Sort, WorkerStates, Past, BarrierInv
  <2>10. CASE BarrierWait(w)
    <3> DEFINE waiting == {v \in Workers : pc[v] = "wait"}
    <3>1. pc' = [pc EXCEPT ![w] = "wait"] /\ call[w] = 1 /\ w \notin Past
      BY <2>10 DEF BarrierWait, Goto, BarrierInv, Past
    <3>2. Past = {} /\ ~assigned /\ count = Cardinality(waiting)
      BY <3>1 DEF BarrierInv
    <3>3. Past' = {}
      BY <2>10, <3>1, <3>2 DEF BarrierWait, TypeOK, Past
    <3>4. waiting' = waiting \cup {w} /\ w \notin waiting
      BY <2>10, <3>1 DEF BarrierWait, TypeOK
    <3>5. IsFiniteSet(waiting)
      <4>1. IsFiniteSet(Workers)
        BY FS_Interval, CountsAssumption
      <4> QED
        BY <4>1, FS_Subset
    <3>6. count' = Cardinality(waiting')
      BY <2>10, <3>2, <3>4, <3>5, FS_AddElement DEF BarrierWait
    <3> QED
      BY <2>10, <3>1, <3>2, <3>3, <3>6 DEF BarrierWait, BarrierInv, TypeOK
  <2>11. CASE BarrierRelease(w)
    <3>1. \A v \in Workers : pc'[v] = "assign" /\ call'[v] = call[v]
      BY <2>11, BarrierFull DEF BarrierRelease
    <3>2. Past' = Workers
      BY <3>1 DEF Past
    <3>3. w \in Past'
      BY <3>2
    <3> QED
      BY <3>1, <3>2, <3>3 DEF BarrierInv
  <2>12. CASE AssignShuffle(w)
    <3>1. w \in Past
      BY <2>12 DEF AssignShuffle, Past
    <3>2. Past' = Workers
      <4>1. Past = Workers
        BY <3>1 DEF BarrierInv
      <4> QED
        BY <2>12, <4>1 DEF AssignShuffle, Goto, TypeOK, Past
    <3>3. \A v \in Workers :
            /\ pc'[v] \in {"off", "sort", "barrier", "wait"} => call[v] = 1
            /\ pc'[v] \in {"lock", "back", "pop", "reduce", "done"} => call[v] = 2
      BY <2>12 DEF AssignShuffle, Goto, TypeOK, BarrierInv
    <3> QED
      BY <2>12, <3>2, <3>3, <3>1 DEF AssignShuffle, BarrierInv
  <2>13. CASE StartShuffle(w)
    BY <2>13, SameSide DEF StartShuffle, WorkerStates, Past
  <2>14. CASE GroupMaxKey(w)
    BY <1>1, <2>14 DEF GroupMaxKey
  <2>15. CASE EndShuffle(w)
    BY <2>15, SameSide DEF EndShuffle, WorkerStates, Past
  <2>16. CASE SemaphoreWait(w)
    BY <2>16, SameSide DEF SemaphoreWait, WorkerStates, Past
  <2>17. CASE SemaphorePost(w)
    <3>1. w \in Past
      BY <2>17 DEF SemaphorePost, Past
    <3>2. Past = Workers
      BY <3>1 DEF BarrierInv
    <3>3. Past' = Workers
      BY <2>17, <3>2 DEF SemaphorePost, Goto, TypeOK, Past
    <3>4. \A v \in Workers :
            /\ pc'[v] \in {"off", "sort", "barrier", "wait"} => call'[v] = 1
            /\ pc'[v] \in {"lock", "back", "pop", "reduce", "done"} => call'[v] = 2
      BY <2>17 DEF SemaphorePost, Goto, TypeOK, BarrierInv
    <3> QED
      BY <3>1, <3>3, <3>4 DEF BarrierInv
  <2> QED
    BY <1>4, <2>1, <2>2, <2>3, <2>4, <2>5, <2>6, <2>7, <2>8, <2>9, <2>10,
       <2>11, <2>12, <2>13, <2>14, <2>15, <2>16, <2>17 DEF Worker
<1>5. CASE UNCHANGED vars
  BY <1>1, <1>5 DEF vars
<1> QED
  BY <1>2, <1>3, <1>4, <1>5 DEF Next, StartMapReduceJob, Closed

\* A worker past the barrier finds all of them past it.
LEMMA AllPast ==
    ASSUME BarrierInv, NEW w \in Workers,
           \/ pc[w] \in {"assign", "shuffle", "group", "semwait", "post"}
           \/ call[w] = 2
    PROVE  Past = Workers
BY DEF BarrierInv, Past

\* Every step keeps the shuffle to one worker and the others behind it.
LEMMA NextShuffleInv ==
    /\ TypeOK /\ MainInv /\ BarrierInv /\ ShuffleInv /\ StageInv
    /\ [Next]_vars
    => ShuffleInv'
<1> SUFFICES ASSUME TypeOK, MainInv, BarrierInv, ShuffleInv, StageInv,
                    [Next]_vars
             PROVE  ShuffleInv'
  OBVIOUS
<1> USE DEF mainVars, workerVars, syncVars, dataVars
<1>1. ASSUME UNCHANGED <<pc, call, assigned, sem>>
      PROVE  ShuffleInv'
  BY <1>1 DEF ShuffleInv, Past
<1>2. CASE StartJob \/ WaitForJob \/ JoinWorker \/ CloseJobHandle
  BY <1>1, <1>2 DEF StartJob, WaitForJob, JoinWorker, CloseJobHandle
\* A worker that is not in the shuffle, nor about to be, keeps ShuffleInv.
<1>3. ASSUME NEW w \in Workers, NEW l, Goto(w, l),
             UNCHANGED <<call, assigned, sem>>,
             pc[w] \notin {"assign", "shuffle", "group", "semwait", "post"},
             l \notin {"assign", "shuffle", "group", "semwait", "post"}
      PROVE  ShuffleInv'
  <2>1. pc' = [pc EXCEPT ![w] = l] /\ Past' = Past
    BY <1>3 DEF Goto, TypeOK, Past
  <2>2. ASSUME NEW v \in Workers, pc'[v] \in {"shuffle", "group"}
        PROVE  FALSE
    <3>1. v # w /\ pc[v] \in {"shuffle", "group"}
      BY <1>3, <2>1, <2>2 DEF TypeOK
    <3> QED
      BY <1>3, <3>1 DEF ShuffleInv
  <2>3. ~assigned => \A v \in Past : pc'[v] = "assign"
    BY <1>3, <2>1 DEF ShuffleInv, TypeOK, Past
  <2> QED
    BY <1>3, <2>1, <2>2, <2>3 DEF ShuffleInv
<1>4. CASE RunWorker
  <2>1. cursor + 1 \in Workers /\ pc[cursor + 1] = "off"
    BY <1>4, CountsAssumption DEF RunWorker, TypeOK, MainInv
  <2> QED
    BY <1>3, <1>4, <2>1 DEF RunWorker
<1>5. ASSUME NEW w \in Workers, Worker(w)
      PROVE  ShuffleInv'
  <2>1. CASE Claim(w)
    BY <1>3, <2>1 DEF Claim
  <2>2. CASE Check(w)
    <3>1. \E l \in {"dispatch", "sort", "done"} : Goto(w, l)
      BY <2>2 DEF Check
    <3> QED
      BY <1>3, <2>2, <3>1 DEF Check
  <2>3. CASE Dispatch(w)
    <3>1. \E l \in {"map", "lock", "claim"} : Goto(w, l)
      BY <2>3 DEF Dispatch
    <3> QED
      BY <1>3, <2>3, <3>1 DEF Dispatch
  <2>4. CASE MapCall(w)
    BY <1>3, <2>4 DEF MapCall
  <2>5. CASE LockReduce(w)
    BY <1>3, <2>5 DEF LockReduce
  <2>6. CASE CopyBack(w)
    BY <1>3, <2>6 DEF CopyBack
  <2>7. CASE PopBack(w)
    BY <1>3, <2>7 DEF PopBack
  <2>8. CASE ReduceCall(w)
    BY <1>3, <2>8 DEF ReduceCall
  <2>9. CASE Sort(w)
    BY <1>3, <2>9 DEF Sort
  <2>10. CASE BarrierWait(w)
    BY <1>3, <2>10 DEF BarrierWait
  <2>11. CASE BarrierRelease(w)
    <3>1. ~assigned /\ \A v \in Workers : pc'[v] = "assign"
      BY <2>11, BarrierFull DEF BarrierRelease
    <3> QED
      BY <2>11, <3>1 DEF BarrierRelease, ShuffleInv, Past
  <2>12. CASE AssignShuffle(w)
    <3>1. Past = Workers
      BY <2>12, AllPast DEF AssignShuffle
    <3>2. CASE assigned
      BY <2>12, <3>2 DEF AssignShuffle, Goto, TypeOK, ShuffleInv
    <3>3. CASE ~assigned
      <4>1. sem = 0 /\ \A v \in Workers : pc[v] = "assign"
        BY <3>1, <3>3 DEF ShuffleInv
      <4>2. pc' = [pc EXCEPT ![w] = "shuffle"] /\ assigned' /\ sem' = 0
        BY <2>12, <3>3, <4>1 DEF AssignShuffle, Goto
      <4> QED
        BY <4>1, <4>2 DEF TypeOK, ShuffleInv
    <3> QED
      BY <3>2, <3>3
  <2>13. CASE StartShuffle(w)
    <3>1. pc[w] = "shuffle" /\ pc' = [pc EXCEPT ![w] = "group"]
      BY <2>13 DEF StartShuffle, Goto
    <3>2. w \in Past /\ assigned
      BY <3>1 DEF ShuffleInv, Past
    <3> QED
      BY <2>13, <3>1, <3>2 DEF StartShuffle, TypeOK, ShuffleInv
  <2>14. CASE GroupMaxKey(w)
    BY <1>1, <2>14 DEF GroupMaxKey
  <2>15. CASE EndShuffle(w)
    <3>1. pc[w] = "group" /\ pc' = [pc EXCEPT ![w] = "post"]
      BY <2>15 DEF EndShuffle, Goto
    <3>2. w \in Past /\ assigned
      BY <3>1 DEF ShuffleInv, Past
    <3> QED
      BY <2>15, <3>1, <3>2 DEF EndShuffle, TypeOK, ShuffleInv
  <2>16. CASE SemaphoreWait(w)
    <3>1. sem > 0 /\ pc' = [pc EXCEPT ![w] = "post"] /\ UNCHANGED assigned
      BY <2>16 DEF SemaphoreWait, Goto
    <3>2. assigned /\ \A v \in Workers : pc[v] \notin {"shuffle", "group"}
      BY <3>1 DEF ShuffleInv
    <3> QED
      BY <3>1, <3>2 DEF TypeOK, ShuffleInv
  <2>17. CASE SemaphorePost(w)
    <3>1. pc[w] = "post" /\ pc' = [pc EXCEPT ![w] = "claim"] /\ UNCHANGED assigned
      BY <2>17 DEF SemaphorePost, Goto
    <3>2. assigned /\ \A v \in Workers : pc[v] \notin {"shuffle", "group"}
      BY <3>1 DEF ShuffleInv, Past
    <3> QED
      BY <3>1, <3>2 DEF TypeOK, ShuffleInv
  <2> QED
    BY <1>5, <2>1, <2>2, <2>3, <2>4, <2>5, <2>6, <2>7, <2>8, <2>9, <2>10,
       <2>11, <2>12, <2>13, <2>14, <2>15, <2>16, <2>17 DEF Worker
<1>6. CASE UNCHANGED vars
  BY <1>1, <1>6 DEF vars
<1> QED
  BY <1>2, <1>4, <1>5, <1>6 DEF Next, StartMapReduceJob, Closed

\* Counting leaves the stage alone, even when a field overflows.
LEMMA IncStage ==
    ASSUME NEW val, IncStageProcessed(val)
    PROVE  status'.stage = status.stage
BY DEF IncStageProcessed

\* Every step keeps the stage in the status word in line with the workers.
LEMMA NextStageInv ==
    /\ TypeOK /\ MainInv /\ BarrierInv /\ ShuffleInv /\ StageInv
    /\ [Next]_vars
    => StageInv'
<1> SUFFICES ASSUME TypeOK, MainInv, BarrierInv, ShuffleInv, StageInv,
                    [Next]_vars
             PROVE  StageInv'
  OBVIOUS
<1> USE DEF mainVars, workerVars, syncVars, dataVars
\* A step that stays in its stage keeps StageInv.
<1>1. ASSUME status'.stage = status.stage,
             main' = "new" <=> main = "new",
             UNCHANGED <<assigned, sem, call>>,
             \A v \in Workers : pc'[v] \in {"shuffle", "group", "post"} =>
                                   pc'[v] = pc[v]
      PROVE  StageInv'
  BY <1>1 DEF StageInv
<1>2. CASE StartJob
  <2>1. Past = {} /\ ~assigned /\ sem = 0
    <3>1. \A v \in Workers : v \notin Past
      BY <1>2 DEF StartJob, MainInv, BarrierInv, Past
    <3>2. 1 \in Workers
      BY CountsAssumption
    <3> QED
      BY <3>1, <3>2 DEF BarrierInv, ShuffleInv, Past
  <2>2. \A v \in Workers : pc[v] = "off" /\ call[v] = 1
    BY <1>2 DEF StartJob, MainInv, BarrierInv
  <2> QED
    BY <1>2, <2>1, <2>2 DEF StartJob, SetStage, StageInv
<1>3. CASE RunWorker
  BY <1>1, <1>3 DEF RunWorker, Goto, TypeOK
<1>4. CASE WaitForJob \/ JoinWorker \/ CloseJobHandle
  BY <1>1, <1>4 DEF WaitForJob, JoinWorker, CloseJobHandle
<1>5. ASSUME NEW w \in Workers, Worker(w)
      PROVE  StageInv'
  <2>1. CASE Claim(w)
    BY <1>1, <2>1, IncStage DEF Claim, Goto, TypeOK
  <2>2. CASE Check(w)
    BY <1>1, <2>2 DEF Check, Goto, TypeOK
  <2>3. CASE Dispatch(w)
    BY <1>1, <2>3 DEF Dispatch, Goto, TypeOK
  <2>4. CASE MapCall(w)
    BY <1>1, <2>4 DEF MapCall, Goto, TypeOK
  <2>5. CASE LockReduce(w)
    BY <1>1, <2>5 DEF LockReduce, Goto, TypeOK
  <2>6. CASE CopyBack(w)
    BY <1>1, <2>6 DEF CopyBack, Goto, TypeOK
  <2>7. CASE PopBack(w)
    BY <1>1, <2>7 DEF PopBack, Goto, TypeOK
  <2>8. CASE ReduceCall(w)
    BY <1>1, <2>8 DEF ReduceCall, Goto, TypeOK
  <2>9. CASE Sort(w)
    BY <1>1, <2>9 DEF Sort, Goto, TypeOK
  <2>10. CASE BarrierWait(w)
    BY <1>1, <2>10 DEF BarrierWait, Goto, TypeOK
  <2>11. CASE BarrierRelease(w)
    BY <1>1, <2>11 DEF BarrierRelease
  <2>12. CASE AssignShuffle(w)
    <3>1. main # "new" /\ UNCHANGED <<main, status, call, sem>> /\ assigned'
      BY <2>12 DEF AssignShuffle, MainInv
    <3>2. CASE assigned
      BY <1>1, <2>12, <3>2 DEF AssignShuffle, Goto, TypeOK
    <3>3. CASE ~assigned
      <4>1. status.stage = MAP_STAGE /\ pc' = [pc EXCEPT ![w] = "shuffle"]
        BY <2>12, <3>1, <3>3 DEF AssignShuffle, Goto, StageInv
      <4> QED
        BY <3>1, <4>1 DEF StageInv, TypeOK
    <3> QED
      BY <3>2, <3>3
  <2>13. CASE StartShuffle(w)
    <3>1. /\ pc[w] = "shuffle" /\ pc' = [pc EXCEPT ![w] = "group"]
          /\ status'.stage = SHUFFLE_STAGE /\ UNCHANGED <<main, assigned, sem, call>>
      BY <2>13 DEF StartShuffle, Goto, SetStage
    <3>2. w \in Past /\ assigned /\ sem = 0 /\ main # "new"
      BY <3>1 DEF ShuffleInv, Past, MainInv
    <3>3. ASSUME NEW v \in Workers PROVE call[v] = 1
      <4>1. status.stage = MAP_STAGE /\ call[v] \in {1, 2}
        BY <3>1 DEF StageInv, TypeOK
      <4>2. call[v] # 2
        BY <4>1 DEF StageInv, MAP_STAGE, REDUCE_STAGE
      <4> QED
        BY <4>1, <4>2
    <3>4. \A v \in Workers \ {w} : pc'[v] \in {"assign", "semwait"}
      BY <3>1 DEF ShuffleInv, TypeOK
    <3> QED
      BY <3>1, <3>2, <3>3, <3>4 DEF StageInv, TypeOK
  <2>14. CASE GroupMaxKey(w)
    BY <1>1, <2>14, IncStage DEF GroupMaxKey
  <2>15. CASE EndShuffle(w)
    <3>1. /\ pc[w] = "group" /\ pc' = [pc EXCEPT ![w] = "post"]
          /\ status'.stage = REDUCE_STAGE /\ UNCHANGED <<main, assigned, sem, call>>
      BY <2>15 DEF EndShuffle, Goto, SetStage
    <3>2. w \in Past /\ assigned /\ main # "new"
      BY <3>1 DEF ShuffleInv, Past, MainInv
    <3>3. \A v \in Workers : pc'[v] \notin {"shuffle", "group"}
      BY <3>1 DEF ShuffleInv, TypeOK
    <3> QED
      BY <3>1, <3>2, <3>3 DEF StageInv, TypeOK
  <2>16. CASE SemaphoreWait(w)
    <3>1. /\ sem > 0 /\ pc' = [pc EXCEPT ![w] = "post"]
          /\ UNCHANGED <<main, status, assigned, call>> /\ sem' = sem - 1
      BY <2>16 DEF SemaphoreWait, Goto
    <3> QED
      BY <3>1 DEF StageInv, TypeOK
  <2>17. CASE SemaphorePost(w)
    <3>1. /\ pc[w] = "post" /\ pc' = [pc EXCEPT ![w] = "claim"]
          /\ UNCHANGED <<main, status, assigned>>
          /\ call' = [call EXCEPT ![w] = 2]
      BY <2>17 DEF SemaphorePost, Goto
    <3> QED
      BY <3>1 DEF StageInv, TypeOK
  <2> QED
    BY <1>5, <2>1, <2>2, <2>3, <2>4, <2>5, <2>6, <2>7, <2>8, <2>9, <2>10,
       <2>11, <2>12, <2>13, <2>14, <2>15, <2>16, <2>17 DEF Worker
<1>6. CASE UNCHANGED vars
  BY <1>1, <1>6 DEF vars
<1> QED
  BY <1>2, <1>3, <1>4, <1>5, <1>6 DEF Next, StartMapReduceJob, Closed

\* Before the job starts no worker is anywhere.
LEMMA InitPhaseInv == Init => PhaseInv
<1> SUFFICES ASSUME Init PROVE PhaseInv
  OBVIOUS
<1>1. Past = {} /\ {w \in Workers : pc[w] = "wait"} = {}
  BY DEF Init, Past
<1>2. BarrierInv
  BY <1>1, FS_EmptySet DEF Init, BarrierInv
<1>3. MainInv
  BY DEF Init, MainInv
<1>4. ShuffleInv
  BY <1>1 DEF Init, ShuffleInv
<1>5. StageInv
  BY DEF Init, StageInv
<1> QED
  BY <1>2, <1>3, <1>4, <1>5 DEF PhaseInv

\* The workers go through the stages as one: the inductive invariant.
THEOREM PhasesInvariant == Spec => []PhaseInv
<1>1. TypeOK /\ PhaseInv /\ [Next]_vars => PhaseInv'
  BY NextMainInv, NextBarrierInv, NextShuffleInv, NextStageInv DEF PhaseInv
<1> QED
  BY <1>1, InitPhaseInv, TypeCorrect, PTL DEF Spec

\* No worker touches an intermediate vector while another one shuffles them.
THEOREM ShuffleIsAlone == Spec => []ShuffleAlone
<1>1. PhaseInv => ShuffleAlone
  BY DEF PhaseInv, ShuffleInv, ShuffleAlone
<1> QED
  BY <1>1, PhasesInvariant, PTL

\* The switch on the stage never falls through to "this should never happen".
THEOREM StageNeverSurprises == Spec => []DispatchStage
<1>1. TypeOK /\ PhaseInv => DispatchStage
  <2> SUFFICES ASSUME TypeOK, PhaseInv, NEW w \in Workers, pc[w] = "dispatch"
               PROVE  status.stage = IF call[w] = 1 THEN MAP_STAGE
                                                   ELSE REDUCE_STAGE
    BY DEF DispatchStage
  <2>1. CASE call[w] = 1
    <3>1. w \notin Past
      BY <2>1 DEF Past
    <3>2. ~assigned /\ main # "new"
      BY <3>1 DEF PhaseInv, BarrierInv, MainInv
    <3> QED
      BY <2>1, <3>2 DEF PhaseInv, StageInv
  <2>2. CASE call[w] = 2
    BY <2>2 DEF PhaseInv, StageInv
  <2> QED
    BY <2>1, <2>2 DEF TypeOK
<1> QED
  BY <1>1, TypeCorrect, PhasesInvariant, PTL

\* The contexts are destroyed only after every worker has ended.
THEOREM ContextsStay == Spec => []ContextsOutliveWorkers
<1>1. PhaseInv => ContextsOutliveWorkers
  BY DEF PhaseInv, MainInv, ContextsOutliveWorkers
<1> QED
  BY <1>1, PhasesInvariant, PTL

=============================================================================

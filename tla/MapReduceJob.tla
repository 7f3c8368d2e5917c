---------------------------- MODULE MapReduceJob ----------------------------
(***************************************************************************)
(* The MapReduce framework of ex3: the Job object, its worker threads and  *)
(* the thread that started it and waits for it.                            *)
(*                                                                         *)
(* Every worker runs Job::job_worker_thread: it claims inputs with an      *)
(* atomic counter and maps them, sorts its intermediate vector, meets the  *)
(* others at a barrier, shuffles alone or waits on a semaphore until the   *)
(* shuffle is over, then claims and reduces groups.  A step is one atomic  *)
(* operation, one critical section or one call into the client.            *)
(***************************************************************************)
EXTENDS Integers, Sequences, FiniteSets, Functions

CONSTANTS
    NumWorkers,   \* multiThreadLevel
    NumInputs,    \* inputVec.size()
    EmitChoices,  \* the key sequences one call of the client's map may emit
    MaxEmit,      \* bound on the length of the members of EmitChoices
    FieldSize     \* 2^31: one more than the largest value of a counter field

\* The constructor asserts a positive worker count and a non-empty input.
ASSUME CountsAssumption ==
    /\ NumWorkers \in Nat \ {0}
    /\ NumInputs \in Nat \ {0}

\* Keys are compared with operator< only: natural numbers stand for them.
ASSUME EmitAssumption ==
    /\ MaxEmit \in Nat
    /\ EmitChoices \subseteq Seq(Nat)
    /\ EmitChoices # {}
    /\ \A e \in EmitChoices : Len(e) <= MaxEmit

\* Every count of the job, and the one failing claim of each worker, fits in
\* a 31-bit field of the status word.
ASSUME FieldAssumption ==
    /\ FieldSize \in Nat
    /\ NumInputs + NumWorkers < FieldSize
    /\ NumInputs * MaxEmit + NumWorkers < FieldSize

UNDEFINED_STAGE == 0
MAP_STAGE == 1
SHUFFLE_STAGE == 2
REDUCE_STAGE == 3

Workers == 1..NumWorkers
Nobody == 0

\* An intermediate pair: its key, and the emit2 call that made it (the pos-th
\* one of the map call on that input), which stands for the pointers.
Pair == [key : Nat, input : Nat, pos : 1..MaxEmit]

VARIABLES
    main,      \* where the thread that owns the job handle is
    cursor,    \* the index of its loop over m_workers
    contexts,  \* m_workers_context still exists
    status,    \* m_stage_status, the three fields of the 64-bit word
    pc,        \* where each worker is
    call,      \* which call of worker_handle_current_stage it is in, 1 or 2
    old,       \* its old_val
    vec,       \* its intermediateVec
    hand,      \* its current_entry in the reduce stage, a set of pairs
    count,     \* Barrier::count
    assigned,  \* m_shuffleAssign
    sem,       \* the value of m_shuffle_semaphore
    lock,      \* the holder of m_reduce_mutex
    queue,     \* m_shuffle_queue, each group as the set of its pairs
    output     \* m_outputVec: an output is identified by its group

vars == <<main, cursor, contexts, status, pc, call, old, vec, hand, count,
          assigned, sem, lock, queue, output>>

mainVars == <<main, cursor, contexts>>
workerVars == <<call, old, vec, hand>>
syncVars == <<count, assigned, sem, lock>>
dataVars == <<queue, output>>

MainStates ==
    {"new", "starting", "started", "joining", "joined", "closed", "failed"}

WorkerStates ==
    {"off", "claim", "check", "dispatch", "map", "lock", "back", "pop",
     "reduce", "sort", "barrier", "wait", "assign", "shuffle", "group",
     "semwait", "post", "done"}

TypeOK ==
    /\ main \in MainStates
    /\ cursor \in 0..NumWorkers
    /\ main \in {"new", "starting", "joining"} => cursor < NumWorkers
    /\ contexts \in BOOLEAN
    /\ status \in [stage : 0..3, total : Nat, processed : Nat]
    /\ pc \in [Workers -> WorkerStates]
    /\ call \in [Workers -> {1, 2}]
    /\ old \in [Workers -> Nat]
    /\ vec \in [Workers -> Seq(Pair)]
    /\ hand \in [Workers -> SUBSET Pair]
    /\ count \in 0..(NumWorkers - 1)
    /\ assigned \in BOOLEAN
    /\ sem \in Nat
    /\ lock \in Workers \cup {Nobody}
    /\ queue \in Seq(SUBSET Pair)
    /\ output \in Seq(SUBSET Pair)

Init ==
    /\ main = "new"
    /\ cursor = 0
    /\ contexts = TRUE
    /\ status = [stage |-> UNDEFINED_STAGE, total |-> 0, processed |-> 0]
    /\ pc = [w \in Workers |-> "off"]
    /\ call = [w \in Workers |-> 1]
    /\ old = [w \in Workers |-> 0]
    /\ vec = [w \in Workers |-> <<>>]
    /\ hand = [w \in Workers |-> {}]
    /\ count = 0
    /\ assigned = FALSE
    /\ sem = 0
    /\ lock = Nobody
    /\ queue = <<>>
    /\ output = <<>>

(***************************************************************************)
(* The status word                                                         *)
(***************************************************************************)
SetStage(stage, total) ==
    status' = [stage |-> stage, total |-> total, processed |-> 0]

\* Mutation: a load and a store for fetch_add, between which a claim is lost.
IncStageProcessedLossy(val) ==
    status' \in {status, [status EXCEPT !.processed = @ + val]}

\* fetch_add on the whole word: a full processed field carries into total.
IncStageProcessed(val) ==
    LET sum == status.processed + val
    IN  status' = IF sum < FieldSize
                  THEN [status EXCEPT !.processed = sum]
                  ELSE [stage |-> status.stage,
                        total |-> status.total + sum \div FieldSize,
                        processed |-> sum % FieldSize]

\* What getJobState reports, as a fraction of integers: the percentage is
\* NaN, and equal to nothing, when the total is zero.
ReportsDone ==
    /\ status.stage = REDUCE_STAGE
    /\ status.total # 0
    /\ status.processed >= status.total

Goto(w, label) == pc' = [pc EXCEPT ![w] = label]

(***************************************************************************)
(* The thread that owns the handle                                         *)
(***************************************************************************)
StartJob ==
    /\ main = "new"
    /\ SetStage(MAP_STAGE, NumInputs)
    /\ main' = "starting"
    /\ UNCHANGED <<cursor, contexts, pc, workerVars, syncVars, dataVars>>

RunWorker ==
    /\ main = "starting"
    /\ cursor' = cursor + 1
    /\ Goto(cursor + 1, "claim")
    /\ main' = IF cursor + 1 = NumWorkers THEN "started" ELSE "starting"
    /\ UNCHANGED <<contexts, status, workerVars, syncVars, dataVars>>

WaitForJob ==
    /\ main = "started"
    /\ main' = "joining"
    /\ cursor' = 0
    /\ UNCHANGED <<contexts, status, pc, workerVars, syncVars, dataVars>>

\* Mutation: the loop does not wait for the thread.
NotAwaited(w) == w \in Workers

Ended(w) == pc[w] = "done"

JoinWorker ==
    /\ main = "joining"
    /\ Ended(cursor + 1)
    /\ cursor' = cursor + 1
    /\ main' = IF cursor + 1 = NumWorkers THEN "joined" ELSE "joining"
    /\ UNCHANGED <<contexts, status, pc, workerVars, syncVars, dataVars>>

\* The wait inside finds m_workers empty, then the Job is deleted.
CloseJobHandle ==
    /\ main = "joined"
    /\ main' = "closed"
    /\ contexts' = FALSE
    /\ UNCHANGED <<cursor, status, pc, workerVars, syncVars, dataVars>>

\* pthread_create fails in the middle of start_job: the exception reaches
\* startMapReduceJob, which deletes the job before it exits the process.
RunWorkerFails ==
    /\ main = "starting"
    /\ main' = "failed"
    /\ contexts' = FALSE
    /\ UNCHANGED <<cursor, status, pc, workerVars, syncVars, dataVars>>

(***************************************************************************)
(* worker_handle_current_stage                                             *)
(***************************************************************************)
\* old_val = inc_stage_processed(1), before the loop and at its end.
Claim(w) ==
    /\ pc[w] = "claim"
    /\ old' = [old EXCEPT ![w] = status.processed]
    /\ IncStageProcessed(1)
    /\ Goto(w, "check")
    /\ UNCHANGED <<mainVars, call, vec, hand, syncVars, dataVars>>

\* The loop condition reads the total.
InStage(w) == old[w] < status.total

\* At the end of the loop the first call goes on to the sort, the second ends
\* the thread.
Check(w) ==
    /\ pc[w] = "check"
    /\ Goto(w, IF InStage(w) THEN "dispatch"
               ELSE IF call[w] = 1 THEN "sort" ELSE "done")
    /\ UNCHANGED <<mainVars, status, workerVars, syncVars, dataVars>>

\* The switch reads the stage again.
Dispatch(w) ==
    /\ pc[w] = "dispatch"
    /\ Goto(w, CASE status.stage = MAP_STAGE -> "map"
                 [] status.stage = REDUCE_STAGE -> "lock"
                 [] OTHER -> "claim")
    /\ UNCHANGED <<mainVars, status, workerVars, syncVars, dataVars>>

\* The call of the client's map on the claimed input: its emit2 calls append
\* to the worker's own vector, which nobody else looks at meanwhile.
MapCall(w) ==
    /\ pc[w] = "map"
    /\ \E keys \in EmitChoices :
         vec' = [vec EXCEPT ![w] = @ \o
                    [p \in 1..Len(keys) |->
                        [key |-> keys[p], input |-> old[w] + 1, pos |-> p]]]
    /\ Goto(w, "claim")
    /\ UNCHANGED <<mainVars, status, call, old, hand, syncVars, dataVars>>

\* Mutation: the queue is popped without the reduce mutex.
Seize(w) == lock' = w

Acquire(w) == lock = Nobody /\ lock' = w

LockReduce(w) ==
    /\ pc[w] = "lock"
    /\ Acquire(w)
    /\ Goto(w, "back")
    /\ UNCHANGED <<mainVars, status, workerVars, count, assigned, sem, dataVars>>

\* back() of an empty vector is undefined: the model takes an empty group, a
\* group the shuffle never makes, and GroupsReady says that it never happens.
CopyBack(w) ==
    /\ pc[w] = "back"
    /\ hand' = [hand EXCEPT ![w] = IF queue = <<>> THEN {}
                                   ELSE queue[Len(queue)]]
    /\ Goto(w, "pop")
    /\ UNCHANGED <<mainVars, status, call, old, vec, syncVars, dataVars>>

PopBack(w) ==
    /\ pc[w] = "pop"
    /\ queue' = SubSeq(queue, 1, Len(queue) - 1)
    /\ lock' = Nobody
    /\ Goto(w, "reduce")
    /\ UNCHANGED <<mainVars, status, workerVars, count, assigned, sem, output>>

\* The call of the client's reduce, which usually calls emit3 once; add_output
\* appends under m_output_mutex, and current_entry goes out of scope.
ReduceCall(w) ==
    /\ pc[w] = "reduce"
    /\ output' = Append(output, hand[w])
    /\ hand' = [hand EXCEPT ![w] = {}]
    /\ Goto(w, "claim")
    /\ UNCHANGED <<mainVars, status, call, old, vec, syncVars, queue>>

(***************************************************************************)
(* job_worker_thread from the sort to the reduce stage                     *)
(***************************************************************************)
SortedByKey(s) ==
    \A i, j \in 1..Len(s) : i < j => s[i].key <= s[j].key

\* std::sort leaves the pairs of equal keys in any order.
Sort(w) ==
    /\ pc[w] = "sort"
    /\ \E s \in [1..Len(vec[w]) -> Range(vec[w])] :
         /\ Range(s) = Range(vec[w])
         /\ SortedByKey(s)
         /\ vec' = [vec EXCEPT ![w] = s]
    /\ Goto(w, "barrier")
    /\ UNCHANGED <<mainVars, status, call, old, hand, syncVars, dataVars>>

\* Mutation: the barrier opens for the last but one arrival.
BarrierHoldsOneLess == count + 1 < NumWorkers - 1

BarrierHolds == count + 1 < NumWorkers

\* ++count < numThreads: the worker waits on the condition variable.
BarrierWait(w) ==
    /\ pc[w] = "barrier"
    /\ BarrierHolds
    /\ count' = count + 1
    /\ Goto(w, "wait")
    /\ UNCHANGED <<mainVars, status, workerVars, assigned, sem, lock, dataVars>>

\* Mutation: the count is not reset.
KeepCount == count' = count + 1

ResetCount == count' = 0

\* The last arrival resets the count and wakes everyone who waits.
BarrierRelease(w) ==
    /\ pc[w] = "barrier"
    /\ ~BarrierHolds
    /\ ResetCount
    /\ pc' = [v \in Workers |-> IF v = w \/ pc[v] = "wait" THEN "assign"
                                                         ELSE pc[v]]
    /\ UNCHANGED <<mainVars, status, workerVars, assigned, sem, lock, dataVars>>

\* Mutation: every worker wins the exchange.
EveryoneShuffles == "shuffle"

\* Mutation: the workers that lose the exchange do not wait for the shuffle.
LosersGoOn == IF assigned THEN "post" ELSE "shuffle"

OneShuffles == IF assigned THEN "semwait" ELSE "shuffle"

AssignShuffle(w) ==
    /\ pc[w] = "assign"
    /\ assigned' = TRUE
    /\ Goto(w, OneShuffles)
    /\ UNCHANGED <<mainVars, status, workerVars, count, sem, lock, dataVars>>

\* The slots of all the intermediate vectors.
Slots == UNION {{v} \X (1..Len(vec[v])) : v \in Workers}

StartShuffle(w) ==
    /\ pc[w] = "shuffle"
    /\ SetStage(SHUFFLE_STAGE, Cardinality(Slots))
    /\ Goto(w, "group")
    /\ UNCHANGED <<mainVars, workerVars, syncVars, dataVars>>

NonEmpty == {v \in Workers : vec[v] # <<>>}
BackKeys == {vec[v][Len(vec[v])].key : v \in NonEmpty}
MaxKey == CHOOSE k \in BackKeys : \A b \in BackKeys : b <= k

\* The pairs that vec.pop_back() takes off while back() has the key k.
TrailingRun(s, k) == {i \in 1..Len(s) : \A j \in i..Len(s) : s[j].key = k}

MaxRun(v) == TrailingRun(vec[v], MaxKey)
MaxSlots == {x \in Slots : x[2] \in MaxRun(x[1])}
MaxGroup == {vec[x[1]][x[2]] : x \in MaxSlots}

\* One iteration of the shuffle loop: the pairs of the maximal key leave the
\* vectors and become a group.
GroupMaxKey(w) ==
    /\ pc[w] = "group"
    /\ NonEmpty # {}
    /\ queue' = Append(queue, MaxGroup)
    /\ vec' = [v \in Workers |->
                 SubSeq(vec[v], 1, Len(vec[v]) - Cardinality(MaxRun(v)))]
    /\ IncStageProcessed(Cardinality(MaxSlots))
    /\ UNCHANGED <<mainVars, pc, call, old, hand, syncVars, output>>

EndShuffle(w) ==
    /\ pc[w] = "group"
    /\ NonEmpty = {}
    /\ SetStage(REDUCE_STAGE, Len(queue))
    /\ Goto(w, "post")
    /\ UNCHANGED <<mainVars, workerVars, syncVars, dataVars>>

SemaphoreWait(w) ==
    /\ pc[w] = "semwait"
    /\ sem > 0
    /\ sem' = sem - 1
    /\ Goto(w, "post")
    /\ UNCHANGED <<mainVars, status, workerVars, count, assigned, lock,
                   dataVars>>

\* Mutation: only the first worker to go on wakes another.
PostOnce == sem' = IF \E v \in Workers : call[v] = 2 THEN sem ELSE sem + 1

Post == sem' = sem + 1

SemaphorePost(w) ==
    /\ pc[w] = "post"
    /\ Post
    /\ call' = [call EXCEPT ![w] = 2]
    /\ Goto(w, "claim")
    /\ UNCHANGED <<mainVars, status, old, vec, hand, count, assigned, lock,
                   dataVars>>

\* POSIX lets pthread_cond_wait return without a broadcast: the worker holds
\* the mutex again, unlocks it and leaves the barrier, for nothing in
\* Barrier::barrier looks at the count a second time.
SpuriousWakeup(w) ==
    /\ pc[w] = "wait"
    /\ Goto(w, "assign")
    /\ UNCHANGED <<mainVars, status, workerVars, syncVars, dataVars>>

(***************************************************************************)
(* The specification                                                       *)
(***************************************************************************)
Worker(w) ==
    \/ Claim(w) \/ Check(w) \/ Dispatch(w) \/ MapCall(w)
    \/ LockReduce(w) \/ CopyBack(w) \/ PopBack(w) \/ ReduceCall(w)
    \/ Sort(w) \/ BarrierWait(w) \/ BarrierRelease(w) \/ AssignShuffle(w)
    \/ StartShuffle(w) \/ GroupMaxKey(w) \/ EndShuffle(w)
    \/ SemaphoreWait(w) \/ SemaphorePost(w)

StartMapReduceJob == StartJob \/ RunWorker

\* The handle is closed, or the process exits: nothing is left to run.
Closed == main \in {"closed", "failed"} /\ UNCHANGED vars

Next ==
    \/ StartMapReduceJob \/ WaitForJob \/ JoinWorker \/ CloseJobHandle
    \/ \E w \in Workers : Worker(w)
    \/ Closed

Spec == Init /\ [][Next]_vars

\* The kernel runs every thread that can run, and a waiter of a mutex or of a
\* semaphore has only finitely many rivals: weak fairness of each thread.  The
\* client need not start the job, nor wait for it, nor close it.
Fairness ==
    /\ WF_vars(RunWorker)
    /\ WF_vars(JoinWorker)
    /\ \A w \in Workers : WF_vars(Worker(w))

FairSpec == Spec /\ Fairness

\* The same system when a waiter of the condition variable may wake spuriously.
SpuriousSpec == Init /\ [][Next \/ \E w \in Workers : SpuriousWakeup(w)]_vars

\* The same system when pthread_create may fail.
FailingSpec == Init /\ [][Next \/ RunWorkerFails]_vars
(***************************************************************************)
(* Properties                                                              *)
(***************************************************************************)
\* The shuffle reads and empties the vectors of all the workers with no lock
\* (Job.h, "this function is NOT thread-safe"): while a worker is in it, every
\* other one is past the barrier and waits for it, none maps or sorts.
ShuffleAlone ==
    \A w, v \in Workers :
        pc[w] \in {"shuffle", "group"} /\ v # w => pc[v] \in {"assign", "semwait"}

\* The atomic counter hands out an input, or a place in the queue, once: two
\* workers in the same call never hold the same old_val.
ClaimsDistinct ==
    \A w, v \in Workers :
        /\ w # v /\ call[w] = call[v]
        /\ {pc[w], pc[v]} \subseteq {"check", "dispatch", "map", "lock", "back",
                                    "pop", "reduce"}
        => old[w] # old[v]

\* The workers that have a place in the queue and have not popped a group.
Poppers ==
    {w \in Workers : /\ call[w] = 2
                     /\ \/ pc[w] = "check" /\ old[w] < status.total
                        \/ pc[w] \in {"dispatch", "lock", "back", "pop"}}

\* The queue holds exactly one group for every place handed out and not popped
\* and for every place not handed out yet: back() and pop_back() in the reduce
\* stage, which do not check, never meet an empty queue, and none is left over.
GroupsReady ==
    status.stage = REDUCE_STAGE =>
        Len(queue) = Cardinality(Poppers) +
            IF status.processed < status.total
            THEN status.total - status.processed ELSE 0

\* The stage that the switch reads, after the loop condition read the total, is
\* the stage the worker is in: "this should never happen" does not happen.
DispatchStage ==
    \A w \in Workers :
        pc[w] = "dispatch" =>
            status.stage = IF call[w] = 1 THEN MAP_STAGE ELSE REDUCE_STAGE

\* "These shall not be destroyed before all the threads terminate": the worker
\* contexts outlive every worker thread.
ContextsOutliveWorkers ==
    ~contexts => \A w \in Workers : pc[w] \in {"off", "done"}

\* What a client that polls getJobState sees: stages in order, none skipped,
\* and within a stage a fixed total and a processed count that only grows.
ProgressMonotone ==
    [][/\ status'.stage \in {status.stage, status.stage + 1}
       /\ status'.stage = status.stage =>
            /\ status'.total = status.total
            /\ status'.processed >= status.processed]_vars

\* A started job ends: no worker is left at the barrier, on the semaphore or on
\* the mutex.
JobTerminates ==
    main = "starting" ~> \A w \in Workers : pc[w] = "done"

\* waitForJob returns.
WaitReturns == main = "joining" ~> main = "joined"

\* Once waitForJob has returned, getJobState reports the reduce stage at 100%:
\* what the sample client polls for (SampleClient.cpp).
FinishedReportsDone == main = "joined" => ReportsDone

\* The inputs no worker has mapped: those not claimed, and those in hand.
Unmapped ==
    LET held == {old[w] + 1 : w \in {v \in Workers :
                    /\ call[v] = 1
                    /\ pc[v] \in {"check", "dispatch", "map"}}}
        fresh == CASE status.stage = UNDEFINED_STAGE -> 1..NumInputs
                   [] status.stage = MAP_STAGE ->
                        {i \in 1..NumInputs : i > status.processed}
                   [] OTHER -> {}
    IN  fresh \cup (held \cap (1..NumInputs))

\* The groups no worker has reduced: those in the queue and those in hand.
Unreduced ==
    IF status.stage = REDUCE_STAGE
    THEN Range(queue) \cup {hand[w] : w \in {v \in Workers :
                                            pc[v] \in {"pop", "reduce"}}}
    ELSE {}

\* waitForJob is what a client that needs the outputs has to call: 100% of the
\* reduce stage counts the claims (Job::get_state) and comes before the last
\* reduce call returns.  After the wait there is one output for every group of
\* the shuffle, and no pair is left in a vector, in the queue or in a hand.
WaitMeansComplete ==
    main \in {"joined", "closed"} =>
        /\ status.stage = REDUCE_STAGE /\ Len(output) = status.total
        /\ queue = <<>>
        /\ \A w \in Workers : vec[w] = <<>> /\ hand[w] = {}

\* Every pair the job still knows of, wherever it is.
AllPairs ==
    (UNION {Range(vec[w]) \cup hand[w] : w \in Workers})
        \cup (UNION Range(queue)) \cup (UNION Range(output))

Contract == INSTANCE MapReduceContract WITH
    todo <- Unmapped,
    pairs <- AllPairs,
    phase <- IF status.stage = REDUCE_STAGE THEN "reduce" ELSE "map",
    groups <- Unreduced,
    out <- output

\* The job implements its contract: every input mapped once, no pair lost or
\* doubled, one group per key and only after the last map call, every group
\* reduced once.
ImplementsContract == Contract!Spec

(***************************************************************************)
(* The inductive invariant behind the safety properties                    *)
(***************************************************************************)
\* The workers the barrier has let through.
Past ==
    {w \in Workers : \/ pc[w] \in {"assign", "shuffle", "group", "semwait", "post"}
                     \/ call[w] = 2}

\* The thread that owns the handle: its loops start and join in order.
MainInv ==
    /\ main = "new" => \A w \in Workers : pc[w] = "off"
    /\ main = "starting" => \A w \in Workers : w > cursor => pc[w] = "off"
    /\ main = "joining" => \A w \in Workers : w <= cursor => pc[w] = "done"
    /\ main \in {"joined", "closed"} => \A w \in Workers : pc[w] = "done"
    /\ contexts = (main # "closed")
    /\ main # "failed"

\* The barrier opens once, for all, and before anyone asks for the shuffle:
\* until then its count is the number of workers that wait.
BarrierInv ==
    /\ Past = {} => count = Cardinality({w \in Workers : pc[w] = "wait"})
    /\ Past # {} => Past = Workers
    /\ assigned => Past = Workers
    /\ \A w \in Workers :
         /\ pc[w] \in {"off", "sort", "barrier", "wait"} => call[w] = 1
         /\ pc[w] \in {"lock", "back", "pop", "reduce", "done"} => call[w] = 2

\* Nobody is past the shuffle before it is over.
ShuffleInv ==
    /\ ~assigned => /\ sem = 0
                    /\ \A w \in Past : pc[w] = "assign"
    /\ \A w \in Workers :
         pc[w] \in {"shuffle", "group"} =>
             /\ sem = 0
             /\ \A v \in Workers \ {w} : pc[v] \in {"assign", "semwait"}

\* The stage in the status word follows the workers.
StageInv ==
    /\ status.stage = UNDEFINED_STAGE <=> main = "new"
    /\ main # "new" /\ ~assigned => status.stage = MAP_STAGE
    /\ \A w \in Workers :
         /\ pc[w] = "shuffle" => status.stage = MAP_STAGE
         /\ pc[w] = "group" => status.stage = SHUFFLE_STAGE
         /\ pc[w] = "post" \/ call[w] = 2 => status.stage = REDUCE_STAGE
    /\ sem > 0 => status.stage = REDUCE_STAGE

\* What the barrier, the exchange and the semaphore together keep true: the
\* workers go through the stages as one, and the owner outlives them.
PhaseInv == MainInv /\ BarrierInv /\ ShuffleInv /\ StageInv

=============================================================================

------------------------------ MODULE UThreads ------------------------------
(***************************************************************************)
(* The user-level thread library of ex2 after uthread_init: one process, a *)
(* round-robin scheduler driven by SIGVTALRM, and the thread that runs,    *)
(* which may call any function of the library at any time.                 *)
(*                                                                         *)
(* Every library call masks SIGVTALRM from its first to its last line, and *)
(* the handler runs with it masked: each is one step.  The timer may       *)
(* expire at any moment; a signal that arrives while it is masked stays    *)
(* pending until the mask is lifted, and a context switch does not clear   *)
(* it.                                                                     *)
(***************************************************************************)
EXTENDS Integers, Sequences, FiniteSets, Functions

CONSTANTS
    MAX_THREAD_NUM,  \* the size of the thread table
    MaxSleep,        \* the longest sleep a client asks for
    QuantumCap       \* the counters of quantums are followed up to here

ASSUME SizesAssumption ==
    /\ MAX_THREAD_NUM \in Nat \ {0}
    /\ MaxSleep \in Nat \ {0}
    /\ QuantumCap \in Nat \ {0}

Ids == 0..(MAX_THREAD_NUM - 1)
main_thread_id == 0

VARIABLES
    state,      \* the state of each thread, or "none" where threads[id] is null
    sleep,      \* its sleep_time
    isBlocked,  \* its is_blocked
    elapsed,    \* its elapsed_quantums
    env,        \* where its saved context resumes
    running,    \* running_thread
    ready,      \* ready_threads
    available,  \* available_ids: how many times each id is in the heap
    toDelete,   \* to_delete
    total,      \* g_mgr.elapsed_quantums
    pending,    \* a SIGVTALRM is pending
    alive       \* the process has not exited

threadVars == <<state, sleep, isBlocked, elapsed, env>>
vars == <<state, sleep, isBlocked, elapsed, env, running, ready, available,
          toDelete, total, pending, alive>>

TypeOK ==
    /\ state \in [Ids -> {"none", "READY", "RUNNING", "BLOCKED"}]
    /\ sleep \in [Ids -> 0..MaxSleep]
    /\ isBlocked \in [Ids -> BOOLEAN]
    /\ elapsed \in [Ids -> 0..QuantumCap]
    /\ env \in [Ids -> {"entry", "handler", "call", "exit"}]
    /\ running \in Ids
    /\ ready \in Seq(Ids)
    /\ available \in [Ids -> Nat]
    /\ toDelete \in Seq(Ids)
    /\ total \in 1..QuantumCap
    /\ pending \in BOOLEAN
    /\ alive \in BOOLEAN

\* uthread_init: the main thread is running its first quantum, every other id
\* is available.
Init ==
    /\ state = [t \in Ids |-> IF t = main_thread_id THEN "RUNNING" ELSE "none"]
    /\ sleep = [t \in Ids |-> 0]
    /\ isBlocked = [t \in Ids |-> FALSE]
    /\ elapsed = [t \in Ids |-> IF t = main_thread_id THEN 1 ELSE 0]
    /\ env = [t \in Ids |-> IF t = main_thread_id THEN "call" ELSE "entry"]
    /\ running = main_thread_id
    /\ ready = <<>>
    /\ available = [t \in Ids |-> IF t = main_thread_id THEN 0 ELSE 1]
    /\ toDelete = <<>>
    /\ total = 1
    /\ pending = FALSE
    /\ alive = TRUE

(***************************************************************************)
(* Helpers                                                                 *)
(***************************************************************************)
Live == {t \in Ids : state[t] # "none"}

\* Mutation: a thread is pushed at the front of the ready queue.
PushFront(t) == ready' = <<t>> \o ready

PushBack(t) == ready' = Append(ready, t)

\* Mutation: the thread is left in the ready queue.
EraseNothing(t) == t \in Ids /\ ready' = ready

\* The first occurrence of t, if any, leaves the ready queue.
EraseReady(t) ==
    \/ t \notin Range(ready) /\ ready' = ready
    \/ \E i \in 1..Len(ready) :
         /\ ready[i] = t
         /\ \A j \in 1..(i - 1) : ready[j] # t
         /\ ready' = SubSeq(ready, 1, i - 1) \o SubSeq(ready, i + 1, Len(ready))

\* The counters stop at the cap.
Increment(n) == IF n < QuantumCap THEN n + 1 ELSE n

\* Mutation: the quantum is counted for the thread only.
CountThreadOnly(next) ==
    elapsed' = [elapsed EXCEPT ![next] = Increment(@)] /\ total' = total

\* A quantum of the thread next starts.
CountQuantum(next) ==
    /\ total' = Increment(total)
    /\ elapsed' = [elapsed EXCEPT ![next] = Increment(@)]

\* switch_threads: the running thread saves its context as ctx and leaves the
\* processor in state st, and the front of the queue q runs.  The states and
\* the queue are those after the handler's and the caller's own changes.
SwitchThreads(states, q, st, ctx) ==
    /\ running' = Head(q)
    /\ ready' = Tail(q)
    /\ state' = [states EXCEPT ![running] = st, ![Head(q)] = "RUNNING"]
    /\ env' = [env EXCEPT ![running] = ctx]
    /\ CountQuantum(Head(q))

\* switch_threads with is_blocked: the thread is not pushed.  reset_timer sets
\* the timer again, which does not take back a signal already pending.
SwitchBlocked(ctx) == SwitchThreads(state, ready, "BLOCKED", ctx)

(***************************************************************************)
(* The timer                                                               *)
(***************************************************************************)
TimerExpires ==
    /\ alive
    /\ ~pending
    /\ pending' = TRUE
    /\ UNCHANGED <<threadVars, running, ready, available, toDelete, total, alive>>

\* Mutation: the sleep time is counted down without looking whether it is zero.
EveryLive == Live

\* Mutation: a blocked thread is not counted down.
UnblockedSleepers == {t \in Live : sleep[t] # 0 /\ ~isBlocked[t]}

Sleepers == {t \in Live : sleep[t] # 0}

\* The sleepers whose time ends now and that nobody has blocked besides.
Woken == {t \in Sleepers : sleep[t] = 1 /\ ~isBlocked[t]}

\* Mutation: the preempted thread is pushed at the front.
PreemptedFirst(woken) == <<running>> \o ready \o woken

\* The queue at a preemption: the woken threads, then the preempted one.
PreemptedLast(woken) == ready \o woken \o <<running>>

\* sigvtalrm_handler: the sleepers are counted down and woken in the order of
\* their ids, then the running thread goes to the end of the queue.  The signal
\* is masked meanwhile and may arrive again.
Preempt ==
    /\ alive
    /\ pending
    /\ pending' \in BOOLEAN
    /\ sleep' = [t \in Ids |-> IF t \in Sleepers THEN sleep[t] - 1 ELSE sleep[t]]
    /\ \E woken \in [1..Cardinality(Woken) -> Woken] :
         /\ \A i, j \in 1..Cardinality(Woken) : i < j => woken[i] < woken[j]
         /\ SwitchThreads([t \in Ids |-> IF t \in Woken THEN "READY" ELSE state[t]],
                          PreemptedLast(woken), "READY", "handler")
    /\ UNCHANGED <<isBlocked, available, toDelete, alive>>

(***************************************************************************)
(* The library calls                                                       *)
(***************************************************************************)
\* The running thread is in its own code: a pending signal would come first.
InClient == alive /\ ~pending

\* A library call masks the signal: one that arrives meanwhile is delivered when
\* the call has returned, or to the thread the call has switched to.
MaskedCall == InClient /\ pending' \in BOOLEAN

Overwrite(f, S, v) == [t \in Ids |-> IF t \in S THEN v ELSE f[t]]

\* Mutation: a new thread keeps the quantum count of the last owner of its id.
ReplaceKeepsElapsed(dead, made) ==
    /\ state' = Overwrite(Overwrite(state, dead, "none"), made, "READY")
    /\ sleep' = Overwrite(sleep, dead \cup made, 0)
    /\ isBlocked' = Overwrite(isBlocked, dead \cup made, FALSE)
    /\ elapsed' = elapsed
    /\ env' = Overwrite(env, dead \cup made, "entry")

\* The threads in dead are deleted and their table entries set to null, then
\* the constructor fills the entries in made.
Replace(dead, made) ==
    /\ state' = Overwrite(Overwrite(state, dead, "none"), made, "READY")
    /\ sleep' = Overwrite(sleep, dead \cup made, 0)
    /\ isBlocked' = Overwrite(isBlocked, dead \cup made, FALSE)
    /\ elapsed' = Overwrite(elapsed, dead \cup made, 0)
    /\ env' = Overwrite(env, dead \cup made, "entry")

\* The available ids once every mark in to_delete has given its id back.
Freed == [t \in Ids |-> available[t] +
             Cardinality({i \in 1..Len(toDelete) : toDelete[i] = t})]

\* The threads that ended themselves are deleted first; then the smallest
\* available id is taken.  When there is none the call changes nothing.
Spawn ==
    \E tid \in Ids :
        /\ MaskedCall
        /\ Freed[tid] > 0
        /\ \A t \in Ids : t < tid => Freed[t] = 0
        /\ available' = [Freed EXCEPT ![tid] = @ - 1]
        /\ Replace(Range(toDelete), {tid})
        /\ PushBack(tid)
        /\ toDelete' = <<>>
        /\ UNCHANGED <<running, total, alive>>

\* The main thread is terminated: the process exits.
Exit ==
    /\ InClient
    /\ alive' = FALSE
    /\ UNCHANGED <<threadVars, running, ready, available, toDelete, total, pending>>

\* The running thread ends itself: it is only marked, for it runs on its stack.
TerminateSelf ==
    /\ MaskedCall
    /\ running # main_thread_id
    /\ toDelete' = Append(toDelete, running)
    /\ SwitchBlocked("exit")
    /\ UNCHANGED <<sleep, isBlocked, available, alive>>

\* Mutation: the id is not given back.
KeepId(t) == t \in Ids /\ available' = available

GiveBackId(t) == available' = [available EXCEPT ![t] = @ + 1]

TerminateOther(t) ==
    /\ MaskedCall
    /\ t # main_thread_id
    /\ state[t] \in {"READY", "BLOCKED"}
    /\ IF state[t] = "READY" THEN EraseReady(t) ELSE ready' = ready
    /\ Replace({t}, {})
    /\ GiveBackId(t)
    /\ UNCHANGED <<running, toDelete, total, alive>>

\* Mutation: is_blocked is not set.
LeaveUnmarked(t) == t \in Ids /\ isBlocked' = isBlocked

MarkBlocked(t) == isBlocked' = [isBlocked EXCEPT ![t] = TRUE]

BlockSelf ==
    /\ MaskedCall
    /\ running # main_thread_id
    /\ MarkBlocked(running)
    /\ SwitchBlocked("call")
    /\ UNCHANGED <<sleep, available, toDelete, alive>>

\* Mutation: another thread can block the main thread.
AllOthers == Live \ {running}

Others == Live \ {main_thread_id, running}

BlockOther(t) ==
    /\ MaskedCall
    /\ t \in Others
    /\ EraseReady(t)
    /\ state' = [state EXCEPT ![t] = "BLOCKED"]
    /\ MarkBlocked(t)
    /\ UNCHANGED <<sleep, elapsed, env, running, available, toDelete, total,
                   alive>>

\* Any other thread is left as it is.  is_blocked is never cleared.
Resume(t) ==
    /\ MaskedCall
    /\ state[t] = "BLOCKED"
    /\ sleep[t] = 0
    /\ PushBack(t)
    /\ state' = [state EXCEPT ![t] = "READY"]
    /\ UNCHANGED <<sleep, isBlocked, elapsed, env, running, available, toDelete,
                   total, alive>>

Sleep(n) ==
    /\ MaskedCall
    /\ running # main_thread_id
    /\ sleep' = [sleep EXCEPT ![running] = n]
    /\ SwitchBlocked("call")
    /\ UNCHANGED <<isBlocked, available, toDelete, alive>>

(***************************************************************************)
(* The specification                                                       *)
(***************************************************************************)
\* The threads that have not ended themselves.
Known == Live \ Range(toDelete)

Exited == ~alive /\ UNCHANGED vars

Step ==
    \/ TimerExpires \/ Preempt
    \/ Spawn \/ Exit \/ TerminateSelf \/ BlockSelf
    \/ \E n \in 1..MaxSleep : Sleep(n)
    \/ \E t \in Ids : BlockOther(t)
    \/ Exited

\* A client makes any call, with any id, but two: it does not terminate and does
\* not resume a thread that has ended itself before its id was spawned again.
\* uthreads.h makes these two an error; the code, whose table still has the
\* thread, carries them out.
Next == Step \/ \E t \in Known : TerminateOther(t) \/ Resume(t)

Spec == Init /\ [][Next]_vars

\* The timer of a process that runs expires again and again, and the handler
\* runs as soon as the signal is not masked.  Nothing is assumed of the threads.
Fairness == WF_vars(TimerExpires) /\ WF_vars(Preempt)

FairSpec == Spec /\ Fairness

\* The same library with a client that makes one of the two calls as well, up to
\* the first time it goes wrong.
TerminatesAnySpec == Init /\ [][Next \/ \E t \in Ids : TerminateOther(t)]_vars
ResumesAnySpec == Init /\ [][Next \/ \E t \in Ids : Resume(t)]_vars

(***************************************************************************)
(* Properties                                                              *)
(***************************************************************************)
\* The ready queue and the states agree: a thread is READY exactly when it is in
\* the queue, and it is there once, however it was blocked, resumed and woken.
ReadyOnce ==
    alive =>
        /\ \A i, j \in 1..Len(ready) : ready[i] = ready[j] => i = j
        /\ \A t \in Ids : state[t] = "READY" <=> t \in Range(ready)

\* Exactly one thread runs, and the main thread can always be scheduled: the
\* front of the queue exists whenever another thread gives up the processor.
SomeoneRuns ==
    alive =>
        /\ \A t \in Ids : state[t] = "RUNNING" <=> t = running
        /\ state[main_thread_id] \in {"READY", "RUNNING"}

\* Every id is either in the heap, once, or names a thread, and none is lost; a
\* thread that ended itself is listed for its deletion once.  This is so as long
\* as nobody terminates a thread that has ended itself: see NewIdsUnused.
IdsPartition ==
    /\ \A t \in Ids : available[t] = IF t = main_thread_id \/ t \in Live THEN 0 ELSE 1
    /\ \A i, j \in 1..Len(toDelete) : toDelete[i] = toDelete[j] => i = j
    /\ \A t \in Range(toDelete) : state[t] = "BLOCKED" /\ sleep[t] = 0

\* A thread with sleep left is blocked, and the handler that counts it down to
\* zero leaves it blocked only with the mark of uthread_block.  The mark may be an
\* old one: that a thread comes back from its sleep is not said here, and is not
\* so (SleepersComeBack of UThreadsHistory).
SleepersBlocked ==
    \A t \in Ids :
        /\ sleep[t] # 0 => state[t] = "BLOCKED"
        /\ state[t] = "BLOCKED" /\ sleep[t] = 0 => isBlocked[t] \/ t \in Range(toDelete)

\* A thread starts at its entry point exactly in its first quantum, and a thread
\* that ended itself is never resumed.
ContextsFresh ==
    /\ \A t \in Live : elapsed[t] = 0 <=> env[t] = "entry" /\ t # running
    /\ env[running] # "exit"

\* Every quantum is counted for one thread at most.
QuantumsAccounted ==
    total < QuantumCap => SumFunctionOnSet(elapsed, Live) <= total

\* Round robin: a step never lets a thread of the ready queue overtake another,
\* nor one that arrives overtake one that waits.
FifoOrder ==
    [][\A i, j \in 1..Len(ready') :
         i < j /\ ready'[j] \in Range(ready) =>
             \E k, l \in 1..Len(ready) :
                 k < l /\ ready[k] = ready'[i] /\ ready[l] = ready'[j]]_vars

\* A thread that is ready runs, unless it is blocked or terminated meanwhile,
\* whatever the running threads do.
ReadyRuns ==
    \A t \in Ids : state[t] = "READY" ~> state[t] # "READY" \/ ~alive

\* The sleep of a thread comes to its end.
SleepEnds == \A t \in Ids : sleep[t] # 0 ~> sleep[t] = 0 \/ ~alive

Contract == INSTANCE UThreadsContract WITH
    Threads <- Ids,
    MainThread <- main_thread_id,
    st <- [t \in Ids |-> IF t \in Range(toDelete) THEN "none" ELSE state[t]],
    exited <- ~alive

\* The life of every thread is the one uthreads.h describes.
ImplementsContract == Contract!Spec

\* uthread_spawn returns an id that no thread has: none, or one that has ended
\* itself and is deleted now.  Under TerminatesAnySpec it is not so.
NewIdsUnused ==
    [][Spawn => LET tid == ready'[Len(ready')]
                IN  state[tid] = "none" \/ tid \in Range(toDelete)]_vars

\* A thread that ended itself never runs again ("the function does not return").
\* Under ResumesAnySpec it does.
TerminatedStaysDown == alive => running \notin Range(toDelete)

=============================================================================

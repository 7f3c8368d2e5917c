# A formal model of the operating-systems exercises

The repository holds four independent programs of an operating-systems course:

| directory | program | status here |
|---|---|---|
| `ex3/ex3-mapreduce` | a multithreaded MapReduce framework on pthreads | modelled, checked; its safety properties and that it implements its contract proved |
| `ex2/ex2-uthreads` | a user-level thread library driven by SIGVTALRM | modelled, checked; its safety properties and that it implements its contract proved |
| `ex4/ex4-vmem` | a virtual memory: a page table tree with eviction to a swap file | modelled, checked; its safety properties and that it implements a flat memory proved |
| `ex1/ex1-measure` | a measurement of memory latency | modelled without time, checked; its safety properties proved |

Nothing is shared between them, so there is no module that composes them. All
paths below are relative to `src/exN/.../`.

## 1. Inventory

### ex3: the MapReduce framework

*Parts and state.*

- `Job` (`Job.cpp`, `Job.h`) keeps the inputs, the outputs, the worker threads,
  one context with an intermediate vector per worker, the shuffle queue, and one
  64-bit atomic word with three fields: stage (2 bits), total (31), processed (31).
- `Barrier`, `CSemaphore`, `Mutex`, `Thread` wrap pthreads.
- `MapReduceFramework.cpp` is the API: `startMapReduceJob`, `waitForJob`,
  `getJobState`, `closeJobHandle`, and `emit2`, `emit3` for the client's code.
- `SampleClient.cpp` counts characters and polls `getJobState`.

*Interaction.* The owner of the handle creates the job and its workers, joins
them and deletes the job. Each worker runs `job_worker_thread`: claim an input
with `fetch_add` and map it, until a claim is beyond the total; sort the own
vector; meet the others at the barrier; one worker (the one that wins a
compare-exchange) shuffles all the vectors into the queue and sets the reduce
stage, the others wait on a semaphore; every worker that goes on posts it once
more; then claim and reduce groups from the back of the queue. The client's `map`
and `reduce` call back into `emit2` (own vector, no lock) and `emit3` (outputs,
under a mutex).

*What is hard.* A claim, the comparison with the total and the switch on the
stage are three separate atomic operations on one word. The shuffle takes no lock.
`back()` and `pop_back()` do not check for emptiness. The wake-up is a chain of
posts. The barrier waits on a condition variable without a loop. The owner may
delete the job on a failure path. An empty result divides by zero.

*What makes it correct.* Every input is mapped once and every group reduced once;
no pair is lost; the shuffle is alone; the queue is never popped when empty; the
contexts outlive the workers; the progress a client sees never goes back; a
started job ends and a wait for it returns.

### ex2: the user-level threads

*Parts and state.* `uthreads.cpp` keeps one global manager: the thread table, the
ready queue, a heap of free ids, the running thread, a list of threads to delete,
the count of quantums. `thread.cpp` keeps a thread's saved context, state, sleep
time, block mark, quantum count and stack. The demo `main.cpp` only calls the API.

*Interaction.* The running thread calls the library; every call masks SIGVTALRM
from its first line to its last. The handler runs with the signal masked, counts
down the sleepers, wakes those whose time is over and not blocked, and switches to
the front of the queue. A thread that blocks, sleeps or ends itself switches too.
A thread that ends itself cannot free the stack it runs on: it is listed and
deleted by the next `uthread_spawn`.

*What is hard.* Preemption at any point of the client's code; a signal that stays
pending across a switch; a sequence of calls by several threads on one another
that leaves a thread twice in the queue, or in none; ids given back at once, later
or twice; entries of threads that have ended; a mark that outlives its meaning;
starvation.

*What makes it correct.* One thread runs; a thread is READY exactly when it is in
the queue, once; ids are free or used, never both; a new thread inherits nothing;
the queue is fair; sleepers wake; nobody is counted a quantum he did not get.

### ex4: the virtual memory

*Parts and state.* `PhysicalMemory.cpp` keeps the RAM, an array of frames, and the
swap file, a map from pages to their words. `VirtualMemory.cpp` keeps no state of
its own: its tree of page tables lies in the frames it maps, and everything else is
a local of `load_page` or an out-parameter of `traverse_page_table`.
`SimpleTest.cpp` writes 128 pages and reads them back.

*Interaction.* `VMread` and `VMwrite` refuse an address outside the memory, else
walk from the root table to the page (`load_page`). An entry that is 0 takes a frame
(`allocate_frame`), found by a depth-first search of the whole tree: an empty table,
which is unlinked on the way back; else the frame after the largest one of the tree;
else the frame of the page at the largest cyclic distance from the page to load,
which `PMevict` copies to the swap file. A page that was reached through a new
frame is restored (`PMrestore`), and the word read or written.

*What is hard.* Everything is in a sequence of calls: the tree is changed while a
walk holds a position in it. The search must not take the table the walk is at,
which is empty when it is new; the unlinking and the linking must keep the frames a
tree; the root must never be evicted; a frame is known to be unused only because it
is larger than all the others; a frame that held a page becomes a table, whose words
are links.

*What makes it correct.* A read returns the word last written, whatever was evicted
between; a frame has one place in the tree and none is lost; a page is in the RAM or
in the swap file; the assertions of `PhysicalMemory.cpp` hold.

### ex1: the measurement

*Parts and state.* `memory_latency.cpp` checks the arguments, loops over growing
array sizes and measures each array twice: `measure_latency` of `measure.cpp` visits
it in the order of a Galois LFSR, `measure_sequential_latency` from first to last.
Each has a loop without the reads before the one with them and subtracts its time.

*What is hard.* The indices must not depend on the words read, though the compiler
has to believe that they do; the LFSR must not die; sizes in bytes that are no
multiple of an element; a factor that hardly grows the size.

*What makes it correct.* The two loops of a measurement visit the same elements,
inside the array; the sequential one visits all of them; the program ends.

## 2. Modules

| module | what it is |
|---|---|
| `MapReduceJob` | the job, its workers, the owner of the handle; properties and the inductive invariant |
| `MapReduceContract` | what a job promises: map every input once, group, reduce every group once |
| `MCMapReduce` | instances of `MapReduceJob` for TLC (what a map call may emit) |
| `MapReduceJobProofs` | types and phases of `MapReduceJob`: theorems and proofs |
| `MapReduceClaimsProofs` | claims, pairs and counts of `MapReduceJob`: theorems and proofs |
| `MapReduceContractProofs` | that `MapReduceJob` implements `MapReduceContract`: theorem and proof |
| `UThreads` | the thread library; properties |
| `UThreadsProofs` | the theorems about `UThreads`, that it implements its contract among them, and their proofs |
| `UThreadsContract` | the life of a thread as `uthreads.h` describes it |
| `UThreadsHistory` | `UThreads` with history variables, for two promises of `uthreads.h` about sleeping |
| `FlatMemory` | what a client of the virtual memory sees: a read returns the word last written |
| `Pager` | demand paging without frames and tables; implements `FlatMemory` |
| `PagerProofs` | the proof of that |
| `VirtualMemory` | the walk, the tree in the frames, the eviction; implements `Pager` |
| `PageTreeProofs` | lemmas about routes through a tree of page tables, and about what one step changes of them |
| `VirtualMemoryProofs` | the theorems about `VirtualMemory` and `PageTableTraversal` (it implements a flat memory; the search finds what is stated of it) and their proofs |
| `PageTableTraversal` | the depth-first search as it is written, compared with its statement in `VirtualMemory` |
| `MemoryLatency` | the program of ex1; properties |
| `MCMemoryLatency` | its instance for TLC, with the operators on bits of the community module |
| `MemoryLatencyProofs` | the theorems about `MemoryLatency` and their proofs |

### MapReduceJob

A step is one atomic operation, one critical section, or one call into the client.

| variable | code |
|---|---|
| `status` | `m_stage_status`: a record of the three fields; `IncStageProcessed` carries from one field to the next as `fetch_add` does |
| `pc`, `call`, `old` | where a worker is in `job_worker_thread`, in which of its two calls of `worker_handle_current_stage`, and `old_val` |
| `vec`, `hand` | `intermediateVec`, `current_entry` of the reduce branch |
| `count` | `Barrier::count` |
| `assigned`, `sem`, `lock` | `m_shuffleAssign`, the semaphore's value, the holder of `m_reduce_mutex` |
| `queue`, `output` | `m_shuffle_queue`, `m_outputVec`: a group is the set of its pairs, an output is named by its group |
| `main`, `cursor`, `contexts` | the owner: where it is, the index of its loop, whether `m_workers_context` still exists |

| actions | code |
|---|---|
| `StartJob`, `RunWorker`, `WaitForJob`, `JoinWorker`, `CloseJobHandle`, `RunWorkerFails` | `startMapReduceJob`, `Job::start_job`, `waitForJob`, `Job::wait`, `closeJobHandle`, the failure path of `startMapReduceJob` |
| `Claim`, `Check`, `Dispatch` | the `fetch_add`, the load of the total, the load of the stage: three steps |
| `MapCall` | the client's map with its `emit2` calls: one step, for nobody else looks at the vector meanwhile (`ShuffleAlone` is what makes that true) |
| `LockReduce`, `CopyBack`, `PopBack`, `ReduceCall` | the reduce branch and `emit3` |
| `Sort`, `BarrierWait`, `BarrierRelease`, `AssignShuffle`, `StartShuffle`, `GroupMaxKey`, `EndShuffle`, `SemaphoreWait`, `SemaphorePost` | the rest of `job_worker_thread`; `GroupMaxKey` is one iteration of the shuffle loop |
| `SpuriousWakeup` | what POSIX allows `pthread_cond_wait` to do |

Abstractions: a key is a number (only `operator<` is used); a pair is its key and
the `emit2` call that made it, which stands for the two pointers, so that losing or
doubling a pair is visible; std::sort picks any sorted order; `reduce` emits one
output (the header: "usually once"). Deleting the `Job` in `CloseJobHandle` is one
step, for the wait before it finds no worker left.

### UThreads

A library call is one step, for SIGVTALRM is masked through all of it, and so is
the handler with the switch it ends in. What interleaves is the sequence of calls
and signals: any call may come next from the thread that runs, and the timer may
expire at any moment. A signal that arrives in the client's own code
(`TimerExpires`) is handled before anything else happens (`InClient` guards every
call); one that arrives inside a call or the handler stays `pending` until the mask
is lifted (`MaskedCall`), and a switch does not clear it, so a thread may be
preempted right after it was switched in, as in the code.

| variable | code |
|---|---|
| `state`, `sleep`, `isBlocked`, `elapsed` | the fields of `thread`; `"none"` is a null table entry |
| `env` | where the saved context resumes: the entry point, the handler, a call, or the switch of a thread that ended itself |
| `running`, `ready`, `available`, `toDelete`, `total` | the fields of `uthread_mgr`; `available` counts how many times an id is in the heap |
| `pending`, `alive` | the pending signal; the process has not exited |

`Spawn`, `Exit`, `TerminateSelf`, `TerminateOther`, `BlockSelf`, `BlockOther`,
`Resume`, `Sleep`, `Preempt` are the calls and the handler by name. A call that
only returns an error changes nothing and is a stutter. `uthread_terminate` on the
main thread ends the process (`Exit`).

The clients of `Spec` make any of these calls with any id of the table, but two: they
do not call `uthread_terminate` or `uthread_resume` with the id of a thread that has
ended itself and whose id was not spawned again (`Known` is the others). `uthreads.h`
promises an error for both, and the code, which keeps the thread in its table until the
next spawn, carries them out instead; a client has no way to know that it must not ask.
`ResumesAnySpec` and `TerminatesAnySpec` add these calls, and `ut_resurrect` and
`ut_doubleid` show what comes of them: a thread that ended itself runs again, and one
id is given to two threads. After either of them the manager is broken for good, so
that what is shown under `Spec` is shown of clients that do not make these two calls.

### FlatMemory, Pager, VirtualMemory

Three levels. `FlatMemory` has a word per address. `Pager` has pages in the RAM and
pages in the swap file: it evicts the page farthest from the one to load, may not
evict a page that is in the swap file, loads the words of the swap file or zeros, and
takes a page out of the swap file when it loads it. It decides neither when to evict
nor which of two pages equally far. `VirtualMemory` decides both, by the state of the
tree.

| variable of `VirtualMemory` | code |
|---|---|
| `ram`, `swap` | `RAM`, `swapFile` of `PhysicalMemory.cpp`; the tree is in `ram` |
| `request`, `reply` | the call with its arguments, and what the last one returned |
| `depth`, `node`, `isNew` | the locals `depth`, `ancestor_node`, `is_new_page` of `load_page` |

| actions | code |
|---|---|
| `Call`, `Refuse` | `VMread`, `VMwrite` up to `load_page`; a bad address, or no place for the word |
| `Descend` | an iteration of `load_page` that finds its entry |
| `ReuseTable`, `TakeUnused`, `EvictPage` | an iteration that does not: `allocate_frame`, its cases 1, 2, 3, with `PMevict`, the link and the step down |
| `PMrestore` | the end of `load_page` when `is_new_page` |
| `ReadWord`, `WriteWord` | the access and the return |

The program has one thread; the steps are iterations of the walk, so that the
properties speak of the tree in the middle of a walk, which is where it is easiest
to spoil. `traverse_page_table` is stated by what it finds: `EmptyTables`,
`MaxFrame`, `VictimPage`, `VictimFrame`, `VictimTable`, over the routes of the pages.
`PageTableTraversal` has the recursion as it is written, with the out-parameters and
the locals in a record (`Knowledge`): `Visit` is the body of the loop over the words of a table,
`Entries` the loop, `Scan` one call with the test that ends it. `Searches` is a
recursive function over the number of levels of tables below, in which each call
uses the calls one level down. `SearchAgrees` compares the two, the unlinking on the
way back included, in every state where the code would search, and section 5 proves
that they agree. The split keeps the proofs about the tree free of the order of the
search.

Words are numbers of a small set; a table's words are frames. `VMinitialize` is
`Init` (frames of zeros: `RAM.resize` zeroes them).

### MemoryLatency

A step is one iteration of a measuring loop, or the code between two loops
(`Proceed`), between two arrays (`NextArray`, `Allocate`) or before the first
(`CheckArgs`). `walk` has the indices visited by the current loop, `base` those of
the loop without reads before it; the words read are any, for the array is never
initialised.

The next size is computed as in the code: the product of two doubles, rounded to the
nearest double and if two are equally near to the one whose last bit is even
(`Rounded`), then `ceil` (`NextSize`). A significand has `PRECISION` bits, 53 in the
code; a factor is given in units of the last bit of 1.0 (`One` is the factor 1.0), so
that every double from 1.0 up is a natural number. It matters: `100 * 1.1` is more than
110 in doubles, and the size after 100 is 111. Sizes are below 2^`PRECISION`, where
each is a double itself, and the next one fits in a word (`SizesAssumption`).

The operators `^` and `&` are the constants `xor` and `and`: of them the
program needs no more than `BitsAssumption` says, that zero changes no word and masks
every one, that the taps stay within the word, and that only equal words cancel
out; `MCMemoryLatency` gives the operators on bits for them. Time, and with it all that is computed from the clock, is left out;
`zero` is what `main` computes from a clock past its first second.

### Mutated forms

The mutated forms (`IncStageProcessedLossy`, `Seize`, `PushFront`, ...) stand next
to the definitions they would replace, each marked `Mutation:`; no action uses
them. They document for each property a plausible bug that would break it.

## 3. Runs

| run | bounds | shows |
|---|---|---|
| `mr_job` | 3 workers, 2 inputs, up to 2 pairs per map call, field of 16 values; 334,127 states | all the safety properties of the job, that a wait that returned means a complete output, that it implements `MapReduceContract`, that a started job ends and a wait returns |
| `mr_spurious` | 2 workers | `ShuffleAlone` fails when the barrier's wait may wake spuriously |
| `mr_empty` | 2 workers | a job with no pairs never reports 100% |
| `mr_startfail` | 2 workers | contexts are destroyed under running workers when a thread cannot be created |
| `ut_safety` | 4 ids, sleeps of up to 2 quantums, counters followed up to 1; 45,141 states | the consistency of queue, states, ids and contexts, fairness of the queue, and `UThreadsContract` |
| `ut_live` | 3 ids, sleeps of up to 2, counters up to 5; 39,546 states | ready threads run and sleeps end; quantums are accounted for |
| `ut_resurrect` | 3 ids | a thread that ended itself can be resumed |
| `ut_doubleid` | 3 ids | when another thread terminates one that ended itself, its id is given to two threads |
| `ut_sticky` | 3 ids | a thread that was once blocked does not come back from a later sleep |
| `ut_sleepcount` | 3 ids | quantums that start for another reason than the timer do not count for sleepers |
| `vm_safety` | 8 pages of 2 words, 8 frames, 3 levels of tables; 5 addresses, 2 of them written, 2 words; 18,540 states | the tree is a tree, no frame is lost, the search is what the code says, and it implements `Pager` and with it `FlatMemory` |
| `ml_measure` | LFSR of 16 bits; significands of 13; largest sizes of 99 and 120, five factors from just below 1 to 1.1; 0, 1 and 20 repetitions; 5,126 states | the loops of a measurement visit the same elements of the array, and the program ends |

Why the bounds are enough to be interesting:

- Three workers are the least for which the semaphore must be posted by a worker
  that is not the shuffler (with two, one post does), and the least with two
  workers on the losing side of the exchange. Three workers on two inputs leave one
  worker without an input and with an empty vector; the emissions include an empty
  call, a single pair, and two pairs out of order, and equal keys from two workers.
- `FieldSize` is 16 in place of 2^31: large enough for `FieldAssumption`.
- Four ids give the main thread, the running one and two in the queue, one of which
  may be erased from the middle. A sleep of 2 exercises the count-down, of 1 the
  wake-up. The counters of quantums stop at `QuantumCap`; no guard reads them. In
  `ut_safety` the cap of 1 tells "never ran" from "has run"; where they are compared
  the cap is larger and the properties speak of the counts below it.
- `vm_safety`: the addresses are of the pages 0, 1, 5 and 7, and one beyond the
  memory. Pages 0 and 1 share their leaf table, so that an eviction may leave a table
  empty or not. One path takes 3 tables with the root and a page; all four pages need
  more than the 8 frames, so that evictions, reuse of a table that an eviction
  left empty, and frames of pages that become tables all happen. From
  page 7 the pages 1 and 5 are equally far, one of them around the end of the memory:
  the tie and the wrap-around both matter. Of the words 0 and 9 the second is no frame,
  so that a word of a page that is taken for a link is seen. Two addresses are written, which limits
  the data only: every page is walked to. Deeper trees repeat what three levels do,
  a table below the root that is the host, one that is not.
- `ml_measure`: 99 is refused by the check of the arguments, and so are the factor just
  below 1.0 (4095 of 4096) and no repetitions at all. The factor 4096 is 1.0; 4097
  is the smallest above it, with which sizes grow by the rounding up alone; 4137 takes
  100 to exactly 101, for the product is rounded down to it, where `ceil` of the exact
  product is 102; 4506 is what 1.1 is at this precision, and takes 100 to 111 as in the
  code. Sizes that are no multiple of 8 bytes occur; 1 repetition is fewer than the 12
  elements, 20 is more. 16 bits are enough for the seed 12345, and the four taps stand
  at the same distance from the top as in the code's 64.

The seven runs that end in a violation are described under "findings" in
`PROJECT.json`, each with the line of the code and the line of the comment, header
or client it contradicts.

### Properties

*MapReduceJob.* `TypeOK` (with the barrier's count below the number of workers);
`ShuffleAlone`; `ClaimsDistinct`: two workers never hold the same claim of one
stage; `GroupsReady`: in the reduce stage the queue has exactly one group per place
claimed and not popped or still to be claimed, hence `back()` is safe and nothing is
left over; `DispatchStage`: the "this should never happen" branch does not;
`ContextsOutliveWorkers`; `PhaseInv` (section 5); `ProgressMonotone`: what a polling
client sees; `WaitMeansComplete`: the progress may say 100% before the last reduce
has returned, but after the return of `waitForJob` there is an output for every group
and no pair left in a vector, the queue or a hand;
`ImplementsContract`; `JobTerminates`, `WaitReturns`.

`ImplementsContract` refines `MapReduceContract` by mapping the inputs to do to
those not claimed or still in hand, the pairs to all that exist in vectors, queue,
hands or outputs, and the groups to those of the queue and of the hands, once the
stage is reduce. All of the synchronisation becomes stuttering; the shuffle as a
whole becomes one abstract step, the store of the reduce stage.

*UThreads.* `ReadyOnce`, `SomeoneRuns`, `IdsPartition`, `SleepersBlocked` (a thread
with sleep left is blocked, and when its sleep is over it stays so only with the mark
of `uthread_block`, which may be an old one: `ut_sticky`), `ContextsFresh`, `FifoOrder` (a step property),
`QuantumsAccounted`, `ReadyRuns`, `SleepEnds`, `ImplementsContract`: the life cycle
of `uthreads.h`, in which a thread that ended itself is gone at once.

*VirtualMemory, PageTableTraversal.* `FramesLinkedOnce` (the tree is a tree);
`NoFrameLost`: the frames in use are 0 to the largest, which is all the search knows of
the unused ones; `WalkOnRoute`: the table the walk holds is still where it was found;
`NewFrameBlank`; `RamOrSwap`; `SomeoneToEvict`: when the code would evict there is a
page to evict, so that the frame is never the root; `OneEmptyTable`; `SearchAgrees`;
`ImplementsPager`, whose `Evict` carries the assertion of `PMevict` and the choice of
the farthest page; `ImplementsFlatMemory`, what `SimpleTest.cpp` asserts for one order
of calls. The refinement maps the pages in the RAM to those whose route is complete,
the one not restored yet apart; taking frames for tables is stuttering, and so is
everything else that happens to the tree.

*MemoryLatency.* `SameWalk`, `InArray`, `LfsrAlive`, `ReadsAll`, and `ProgramEnds`: with
any factor above 1.0 the program ends, though sizes are rounded to doubles on the way;
with 1.0, which the check of the arguments lets pass (`memory_latency.cpp:16-17, 139`),
the size stays as it is and only a `malloc` that fails ends the program.

### Deadlock

It is checked in every run. A job whose handle was closed, and a process that has
exited, stay as they are by an explicit step (`Closed`, `Exited`); so does the
measurement. The virtual memory always takes another call.

## 4. Fairness

- `MapReduceJob`: weak fairness of each worker and of the owner's two loops. The
  kernel schedules every runnable thread. A worker waiting for the reduce mutex or
  the semaphore is runnable only at times; weak fairness is enough, for the rivals
  are finitely many and each passes a finite number of times. Calls of the client
  (start, wait, close) are not assumed to happen; a map or reduce call is assumed to
  return.
- `UThreads`: weak fairness of the timer's expiry and of the handler. A process that
  uses the processor sees its virtual timer expire, and the signal is unmasked at
  the end of each call. Nothing is assumed of the threads: `ReadyRuns` and
  `SleepEnds` hold even if the running thread spins for ever or calls the library
  without end.
- `MemoryLatency`: weak fairness of its only thread, a loop that waits for nothing.

Nothing is stated about liveness of the virtual memory: a walk goes down one level
with every step and cannot last.

## 5. Proofs

### The MapReduce job

`MapReduceJobProofs` proves, for every number of workers, inputs and every set of
emissions:

- `TypeCorrect`: `Spec => []TypeOK`;
- `PhasesInvariant`: `Spec => []PhaseInv`;
- `ShuffleIsAlone`, `StageNeverSurprises`, `ContextsStay`: `ShuffleAlone`,
  `DispatchStage` and `ContextsOutliveWorkers`, from it.

They rest on the three assumptions of `MapReduceJob` (positive numbers of workers
and inputs; emissions are finite sequences of keys; the counts fit in the fields),
which TLC evaluates in every run of `MCMapReduce`. The theorems of this module need
the first two only; those below need `FieldAssumption`, too, without which a claim
would carry into the total.

None of the three properties is inductive. That the shuffle is alone depends on
where the others can be, which depends on the barrier having opened for all at
once, on the exchange having been won once, and on no post before the shuffle's end.
`PhaseInv` says that in four parts, each proved inductive relative to those before it:

1. `MainInv`: the owner's loops; workers not yet started are "off", joined ones are
   done, the contexts exist until the close.
2. `BarrierInv`: the barrier has let nobody through, and its count is the number of
   workers that wait; or it has let everybody through. The step that needs work is
   the last arrival: its count says that every other worker waits (lemma
   `BarrierFull`, by the cardinalities of finite sets).
3. `ShuffleInv`: until the exchange nobody is past the barrier's exit and the
   semaphore is zero; while one worker shuffles every other one is before the
   exchange or on the semaphore, which is still zero.
4. `StageInv`: the stage in the word follows the workers' positions.

TLC checks `PhaseInv` in `mr_job`.

`MapReduceClaimsProofs` goes on to what the claims hand out. `ClaimsInvariant` proves
`JobInv`, which is `TypeOK`, `PhaseInv` and four parts that need each other:

1. `TicketInv`: a claim is below the processed count, no other worker has it, and
   once it has been compared with the total the comparison stays true. It gives
   `ClaimsDistinct`.
2. `CountInv`: the processed count exceeds the total by at most the number of
   workers whose claim failed (`Spent`), so never by more than one per worker; the
   total is the number of inputs, or at most that of the pairs. With
   `FieldAssumption` no claim carries (`FieldsDoNotOverflow`), and without that
   `TicketInv` would not hold: the parts are proved together.
3. `PairsInv`: the pairs in the vectors are different ones, of inputs claimed and
   let go. It bounds the number of slots, which the shuffle stores as the total, by
   inputs times emissions (`SlotsBounded`, an injection).
4. `QueueInv`: before the shuffle there is no group; during it processed and the
   slots that are left make the total; in the reduce stage outputs, groups in hand
   and groups in the queue make the total, and `GroupsReady` holds.

From it: `ClaimsAreDistinct`, `GroupsAreReady`, `PopsFindGroups` (the queue is not
empty between lock and pop, for every number of workers), `FieldsDoNotOverflow` and
`ProgressIsMonotone`, a property of the steps.

`MapReduceContractProofs` proves `JobImplementsContract`: `Spec => ImplementsContract`.
The refinement needs five facts more (`GroupsInvariant`; TLC found no violation
of them on the instance of `mr_job` before they were proved): past the loop of the map stage no input is left
(`MapOver`); a vector stays sorted once it was (`SortedInv`), without which an
iteration of the shuffle would take some pairs of the largest key and not all;
the reduce mutex is held from the copy of the back to its removal (`LockInv`); a
group is in the queue or in one hand, apart from that overlap, and no two are equal
(`HandInv`); and a group of the shuffle has all the pairs of its key (`WholeInv`).
Then one lemma per action says which step of the contract it is: `MapCallMaps` and
`ReduceCallMaps` a map and a reduce, `EndShuffleMaps` the shuffle, and the
others nothing; among these the ones with something to show are the failing claim,
the start of the shuffle, the sort, an iteration of the shuffle and the copy and
removal of the back.

`WaitIsComplete` is there, too: when the wait has returned every claim of the reduce
stage has failed, so the queue is empty and there is an output for every group; no
group is in a hand (`HandInv`); and the vectors are empty since the shuffle ended, for
nobody maps in the reduce stage (`VectorsGone`). That every input was mapped before
that is part of `ImplementsContract`, whose reduce phase begins when none is left.

### The user-level threads

`UThreadsProofs` proves `ThreadsInvariant`: `UInv`, for every size of the table, every
longest sleep and every cap of the counters. It is `TypeOK`, `IdsPartition`,
`SleepersBlocked`, `ContextsFresh`, that the queue holds the READY threads and each
once, that the running thread is the one RUNNING, that the main thread is one or the
other, and `ExitMarked`: a context saved in `uthread_terminate` belongs to a thread
marked for deletion, without which `ContextsFresh` is not inductive, for a thread
could be resumed in the middle of its own end. From it `ThreadsTyped`,
`ReadyThreadsQueuedOnce`, `SomeoneAlwaysRuns`, `IdsArePartitioned`,
`SleepersAreBlocked`, `ContextsAreFresh`, and:

- `SpawnedIdsAreNew`: `NewIdsUnused`, the id that `uthread_spawn` returns is one no
  thread has. Like `IdsArePartitioned` it rests on clients that do not terminate a
  thread that ended itself; `ut_doubleid` violates it with clients that do;
- `TerminatedThreadsStayDown`: under `Spec`, whose clients do not resume a thread that
  ended itself, such a thread never runs again; `ut_resurrect` shows what happens with
  clients that do;
- `ReadyQueueIsFifo`: `FifoOrder`, a property of the steps. The invariant proof
  carries `InOrder(ready, ready')` along with `UInv'` through every operation, as each
  of them changes the queue by an append, a tail, an erasure or a sequence of these;
- `ThreadsImplementContract`: `Spec => ImplementsContract`;
- `QuantumsAreAccounted`: `QuantumsAccounted`, by the invariant `Accounted`, the same
  for the sum over all entries of the table: a thread that is created or ends resets
  its entry, and a sum over the threads that live would have to follow both. A step
  adds one to the total and to one entry, or takes from entries only (`StepCounts`).

That a sum over a set is a number, takes its elements in any order, and grows with
them is needed for that (`SumType`, `SumAny`, `SumLess`, `SumIncrement`). The
fold behind `SumFunctionOnSet` is a recursive function chosen over the subsets of
the set; the lemmas show that it exists (`SumsExist`) and is unique (`SumsAgree`) by
induction over the number of elements.

What the operations do to the queue is stated once, in lemmas about sequences
(`QueueAppend`, `QueueTail`, `QueueConcat`, `QueueErase`, `ListingIsAll`), and what
each part of an operation does in lemmas of its own (`SwitchEffects`,
`GiveUpEffects`, `PreemptEffects`, `EraseEffects`, `SpawnEffects`).

### The pager

`PagerProofs` proves `PagerImplementsFlatMemory`: for every number of pages, every
page size above zero, every set of addresses and of words that has 0 in it, a
behaviour of `Pager` is one of `FlatMemory`, the memory being the words of each page
where the page is (`WordsOf`). The inductive invariant `Inv` is small: a call that is
served names an address of the memory, and every page in the RAM or the swap file
has a word for every offset. The work is in the steps:
`EvictKeepsWords` and `LoadKeepsWords` show that moving a page changes no word
of any (an eviction needs its guard, that the page is not in the swap file);
`WriteChangesOneWord` that a write changes one, which needs that an address is its
page and its offset (`AddressIsPageAndOffset`); `StepRefines` maps each action to a
step or a stutter.

So what an implementation has to show is that it is a `Pager`.

### The virtual memory

`VirtualMemoryProofs` proves `VirtualMemoryInvariant`: `Spec => []IInv`, for every width
of addresses and offsets that divides evenly (`WidthsAssumption`), every number of
frames that has room for one path of tables and its page (`RamAssumption`; the
constants of the repository satisfy both), every set of addresses called, and every set
of words with 0 in it (`ClientAssumption`). TLC found no violation of `IInv` on
the instance of `vm_safety` before it was proved.

`FramesLinkedOnce` alone is not inductive: a frame is handed out by its number, as one
more than the largest, and that it is not in the tree is what `NoFrameLost` says. Nor is
`WalkOnRoute`: it needs that the frame taken away is not the walk's table, which needs
that a frame has one place in the tree. `IInv` has it all:

- `Tree`: the root is where every route starts; a frame of the tree is on the routes
  of those pages that share its prefix, at one depth and on no other; the entries of a
  table are frames, the words of a page are words of clients;
- `NoGap`: the frames of the tree are 0 to some number;
- `WalkState`: the walk's table is the one of its page's route at its depth, blank if
  it was just linked;
- `OneEmpty`: the tables without entries, besides the walk's, are one at most;
- `SwapTyped`, `SwapApart`, `RequestTyped`: what the swap file holds are words of
  pages, and of none whose route is complete but the one being restored.

`PageTreeProofs` has what is needed of routes. `At(m, p, d)` is the frame at depth d of
the route of page p in the RAM m. Its facts are inductions over the depth; they are
made over the set of the depths for which the claim holds (`SetInduction`), as the
library's induction takes an operator. That shifts and masks cut a page number into
its offsets (`Prefixes`, `SamePrefix`) needs that powers of two multiply as their
exponents add; the provers know nothing of exponents, so `PowerAdds` counts subsets. Then, each with what every route becomes: one word is
changed (`Put`, `PutWord`), an entry is cleared (`Unlinking`, `UnlinkingLeaf`), a blank
frame is linked (`Linking`), frames that are no tables are rewritten (`Rewriting`).

The three ways to get a frame have one form, `Found`: the RAM in which the frame is
blank and linked nowhere while all else is where it was. `ReuseFinds`, `TakeFinds` and
`EvictFinds` show that of the empty table, the unused frame and the evicted page, and
the lemmas `LinkRoutes` to `LinkSwap` what linking such a frame does. That there is a
page to evict is a count: with no page in the RAM and no empty table besides the walk's
every frame would be on the way to the walk (`OnlyTheWalk`), which has fewer frames than
the RAM. `NextInvariant` puts the actions together.

From the invariant: `TypesCorrect` (the entries of every table of the tree are frames,
the words of every page, in the RAM and in the swap file, are clients' words),
`NoFrameLinkedTwice`, `FramesInUse`,
`WalkStaysOnRoute`, `LinkedFrameIsBlank`, `NoPageTwice`, `EvictionPossible`,
`AtMostOneEmptyTable`; then `VirtualMemoryImplementsPager`, where each action is shown to be one
of `Pager` or nothing: descending, reusing and taking move no page, an eviction is one of
the farthest page and finds it not in the swap file (`VictimIsFarthest`), a restore and
an access are what they are. With `PagerImplementsFlatMemory` it gives
`ReadsReturnLastWritten`: for every size of memory a read returns what was last
written.

`SearchFindsWhatIsStated` is `SearchAgrees`: what the model takes from the search is
what the depth-first search of the code finds, whatever the tree looks like. Two
inductions lie in each other. Within a table (`EntriesVisited`) the claim after the
first n entries, `Scanned`, is that the search has ended with the first empty table
(`Ended`), or that it still goes on and has come across all the pages up to there
(`Looking`): the RAM is as it was, the page remembered is the first of the farthest so
far (`Knows`), the count of entries is zero if all were, the maximum is a frame of the
tree and at least as large as those below the entries, and an empty table among the
routes seen can only be this one. Over the levels (`SearchPromise`), a call that knows
all pages before its branch ends there or passes (`Passed`). Pages are in the order of
the search because the branches of the entries follow each other (`EntryNumbers`,
`SearchOrder`), so the empty table that is met first is the one of the smallest page.
`TableVisited` has the way back: the caller unlinks the table it was given if it is
the frame of its own entry, which is one level up from the end of the route and
nowhere else, since no frame has two places (`Tree`). The invariant is also needed at
the root, which is never the table that is found: if it is empty it is the walk's
(`ReuseFinds`).

### The memory latency

`MemoryLatencyProofs` proves `LatencyInvariant`: `Spec => []IInv`, for every width of a
word of 5 bits and more in which the seed fits, every precision of the doubles, all
arguments that keep the sizes within it and all contents of the
array (`LatencyAssumption`, `SizesAssumption`), and for any `xor` and `and` of which `BitsAssumption`
holds. That it holds of `^` and `&` is not proved: TLC evaluates it for all
words of 16 bits, and it is plain for 64. TLC found no violation of `IInv` on
the instance of `ml_measure` before it was proved.

`SameWalk` is not inductive: that the loop with reads goes on as the loop before it did
needs that its register has the value that the register had then, which no variable
remembers. `IInv` says that there is a sequence of values, from the seed by `Advance`
(`Recorded`), from which the walk of the first loop was made, and that the second loop
stands in it where its walk ends. Its parts:

- `ArgsInv`: what the check of the arguments leaves of them; the size has grown from
  the initial one and is not above the largest in a loop; no loop goes past `Times`;
- `RandomInv`: the register is not zero; the walk so far is that of `Recorded`, and the
  walk of the loop without reads is complete when the other begins;
- `SequentialInv`: the register is zero, and the k-th index is k - 1 modulo the length.

There is one lemma per action. `RecordMore` and `SequentialMore` add one iteration to a
walk; `Masked` says that neither an index nor a word read reaches the register;
`AdvanceKeeps` that it keeps within its bits and does not become zero: an odd value
shifted is smaller than the taps (`Halves`), so that the two differ, and an even one
that is not zero leaves half of it. That a rounded product does not shrink the size
(`SizesGrow`) is seen without computing it: the size itself is a double, not above the
exact product, and none below it is nearer (`RoundedAbove`). Powers of two count subsets (`PowerDoubles`), as
in `PageTreeProofs`.

From the invariant: `LatencyTyped`, `LoopsWalkAlike`, `RegisterStaysAlive`,
`ReadsInArray` (with one more invariant, `NoWalk`: outside the loops there is no walk)
and `EveryElementRead`. `SizesGrowStrictly` is about the factors themselves: above one,
every size is followed by a larger one, since between a size and its product with such a
factor there is always a double (`DoubleAbove`, for which powers of two are multiplied,
`PowersMultiply`), so that the rounded product lies above the size (`SizesGrowAbove`);
with 1.0 the product is the size itself (`SizesStay`), so that the loop over the sizes never ends
when it is entered. This is the step on which `ProgramEnds` rests.

### Model-checked only

Every invariant and every action property of the passing runs has a theorem, and so
has every refinement. What is left to TLC is liveness (`JobTerminates`,
`WaitReturns`, `ReadyRuns`, `SleepEnds`, `ProgramEnds`), which needs fairness and ENABLED and is
beyond the prover, and the runs that end in a violation, which show what
holds no longer under a wider specification.

## 6. Not modelled

- ex3: errors of pthread calls other than `pthread_create`; `bad_alloc`; exceptions
  of the client's code and the catch blocks of `emit2` and `emit3`; `pthread_cancel`
  in the destructor of `Thread`; concurrent waits on one handle; the counting done
  by the sample client.
- ex2: the stacks, the jump buffer and its mangling; the length of a quantum (there
  is no time, so that a pending signal cuts a quantum short is modelled and not
  stated as wrong); ids outside the table; sleeps of zero; failing system calls;
  what the client's own code does when it is preempted inside the C library.
- ex4: a second `VMinitialize`; memories whose widths do not divide evenly, or with
  fewer frames than one path needs (`WidthsAssumption`, `RamAssumption`; `RamAssumption`
  is what keeps the root from being evicted); the width of a word; the counter of evictions and
  the printing of `PhysicalMemory.cpp`; `SimpleTest.cpp` at its full size.
- ex1: the clock, the averages and the output; how strings become numbers, and with it
  the factors "inf" and "nan", which `strtod` accepts, and any so large that the next
  size fits in no word (`SizesAssumption`): the conversion back to an integer is
  undefined then; sizes beyond the precision of a double; the page-fault and caching
  effects the program is there to measure.
- The demo of ex2, build files and plots: no state of their own to model.

"hazards" in `PROJECT.json` lists all of this by line, with the properties that
cover it or the reason why none does.

## 7. Plan

All of the core logic is modelled, and every safety property of the passing runs is
proved. What could follow are the hazards of `PROJECT.json` that no property covers:
exceptions of the client and two threads waiting for one job in `MapReduceJob`, ids
outside the table in `UThreads`, a second `VMinitialize` in `VirtualMemory`. In each
of them the code relies on its client, and a model would state what goes wrong when
the client does otherwise.

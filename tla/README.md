# SKIR: specification, model checking and proofs

SKIR executes stream programs: kernels connected by streams. A StreamIt program
is compiled to LLVM IR by the front end; the program, when it runs, creates and
calls kernels; the runtime generates code for each and hands it to a scheduler,
which executes the kernels on one or more threads. This directory holds TLA+
modules for these parts, the TLC runs that check them, and TLAPS proofs about
the streams, the batched work functions, `kernel_t`, the schedulers, deadlock
detection, the stream graph and the event interface.

`tlc -config <run>.cfg <module>` repeats a run, `tlapm <module>_proofs.tla`
the proofs. PROJECT.json relates every definition to its lines of code.

## 1. Inventory

| Component | Source | State | Operations | Interacts with |
|---|---|---|---|---|
| Stream ring | `lib/runtime/inline_stream_ops.cpp`, `include/SKIR/SKIRStream.h` | head, tail, buffer; one writer each | push, pop, peek | the two kernels at its ends, without a lock |
| Batched work functions | the same, `SKIROuterLoopPass.cpp` | local head and tail, iteration count | `compute_niters`, untested push/pop/peek, the skeletons | the rings; kernels at the other ends |
| End of a stream | `SKIRRuntimeKernel.h`, `SKIRRuntimeStream.h` | `s->src`, `s->dst` (1 = dead) | `done`, `free_skir_stream_t` | both kernels' threads |
| `kernel_t` | `SKIR_kernel_t.h` | `wait_state`, kernel lock, condition variable, `running` | wait, pause, unpause, done, remove | schedulers, the program, control connections |
| Coroutine scheduler | `SKIRKoroSched.cpp` | run queue, `next_rtk`, kernel map | `callKernel`, `run`, `removeKernel`, ... | `kernel_t`, rings; work functions return their blocker |
| Work-stealing scheduler | `SKIRTbbSched.cpp` | run queue, tasks, `running`, `owning_task` | `callKernel`, `run`, `execute`, steal, recycle | TBB's task pool |
| Deadlock detection | `deps/d4r/D4RTag.h`, `d4r_cb` in `SKIRTbbSched.cpp` | a private and a public tag per kernel, flags per stream | block, transmit, detect | tags of other kernels, without a lock |
| Single-thread scheduler | `SKIRSingleThreadSched.cpp` | queue, `running`, its thread | `callKernel`, `start`, `empty`, `run` | one per kernel with `-force-tpk` |
| Data-parallel scheduler | `SKIRDPSched.cpp` | splitter, joiner, copies | `callKernel`, `dp_split_work`, `dp_join_work` | the graph, rates |
| Rates, fusion | `SKIRKernelInfoPass.cpp`, `SKIRFusion.cpp` | none (pure) | rate inference, least common multiples, fusion | batched work functions |
| Stream graph | `SKIRRuntimeGraph.cpp` | kernels, adjacency lists, `hier_parent` | call, wait, `allocateStreams`, sort | the schedulers |
| Runtime | `SKIRRuntime.cpp` | kernels, streams, `addr_map` | stream, kernel, call, become, wait; events | the graph, remote clients |
| StreamIt library | `tools/streamit/streamit.cpp` | children of pipelines and split-joins | work functions of the built-in streams | the runtime's instructions |
| StreamIt front end | `tools/streamit` | symbol table, current block, break and continue targets | one visit per node class | the library's streams |
| Event server | `tools/skir-lli/main.cpp` | one connection | accept, read, answer | the runtime |
| Merge scheduler, code generation passes, OpenCL, C backend | the rest of `lib/` | none at run time | IR rewriting | - |

What is hard, and what correctness means:

* rings: one side tests what the other changes; nothing lost, duplicated,
  overwritten or read half copied, and no mutual wait when a peek window fills
  the ring;
* batches: space is measured once and used many operations later, in unsigned
  arithmetic, by rates that were inferred from code and multiplied by fusion
  and splitting; no batch runs past either end, and every kernel completes;
* end of a stream: two kernels finish without a common lock; no use after
  free, and the end reaches the whole graph;
* `kernel_t`: several threads wait for different states on one condition
  variable; every wait returns, a paused or removed kernel stands still;
* schedulers: a kernel is in a queue, in a task or running; never nowhere,
  never twice, and it runs again;
* deadlock detection: tags are exchanged without locks by kernels that move;
  a deadlock is reported;
* graph and runtime: kernels run, end and replace themselves while others are
  still being created and connected; the network computes what it denotes, and
  a wait covers everything below;
* front end: a structured program becomes blocks and branches; the code does
  what the program says.

PROJECT.json lists each of these hazards at its line.

## 2. Modules

### Streams and kernels

**BoundedFifo** is what a stream promises: a queue of at most `Capacity`
elements, in order.

**StreamRing** is the ring. An element is its number in the order of pushes; a
position is a byte offset, so that wrapping is `%` on bytes as in the code.
push is Begin (compute `next`), Test, Copy, Publish; pop and peek likewise. The
consumer holds its copy of `head` in peek. `would_block` leaves the operation at
its test, and a Resume step re-enters it. Stores become visible in program
order, as on the x86 targets of the code generator; on a weaker memory model
the code, which has no barriers, would need another argument. For the liveness
properties a kernel does not peek further than the ring can hold.

**StreamEnd** is one stream at the end of its life, its kernels on two threads.
The ring is reduced to two counters. The store of the dead mark may sit in the
processor's store buffer (`Flush`), the reads of the two marks and the call of
`free` are separate steps.

**SKIRTransform** is what happens to a work function before it is compiled: a
work function is a sequence of blocks with the trip counts of the loops around
them; `getRate`, `getPeekRate` and `tryKnownRates` find the rates as
SKIRKernelInfo does, and whether they are fixed; `fuseKernels` derives iteration
counts, streams, rates and buffers of two fused kernels of fixed rates, and
`dp_split_work` and `dp_join_work` are the kernels of the data-parallel
scheduler. A copy (`dp_copy`) is the kernel itself on its own streams: the rates
SKIRDPSched gives it are replaced when it is called. Work functions whose peeks
SKIRKernelInfo gives up on (`FAIL`, after which it goes on with a null pointer)
are not compiled (`PeeksKnown`). `Unroll` says independently what a call of the
work function executes, so a rate that is wrong shows when the kernel runs.

**BatchWork** is a kernel compiled by `SKIROuterLoopPass`, as SKIRTransform
returns it. `compute_niters` reads one stream per step. `npop` and `npush` have
the unsigned subtraction and the conversion to `long long` at a word of `WORD`
values. The kernels at the other ends are `EnvPush` and `EnvPop`. A fused kernel
runs both parts in each iteration, over buffers that start empty.

**KernelT** is one `kernel_t`, the thread in `run()`, client threads that call
the scheduler's entry points, and pause threads. `Programs` is the set of client
programs looked at, with the number of work calls and whether the scheduler
unmaps a finished kernel (`SKIRKoroSched`) or keeps it
(`SKIRSingleThreadSched`). A critical section of `wait_mutex` is one step, the
kernel lock is explicit, a signal wakes any one waiter.

### Schedulers

**KoroSched** is the coroutine scheduler on a graph: `callKernel` from the
program, in any order, and the steps of `run()`: Dispatch, the stream operations
of the kernel that runs, Block (blocker returned, stolen or queued), End. Streams
are counters, because one thread uses them.

**TbbSched** is the work-stealing scheduler: the steps of `run()` and, per worker,
those of `kernel_task::execute`. Task memory is reused. The pool is TBB's,
modelled from the use made of it: any worker takes any task in it, and a task is
taken once. The end of a stream is one step (StreamEnd takes it apart).

**D4R** is deadlock detection in that scheduler. A kernel executes its stream
operations; blocked, it calls `d4r_cb` with the blocker its work function
returned, which either makes a new label (block) or compares and copies a tag
(transmit). A tag is a label (count, key) and a priority (queue size, key),
compared as `D4RTag.h` does: four 64-bit words. `taglock` is commented out, so
each load and each store of a word of a public tag is a step, and a kernel can
see, compare and take over halves of two tags. `at` and `word` say where a kernel
is, `loaded` holds the word it has loaded and not stored yet. Loads and stores
are in the order of the members, a comparison loads each word of the blocker's
tag once and stops at the first that differs, a word is written as a whole, and
memory is sequentially consistent: other orders a compiler may choose are not
looked at. Storing a word that is there already is no step. The uninitialised
`last_blocker` has any value at the start.

**SingleSched** is the scheduler of one kernel under `-force-tpk`: the program
calls and waits, `start` and `empty` race on `running`, and old and new threads
overlap.

### Runtime

**StreamItLib** has the work functions of the library as sequences of
instructions: pipelines and split-joins create streams and call their children,
splitters and joiners create and call the template instance for their weights,
the others pop and push.

**SKIRRuntime** executes a program's instructions on the main thread
(`handleStreamInst`, `handleKernelInst`, `handleCallInst`, `handleWaitInst`),
with the graph (`addKernel`, `callKernel`, `waitKernel`, `allocateStreams`)
they change. A call of a hierarchical kernel runs at once, in a new
frame; any other kernel is connected and from then on takes steps of its own, one
stream operation at a time, interleaved with the main thread. A kernel may
become another (`handleBecomeInst`; on SKIRTbbSched, the other schedulers'
`removeKernel` would wait for the lock its own thread holds). Which kernel a
scheduler runs next is left open here.

A program says which scheduler it has (`force`) and with how many `workers`.
`OneThread` is true of SKIRKoroSched and of one worker of SKIRTbbSched: there,
nothing happens between two steps of a stream operation, and `Turn` gives a
kernel that is ending the thread until it has ended. With several threads, the
test of a ring and the look at the stream's other end are two steps (`half`
between them; a kernel of `-force-tpk` spins on the test and never looks), and
the steps of `done` interleave: it takes the ends one by one, marks an end
(`MarkEnd`), then looks at the other and may free the stream (`FreeEnd`), and at
last signals (`Signal`). A look may miss the mark of a kernel that is itself in
`done`, because stores are buffered (`Unseen`); so both ends may free a stream,
or neither. `waitKernel` of a scheduler first finds the kernel, which must be in
its map, then waits: `findKernel`, `waitKernel`. SKIRKoroSched removes a
finished kernel from the map (`Unmap`), and a wait that comes later fails its
assertion (`aborted`).

**RuntimeEvents** adds the requests of a remote client (`onEvent`): it sends the
requests of a script in any order in which it knows the handles it uses, and may
repeat one whose answer it lost. **RuntimeGraph** adds what the graph computes
from it: the adjacency lists and the topological sort, which is recursive.

### Front end

**StreamItAST** has one constructor per node class. **FEIRToSKIR** is the code
generator: every visit takes the generator's state (current block, break and
continue targets, scopes of the symbol table, blocks of each function) and
returns the new one. A builder keeps the block it was made for, as in the code.
**StreamItRef** evaluates syntax trees directly and says what a program means;
it models the language, not code. **StreamItCompile** compiles a program, runs
the generated `main` and init functions, then the work function of every kernel,
one instruction per step, and compares. `Handled` says which programs the
generator handles; section 3 lists what it excludes.

Each `MC*` module names the graphs, programs or kernels that a run uses.
Definitions with a suffix (`PushTest_LastSlot`, `DoBackMutant`) are deliberate
errors, used to confirm that a property notices them; no specification contains
them.

## 3. Runs

| Run | Shows | Size and bounds |
|---|---|---|
| `ring` | The ring implements BoundedFifo; unread elements stay in place (`Unread`); no copy meets another (`NoTornCopy`); everything is pushed and popped. | 4 slots of 2 bytes, window of 3, 9 pushes: the ring fills and wraps more than twice |
| `batch` | A peeking filter, a filter with conditional pushes, a round-robin and a duplicating splitter known by their names, two fused pairs (two more pairs, with too large a multiple or without a fixed rate, are not fused), and the data-parallel splitter, joiner and copy: with the inferred and scaled rates no batch reads or writes past a ring, a fused iteration leaves its buffer empty (`BufferExact`), and the kernel completes. | `SLOTS` = 7, 2 to 5 iterations, `supply` of 3 to 12 elements: batches of one and of several, stopped by either side |
| `end` | Whoever ends first, the stream is not freed under the other end, which ends too. | capacity 2, 4 to 9 elements, four choices of who ends |
| `kernel` | Pauses, waits and removals: still while paused (`PausedIsStill`) and after removal (`RemovedIsStill`), pauses end, a wait that has found its kernel returns on a scheduler that keeps finished kernels (`WaitReturns`), removal ends. | five programs, two clients, two pause threads |
| `koro` | No kernel is lost by the queue, an end reaches all kernels, each stream is freed once, a sink drains its input, everyone runs. | 4 kernels, 4 streams of 2, four ways to end, with and without stealing |
| `tbb` | One task per kernel, in one place, counted by `running`; no kernel forgotten; with one worker all finish. | 4 kernels, 1 or 2 workers, 5 task cells, 1 retry |
| `single` | One copy of the kernel although threads overlap; the threads end. | 3 calls, up to 4 threads |
| `compile` | Generated modules are well formed, every register is written before it is read, every program ends, and filters and graphs are those of the reference evaluator (`Agrees`). | every `for` and `while` loop around any two of eight statements, operators and conversions, arrays, the repository's test programs with each splitter and joiner; `FIRINGS` = 2 work calls per filter |
| `compile_dowhile` | **violated**, see below | one program |
| `runtime` | Streams and kernels agree on who is connected (`Connected`), output is a prefix of what the network denotes (`Faithful`), a wait covers everything below it and, on one thread, leaves no stream and the whole output (`WaitedAll`), a program on one worker of SKIRTbbSched ends without a failed assertion (`Terminates`), the sort follows the edges (`TopoSorted`), calls connect what the client meant (`CallsConnect`). | six networks of pipelines and split-joins on one worker of SKIRTbbSched or on SKIRKoroSched, one with weights, a filter that becomes another twice, called in six orders, an endless reader; with several threads: two workers (a pipeline, the filter that becomes another, a fork and join), a thread per kernel; two remote clients, with two workers |
| `d4r` | The count in a public tag only grows (`CountsGrow`), whatever halves of tags kernels see; kernels that wait for each other are reported. | three kernels in a loop without an element, a true deadlock (`Loop`); two kernels with two streams, an artificial one (`Crossed`) or none (`Healthy`); a kernel that changes from one blocker to another (`Merge`) |
| `d4r_false_alarm` | **violated** | a network of two kernels that does not deadlock |

Bounds. `MaxQueue` bounds the run queue of KoroSched: with stealing a kernel can
be queued again while an older entry is there, and the queue grows without limit
in the code; beyond the bound a kernel already queued is not queued again, which
hides only repetitions. `NoneForgotten` includes that without stealing a kernel
is queued once, so that the bound is never met. `MaxPush`, `supply`, `iters`, `limit`, `works`, `Calls` and `FIRINGS`
bound how long the programs run. `WORD` = 256 is larger than twice any buffer of
a run, as 2^64 is than 32768. In SKIRRuntime a stream holds `Cap` = 1 element,
the smallest that makes every kernel wait for every other; `MAXOUT` = 70 lets a
whole round of the smallest weights that have a template (1 and 63) through;
`MAXKERNEL` = 16 is more than any program creates, `MAXREPEAT` = 1 repeated
request reaches a handle that is used twice. In D4R a stream has `CAP` = 1
element and every queue size is `QSIZE` = 1, so that priorities are decided by
keys. The words of tags multiply the states: an artificial deadlock in a cycle of
three kernels is beyond what a run finishes in minutes, so in `d4r` the cycle of
three kernels is one where all read, and that with a full stream has two.

### Fairness

Weak fairness of each thread: the operating system runs every thread that can
run. In StreamRing, BatchWork, D4R and SKIRRuntime it is fairness of each
kernel: `run()` takes kernels from the front of its queue and puts an unfinished
one back at the end (SKIRTbbSched.cpp:737-770, SKIRKoroSched.cpp:529-530), and
KoroSched and TbbSched check that none is lost (`NoneForgotten`). Where that does
not give every kernel its turn, nothing is claimed: `Terminates` is stated for
one worker of SKIRTbbSched only. With several workers a task can be dropped again
and again, SKIRKoroSched with stealing may stay in a part of the graph
(`EveryoneRuns` is about the scheduler that does not steal), and
SKIRSingleThreadSched may leave a kernel in its queue. In StreamEnd a buffered store is
written some time. The event server's thread is fair; a client need not send
anything. In StreamItCompile generated code goes on running. No strong fairness
is assumed: a `try_acquire` that fails again and again is not excluded, which is
why `AllFinish` is stated for one worker only in TbbSched. With two workers, a
schedule in which each retries whenever the other holds the lock is fair to
both.

### What the violated properties show

* `compile_dowhile`: `visitStmtDoWhile` sets `bodyBB` to the block in which the
  body ended and then branches back to `bodyBB`. When the body has several
  blocks, only the last is repeated: `push(i)` before an `if` is executed once.
* `d4r_false_alarm`: `d4r_cb` works with the blocker that the work function
  returned. Kernels 1 and 2 each wait for the other at different times; tags
  that went round meanwhile compare equal, and the assertion stops a program
  that could go on.

### Where the code needs more than it checks

The runs stay within the following limits; beyond them a property above fails,
and the code does nothing to exclude the case. The hazards in PROJECT.json give
the lines.

* `space - s->peek_rate` is unsigned: with a peek rate above the number of
  elements and a pop rate above 1 the wrapped difference passes for space, and
  a batch pops an empty ring (`NoUnderrun`).
* The name of `split_dup_work_N_` gives a pop rate of N although one element is
  popped for N pushed: the last N - 1 elements of a finite input stay where they
  are (`GetsDone` is checked up to there), and a loop of streams with fewer
  elements than that stops.
* A peek for whose offset no rate is found makes SKIRKernelInfo cast a null
  pointer (`PeeksKnown` excludes it).
* A stream of 8-byte elements in the 1_1 skeleton (`NoOverrun`), and the OpenCL
  share of the splitter (`NoUnderrun`).
* Trip counts of nested loops are added instead of multiplied, and operations in
  loops without a constant count, or conditional ones outside loops, are left
  out of a rate that other operations set.
* A producer that pushes its last elements and ends between a consumer's test
  and its look at `s->src`: the consumer ends with elements left. One thread
  cannot do this (`Drained`); with several SKIRRuntime has this behaviour, and
  `WaitedAll` promises the whole output for one thread only. Both ends may also
  free the stream, or neither.
* `waitKernel` and a pause thread wait on one condition variable; if `unpause`
  wakes the former, the latter keeps the kernel's lock. `unpause` also overwrites
  DONE. (`kernel` has no program that waits beside an unpause.)
* `removeKernel` deletes the `kernel_t` while `run()` may be between looking it
  up and trying its lock. `waitKernel` of SKIRKoroSched may come after `run()`
  has removed the finished kernel from its map, and its assertion then stops the
  program: SKIRRuntime has this step (`findKernel`), and for `-force-koro` the
  runs claim what holds when a wait returns, not that it does.
* `SKIRSingleThreadSched`: the thread finds the queue empty; `callKernel` pushes
  the kernel and finds `running` set; the thread clears `running` and ends.
* The front end: break or continue after an inner loop or an `add`, a ternary in
  a condition or an initialiser, a hidden name, control flow in the global init
  function, side effects in the target of a compound assignment, `&&` with a
  truth value (a comparison, a negation, a constant) on the left and something
  else on the right, and a stream of the program named like a splitter.
  `Handled` excludes them.
* Splitters and joiners with weights that have no template call no kernel.
* Fusion and rates: a kernel that peeks only one of several inputs, a fused
  iteration that needs a whole buffer, one that ends half way, a pair of kernels
  with streams both ways; `push_fuse_4` copies 4 bytes whatever the element size.
* An element size that does not divide the buffer size.
* The event interface: unknown handles, a module that does not parse, a shared
  memory id that is also a handle, and PauseRequest, which takes its handle for a
  pointer; a connection that fails is read again for ever. Kernel ids are given
  out without a lock.
* An `unPauseKernel` that takes effect while `removeKernel` waits for the lock
  makes the kernel active again, and it is deleted under its work function
  (`RemovedIsStill`; the theorem has the hypothesis `NoLateUnPause`).

## 4. Proofs

The theorems hold for every value of the constants: any graph, number of threads,
workers, clients, slots, element size. They use the assumptions the modules
state, which TLC evaluates in every run: that kernels, threads and the special
values differ, that the body of a kernel is a sequence of operations on its
streams, that a stream has two different ends, that a ring has at least two slots.
Each proof has an inductive invariant, which TLC was made to check on the
instance of the run before it was proved, a lemma for the initial states, and
one step per action.

**Stream_proofs**, the ring: `Invariance`, `TypeCorrect`, `NoOverwrite` (`Unread`),
`CopiesApart` (`NoTornCopy`), `RingIsFifo` (`ImplementsFifo`). Neither `Unread`
nor `NoTornCopy` is inductive: that the slot a push is about to fill is free
depends on a test made earlier. `IInv` adds `Positions` (head and tail are the
slots of the numbers of pushes and pops), `PushLocals` (once the test succeeded
there is room, and only the producer can use it up; before Publish the new
element is in its slot), `PopLocals` and `PeekLocals` (the copy of `head` is one
of the values it had since the last pop). The lemmas reduce offsets to element
numbers: consecutive numbers less than `SLOTS` apart have different slots, and
advancing an offset modulo the buffer advances the number. For the refinement,
`ContentsAre` shows that the mapped queue is the sequence of numbers from
`num_pop` to `num_push - 1`; PushPublish is then Put, PopPublish Get, PeekCopy
Look, and every other step stutters.

**Stream_proofs**, the end of a stream (any capacity and any choice of who ends
when): `EndInvariance`, `EndTypeCorrect`, `NoUseAfterFree` (`UsedLive`). `EndInv`
adds that a mark, buffered or not, is set only by a kernel past its last operation
(`Marked`), and that a kernel about to free has seen the other's mark in memory
(`SeenOther`).

**BatchWork_proofs**: `BatchInvariance`, `ReadsArePushed` (`NoUnderrun`),
`WritesAreFree` (`NoOverrun`), `BuffersAreExact` (`BufferExact`). What the batch
relies on is the hypothesis `Kept`: the work function keeps to the rates
(`KeepsRates`), the element size of `compute_niters` is the stream's, and the
unsigned difference cannot both wrap and be divided (`Countable`; section 3 says
what happens otherwise). `BuffersAreExact` also assumes that the fused body
writes and reads its buffers equally often (`Balanced`). These are conditions on
the compiled kernel alone; that the kernels SKIRTransform makes meet them was
evaluated by TLC for the kernels of the `batch` run. `BatchInv` says that a
stream already measured holds the elements (`Enough`) or free slots (`Roomy`) of
all remaining iterations, less what this iteration passed: the neighbours only
add to them. `InputOK` and `OutputOK` tie offsets to element numbers although,
with local copies, the kernel's own offset is an iteration behind.

**KernelT_proofs**: `LockDiscipline`, `PauseExcludesWork` (`PausedIsStill`),
`RemoveExcludesWork` (`RemovedIsStill`). `LockInv` says who holds the kernel's
spin lock at each place. For the removal, `RemoveInv` says that the kernel is not
active from the first step of `removeKernel` on, which needs `NoLateUnPause`.

**KoroSched_proofs**: `SchedInvariance`, `KernelsKept` (`NoneForgotten`),
`StreamsFreedOnce` (`FreedOnce`), `InputsDrained` (`Drained`). `SchedInv` has the
life of a kernel (`LifeInv`), which ends of a stream are marked (`EndsInv`), the
queue without repetitions when nothing is stolen (`QueueInv`) and that nobody
pushes any more to a kernel its input ended (`DrainInv`); four lemmas say what enqueueing
and dequeueing do to the set and the repetitions of a queue.

**TbbSched_proofs**: `TaskInvariance`, `RunningIsExact` (`RunningCounts`),
`TaskHasOnePlace` (`OnePlace`), `WorkersExclude`, `KernelsKept`
(`NoneForgotten`). `running` is tested under the kernel's lock and changed by the main
thread and by workers: `LockInv` says who holds which lock, also that of a
blocker whose task is stolen, `CountInv` that a kernel has a task exactly when
`running` is not 0, and only one, `PlaceInv` that a task is in the pool or with
one worker. `WorkersExclude` follows: no two workers are in one kernel.

**SingleSched_proofs**: `SingleInvariance`, `NeverTwoCopies` (`OneCopy`).
`CopyInv` excludes a second holder beside a thread or the queue, and says that
while the kernel is somewhere the program waits for that call, so that it does
not push it again.

**D4R_proofs**: `CountInvariance`, `CountsOnlyGrow` (`CountsGrow`). Words of tags
are loaded and stored without the lock, so that the comparison a copy rests on
may be old, and its label may be put together from two. The count stays in
order all the same (`OrderInv`): from the moment a kernel has found its blocker's
tag to be the greater one until it has stored the count, its own count is at most
the blocker's, which can only have grown since, and the one it has loaded; and the
private count it is about to publish is at least its own. Since the argument uses that
counts grow, the property is proved together with the invariant.

**RuntimeEvents_proofs** is about the runtime's instructions, the graph and the
event interface, for every program, every client, every capacity and any number
of kernels. What the code relies on without testing it is a hypothesis of the
theorems, each of which TLC was made to check on the programs of the `runtime`
run.

* The graph: `GraphInvariance`, `GraphConnected` (`Connected`),
  `DeadStreamsFreed`. The hypothesis `ProperCall` (true in every state of the
  run): a program calls kernels that are not running, with streams whose end on
  that side no running kernel has. Neither `callKernel` nor `allocateStreams`
  tests the latter, and a second producer would replace the first in `s->src`.
  `Connected` is not inductive: that `done` of one kernel frees nothing another
  uses needs that the streams a kernel holds exist (`Known`), that ends name
  kernels or special values (`StreamsOK`), that only running kernels have an
  implementation and that ids are dense (`KernelsOK`; `handleBecomeInst` makes
  a kernel no stream knows). `Connects` carries the argument for call and become;
  for `done`, `MarkStep` (the kernel gives up the end it marks, and holds the
  rest) and `FreeStep` (a stream with two dead ends is held by nobody, so it does
  not matter who frees it, or how often). All this holds for any number of
  threads. `DeadStreamsFreed` is about one: a stream with two dead ends is the
  one that the kernel in `done` has just marked and will look at next
  (`EndsInTurn`).
* Clients: `EventInvariance`, `ClientCalls` (`CallsConnect`), `ClientConnected`.
  `Scripts` is a condition on the script alone: each handle is chosen for one
  object, each kernel called once, each end of a stream given to one kernel.
  `NoBecome` excludes kernels that replace themselves, as the kernel a handle
  stands for would then have no streams. The order and the repetition of
  requests are free. `EventInv` says what each handle stands for and that no two
  stand for one object (`HandlesOK`; a repeated request makes a new object for
  its handle, which nobody has used), and that every call sent is executed or is
  the one the main thread is about to execute (`Phase`). Each client's calls are
  then proper, so `Connected` holds for it without the hypothesis above.
* Waiting: `WaitInvariance`, `WaitReturnsLast`, `NoAssertionFails`, `WaitFrees`:
  when main's waits have returned, every kernel called at any depth of the
  hierarchy is done, on any scheduler and any number of threads (`AllDone`); on
  one thread, every stream between two of them is freed (`AllFreed`), which
  together is `WaitedAll` but for the contents of the file; and on one worker of
  SKIRTbbSched no assertion fails (`Safe`): no kernel is called while it runs, no
  wait is for a kernel its scheduler does not know, no end is taken of a freed
  stream. The first two say nothing of a program that an assertion has
  stopped, as SKIRKoroSched's `waitKernel` may. `RunInv` joins the
  invariants of the graph and of the waits with `EndsInTurn` and `CalledTree`
  (what is waited for, now or through children, was called). `Disciplined` has `ProperCall` and
  `NoBecome` (waiting for a kernel that became another fails the scheduler's
  assertion, or misses the new one) and `ProperWait`: only main waits, for what
  it called, it has a wait for every kernel it calls itself, and no kernel is
  called twice. The networks of the `runtime` run satisfy it; remote clients,
  which never wait, do not. `MainCode` says that main is a sequence of
  instructions. Reachability through `children` is stated without
  recursion: every set that has what main waits or will wait for, and with a
  hierarchical kernel its children (`Covering`), has every kernel that is called
  and not done (`Reached`). A call under a work function adds a child to a kernel
  on the stack, and `Reached` also says that such a set has the kernels on the
  stack; `waitChildren` and `waitKernel` drop a kernel from `waiting`, and the
  proof puts it back into the set.

Only model-checked:

* all liveness properties, and with them the fairness assumptions;
* `Faithful`, the output in `WaitedAll`, and `WellFormed` and `Agrees` of
  StreamItCompile: they compare with what a network or a syntax tree denotes,
  which is induction over it; FEIRToSKIR, StreamItRef and StreamItCompile also
  use RECURSIVE operators, for which the prover has no backend, and so does
  `TopoSorted`, which is in RuntimeGraph to keep RuntimeEvents free of them;
* that the programs of a run satisfy `Disciplined` and `Scripts`, and that a
  program's network leaves no stream with one end uncalled;
* that SKIRTransform yields kernels that satisfy `Kept` and `Balanced`: this is
  induction over the sequence of operations of a work function;
* that a deadlock is reported (D4R), which is a liveness property.

## 5. What is open

`NoBecome` in the theorems about clients and waits: the new kernel of a become
would have to stand for the old one in `children` and in the handle map, which
the code does not do. That the data-parallel splitter, joiner and copy of a
kernel that keeps its rates keep theirs. For `kernel_t`, which transitions out of
DONE there are besides a new call (`unpause` is one, section 3).

## 6. Not modelled

* The LLVM passes (which variant of an operation replaces an intrinsic), IR
  cloning and lowering: they rewrite code and keep no state that the properties
  above are about.
* The OpenCL scheduler and the C backend it uses: they need a device whose
  behaviour the source does not show.
* The merge scheduler: the code that creates it is commented out.
* TBB itself; `stop()` of the schedulers; `removeKernel`, `merge_cb`,
  `loadCallback` and the monitor thread of the work-stealing scheduler.
* Fission, `checkStoreAddress` (which kernels have state), and the way
  SKIRDPSched replaces a kernel in the graph.
* Lexer and parser of the front end (generated from a grammar), user functions
  and `return`; options and start of `skir-lli`; RunModuleRequest, PauseRequest
  and StateRequest GET.

# TLA+ models of the TensorFlow runtime

This directory holds TLA+ models of the part of TensorFlow that runs a step:
what decides which op runs next, how ops in different places, on one machine or
two, hand tensors to each other, where their memory comes from, how requests are
batched, and how a step is cancelled, fails and ends.  Nearly all of it
is multi-threaded C++ whose correctness rests on the order of a few critical
sections, counters and callbacks, which is what a model checker can explore and
a unit test hardly can.  Paths below are relative to `src/tensorflow/core/`.

## The system

### Inventory

| Component | State | Operations | Interacts with | Hard because |
|---|---|---|---|---|
| `CancellationManager` (`framework/cancellation.*`) | two flags, a notification, a map of callbacks, a token counter | `get_cancellation_token`, `RegisterCallback`, `DeregisterCallback`, `TryDeregisterCallback`, `StartCancel`, `IsCancelled` | every cancellable op; runs their callbacks | `StartCancel` runs callbacks outside its lock while clients deregister, and a client that has deregistered frees what the callback uses |
| `LocalRendezvousImpl` (`framework/rendezvous.cc`) | a table of queues of messages or waiters, a status | `Send`, `RecvAsync`, `StartAbort`, the cancellation callback of a `RecvAsync` | Send/Recv ops, the manager, the executor's abort | four kinds of caller race for the same waiter, and each calls it after releasing the lock; two locks are nested |
| `ExecutorState`, life of a step (`common_runtime/executor.cc`) | atomic count of outstanding ops, first error, count of deferred ops, done callback, the object itself | `RunAsync`, `Process`, `NodeDone`, `ScheduleReady`, `ScheduleFinish`, `Finish` | rendezvous, collectives, manager, device, thread pool | the last of many threads deletes the object; deferred device work and the last op decide between them who that is |
| `ExecutorState`, propagation (`executor.cc`, `pending_counts.h`) | frames, iterations in circular buffers, pending and dead counts, deferred NextIterations, dead exits | `PropagateOutputs`, `ActivateNodes`, `FindOrCreateChildFrame`, `IncrementIteration`, `CleanupIterations`, `DeleteFrame` | the above | loops run several iterations at once, state is collected while others may still deliver to it, deadness must stop in the right place |
| `PendingCounts` (`pending_counts.h`) | per node of an iteration: pending and dead counts and a flag, in 8 bits or in two words | `set_initial_count`, `adjust_for_activation`, `decrement_pending`, `increment_dead_count`, `mark_live`, `mark_started`, `mark_completed` | `ActivateNodes`, `Process` | one field holds a count, a flag and a state; inputs arrive after the node has run |
| `DirectSession`, `ExecutorBarrier` | run states, the barrier's count and status | run, partial run, cancel, close, timeout | one executor per device, shared rendezvous and manager | several executors end one step; timeouts race completion |
| `BFCAllocator` (`bfc_allocator.cc`) | chunks linked in address order, bins, regions, chunks that wait for the device, the safe frontier | allocate, free, extend, collect regions, merge timestamped chunks | devices, `AllocatorRetry` | long histories of splits and merges; regions go back to the device; a chunk may be free and not yet safe |
| Queues (`kernels/queue_base.cc`, `fifo_queue.cc`) | elements, enqueue and dequeue attempts, closed flag | try-enqueue(-many), try-dequeue(-many, -up-to), close, cancel | manager, executor | batches half done when the queue is closed; attempts cancelled while others are being flushed |
| Collectives (`buf_rendezvous.cc`, `collective_param_resolver_local.cc`, ...) | hooks per key, group and instance records | provide, consume, abort, resolve | executor, devices | abort races both sides |
| `SharedBatchScheduler` (`kernels/batching_util/shared_batch_scheduler.h`) | a list of queues of batches, a position in it, batch threads, handles | `AddQueue`, `Schedule`, `SchedulingCapacity`, the round of a thread, closing a handle, the destructor | batch kernels, clock | a thread asks a queue three times under three locks; queues are deleted in the round; timeouts are not announced |
| Rendezvous of workers (`distributed_runtime/base_rendezvous_mgr.cc`, `rpc/rpc_rendezvous_mgr.cc`, `rpc/grpc_state.h`) | per step: status, active and deferred calls, the local rendezvous; per process: a free list of calls | `Initialize`, `Send`, `RecvAsync`, `RecvLocalAsync`, `StartAbort`, `RegisterCall`, `DeregisterCall`, an RPC with retries | gRPC, manager, `LocalRendezvous` | aborts race the start and the retry of an RPC; call objects go from step to step |
| GPU `EventMgr`, eager executor, run handler pool, `AllocatorRetry` | queues and a worker thread each | enqueue, poll, flush | executor, kernels | shutdown and error states |
| Master and workers (`distributed_runtime/`) | sessions, partial runs, recent request ids | RPC handlers | gRPC | lost and retried calls |
| Function runtime, graph construction, placement, Grappler, kernels, tf.data, XLA, TF-Lite, front ends | - | - | - | mostly sequential or numeric |

`PROJECT.json` lists every component with what is modelled of it, and every
hazard with the line where it bites and the properties that guard it.

### What makes each modelled component correct

* *CancellationManager*: after `DeregisterCallback` returns, the callback is not
  running and never will; what it returns is exact; no callback runs twice or
  is forgotten; a blocked client is woken.
* *LocalRendezvous*: each `RecvAsync` is answered exactly once; each accepted
  message is delivered exactly once, in order, unless the step is aborted;
  abort and cancellation leave nobody waiting.
* *Executor, life of a step*: the count of outstanding ops is exact; `Finish`
  and the done callback are called once; nothing refers to the object after
  `delete this`; the first error is what the step reports, after it has aborted
  the rest; the step ends.
* *Executor, propagation*: whatever order the threads take, exactly those nodes
  run, once, live or dead, that the dataflow graph means to run; nobody refers
  to a frame or an iteration that has been collected; at most
  `parallel_iterations` iterations are alive; everything is collected.
* *PendingCounts*: the counts never wrap; they say what has arrived; the node is
  activated once, when its inputs make it ready, dead or live as they say.
* *Queues*: each attempt's callback is called once, however completion, Close
  and cancellation race for it; no element is lost or doubled; nobody waits on
  a closed queue or for a cancelled step.
* *Rendezvous of workers*: an abort or cancellation is reported by the calls of
  its own step and by no other; an aborted call never ends in success; a
  request that meets its producer locally is answered or aborted.
* *BFCAllocator*: the chunks tile the regions and are linked in order; no byte
  has two owners; an allocation fails only if it has to; memory is not handed
  out before the device is done with it.
* *Batch scheduler*: a queue lives as long as anyone needs it; closing a handle
  waits for all its tasks; the promised capacity is there; every accepted task
  is processed.

## Modules

| Module | Models | Composes |
|---|---|---|
| `CancellationManager` | the state and operations of `framework/cancellation.cc`, without a next-state relation of its own | |
| `CancellationClients` | the manager under arbitrary clients that follow the usage pattern of `cancellation.h` | extends `CancellationManager` |
| `CancellationProofs` | theorems about `CancellationClients` | |
| `LocalRendezvous` | `LocalRendezvousImpl`: `Send`, `RecvAsync`, `StartAbort`, cancellation callback | extends `CancellationManager` |
| `LocalRendezvousProofs` | theorems about `LocalRendezvous` | |
| `ExecutorState` | the life of one `ExecutorState`; which ops become ready is left open | |
| `ExecutorFrames` | `PropagateOutputs` and everything below it, over an arbitrary control-flow graph | |
| `ExecutorMeaning` | the reference: what a control-flow graph means, and that this is what runs | extends `ExecutorFrames` |
| `ExecutorProofs` | theorems about `ExecutorState` and `ExecutorFrames` | |
| `NodeActivation` | abstract: when a node is activated, from the sets of its live and dead inputs | |
| `PendingCounts` | `ActivateNodes` on the packed counts of one node | implements `NodeActivation` (`INSTANCE ... WITH`) |
| `PendingCountsProofs` | theorems about `PendingCounts`, the refinement among them | |
| `FIFOQueue` | `QueueBase` and `FIFOQueue` with the cancellation managers of their callers | |
| `FIFOQueueProofs` | theorems about `FIFOQueue` | |
| `RemoteRendezvous` | `BaseRemoteRendezvous` and `RpcRemoteRendezvous` of several steps of one worker | |
| `RemoteRendezvousProofs` | theorems about `RemoteRendezvous` | |
| `BFCAllocator` | the allocator and its clients | |
| `BFCAllocatorProofs` | theorems about `BFCAllocator` | |
| `SharedBatchScheduler` | the scheduler, its queues, batch threads and clients | |
| `SharedBatchSchedulerProofs` | theorems about `SharedBatchScheduler` | |
| `MC...` | instances for TLC | |

Each module ends with its properties.  An operator introduced by a comment that
begins with "Fault:" is not part of the specification: it is a plausible
mistake in the definition that follows it, kept to show that the properties
notice it (`PROJECT.json`, "mutants").

### CancellationManager and CancellationClients

One action is one critical section of `mu_`.  `StartCancel` is cut in four:
claiming the map (`StartCancel`), entering and leaving a callback
(`CallbackBegin`, `CallbackEnd`), setting `is_cancelled_`
(`StartCancelFinish`), and the notification, which comes after the lock is
released (`StartCancelNotify`).  `CancelPhase`, at the end of the module, ties
the flags and the notification to where `StartCancel` stands: whatever calls the
manager keeps it, and the proofs of both its users rest on it.  `DeregisterCallback` has one action for each
way through it and one for being woken.  A closure is named by its token.
Clients take a token, register, and deregister either way; `freed` marks the
moment from which what the callback uses is gone.

### LocalRendezvous

A key's queue is a sequence of the operations that made the items; a payload is
its Send.  `RecvAsync` calls the manager while it holds the rendezvous' `mu_`:
the variable `mu` records the holder across those calls, so that the nesting of
the two locks, and a callback that waits for `mu_` during `StartCancel`, are
part of the model.  Waiters are called outside the lock, by whoever has taken
them out.  `outcome` records what a `done` callback is or will be called with,
`arrivals` the order in which the operations reached the queue.  The bound on
the number of operations is the number of elements of `Sends`, `Recvs`,
`Aborters` and `Cancellers`, each of which makes one call.

### ExecutorState

An op is one execution of a node.  `pc` is where it stands: in a `ready` list
(`activated`), given to the pool (`scheduled`), running, in one of the stretches
of `NodeDone`, or over.  Which set of new ops a success makes ready is chosen
freely, so the model covers every graph with that many ops.  Every op is a
thread; that the code runs several of them in one `Process` call only removes
interleavings.  The manager, shared with the other executors of the step, is
reduced to the three phases that matter here, with an outside caller of
`StartCancel`.  A null rendezvous, collective executor or manager is not
modelled: the code then skips the call.

### ExecutorFrames

The state is `outstanding_frames_` and the set of threads.  One step is one
critical section of a frame's `mu` or of `mu_`.  A tensor is reduced to
`Entry::has_value`, a Switch's predicate is given by the constant `Predicates`.
A frame instance is named by its path, as `MakeFrameName` does.  The circular
buffer, the packed Merge count, the two lookups of `FindOrCreateChildFrame`
with the unlocked construction between them, deferred `next_iter_roots`, loop
invariants and dead exits are modelled as they are in the code.  The edges are
a list, as `output_edge_list()` is, and the loops of the code (over edges,
deferred roots, loop invariants, done iterations) are recursive functions.

What every graph has is the assumption `GraphAssumption`: what
`BuildControlFlowInfo` checks or the front end's `while_loop` builds.  Nodes
without inputs are outside every loop; Exits and NextIterations are within one;
`parallel_iterations` is positive; an Enter leads into its child frame, an Exit
back to the frame of the Enters, and no other edge leaves a frame; only a Switch
has a second output.

`Meaning`, in the module `ExecutorMeaning`, is the reference: what a node of an
iteration of a frame is - live, dead, or never run - defined by recursion over the
graph with no counts, threads or collection in it.  In the graphs that are checked
against it every Enter has a consumer inside the loop.  (An Enter
without one that arrives last would leave its frame uncollected, for Enter
decrements `num_pending_inputs` without cleaning up the child frame.)

### NodeActivation and PendingCounts

`NodeActivation` is what `ActivateNodes` promises for one node: the inputs that
have come are two sets, and readiness and deadness are predicates of them.
`PendingCounts` has the same inputs and, besides, the fields of `PackedCounts`
or `LargeCounts` with their widths: the pending count of a Merge is twice its
missing control inputs plus a bit for "no live input yet"; after the node has
started the field means its state.  `AdjustForActivation`, `MergeControl`,
`MergeLive` and `MergeDead` are the four branches of `ActivateNodes`, each with
the calls it makes on the counts.  Inputs keep arriving after the node has been
activated, started and completed.  The refinement maps the two sets, the node
and the list of activations to themselves.  The byte offsets of the layout are
left out: a handle is its node.

### FIFOQueue

The two deques hold the ops themselves; an attempt's fields are functions of the
op.  `TryEnqueue` and `TryDequeue` are their batch versions with one element.
Every critical section of `mu_` is one step except `FlushUnlocked`, where each
`run_callback` is one: `mu` records the thread inside, and the others stand
still.  What a flush, a Close or a cancellation has to call back outside the
lock is in the thread's `to_call`, and it deregisters each attempt first, as
`CleanUp` does, waiting when that attempt's manager is being cancelled.  Each
manager is its phase, its callbacks and the attempt whose `Cancel` it is
running, one at a time.  The arguments of the ops (batch sizes, managers,
`allow_small_batch`, `cancel_pending_enqueues`) are chosen in `Init` out of
`Args`; several attempts may have the same manager.  `WaitsForItself` names the
one way in which they then hang (see Observations), and `GuaranteedCallback`
promises an answer wherever that does not happen.  `ElementAccounting` also keeps
the order: `accepted` is the history of what was enqueued, and the queue and every
tuple hold their elements in that order.  Left out: the failures to allocate or
copy tensors (`fifo_queue.cc:133`, 198, 273, 320 and 332), with which an attempt
is answered with an error half-way.

### RemoteRendezvous

A call object, `RpcRecvTensorCall`, is a number; `call[r]` is the object that
request `r` uses, `free` the process-wide stack the objects return to.  The
steps between `New`, `RegisterCall`, the check of the status, `StartCall`, the
completion of the RPC, the retry, `DeregisterCall` and `Release` are one action
each, so aborts and cancellations come between any two.  `cancel_func` is
`CallOptions`' function, set in `StartCall` and cleared in `OnCompleted`.  A
lost RPC (`Unavailable`) is sent again up to `MaxRetries` times with a fresh
context.  gRPC and the peer are external: an RPC ends with OK, with `Unavailable`, or,
once it was cancelled, with `Cancelled`, and need not end at all until then.  A
`Cancelled` of the peer's own and an answer that cannot be parsed
(`grpc_state.h:155`) are errors like `Unavailable` but are not sent again; they
are left out, the first of them because `CancelIsLocal` could not tell it from
what it is about.  `local_` is abstracted to what `LocalRendezvous` shows of it:
tensor and consumer meet, an abort drains it and is remembered.  The manager that
a receive from the same worker hands on to it (`base_rendezvous_mgr.cc:322`) is
left to `LocalRendezvous`, where every receive may have one.  `NewCall` leaves the
object's status as it was, where `Release` has already reset it: the model then
starts from more statuses than the code, not fewer.  `RegisterCall` adds to a set,
where the `CHECK` of `base_rendezvous_mgr.cc:428` stops a process whose `active_` has
the call already.  A step that is cancelled or aborted registers nothing any more, so that
takes an object left in `active_` by the abort of another step, as in the
Observations; the model goes on from there.

`CancelIsLocal` is stated as long as one step at most has been cancelled, since
with two of them the code does not keep it (see Observations); the model has
any number of steps, cancelled in any order.

### BFCAllocator

Every public operation holds `lock_` and is one action; the private functions
are operators on a record `m` of the members, composed in the order of the
calls.  A bin is the set of chunks whose `bin` field names it, searched in the
order of size and address.  The loops over lists are recursive functions of the
number of rounds, and the size of a set of regions is the number of its `Bytes`.
Sizes are scaled (`kMinAllocationSize` is a constant), the
width of `size_t` is `SizeBits`, the back-pedalling factor, a float in the code,
is an exact fraction.  With a timing counter each freed chunk carries the count of
its release, and a client names the `freed_before` it can accept; `freed_at` is
the history of each byte against which that is judged.  `SetSafeFrontier` takes no
lock in the code, so the frontier may also move in the middle of a sweep; here it
moves between operations.  `AllocatorRetry` is not modelled: an allocation is one
try.

The `SubAllocator` is external.  `Alloc` takes the lowest hole that is large
enough.  `Free` is taken to give memory back only when the device has done with
it, as `cuMemFree` does (`gpu_mem_allocator.h:56`, `cuda_driver.cc:760`): a region
is collected as soon as its chunks are free, whatever their times
(`DeallocateFreeRegions` only asks `in_use()`), and the chunk of a new region
counts as never freed, so nothing else keeps its bytes from early reuse.  Hence
`AllocateRaw` resets `freed_at` for the regions `GivenBack`.

Collecting a region leaves the handles of its chunks on `timestamped_chunks_`
(`Strays`).  The next sweep asks for the region of such a chunk: if there is none
after its address the process dies with `LOG(FATAL)` (`NoRegionFor`); if the one it
finds lies behind the address, `handles_` is read out of bounds, which is one of
two disjuncts, to die or to skip the entry.  `hung` is also set for a process that
has died.  A stray whose address belongs to a region again is looked up there.

### SharedBatchScheduler

A batch is a sequence of tasks; the last of a queue's batches is open.  The
round of a batch thread is cut where the queue's own mutex is released: asking
whether it is closed, `ScheduleBatch`, and whether it is empty are three steps
under the scheduler's `mu_`, with clients and other threads' `ProcessBatch`
between them.  `Schedule` accepts a task and notifies the scheduler in a second
step, which needs `mu_`.  Time is reduced to whether an open batch has reached
its timeout.  `next_queue_to_schedule_` is the queue it points to, or `End`; its
position is looked up, and a queue is erased there.  `End` also stands for a null
`queue_for_batch`, set together with `batch_to_process`.  A client closes its
handle, which waits for the queue to be empty,
and the destructor waits for the queues to be gone.  `SchedulingCapacity` keeps
its two differences in an `int`, which `ToInt` converts to as the platforms do, and
multiplies and adds modulo `2^SizeBits`; `promised` is what it told the client and
has not been used up.  `CapacityKept` is stated for limits that the two `int`s can
hold (`LimitsFitInt`); for others the code breaks it (see Observations).  A wrap of
the sum itself only makes the promise smaller.

## Runs

| Run | Instance | Shows |
|---|---|---|
| `cancellation` | 3 clients, 2 cancellers | safety of deregistration, exact results, completion |
| `is_cancelled_doc` | 2 clients, 2 cancellers | expected violation, see Findings |
| `rendezvous` | 1 key, 2 sends, 3 receives (2 cancellable), 1 abort, 1 cancellation | the rendezvous' properties |
| `executor_state` | 3 ops | the life of a step |
| `derived_doc` | 2 ops | expected violation, see Findings |
| `executor_loop` | a 19-node graph: loop in a conditional, at most 3 trips, 2 parallel iterations | propagation, dead branches, deferral |
| `executor_nested` | a 16-node graph: loop in a loop, at most 2 trips in all, 2 parallel outer iterations | frames inside iterations, their collection |
| `pending_counts` | 6 nodes with 2 to 8 inputs: at and beyond the limit of either count, Merges, a loop's Merge, a ControlTrigger | no wrap, exact counts, the refinement of `NodeActivation` |
| `queue` | capacity 1; an enqueue of 0 or 2, a dequeue of 2, up to 2 or 3, a Close of either flavour; the step of either or of both is cancelled | one answer each, no element lost or overtaken, an answer for everyone the Close or the cancellation reaches, unless a `StartCancel` waits for itself |
| `remote_rendezvous` | 2 steps, a remote receive of each, a peer's request, an abort, a cancellation, 1 retry | errors stay in their step and are not lost; no local request is left waiting |
| `bfc` | 3 clients, requests of 1, 3 and 6 bytes, a device of 8, limit 10; plain, with garbage collection, or with that and a timing counter | the tiling, disjoint blocks, no false out-of-memory, no early reuse |
| `batch` | 2 queues, 2 threads, five tasks of sizes 1, 2 and 4 for batches of 2, two enqueued batches, `int` and `size_t` of 3 bits | life of a queue, closing, capacity, progress |

The passing runs check for deadlock, except `bfc` and `batch`; the `MC` modules
add a stuttering step where the system legitimately stops.  In `bfc` the bound
`MaxCount` on the timing counter ends a behaviour; in `batch` everything stops
once the destructor has returned.

*Bounds.*  Two cancellers are needed for one to return early.  Three clients
give, at once, one whose callback runs, one that waits and one that leaves.
Three receives make a queue with a middle; one key is enough because keys share
nothing but `mu_`, the abort and the cancellation.  Three ops give two
concurrent `NodeDone`s besides the op that made them ready, and two deferred
ops besides the last one.  Three trips with two parallel iterations wrap the
three-slot buffer and defer a NextIteration; in the nested graph two trips of
the outer loop make the third iteration wait for the first one's inner frame.
The nodes of `pending_counts` stand on both sides of the packed limit of 7 in
each of the two counts.  With capacity 1 a batch of two cannot be enqueued or
dequeued in one flush, so Close and cancellation meet both half done; the step
that is cancelled is either one's.  One object per remote call and two steps are
what reuse of a call takes; one retry is enough to lose and resend an RPC
around an abort.  Eight bytes hold four smallest chunks: the middle of three
neighbours, splits, a second region smaller than asked for and its collection
all occur.  With a factor of 2/3 back-pedalling comes down to a size the device
has, or to none.  Collection comes alone and with the counter, which is how the
one allocator that gets a counter is set up by default
(`gpu_process_state.cc:122`, `gpu_bfc_allocator.cc:58`); the other setup is a plain
one.  Three counts of the timing counter put a release before, between and after
what a client accepts and the frontier.  Tasks that fit, fill and exceed a batch
meet a queue with one batch to spare and with none, so that both terms of the
capacity count; the second queue, opened beside at most one task, gives the round
something to go to, to close and to delete.  A client asks for the capacity again
only when its last answer is used up or smaller: an answer that is replaced
earlier can disappoint nobody.

*Fairness.*  Only what the thread pool and the operating system give: a thread
inside a call goes on; a closure given to the runner is run; a kernel returns;
a device reports the end of deferred work.  Nobody is obliged to call
`StartCancel`, `Send`, `RecvAsync` or `StartAbort`.  A callback that waits for a
mutex gets it when the mutex stays free (weak fairness).  In `ExecutorFrames`
weak fairness of the next-state relation is written without `ENABLED`; a thread
that is stuck would be reported as a deadlock.  In `FIFOQueue`, and for the
clients and the destructor of `SharedBatchScheduler`, whoever waits for a mutex
that is free again and again gets it (strong fairness: the mutexes of the
platform do not starve a thread for ever).  In `RemoteRendezvous` the threads of
this worker go on and a cancelled RPC ends; no peer has to answer.  In
`SharedBatchScheduler` the batch threads run, processing returns, and time
passes, so an open batch reaches its timeout; nobody has to schedule or close.

## Findings

* `is_cancelled_doc`: `cancellation.h:59` documents `IsCancelled()` with
  "Returns true iff StartCancel() has been called."  The flag is set after all
  callbacks have run, so it may be false long after a `StartCancel` has been
  called, and even after another one has returned.
* `derived_doc`: the comment at `executor.cc:2276` says that consulting
  `IsCancelled()` "ensures any errors triggered by cancellation are marked as
  derived".  For the reason above it does not: an op that fails because its
  cancellation callback ran (as `kernels/queue_base.cc:199` does) may be
  recorded as the step's first error while `StartCancel` is still in its loop,
  unmarked.

The comment at `executor.cc:2759` ("pending's LSB is set iff a live data input
has arrived") says the opposite of the code and of the comment at 2774, which
the model follows.

### Observations

Other places met while modelling where the code does not do what a comment or a
reader expects.  The models contain the behaviour (their properties are stated
so that they hold with it, or the instance keeps away from it as said); there is
no run that expects it.

* `queue_base.cc:331`: `QueueBase::Cancel` runs inside `StartCancel` and flushes
  the queue.  If the flush completes another attempt of the same step, its
  `DeregisterCallback` waits for the `StartCancel` it is called from, and both
  attempts, the step and every later `StartCancel` hang, against the guarantee of
  `queue_interface.h:42`.  The run `queue` contains this case; the hypothesis of
  `GuaranteedCallback` names it.
* `executor.cc:2765`: a control edge that reaches a Merge after a dead Enter does
  not activate it, though the comment at 2781 says that a dead Enter makes it
  dead.  `ImplementsActivation` assumes `LoopMergesUncontrolled`, which holds for
  the loops the front end builds.
* `executor.cc:1705`: with logging on, `mark_started` is called for dead Merges,
  whose pending count is 1, against the `DCHECK_EQ` at `pending_counts.h:117`.
* `rpc_rendezvous_mgr.cc:261`: an abort between the check of a call's status and
  the moment `StartCall` sets the cancel function cancels nothing, and the RPC is
  sent; the receive then ends when the peer answers.  A call that is cancelled
  between `RegisterCall` and line 261 goes back to the free list while `active_`
  keeps its address, and a later abort of the step may reach another step's call.
  From there it takes two more steps of a worker to carry a cancellation across:
  the abort of the first step marks the call of a second, which is then released
  at line 261 too, leaving its callback and its entry in `active_` behind; when
  the second step is cancelled, that callback finds the entry and cancels the
  call of a third step, which by then owns the object.
* `base_rendezvous_mgr.cc:379`: `StartAbort` does not answer `deferred_calls_`.
* `bfc_allocator.cc:752`: a sweep of the timestamped chunks can leave two free
  neighbours unmerged; a forced sweep (756) can leave a chunk with a timestamp on
  no list.
* `bfc_allocator.cc:352`: collecting a region leaves the handles of its chunks on
  `timestamped_chunks_`.  With garbage collection and the timing counter together,
  the default for GPUs, the next allocation may then die with "Could not find
  Region" (`bfc_allocator.h:347`) or read outside of another region's handles.  The
  model takes both ways; the run `bfc` reaches them.
* `bfc_allocator.cc:121`: a request may fail though the device has a hole of just
  its size, since `Extend` asks for `curr_region_allocation_bytes_`, which may be
  more, and back-pedals only once in the allocator's life.  `NoFalseOom` claims no
  more than that.
* `bfc_allocator.cc:129`: for sizes up to nine units, `RoundedBytes(bytes * 0.9)`
  is `bytes` again; if the device refuses such a size the loop does not end.  With
  the run's factor of 2/3 that happens for a size of one unit only.
* `shared_batch_scheduler.h:582`: `max_enqueued_batches = 0` is accepted; once the
  open batch holds something, the capacity is then less than zero, as a `size_t` a
  huge one.  The same can happen with a `max_batch_size` of 2^31 or more and with
  more than 2^31 batches, whose difference does not fit an `int`: the client is
  promised what the queue does not have.

## Proofs

Proved with TLAPS.  `CancellationProofs`, for any number of clients and
cancellers, from no assumption but that `NoToken` is not a number:

* `CancellationTypes`: `Spec => []TypeOK`
* `DeregisterIsSafe`: `Spec => []SafeToFree`
* `DeregisterIsExact`: `Spec => []DeregisterResultExact`
* `CallbacksRunOnce`: `Spec => []CallbackAccounting`

All follow from one inductive invariant, `IInv`.  The properties alone are not
inductive: that a callback cannot be live after `DeregisterCallback` has returned
false depends on who claimed the map.  `IInv` says that at most one
`StartCancel` ever passes its first critical section and ties the two flags and
the notification to where it stands; that tokens are distinct and below the
counter; and, for each client, in which of the places (map, local map, being
run, done) its callback is, as a function of what the client has been told.

`ExecutorProofs`, about `ExecutorState`, for any finite set of ops and so for any acyclic graph of
executions, from `OpsAssumption` (the set is finite; the two statuses are not
ops):

* `ExecutorTypes`: `Spec => []TypeOK`
* `CountIsExact`: `Spec => []OutstandingExact`
* `DeleteIsSafe`: `Spec => []NoUseAfterDelete`
* `FinishIsCalledOnce`: `Spec => []FinishOnce`
* `FirstErrorIsReported`: `Spec => []FirstErrorReported`

Here too one inductive invariant, `IInv`, carries the first four.  That the count is
exact needs `ReadyLists`: the `ready` lists of concurrent `NodeDone`s are
disjoint and hold only ops nobody has scheduled, so adding the size of one of
them adds exactly its ops; and `FailedStops`: an op that failed has made nothing
ready, so the branch of `NodeDone` that only subtracts forgets nobody.  That the
object is deleted once, and last, needs `OneFinisher`: the right to call
`Finish` comes into being when the count reaches zero and is in one place from
then on - with that op, with the deferred ops
(`finish_when_deferred_ops_done_`), with the last of them, or used up - and
`Ending`, which ties the done callback, `alive` and the two ways a run can end
to where that right is.  The lemma `NothingCounted` closes the argument: when
the count is zero, no op is on its way in any `ready` list and `RunAsync` has
handed out its last root.  `FirstErrorIsReported` adds `EInv` to it.  `first_error`
is a history: the op whose `NodeDone` first took `mu_` with an error, noted
whatever becomes of `status_`.  `Recorded`: `status_` agrees with it at every
moment, so no later error has replaced it.  `Aborted`: that op aborts the
rendezvous, the collectives and the step; until it has, it is still counted, so
nobody can call `Finish` before it.  `Handed`: what `Finish` moved out of `status_`
is what the done callback is given.

`ExecutorProofs`, about `ExecutorFrames`, for every graph, every number of parallel
iterations and whatever the Switches are told, from `GraphAssumption` alone:

* `FramesInvariant`: `FramesSpec => []FramesIInv`
* `NothingDangles`: `FramesSpec => []NoDanglingFrame`
* `Parallelism`: `FramesSpec => []ParallelIterations`

Neither property is inductive: that an iteration is still there when a thread comes
back to it depends on the counters, that these suffice depends on no node being
made ready twice, and that a collected frame is never created again depends on the
Enters.  The inductive invariant `FramesIInv` has these parts.

* `FramesInv`, for each frame: `Window`, the circular buffer holds exactly the
  last `num_outstanding_iterations` iterations, each in its slot (with one slot to
  spare, so the state of iteration `i - 1` is never mistaken for another's), and
  inputs can be missing only while iteration 0 is there; `Tallied`,
  `outstanding_ops` and `outstanding_frame_count` of an iteration are no less than
  the tagged nodes and the child frames that count in it, so what has something
  outstanding is not done; `Pendings`, of a node that has run or is to run nothing
  is pending any more.
* `OnceInv`: a node that is not a Merge is in the hands of one thread and has not
  run before.  `Pendings` carries it through `ActivateNodes`.  A Merge can be made
  ready by a live input or by dead ones; the counters count it in either case, so
  the bound of `Tallied` holds for it without `OnceInv`.
* `InputsInv`: `num_pending_inputs` is the number of Enters that have not delivered.
  A frame that is done has none left, so no Enter will look for it again.
* `ProcOk`, `EndsInv`, `ParentsInv`: what a thread refers to, by where it stands in
  `PropagateOutputs`; one thread at most deletes a frame; every frame has its
  parent.

`Section` states the part about one frame for a critical section that is under way:
the frame's state, what is in the thread's `ready` list, and what the others hold.
Lemmas show that each function of `FrameState` keeps it - `ActivateNodes`,
`AddLoopInv`, `IncrementIteration`, `CleanupIterations` - and the actions are put
together from them.

`PendingCountsProofs`, for any set of nodes with any finite numbers of inputs,
and any width of the packed field, from `NodeAssumption` (in-edges are finite,
data and control edges distinct, Enters are data edges, and a word is wide
enough for twice the in-edges) and `LoopMergesUncontrolled` (see Observations):

* `CountsFit`: `Spec => []TypeOK`, that is, no count ever wraps in the layout that
  `CreateHandle` has chosen
* `CountsAreExact`: `Spec => []CountsExact`
* `CountingImplements`: `Spec => ImplementsActivation`, the refinement of
  `NodeActivation`

The inductive invariant is `TypeOK`, `CountsExact` and `Rest`.  `CountsExact`
relates each field to the cardinality of a set of inputs, so every step of the
proof is a statement about adding one element to a finite set; `Rest` says that
the node has been activated iff the sets make it ready, without which a late
input could not be told from the one that activates.  The lemmas treat the
branches one by one (`PlainStep`, `MergeControlStep`, `MergeLiveStep`,
`MergeDeadStep`) and state for each both that the invariant is kept and that the
step is a step of `NodeActivation`; `MarkStep` shows that starting and completing
are stutters.

`LocalRendezvousProofs`, for any sets of keys, sends, receives, aborts and
cancellations, from `NoTokenAssumption` and `OpsAssumption` (the operations
are distinct things, a cancellable receive is a receive):

* `RendezvousTypes`: `Spec => []TypeOK`
* `EveryWaiterAccountedFor`: `Spec => []ReceiverAccounting`
* `EveryMessageAccountedFor`: `Spec => []MessageAccounting`
* `CallbacksAreReleased`: `Spec => []CallbackReleased`
* `DeliveryIsFifo`: `Spec => []Fifo`

The inductive invariant `IInv` says who holds `mu_` (`Locking`); that a key's
queue holds messages only or waiters only, none twice (`Queues`); that tokens are
distinct and filed (`Tokens`); that whoever is about to call a waiter is the one
its `outcome` names (`Holders`), which is why a `Send`, an abort and a
cancellation can never hold the same one; and from that in which place an
unanswered receive (`Places`) or an accepted message (`Messages`) is, and that
its callback is gone (`Released`).  `Fifo` is about histories, and needs `OInv`
besides: every queue is a subsequence of the arrivals on its key, everything that
arrived before the head of a queue has been taken or answered, and the matched
pairs are ordered alike on both sides.  Most of its lemmas are about sequences
from which one element has been removed.

`RemoteRendezvousProofs`, for any finite number of remote receives and any number
of steps, aborts and local requests, from `RemoteAssumption` (the kinds of
requests and statuses are distinct):

* `AbortAlwaysMarks`: `Spec => []AbortLeavesMark`
* `CallsAreExclusive`: `Spec => []Ownership`, where `Ownership` says that a call
  object is held by one receive or on the free list, once
* `CancellationStaysLocal`: `Spec => []CancelIsLocal`

`AbortLeavesMark` is inductive together with `Ownership`, without which a mark on
an object would not be a mark on one receive's call, and `CancelMarks` (an RPC
that was cancelled is one of a marked call).  `CancelIsLocal` needs more, because
an object may be in the `active_` of a step that no longer holds it: before any
cancellation `active_` is exact (`BeforeCancel`); of the one step that is
cancelled, a callback finds its call in `active_` only while its own receive
holds it (`CallbacksOwn`); so a call that carries `Cancelled` is held by that
step (`CancelledOwn`).

`SharedBatchSchedulerProofs`, for any sets of queues and tasks, any finite number
of threads and any sizes and limits, from `BatchAssumption`:

* `QueuesAreKeptWhileUsed`: `Spec => []KeptWhileUsed`
* `CloseCoversTasks`: `Spec => []CloseCovers`
* `NextQueueExists`: `Spec => []NextIsListed`, the `DCHECK` of `ThreadLogic`
* `CapacityIsKept`: `Spec => []CapacityKept`

`BatchAssumption` says that a batch may hold something, that tasks have a size,
that an `int` has one bit more than its positive half and that `size_t` is no
narrower than `int`.  The condition `LimitsFitInt` in `CapacityKept` is the one the
code does not check (see Observations); under it `ToInt` gives both differences
back unchanged (they are below `2^SizeBits` and below half of `2^IntBits`), and what
is left is a sum modulo `2^SizeBits`, never more than the room there is.

The invariant has four parts.  `Loop`: a thread inside the loop holds `mu_`, has
no more queues left to try than there are, and what it saw closed is still
closed; that is why the snapshot taken before `ScheduleBatch` is good enough.
`Counted`: `num_batches_being_processed_` is the number of threads with a batch
of the queue.  `Handles`: a handle whose client waits has work left, one that is
closed has none.  `Accepted`: an accepted task is in a batch of its queue or of a
thread that has yet to process it.  `CapacityIsKept` adds `Promises`: the batches
of a queue and the open one are within their limits, and whoever was told that
there is room still has it, as `Spare` counts it.  `Room` is the same count on
numbers alone, which keeps its product apart from the sequences.  That `Size` of
a longer batch is the sum it should be is shown by looking at the least length
for which it is not (`WFMin` on the naturals).

`FIFOQueueProofs`, for any capacity, any numbers of enqueues, dequeues, closes and
cancelled managers and any batch sizes, from `QueueAssumption` (the capacity is
positive, the kinds of calls are distinct, a manager is not an op):

* `EveryAttemptAnsweredOnce`: `Spec => []AnsweredOnce`
* `NoElementIsLost`: `Spec => []ElementAccounting`

`QueueInvariant` proves the invariant both rest on.  `OInv` is about the
callbacks.  `Lists`: nobody is twice in a deque or in a thread's list of
callbacks, nor in the lists of two threads.  `Places`: by how far its call has
come, an op is answered by that call itself (`Direct`), waits in a deque, is held
by one thread, or has been answered; `is_cancelled` is what keeps a deque's entry
from being answered a second time by whoever passes it next.  `EInv` is about the
elements.  `Elements`: no element is in two places, the accepted ones are those
in the queue or in a tuple, an enqueue's elements go in in the order of their
indices, so a new one is really new, and only a closed queue may hold more than
its capacity (`TryDequeueAttempt` puts back what it took).  `Kept`: a dequeue that
has elements still waits, or was answered in a way that keeps them.  `InTurn` is
about the order: the queue and the tuples are in the order of `accepted`, what a
waiting dequeue has taken is ahead of all that the queue holds, which is why it may
go back to the front, and the dequeues behind a live one have taken nothing, so
that there is only one to put anything back.  The loop of
`CloseAndCancel` is the recursive function `Pending`; that it returns each
attempt not yet cancelled, once, is again shown by a least counterexample.

`BFCAllocatorProofs`, for any device and memory limit, any clients and requests and
any number of bins, from `BFCAssumption` (sizes and widths are natural numbers,
those the code divides by are positive, the back-pedalling factor is at most 1,
the limit fits into `size_t`, and the powers of two that are used are numbers,
which the provers do not know by themselves):

* `Invariant`: `Spec => []IInv`
* `Tiling`: `Spec => []ChunksTileRegions`
* `Disjoint`: `Spec => []BlocksDisjoint`
* `FailsForAReason`: `Spec => NoFalseOom`
* `ReusedInTime`: `Spec => []FreedBeforeUse`, for every setup, from what is taken
  of `SubAllocator::Free` (see the module above)

The invariant is about the members of the allocator, a record `m`.  `Good(m, hand)`
has a part for each structure of the code: `Filed` (the regions' handles and the
chunks name each other, the other handles are spare, once each), `Binned` (a free
chunk is in the bin of its size, except the one called `hand` that the code has
just taken out), `Regions` (they are apart and within the device), `Linked` (`next`
and `prev` lead to the neighbours), `Tiled` (each byte of a region is in a chunk,
and in one only) and `Counted` (`bytes_in_use` and `total_region_allocated_bytes_`
are the bytes of the chunks in use and of the regions).  `ChunksTileRegions`
alone is not inductive: a merge reads `next`, a split reuses a spare handle,
collecting walks the chunks of a region from the first one on.  `Owned` relates the
clients' blocks to the chunks in use, and `Untimed` says that without a counter
nothing has a time and that the chunks are `Merged`: no two neighbours are free,
except around the chunk in `hand` that is being coalesced.

Each operator has a lemma that describes its result point by point (`MergedTo`,
`SplitTo`, `AddedTo`, `ClearedTo`, ...) and one that shows what it keeps.  What a
whole phase keeps is a relation between the members before and after it:
`Coarser` (free chunks were merged, nothing else) for the sweeps of the timestamped
chunks, `Kept` and `Taken` for the attempts of `AllocateRawInternal`.  The loops are
`TakeApart`, `MergeAll` and `DeleteChunks`; that each of their rounds keeps the
invariant gives it for the last one by a least counterexample (`Iteration`,
`UpTo`).  `FailsForAReason` follows the attempts: after the last one
the chunks are `Full` (none that is free is large enough) and `Extend` was `Refused`,
or does not return.  As no two free chunks are neighbours, a free stretch lies within
one chunk (`NoStretch`), so `Full` excludes it.  `Refused` is what `Extend` leaves
when it gives nothing: no hole for the region it asks for, and the first time it
back-pedals `NoSize`, none for any size from which a step of the factor would still
be enough (`TriedAll`: those are among the sizes it tries, or larger than one that
was refused).  `ReusedInTime` adds `TInv`: `Stamped` (a free chunk's time is not
before that of any of its bytes, unless the frontier has passed that), `Fresh`
(bytes of no region have no time) and `InTime` (what the blocks in use were given).
Collecting changes the history along with the regions: `Given` states, for any
history that suits the members before, that `Reset` on the bytes given back suits
those after, and `Collected` carries that through the last attempt.

Only model-checked:

* all liveness, which needs fairness and `ENABLED`;
* `RunsTheGraph`, since `Meaning` is a recursive operator, of which nothing can be
  proved by induction here;
* `RunsOnce`.  For a node that is not a Merge it is part of the invariant above.
  That a Merge runs once depends on which of its inputs can come in one iteration
  (an Enter or a NextIteration, never both; one side of a Switch), which is a
  property of the whole loop and not of the counters.

## Plan

Done: the local runtime in the order of what a step depends on, then what its ops
use (queues, memory, batches) and the rendezvous between workers.  Next, in this
order:

1. Theorems within reach: an abstract rendezvous that `LocalRendezvous` implements;
   `RunsOnce` of `ExecutorFrames`, under a characterisation of the loops that the
   front end builds.
2. `DirectSession`: several `ExecutorState`s under an `ExecutorBarrier` with a
   shared rendezvous and manager, timeout and close; the reference counts of the
   rendezvous (`rendezvous.cc:274`) and of `BaseRendezvousMgr`'s table, and the
   synchronous `Recv` with its timeout (`rendezvous.cc:129`), belong there.
3. `BufRendezvous` with the local access of the collectives; `EventMgr`; the
   eager executor; the partial runs of a worker (`PartialRunMgr`,
   `RecentRequestIds`); `AllocatorRetry`.
4. `BuildControlFlowInfo` and the layout of `PendingCounts` as operators.

### Not modelled

* The other queues (random shuffle, padding, priority) share `QueueBase` and
  differ in what they dequeue; the other batch schedulers (basic, adaptive,
  serial) and the batch kernels.
* The arithmetic of the collectives, numeric kernels, graph rewriting, placement,
  bindings and front ends, XLA, TF-Lite: sequential, numeric or separate systems
  in the same repository, out of a model checker's reach.
* Copies between the devices of a worker, gRPC's transport, tracing, statistics
  and dumps.

# TLA+ models of torch_musa

torch_musa is the MUSA backend of PyTorch. Most of its 1131 files bind operators
to kernels (muDNN, muBLAS, hand-written `.mu` files), mirror the Python API of
`torch.cuda`, or test those. The part that is a *system* - state that lives
longer than a call, shared by host threads and by the streams of an asynchronous
device - is the runtime under `torch_musa/csrc/core` and
`torch_musa/csrc/distributed`. These models are about that part: the caching
allocator for device memory with its pools, graphs and expandable segments, the
sharing of tensors between processes, and the threads of the process group.

## The system and its parts

| Part | State | Operations | Interacts with | Hard behaviours | What makes it correct |
| --- | --- | --- | --- | --- | --- |
| `DeviceCachingAllocator` (`MUSACachingAllocator.cpp` 895-3370) | `Block` lists, `small_blocks`, `large_blocks`, `active_blocks`, `musa_events`, `total_allocated_memory`, statistics, a recursive mutex | `malloc`, `free`, `recordStream`, `emptyCache`, `setMemoryFraction` | the driver (`musaMalloc`, `musaFree`, events), every tensor, free-memory callbacks | blocks used by several streams, the mutex given up around `musaMalloc`, three retries, splitting and merging | no block is recycled while the GPU uses it; blocks tile the segments; only whole segments go back to the driver; counters match; the mutex is always released |
| Private pools and capture (same file, 726-788, 1395-1606, 2198-2366) | `PrivatePool`s with use counts, `graph_pools`, `graph_pools_freeable`, `captures_underway`, deferred blocks | `createOrIncrefPool`, `beginAllocateToPool`, `endAllocateToPool`, `releasePool`, checkpointing | `MUSAGraph`, `MemPool`, `malloc` | two captures at once, a pool released while a thread is in `musaMalloc`, deferred events | a pool is deleted when unused and empty, never before |
| Expandable segments (same file, 193-560, 2368-2514, 3018-3152) | one virtual range per stream and pool, mapped and unmapped blocks | `map`, `unmap`, `map_block`, `unmap_block`, sharing | `DeviceCachingAllocator`, IPC | partial mapping failure, handle-type probe | mapped blocks are backed by handles; unmapping frees them |
| `NativeCachingAllocator` (same file, 3413-4060) | one `DeviceCachingAllocator` per device, sharded `allocated_blocks`, IPC handle cache | `malloc`, `free`, `getIpcDevPtr`, `recordHistory` | all of the above | shard lock and device lock are two locks; weak pointers that expire | a pointer is found by `free` from the moment `malloc` returns it |
| `RingBuffer` (same file, 822-882) | entries, write position | `insertEntries`, `getEntries`, `setMaxEntries`, `clear` | memory snapshots | wrap-around, shrinking | the newest entries, in order |
| `CachingHostAllocator` | pinned blocks, free lists, per-stream events | `malloc`, `free`, `record`, `process_events` | `non_blocking` copies | as above for the host | no reuse before events complete |
| `MUSAStream`, `MUSAEvent`, `Pool.h` | per-device pools of streams, counters, lazily created events | `getStreamFromPool`, `record`, `block` | everything asynchronous | concurrent first use, counter wrap | 32 streams round robin, one creation |
| `MUSAGraph` (`csrc/aten/musa/MUSAGraph.cpp`) | capture state, graph, executable | `capture_begin`, `capture_end`, `replay`, `reset` | private pools, generators | failure between two steps of a capture | pools returned exactly once |
| `MusaIPCTypes`, `StorageSharing` | reference-counter files, `sent data limbo` | `GetNewRefCountedSentData`, `MusaIPCCollect` | the allocator's free-memory callback | producer and consumer processes, limbo | memory is freed when, and only when, no consumer holds it |
| `ProcessGroupMCCL`: works | `workMetaList_`, `completedWorkList_`, tensor shelves, ephemeral timeouts | `workEnqueue`, `wait`, the watchdog's and the hook thread's loops, `abort`, `shutdown` | MCCL, the allocator, completion hooks | timeouts racing completion, aborts racing callbacks, kernels that hang | tensors outlive the kernels; every work gets one result; `shutdown` returns |
| `ProcessGroupMCCL`: communicators | communicators by key, sequence numbers, coalescing state | collectives, `send`, `recv`, `startCoalescing`, `endCoalescing` | MCCL, TCPStore, the other ranks | ranks create communicators in different orders, groups, messages in between | ranks agree on communicators, numbers and offsets; every kernel has a work |
| `ProcessGroupMCCL`: heartbeat monitor | heartbeat, dump and error keys in the store, timers | `HeartbeatMonitor::runLoop`, `stop`, error signals | watchdog, TCPStore, flight recorder | a store that dies, dumps that hang, sleeps against timeouts | only a hung process is killed, and a hung one is |
| `MUSAEventCache`, flight recorder | a deque of events per thread; a ring of entries | `create`, `record`, `retire` | works | use from the watchdog thread | events are reused when nobody holds them |
| Symmetric memory (`distributed/symm_mem`) | rendezvous files, signal pads | `rendezvous`, `barrier`, `put_signal` | the driver's VMM | signals reused across rounds | barriers separate rounds |
| Operators, kernels, codegen, profiler, AMP, inductor, Python API | none beyond a call | tensor functions | | numerical | out of reach of TLC |

## The plan

In order, the most important behaviour first. Stages marked *done* are on disk.

1. `DeviceAllocator` - *done*: the allocator with streams, threads, retries,
   merging and the driver; its safety proved for all constants.
2. `CaptureDeferral` - *done*: blocks freed while a graph capture is under way,
   events inserted after it, reuse within a capture.
3. `PrivatePools` - *done*: use counts, `beginAllocateToPool` .. `releasePool`,
   empty pools erased by `release_cached_blocks`, composed with `MUSAGraph`,
   `MemPool` and `use_mem_pool`.
4. `ExpandableSegments` - *done*: `map_block`, `unmap_block`, partial failure of
   the driver, the probe of the handle type, peers, a graph's pool.
5. `TensorSharing` - *done*: `MusaIPCTypes` and `StorageSharing` composed with the
   IPC handle cache of the allocator, in a producer and its consumers; it
   implements the abstract `LeasedMemory`.
6. `ProcessGroup` - *done*: works, watchdog, hook thread, `abort`, `shutdown`.
7. `Communicators` - *done*: several ranks, the store, MCCL's matching, groups.
8. `HeartbeatMonitor` - *done*: the monitor, the watchdog's signals, the store.
9. Left: the barriers and signals of symmetric memory; importing the handles of
   expandable segments in another process (`fromShared`); `setCheckpointPoolState`;
   small parts against reference definitions (`RingBuffer`, the stream pool).
10. Theorems - *done*: everything the runs check of `DeviceAllocator` but its
    liveness, `CaptureDeferral`, `PrivatePools`, `ExpandableSegments`, `TensorSharing`
    with its refinement, and the safety of `ProcessGroup`, of `HeartbeatMonitor` and
    of `Communicators`.

## The modules and the code

### DeviceAllocator

One device's `DeviceCachingAllocator`. Memory is `NumUnits` units; a `Block*` is
the address of its first unit, 0 is `nullptr`. `block` holds the fields of the
`Block` objects, `cached` the blocks in `small_blocks` and `large_blocks`,
`active` is `active_blocks`, `musa_events[s][u]` the event on stream `s` that
holds block `u`, as the number of kernels in front of it. `segment` is what the
driver has handed out. `pend` and `depth` are the GPU: how many kernels of a
stream must complete until it no longer uses a unit, and how many are queued.

A call of `malloc` is cut where the code waits for something or gives up the
mutex, and where the retries differ: `Malloc` (the pool is chosen),
`ProcessEvents` per stream, `GetFreeBlock`, `FreeMemoryCallback` (a callback such
as `MusaIPCCollect` may free blocks while the recursive mutex is held),
`GetFreeBlockRetry`, `GarbageCollect`, `AllocBlock` (the memory fraction),
`MusaMalloc` (without the mutex when `ReleaseLock`), `AfterMusaMalloc`,
`ReleaseAvailable`, `SynchronizeEvent` per event, `ReleaseCachedBlocks`, and
`AllocFailed`, which chooses the next retry or throws. `free_block` with both
merges, `alloc_found_block` with the split, and `release_block` are operators
that those actions use. `Launch` and `Complete` are the program and the GPU: a
program launches kernels on a block from its own stream or from a stream it has
recorded, as `record_stream` asks of it.

### CaptureDeferral

What happens to a block used by several streams when it is freed around a
capture. Blocks are not split, and all are allocated on `Home`. The driver's
capture is `capturing` (streams that take part), `deps` (what a stream's next
node depends on) and `ancestors` (reachability); `get_reusable_empty_nodes`, a
depth-first search in the code, is its result, the empty nodes that precede all
terminals. Waits that order nothing new are left out. `capture_begin` and `capture_end` are two actions each, because
another thread may run between `beginAllocateToPool` and
`musaStreamBeginCapture`, and again at the end. `Outside` says what threads
outside the capture do in the meantime. `life`, `born`, `touched`, `in_capture` and
`left_over` are history, which properties and the program's own obligations
(a kernel is ordered after the allocation) read and the allocator does not:
`in_capture` has the streams that were recorded for a block during a capture,
`left_over` those of an earlier life whose kernels are still pending, or whose entry
in `block_to_musagraph_stream_uses` is still there.

### PrivatePools

The pools of graphs and `MemPool` objects, with a segment as one block. A `malloc`
is `Malloc`, `AfterMusaMalloc`, `ReleaseAvailable`, `ReleaseCached`, `Fallback`
per last-resort pool, `OutOfMemory`; the mutex is given up while a thread is in
`musaMalloc`. `context[t]` are the with-statements thread `t` is in; the two
calls in the `finally` of `use_mem_pool` are two actions, and so are the two
calls of `~MemPool`. `CaptureBegin` and `CaptureEnd` may fail where the driver
may. `memory[g]`, history, is what was allocated while graph `g` was captured.

### ExpandableSegments

`expandable_segments:True`. A segment is a range of `Pages` pages of addresses;
`segment[g]` has the pages for which it holds a handle (`handles`), those mapped,
exported and accessible to peers, which is the driver's side, and `chain[g]` its
blocks, mapped or not, which is the allocator's: a function from the address of a
block to the block. `stray` are pages that the driver has mapped although `map`
failed. The `prev` of a block is the one that ends where it begins, its
`next` the one that begins where it ends. `Malloc`
looks for a cached block and otherwise for a candidate (`find_expandable_block`);
then `try_allocate_expandable_block` maps part by part, one action for each, with
the outcomes `MapBlock`, `MapOutOfMemory` (handles given back), `MapError` (any other
error of `muMemCreate`, at any page), `MapAndSetAccessError` (`muMemMap` fails at any
page, or `muMemSetAccess` for the device or a peer; the pages mapped so far are
`stray`, as no block is marked mapped) and `MapAsserts`. `AddPeerAccess` fails when a
segment has a handle whose page was never mapped. On out of memory the cache is released, waiting for the GPU,
and the mapping is tried again. `handle_type` is decided by the first map: fabric
handles, or file descriptors when the probe fails. One graph has a private pool and
may be replayed. The mutex is held throughout, so one thread makes all calls and
the GPU runs beside it. After an exception that leaves the structures broken
(`failure`) the behaviour ends.

### TensorSharing and LeasedMemory

A producer sends storages to consumers. `sent[s]` is a `MusaIPCSentData`: its
memory, its file of reference counters and its counter, which lies in memory that
both processes map. Sending a storage again wraps its data pointer once more, hence
`chain[m]`. `Share`, `SetCounter`, `RotateLoad`, `RotateStore` are
`GetNewRefCountedSentData` and `_share_musa_`, cut where `used_slots_` is read and
written; `Drop` destroys a storage, `Destroy` runs one destructor of the chain
(`MusaIPCSentDataDelete`: free, or into limbo), in any order among those a thread has
to run, `MusaIPCCollect`, `Collect` and
`Return` are a collection. Two threads drop and collect; `overlap` says whether the
second one may run while the first is inside `_share_musa_`. On the other side
`Receive` is `getIpcDevPtr` with its cache of weak pointers, `Forget`, `EraseEntry`,
`CloseHandle` and `Release` the deleters, which give up `IpcMutex` before they close
the handle, and decrement the counter last. Before that the deleter synchronizes the
current stream of the thread that runs it, and no other: `busy` are the sends with a
kernel pending on that stream, for which `Release` waits, `aside` those with a kernel on
another stream, for which it does not. `MaxKernels` bounds the pending kernels of a run.
A consumer may die (`Die`), the producer may exit (`Exit`) or run into a null
pointer (`Crash`).

`LeasedMemory` says what this is for: an owner lends blocks, lets go of them, and a
block is reclaimed only when it has been let go of and every loan has ended.
`Leases` maps a loan to a send whose consumer holds the storage or has a kernel
pending on the stream its deleter synchronizes, and `Implements` is its specification.
Kernels on other streams are no part of a loan; that the memory may be freed under
them is a counterexample of its own (`sharing_side_stream`).

### ProcessGroup

One rank's works. The Work given to the program and the one in `workMetaList_` are
two objects, copies of one another that share the shelf of tensors, the events and
`futureWorkResult_`, but not the exception: `exU` and `exW`. The threads are the
program's (`main`: issue, `wait` and its polling, `addEphemeralTimeout`,
`waitForPendingWorks`, `shutdown`, the destructor), the watchdog (one action per
step of its loop over a work), the hook thread and a thread that calls `abort`. A
timeout elapses at any time after a work was issued, a kernel completes, fails or
hangs. An exception that nobody catches takes the process down (`alive`).

### Communicators

All ranks of one group. A public operation is a sequence of the internal calls
(`collective`, `collectiveCoalesced`, `pointToPoint`, `startCoalescing`,
`endCoalescing`), a program a sequence of operations. `initMCCLComm`, `GetId`,
`Join`, `Create` are the exchange of a unique id through the store and
`mcclCommInitRank`, which blocks until all members have called it. A stream is the
log of what was put on it: kernels, named by what MCCL matches them with, waits and
end events of works. `Run` executes the next item when the other members have theirs
at the head as well.

### HeartbeatMonitor

The watchdog, the monitor and the main thread of each rank, in ticks of a second,
and the two keys in the store. A rank's process may end, be killed by the watchdog's
exception or by the monitor; with the process that hosts it the store goes down, and
calls on it throw. `Beats` is a round of the watchdog; `WatchdogFails` signals the
error through the store and sleeps four dump timeouts before it throws; the
monitor polls, looks at the heartbeat, dumps (at most twice, each with a timeout,
and each may hang), has the C++ stack traces dumped if a dumper is registered
(`tracing`: in its own thread, without a timeout, and the dumper may hang), sleeps, and
kills the process unless the process group has stopped it. `stop()` may
lose its notification. `hooked` says that the thread of a completion hook runs:
`shutdown` joins it before it stops the monitor, the destructor after. What the watchdog does with works is in `ProcessGroup`.

Each `MC` module has the scenarios or programs of a run, and symmetry in the runs
without liveness where the scenarios are symmetric.

## The runs

| Run | Shows | Bounds |
| --- | --- | --- |
| `device_streams` | `NoForeignWork`: no block is recycled while another stream works on it; `ReturnedMemoryIdle`; under fairness `LockReleased` | three streams, so that a block waits for two; one queued kernel per stream, as a second one only delays an event; two units in one segment, so that pieces with different uses split and merge |
| `device_threads` | `SegmentsTiled`, `StatsMatch`, the inductive invariant, `ReleasesWholeSegments` and `AllocationStable`, while two threads give up the mutex | two threads on one stream, without queued kernels, which `device_streams` has; a unit is half a MiB; a request of the small pool, one of the large pool and two that get oversize blocks, one of them below `MaxSplitSize` until it is rounded; room for three segments; the threshold of the collection below the limit on the memory, which is all of it (261 000 states up to symmetry) |
| `capture` | `ReuseOrdered` within one capture; `NoEventInCapture`, `Bookkeeping` and `DeferredWorkAwaited` with other threads allocating, launching, recording and freeing at any time: what they launch on a block is waited for, though the block is freed, deferred and given events around the capture | two streams and a block of either pool, or three streams and one block, so that one stream is recorded before and another during a capture, with two queued kernels per stream, so that an event has work behind it; five captured nodes: the smallest graph in which a block that two streams used is reused (a kernel and a marker on either stream, then a join and a kernel of the second life) (1 691 000 states) |
| `pools` | `PoolsExist`, `UseCountSuffices`, `Routing`, `GraphMemoryKept`, `Bookkeeping` | two threads with a `MemPool` that is a last resort and a graph; or one thread, two graphs and a handle; two segments, use counts up to 3 |
| `expandable` | `DriverAgrees`, `WorkMapped`, `LoopInvariant`, `ReleasedAll` | three pages of addresses for two of memory, as the code reserves 1 1/8 of it, so that memory runs out before addresses; requests of half a page and of a page and a half; at most three blocks in use; two streams, or a graph, or a peer and one error of the driver in `map`, or exported handles (448 000 states) |
| `sharing` | `Implements`, `CountersMapped`, `Bookkeeping`, `CollectFrees` | two storages, three sends, so that one storage is sent twice; files of two counters, so that a file fills and is replaced; one consumer, with one pending kernel at a time, on the stream its deleter synchronizes or on another (a step looks at the kernels of one send only), in programs whose threads overlap, which do all that the others do (776 000 states up to symmetry) |
| `process_group` | `TensorsKept`, `RetiredHasResult`, `Bookkeeping`, `PendingMeansHooked`, and under fairness `ShutdownReturns` and `ResultDelivered` | two works that share the list and an ephemeral timeout in the default mode; one work in every mode with waits, with a hook that throws once, with `abort` in another thread, and in blocking mode (319 000 states) |
| `communicators` | `Consistent`, `CollectivesAgree`, `OffsetsMatch`, `Watched`, and under fairness `AllFinish` | three ranks, so that a pair leaves one out; twelve programs, which have every public operation and connect eagerly before and after a collective; groups hold messages or asynchronous collectives, none is synchronous in a group or starts a group in a group, so that all programs are `Plain`, as `Watched` needs (32 000 states) |
| `heartbeat` | `NoFalseAlarm`, `DumpedBeforeThrow`, and under fairness `HangEnds` and `DestructorReturns` | two ranks, of which one hosts the store; one fault; a dump takes a tick and the heartbeat five, as the code has 15 seconds and 8 minutes, which keeps the order of all deadlines that the watchdog's four dump timeouts are compared with; stack traces and a completion hook in the scenarios with one rank (294 000 states) |
| `capture_stale_uses`, `expandable_count`, `sharing_side_stream` | counterexamples, see below | |

`Bookkeeping`, `Consistent`, `DriverAgrees` and `NoFalseAlarm` are conjunctions of
the type invariant with named invariants of the module about its counts and lists.

`AllowedMax` is a limit above all sums where no fraction is set, as
`set_fraction` is in the code. `MaxNest` = 1 excludes nested contexts, for which
`Routing` fails (below). Deadlock is not checked where the system may stop:
`Pools` (an assertion in `~MemPool` ends the process), `ProcessGroup` (the process
is taken down, or all is done), `TensorSharing` (all is freed, or memory stays in
limbo for ever) and `Communicators` (the programs end, or wait for a rank that
failed).

### Fairness

- `LockReleased`: a thread inside a call goes on (the operating system runs it, and
  no step of it waits for another thread that holds the mutex, since it holds it
  itself), and a stream executes what is queued on it.
- `ShutdownReturns`, `ResultDelivered`: threads inside the library go on, and time
  passes, so every work expires that does not end. Nothing is assumed of kernels,
  which may hang, or of the program.
- `AllFinish`: every rank goes on unless it waits for another one, and a stream
  executes its next kernel when all members have reached it, as MCCL promises.
- `HangEnds`, `DestructorReturns`: time passes and threads go on. A dump of the
  flight recorder, the dump of the stack traces, an `abort` and a completion hook need
  not end, and a watchdog may hang. So `HangEnds` excepts a monitor that is inside the
  dump of the stack traces, and `DestructorReturns` what holds up one of
  the joined threads: a hung watchdog, a dump or a hook.

All are weak: the steps stay enabled until they are taken.

## Where the code and its documentation disagree

Three runs end in a counterexample; `PROJECT.json` quotes the lines (of
`MUSACachingAllocator.cpp`, unless another file is named).

| Run | What happens |
| --- | --- |
| `capture_stale_uses` | An entry of `block_to_musagraph_stream_uses` outlives the life of its block (3244) and suppresses the event of a later one. |
| `expandable_count` | `musaMalloc_count` goes up once for an allocation and down once for each block that is unmapped: the assertion at 3138 fails for a graph's memory that is unmapped in two parts. |
| `sharing_side_stream` | Memory is freed by the producer while a kernel of the consumer still runs on a stream that the deleter does not synchronize (`StorageSharing.cpp` 245-246), although reference counting is said to keep it (3655-3658). |

The models also have the following behaviours, which no run is spent on. Line
numbers are those of `MUSACachingAllocator.cpp` in the first two lists, of
`ProcessGroupMCCL.cpp` in the last three.

Allocator, graphs and pools:

- With `release_lock_on_musamalloc`, two threads both pass the check of the memory
  fraction (2834) before either adds its segment to the total.
- With `max_split_size`, oversize blocks cached in a pool that a graph still uses
  are given to `musaFree` (2959). `GraphMemoryKept` is asked without them.
- Two nested `use_mem_pool`: allocations go to the outer pool (2633).
- `recordStream` (1724) treats every stream recorded while any capture is under
  way as one of the capture: the kernel of an unrelated stream is not waited for.
  `DeferredWorkAwaited` says that these are the only streams which are not.
- With `graph_capture_record_stream_reuse`, a kernel launched before the capture, on a
  stream that then joins it, is not waited for when the block is reused during the
  capture: free markers tell of captured kernels only. `DeferredWorkAwaited` is asked
  of programs without that setting.
- With `graph_capture_record_stream_reuse`, `malloc` on a stream outside the
  capture fails the assertion at 1455 (a guard of `Malloc`), where the comment at
  1566 expects that there is nothing to do.
- `beginAllocateToPool` (2218) counts a use and then refuses it when the pool is
  already recorded to; nobody takes the count back, and `~MemPool` fails its
  assertion on the count (`abort` in `DestroyMemPool`).
- A `MemPool` destroyed while a tensor of it is alive stays in
  `use_on_oom_pools`; the next `malloc` that falls back to it fails the assertion
  at 2353 (first disjunct of `Fallback`). The same assertion refuses a handle
  whose graphs were all reset while a tensor is alive.
- `~MemPool` (4182) waits for events, which fails the assertion at 3194 while
  another thread is inside `use_mem_pool` (`abort` in `EmptyMemPool`).

Expandable segments:

- A graph replayed on another stream than that of its capture (`MUSAGraph.cpp` 236
  uses the current one) may run on pages that are unmapped: `unmapHandles` waits for
  the stream of the segment only (488-501). `WorkMapped` is asked of graphs replayed
  on the stream of their capture.
- A fabric probe that fails at a later page of a range (300) leaves the handles of
  the earlier ones; the retry with file descriptors fails the assertion at 258.
- `share` takes the exported handle for a file descriptor (508), whatever its type.
- When `muMemMap` or `muMemSetAccess` fails (473-486), the handles of the range stay
  and some of its pages stay mapped, in a block that is not. A later `map` of the range
  fails the assertion at 258, and `addPeer`, which sets access for all handles, fails
  at a handle that was never mapped; the list of peers (2276-2283) has the device then,
  while other segments may lack the access.
- A segment whose first `map` failed is never released, having no block that was
  mapped. The pool of a graph may be erased while it holds blocks, or kept for
  ever, since its count does not follow the blocks (see `expandable_count`).

Tensor sharing (`MusaIPCTypes.cpp` is IPC):

- The assertion on the weak pointer (4025-4028) fails when the last owner is gone and
  its deleter has not yet taken `IpcMutex`; the message is lost (`asserted`).
- A handle may be open twice, as the deleter closes it (4049-4050) after it has
  given up the mutex; the comment at 3939-3943 says that it is opened only once.
- When two threads overlap, `next_available_ref_counters_file_` may be null where
  it is used (IPC 234), and an update of `used_slots_` may be lost.
- A consumer that dies leaves the memory in limbo for ever (IPC 120).

Works and shutdown:

- The comment at 1324 expects the watchdog to "flush its queue" during shutdown, but
  works that are listed late are not looked at again.
- An error that is noticed after `terminateProcessGroup_` is not handled as the mode
  says (`ProcessGroupMCCL.h` 151).
- An ephemeral timeout added inside a coalesced group is never taken back.
- `runHookLoop` says "Lock is still acquired" (2475), which is not so after a hook
  threw; the hook thread may end before the last works are handed to it.
- A kernel killed by `abort` counts as a success when its work is looked at after.
  With `NoHandling` a work that timed out is retired, and its tensors are given up,
  while its kernel runs; `TensorsKept` excludes works with an error.
- `shutdown` never erases the communicators from `mcclCommMemPoolMap` (2882-2887).

Communicators:

- `eagerConnectSingleDevice` (861) creates a communicator also where there is one;
  `emplace` keeps the old one, and the ids of later ones stay in step because all
  ranks count.
- A message of a rank to itself uses an `mcclUniqueId` that was never set
  (2699, 2788).
- The key for the offsets of `all_to_allv` has the uid of the local process group
  (5026), which differs between ranks that created subgroups in different orders:
  they wait for each other for ever. Two such calls in one group share a key.
- `endCoalescing` records the end event on the stream of the communicator (3226)
  also when the operations were synchronous and ran on the current stream.
- The comment at 3154-3161 has `startCoalescing` take a sequence number; the first
  operation of the group does. A nested `startCoalescing` resets the state of the
  outer one. An exception while a communicator is created inside a group leaves
  `mcclActiveGroupCounter_` above zero.
- No watchdog covers the exchange of ids: a rank that waits there waits for ever.

Heartbeat monitor:

- `stop()` (1519-1522) does not take the mutex: its notification may be lost, and the
  destructor then waits for the next poll.
- The monitor may kill a process whose watchdog ended as it should, while
  `shutdown` joins the hook thread or `abort` does not return (comment at 1333).
- A store that dies between `check` and `get` makes a healthy watchdog throw
  (1938-1952).
- A monitor in whose process works are issued all the time does not get to
  poll the dump key (about 1601).
- A dump that hangs holds up the destructor, through the destructor of its future.
- A dumper of C++ stack traces that hangs (1772-1780, "blocking and would hang" at 1702)
  leaves a hung watchdog in a process that is not killed. The dump is on by default
  (1500), but no code of the repository registers a dumper.
- After `abort` a completion hook that does not end holds up the destructor (1395-1399),
  when the monitor has been stopped already.

## The proofs

Every theorem is about all values of the constants that the named assumptions of
the module admit. The assumptions are evaluated in every run, and each module's
inductive invariant `IInv` has been model-checked on the run of the module first
(for `DeviceAllocator` it is one of the run's invariants; for the others add `IInv`
to the `.cfg`, of a module that extends the proof module where `IInv` is defined
there). All proofs have the same outline: `Init => IInv`; one lemma for
each action, which shows that it keeps `IInv`; `Invariance`, by temporal logic;
and the properties as consequences, the action properties together with the
actions that could violate them.

### DeviceAllocator_proof

It rests on lemmas about `free_block` and release, about splitting and new
segments, and about sums of sizes, and proves for every number of threads, streams
and units, every set of request sizes and every setting:

| Theorem | States |
| --- | --- |
| `Invariance` | `Spec => []IInv` |
| `TypeCorrect` | `Spec => []TypeOK` |
| `CrossStreamSafety` | `Spec => []NoForeignWork` |
| `ReturnedMemory` | `Spec => []ReturnedMemoryIdle` |
| `Tiling` | `Spec => []SegmentsTiled` |
| `MergingSound` | `Spec => [](Coalesced /\ FlagsMatchPools /\ Linked)` |
| `EventAccounting` | `Spec => []EventCounts` |
| `WholeSegments` | `Spec => []ReleasesWholeSegments` |
| `StatisticsMatch` | `Spec => []StatsMatch` |
| `AllocationsStable` | `Spec => AllocationStable`, an action property |

*Assumptions.* Finitely many streams; positive request sizes; what
`parseMaxSplitSize` and the constants at the head of the file guarantee:
`kSmallSize <= kSmallBuffer`, `kMinLargeAlloc <= kLargeBuffer`, `max_split_size`
larger than both buffers and a multiple of `kSmallSize` (a MiB), `kRoundLarge`
twice that.

*The invariant.* None of the properties is inductive alone. That a block is idle
when it is recycled needs `WorkTracked`: work of another stream is recorded in
`stream_uses` or lies in front of an event that holds the block; a merged block
inherits the work of its parts, so this needs that a block which is swallowed was
idle, hence `FlagsMatchPools` and `EventCounts`, since the code looks at flags and
counts only. `UncoveredIdle` carries this over to memory that is given back and
obtained again. That a released block is a whole segment needs `SegmentsSplit`
(the ends of the list of blocks are the ends of the segment) and `SplitSizes`:
`release_available_cached_blocks` does not look at `prev` and `next`, so no piece
of a split segment may be as large as `MaxSplitSize`. A segment is only split
when the request is below `MaxSplitSize`; rounding exceeds that by at most
`kSmallSize`, and the pieces of a large segment are larger than `kSmallSize`.
`CallOK` is about what a thread carries across the gap in which it does not hold
the mutex: the segment it got is its own and is not yet made of blocks.

*The argument.* One step per conjunct that an action can disturb. The actions that
change blocks go through the lemmas on merging with the next block, with the
previous one, splitting, a new segment, and releasing a set of whole segments.
`AllocationsStable` uses the same lemmas: a block that is allocated before and
after a step was neither swallowed by a merge nor split nor released, since each
of these touches only blocks whose flags say that they are free.

The statistics are sums over blocks. Blocks do not overlap, so the sum of their sizes
is the number of units they cover, and cardinalities of disjoint sets of units add
(`SumAdds`). Every step that touches a block replaces a few blocks by others and books
the difference (`Booked`: what `free_block`, splitting, a new segment and a release add
and subtract), and then the totals over all blocks and over the inactive split ones
change by as much (`Balance`).

### PrivatePools_proof

For any threads, `MemPool`s, handles, graphs and segments, programs, use counts and
depth of contexts:

| Theorem | States |
| --- | --- |
| `Invariance` | `Spec => []IInv` |
| `PoolsNeverDangle` | `Spec => []PoolsExist` |
| `UsersCounted` | `Spec => []UseCountSuffices` |
| `PoolCountsExact` | `Spec => []Bookkeeping` |
| `AllocationsRouted` | `Spec => []Routing`, if `MaxNest <= 1` |
| `GraphMemoryStays` | `Spec => []GraphMemoryKept`, if `MaxNest <= 1` |

*Assumptions.* Finitely many threads, graphs and segments; the kinds of ids are
disjoint. The last two theorems have a hypothesis, that a thread is in one context
at a time: with a graph captured inside `use_mem_pool`, or two pools, `get_pool`
takes the first entry of `captures_underway` that selects the thread, which is the
outermost context (see the disagreements above).

*The invariant.* That a pool exists follows from its use count, so the invariant is
about who is counted. `CountOK` adds to the holders `Stuck`, the entry of a capture
that failed, whose use is never given back and which keeps its pool alive.
`EntriesOK` and `ContextOK` say that the entries of a thread are those of the
contexts it is in, one for each pool, and that only its innermost one may have been
ended; `endAllocateToPool` erases the first entry for its pool, and this is why it
is the right one. `CallOK` is what `malloc` relies on when it comes back from
`musaMalloc` with the mutex taken again: the pool it chose before is still recorded
to by its thread, hence used, hence neither freeable nor erased by what other
threads released in between. `NotNested` has the two properties of routing.

*The argument.* The steps of `malloc` and `free` leave the owners of pools alone
(`QuietStep`, `TakeStep`, `ReleaseStep`), and those of the owners leave the segments
alone (`OwnerStep`). Releasing blocks keeps `MallocCounts` by the cardinality of a
difference, and erases only pools with use count 0, which nobody who holds one,
allocates from one or records to one can be looking at.

### ExpandableSegments_proof

For any size of a page, any memory that is smaller than the addresses of a segment,
any requests, streams and peers, and with an error of the driver in `map` or without:

| Theorem | States |
| --- | --- |
| `Invariance` | `Spec => []IInv` |
| `AllocatorAgreesWithDriver` | `Spec => []DriverAgrees` |
| `KernelsOnMappedPages` | `Spec => []WorkMapped` |
| `CandidateGrows` | `Spec => []LoopInvariant` |
| `EverythingReleased` | `Spec => ReleasedAll`, an action property |

*Assumptions.* A page is not empty and neither is the memory; the addresses that a
segment reserves are more than the memory (1 1/8 of it in the code), which
`find_expandable_block` relies on for a new segment to have room; a request fits in
the addresses of one segment. Streams need not be finitely many.

*The invariant.* `SegmentInv`: the blocks of a segment tile it, no two free neighbours
are both mapped or both not, and a page is mapped just when a mapped block touches it,
which the driver holds a handle for; the pages that an error left (`stray`) have their
handles as well and are in unmapped blocks only. `MemoryInv` counts the handles of all segments
against the memory. `CallInv` is about the loop of `try_allocate_expandable_block`: its
candidate is free and the free blocks from there on are large enough (`HasSpace`). Each
part that is mapped is merged with its neighbours, so the candidate may begin at
another address in the next iteration. `WorkInv` is why it is enough to wait for the
stream of a segment before unmapping: a kernel that has not finished runs on that
stream, or its block lists the kernel's stream among its uses or its events and is not
free. `GraphInv` does the same for kernels that a graph will launch again: their pages
belong to the graph's pool, whose segments were made for the stream of the capture, and
nothing unmaps them while the graph exists. `WorkInv`, like `WorkMapped`, is asked of
graphs that are replayed on the stream of their capture (see the disagreements above).

*The argument.* First the lemmas about the chain of one segment, with no state in them:
what splitting a block, merging it with a neighbour of the same kind, marking it mapped
or unmapped and giving pages back do to a tiling (`Chain`, `Coalesced`, `BackedBy`).
Then one lemma for each action. `EverythingReleased` needs that blocks are merged: a
page in which two free blocks met would be given back by neither.

### TensorSharing_proof

For any storages, sends, consumers, files of any size, and number of threads that
overlap:

| Theorem | States |
| --- | --- |
| `Invariance` | `Spec => []IInv` |
| `CountersStayMapped` | `Spec => []CountersMapped` |
| `BookkeepingHolds` | `Spec => []Bookkeeping` |
| `CollectionFrees` | `Spec => CollectFrees`, an action property |
| `Refinement` | `Spec => Implements`: the specification of `LeasedMemory` |

*Assumptions.* Finitely many sends, files with at least one slot.

*The invariant.* `SendOK` and `MemOK` say that dropped memory hangs on the outermost
of its sent data, which is in limbo or with one thread; that what limbo or a
thread destroys next has a counter of 0; and that a counter is 1 as long as a
consumer borrows. `FilesOK` is about `used_slots_`, which is exact only when no
other thread runs between its load and its store, and `CacheOK` about how often
the pointer of a consumer is owned and its handle open. `ThreadOK` keeps, for
`CollectFrees`, what was unused when a collection began.

*The refinement.* A block of `LeasedMemory` is reclaimed by the last destructor of
a chain. By `SendOK` its sent data has counter 0, by `MemOK` the whole chain has
been destroyed, and a loan holds its counter at 1, so no loan is left. Every
other step maps to a loan, the end of one, letting go, or a stutter. Kernels on streams
that the deleter does not wait for (`aside`), of which there may be any number, are not
part of a loan: the theorem says that the counters protect what the deleter waits for,
and the run `sharing_side_stream` that they protect no more.

### ProcessGroup_proof

For any works, settings, kinds of work, hooks that throw and number of ephemeral
timeouts:

| Theorem | States |
| --- | --- |
| `Invariance` | `Spec => []IInv` |
| `TensorsStay` | `Spec => []TensorsKept` |
| `ResultsBeforeRetirement` | `Spec => []RetiredHasResult` |
| `BookkeepingHolds` | `Spec => []Bookkeeping` |
| `PendingWorksHooked` | `Spec => PendingMeansHooked`, an action property |

*Assumptions.* Only that the settings are settings, and that `NoWork` is no work.

*The invariant.* `MainOK` and `WatchdogOK` say what the program's thread and the
watchdog know of the work they are at. What makes `RetiredHasResult` hold is that
a work in the list has an error only while the watchdog handles it, and the
result `SUCCESS` only just before it is retired (`WorkOK`): between the check
for an error and the mark no other thread touches the copy in the list.
`TensorsKept` needs that the watchdog takes the tensors off their shelf only from
a work that has an error or whose kernel has ended, which has to be carried
from `isCompleted` over `markCompleted` to the shelf. `EphemeralOwned` speaks
of a set of timeouts and of an owner of each, since a sum over works would need
induction; a timeout that a coalesced operation took has the owner `NoWork`.
`PendingMeansHooked` needs that a retired work is in `completedWorkList_` or has
been through its hook, and that the hook thread leaves its entry there until
the hook has returned.

*The argument.* The invariant is regrouped by side (the threads, the lists, the
lives of works, the timeouts); for each side a lemma says which variables it
depends on, so that the lemma about an action has a step only for the sides it
disturbs.

### HeartbeatMonitor_proof

For any number of ranks, any length of a dump, any number of faults, and a
heartbeat longer than four dump timeouts:

| Theorem | States |
| --- | --- |
| `Invariance` | `Spec => []IInv` |
| `NoFalseAlarmHolds` | `Spec => []NoFalseAlarm` |
| `DumpsFinish` | `Spec => []DumpedBeforeThrow` |

*Assumptions.* `TimeAssumption`: 8 minutes without a heartbeat are longer than the
minute a watchdog sleeps after it has signalled. Without this the monitor would
take the sleeping watchdog for a hung one.

*The invariant.* `BeatsInTime` bounds the time since the last heartbeat by where
the watchdog is. `DumpsInTime` relates the sleep of a watchdog to the progress of
the monitor of every other rank: a tick to poll, and two attempts of one dump
timeout each, fit into four dump timeouts (`PollsInTime`: the monitor is at
most a tick from its next poll unless the program keeps its work list changing).

### CaptureDeferral_proof

For any streams, blocks of either pool, programs inside and outside the capture:

| Theorem | States |
| --- | --- |
| `Invariance` | `Spec => []IInv` |
| `OthersAwaited` | `Spec => []DeferredWorkAwaited` |
| `CapturedReuseOrdered` | `Spec => []ReuseOrdered` |
| `BookkeepingHolds` | `Spec => []Bookkeeping` |
| `EventsOutsideCapture` | `Spec => NoEventInCapture`, an action property |

*The invariant.* `GraphOK`: the captured graph is closed under ancestors and a
stream's next node comes after all of its nodes. `LifeOK` says, for each state of
a block, what the kernels that were captured on it have to do with it: all
precede the next node of `Home` when it is free; each precedes a marker when it
is deferred with markers; the ones of earlier lives precede its allocation
when it is allocated, and those of this life are on streams that `free` knows
of. Reuse then moves from one to the next: all markers precede the terminals
of `Home`. Markers of an earlier capture may be left in a block that is still
deferred; nothing has been captured on such a block. `Awaited` follows eager work
through all of this: while a kernel of another stream is pending, its stream is
recorded for a block that is allocated or deferred, or an event of a waiting block lies
behind it, or the stream is hidden by a capture (`Unwatched`). The flags that a deferred
block keeps in `musagraph_stream_uses` are among the hidden ones, so that those which
`insert_events_deferred_until_no_capture` removes hide nothing else.

### Communicators_proof

For any number of ranks, any well-formed programs (messages are between ranks, and
a group ends after it has started: `ConfigsAssumption`) and any failures. For the
first three theorems programs need not fit together.

| Theorem | States |
| --- | --- |
| `Invariance` | `Spec => []IInv` |
| `ConsistentHolds` | `Spec => []Consistent`: the ranks that hand one unique id to `mcclCommInitRank` mean the same communicator and have different ranks in it |
| `WatchedHolds` | `Spec => []Watched` for `Plain` programs, in which no group is started, and no operation is synchronous, inside a group |
| `CollectivesAgreeHolds` | `Spec => []CollectivesAgree` for `Fitting` programs |
| `OffsetsMatchHolds` | `Spec => []OffsetsMatch` for `Fitting` programs, if `OneAllToAllv` |

*The invariant.* `UsesOK` is about everything a unique id stands for: the key of the
store it was published under, the communicator of a rank that is about to use it, of
one that waits for the others, and of those that have joined. An id has one key and
was created by its rank before; garbage, which has the number 0, is only used for a
message of its rank to itself. That the keys of the store can be told apart is
`StoreOK`: a counter stands for the communicator of all ranks, a pair for that of two
ranks, and offsets have keys of three parts. `PlaceOK` makes `storeKey` and `Key`
agree: a rank that creates a communicator for a single message has not connected
eagerly, since it would have found one. `JoinedOK` has the size and the rank in a
communicator as functions of its key. For `Watched`, `Clean` says of a stream which
operations have no end event behind their kernels: those of the group the rank is
in, on the stream of the communicator, where `endCoalescing` will record it. Without
`Plain` the property is false (see the observations about groups above).

*Fitting programs.* The last two theorems compare ranks, so they ask of the programs
what the interface asks of their users: the n-th collective is the same operation on
every rank, and is first in its group on all ranks or on none (`SameCollectives`);
groups are not nested, and the calls of `collectiveCoalesced` come first in theirs
(`WellGrouped`). Messages, empty groups and eager connections may stand anywhere, and
differ from rank to rank. `OneAllToAllv` says that no group has two `all_to_allv`
calls; these would share a key of the store, and the property is false for them. All
programs of the run are `Plain` and `Fitting`, and satisfy `OneAllToAllv`.

*Sequence numbers.* `seqCollective_` is a counter that three functions take turns to
increment; `NumOK` says what it is at every point of a call: a function, `Number`, of
how many collectives the program has had (`Done`), namely of those that take a number
because they share none with their group. `CoalescingOK` ties the coalescing state to
the program, `IssuedOK` says that the n-th collective is the n-th on the communicator,
so that ranks can be compared by n, and `EventsOK` that works have their collective's
number. That every collective up to the n-th is in the program (`Reaches`) is a
conjunct of the invariant that a step extends by one, where one would expect an
induction over the programs.

*Offsets.* Under a key of offsets is the call that its number says (`OffsetOK`): ranks
that are ahead publish later calls, but these have other numbers. The call is named
with the id of the communicator of all ranks, so `FInv` shows that all ranks have the
same: rank 0 is the only one that writes counted keys and counts what it writes, so
the first key is written once, and no rank counts before it has a communicator of all
ranks or is about to.

### What is only model-checked

Liveness, and everything else under fairness: `LockReleased` of `DeviceAllocator`,
`ShutdownReturns` and `ResultDelivered` of `ProcessGroup`, `HangEnds` and
`DestructorReturns` of `HeartbeatMonitor`, `AllFinish` of `Communicators`.

## What is not modelled

Most of the repository's code (operators, kernels, linear algebra, bindings, code
generation) is numerical or interface code without state that outlives a call, and
is almost two thirds of its lines; of the runtime itself much is wrappers,
bindings, logging and the formatting of reports. The modules are about the code that
decides, so the share of all lines they stand for is small. Left out of it:

- `DeviceAllocator`: checkpointed pool states, traces and snapshots, changes of
  settings and of the memory fraction at run time (so a changed `max_split_size`
  with blocks split before), `roundup_power2_divisions` (requests are rounded
  sizes), the age counters that garbage collection orders blocks by (any order is
  possible).
- `CaptureDeferral`: splitting, and allocation on several streams.
- `PrivatePools`: splitting, custom allocators of a `MemPool`, `keep_graph`, a second
  capture by a graph whose first one failed, and the moment between
  `musaStreamBeginCapture` and the assignment of `capture_id_`.
- `ExpandableSegments`: `fromShared`, `max_split_size` and the memory fraction,
  several devices; errors of the driver outside of `map` (of the query of the device's
  attribute, of `muMemRelease` when handles are given back, of the export, and of
  synchronizing, `muMemUnmap` and `muMemRelease` when pages are unmapped), and what
  follows when `addPeer` has failed.
- `TensorSharing`: events sent along with the memory, several segments (all memory
  has one IPC handle), the limit on the number of events.
- `ProcessGroup`: the desync debugger, status logs, registration of memory pools,
  `split`. The event cache hands events to works and is taken to be fresh.
- `Communicators`: non-blocking and scalable initialisation, splitting, checks of
  tensors; works of operations that are captured in a graph, which are not enqueued
  (3353, 3633, 3924, and 3195 for groups), and blocking mode, in which `workEnqueue`
  enqueues none (3126): every work is one that the watchdog gets.
- `HeartbeatMonitor`: requests through the dump pipe, the check of the GIL (300 ms at
  most, in a thread that is detached), a second process group in the process.

The parts of the table without a module are symmetric memory, whose barriers are
device code; pinned host memory, whose recycling is ATen's and not in the
repository; streams and events, which each module models as it needs them; the
trace's `RingBuffer` and the other allocators, which are sequential; `PROJECT.json`
has the reason for each.

--------------------------- MODULE DeviceAllocator ---------------------------
(***************************************************************************)
(* DeviceCachingAllocator of core/MUSACachingAllocator.cpp: the per-device *)
(* caching allocator, outside graph capture and without expandable         *)
(* segments.                                                               *)
(*                                                                         *)
(* Memory is an address space of NumUnits units; the driver (musaMalloc,   *)
(* musaFree) hands out segments of it, and the allocator cuts every        *)
(* segment into a doubly linked list of Blocks.  A Block* is identified by *)
(* the address of its first unit; 0 is nullptr.                            *)
(*                                                                         *)
(* The GPU executes the kernels of one stream in order.  pend[s][a] is the *)
(* number of kernels stream s still has to complete until its last kernel  *)
(* that touches unit a is done (0: stream s does not use a), and an event  *)
(* recorded on s carries the number of kernels in front of it.             *)
(***************************************************************************)
EXTENDS Integers, FiniteSets

CONSTANTS
  Threads,          \* host threads calling the allocator
  Streams,          \* MUSA streams
  NumUnits,         \* size of the device memory
  DriverAlign,      \* alignment of the segments of the driver
  Requests,         \* the sizes asked for (after round_size)
  kSmallSize, kSmallBuffer, kMinLargeAlloc, kLargeBuffer, kRoundLarge,
  MaxSplitSize,     \* MUSAAllocatorConfig::max_split_size()
  MaxNonSplitRounding,  \* MUSAAllocatorConfig::max_non_split_rounding_size()
  AllowedMax,       \* allowed_memory_maximum (when no fraction was set: more
                    \* than any sum of segments)
  GcThreshold,      \* total_allocated_memory above which blocks are collected
  ReleaseLock,      \* MUSAAllocatorConfig::release_lock_on_musamalloc()
  MaxDepth,         \* bound: kernels queued on one stream
  NULL

ASSUME ThreadAssumption == NULL \notin Threads /\ NULL \notin Streams
ASSUME StreamAssumption == IsFiniteSet(Streams)
ASSUME SizeAssumption ==
  /\ NumUnits \in Nat /\ DriverAlign \in Nat \ {0} /\ MaxDepth \in Nat
  /\ Requests \subseteq Nat \ {0}
  /\ kSmallSize \in Nat \ {0} /\ kSmallBuffer \in Nat /\ kMinLargeAlloc \in Nat
  /\ kLargeBuffer \in Nat /\ kRoundLarge \in Nat
  /\ MaxSplitSize \in Nat /\ MaxNonSplitRounding \in Nat
  /\ AllowedMax \in Nat /\ GcThreshold \in Nat
  /\ kSmallSize <= kSmallBuffer /\ kMinLargeAlloc <= kLargeBuffer
\* parseMaxSplitSize: max_split_size is above kLargeBuffer and a whole number of
\* MiB (kSmallSize), and kRoundLarge is two of them, so that rounding a request
\* below it exceeds it by at most kSmallSize.
ASSUME SplitAssumption ==
  /\ kSmallBuffer < MaxSplitSize /\ kLargeBuffer < MaxSplitSize
  /\ kRoundLarge = 2 * kSmallSize /\ MaxSplitSize % kSmallSize = 0
ASSUME LockAssumption == ReleaseLock \in BOOLEAN

Units == 1..NumUnits
NoEvent == -1

\* A Block that does not exist (deleted, or not yet created).
NoBlock == [size |-> 0, prev |-> 0, next |-> 0, stream |-> NULL,
            is_small |-> FALSE, allocated |-> FALSE, stream_uses |-> {},
            event_count |-> 0]

NewBlock(n, s, small) ==
  [size |-> n, prev |-> 0, next |-> 0, stream |-> s, is_small |-> small,
   allocated |-> FALSE, stream_uses |-> {}, event_count |-> 0]

Block == [size : 0..NumUnits, prev : 0..NumUnits, next : 0..NumUnits,
          stream : Streams \cup {NULL}, is_small : BOOLEAN,
          allocated : BOOLEAN, stream_uses : SUBSET Streams,
          event_count : Int]

\* Mutant of Linking: the back pointer of a spliced block is forgotten.
Linking_PrevKept(b, size, prev, next) ==
  [size |-> size, prev |-> b.prev, next |-> next, stream |-> b.stream,
   is_small |-> b.is_small, allocated |-> b.allocated,
   stream_uses |-> b.stream_uses, event_count |-> b.event_count]

\* A Block with new geometry, and one with new marks.
Linking(b, size, prev, next) ==
  [size |-> size, prev |-> prev, next |-> next, stream |-> b.stream,
   is_small |-> b.is_small, allocated |-> b.allocated,
   stream_uses |-> b.stream_uses, event_count |-> b.event_count]

Marking(b, allocated, uses, count) ==
  [size |-> b.size, prev |-> b.prev, next |-> b.next, stream |-> b.stream,
   is_small |-> b.is_small, allocated |-> allocated,
   stream_uses |-> uses, event_count |-> count]

VARIABLES
  block,        \* [Units -> Block]: the Block objects
  cached,       \* union of small_blocks.blocks and large_blocks.blocks
  active,       \* active_blocks
  musa_events,  \* [Streams -> [Units -> NoEvent or kernels ahead]]
  total,        \* total_allocated_memory
  stats,        \* inactive_split and inactive_split_bytes
  segment,      \* driver: size of the segment that starts at a unit, or 0
  pend,         \* GPU: kernels to complete until stream s no longer uses a
  depth,        \* GPU: kernels queued on a stream
  lock,         \* owner of the allocator mutex
  pc,           \* where each thread is inside malloc or emptyCache
  call,         \* arguments and progress of that call
  todo          \* streams the event loop of the lock owner still visits

blockVars == <<block, cached, active, stats>>
driverVars == <<total, segment>>
gpuVars == <<pend, depth>>
threadVars == <<lock, pc, call, todo>>
vars == <<blockVars, musa_events, driverVars, gpuVars, threadVars>>

NoCall == [size |-> 0, stream |-> NULL, try |-> 0, ptr |-> 0]

Init ==
  /\ block = [a \in Units |-> NoBlock]
  /\ cached = {} /\ active = {}
  /\ musa_events = [s \in Streams |-> [a \in Units |-> NoEvent]]
  /\ total = 0
  /\ stats = [inactive_split |-> 0, inactive_split_bytes |-> 0]
  /\ segment = [a \in Units |-> 0]
  /\ pend = [s \in Streams |-> [a \in Units |-> 0]]
  /\ depth = [s \in Streams |-> 0]
  /\ lock = NULL
  /\ pc = [t \in Threads |-> "idle"]
  /\ call = [t \in Threads |-> NoCall]
  /\ todo = {}

(***************************************************************************)
(* Sizes.                                                                  *)
(***************************************************************************)
is_small(n) == n <= kSmallSize

get_allocation_size(n) ==
  IF n <= kSmallSize THEN kSmallBuffer
  ELSE IF n < kMinLargeAlloc THEN kLargeBuffer
  ELSE kRoundLarge * ((n + kRoundLarge - 1) \div kRoundLarge)

\* Mutant of should_split: the limit on the request is forgotten.
should_split_Oversize(b, n) ==
  IF b.is_small THEN b.size - n >= 1 ELSE b.size - n > kSmallSize

\* kMinBlockSize is one unit.
should_split(b, n) ==
  IF b.is_small THEN b.size - n >= 1
  ELSE n < MaxSplitSize /\ b.size - n > kSmallSize

(***************************************************************************)
(* Blocks.                                                                 *)
(***************************************************************************)
Blocks == {a \in Units : block[a].size > 0}
Extent(a) == a .. (a + block[a].size - 1)
is_split(b) == b.prev # 0 \/ b.next # 0
\* Blocks are disjoint, so that their sizes add up to the units they cover.
Covered(S) == UNION {Extent(a) : a \in S}
BytesOf(S) == Cardinality(Covered(S))

\* alloc_found_block: block b, starting at u and out of its pool, serves a
\* request of n units; what is left of it goes back to the pool.
alloc_found_block(u, b, n) ==
  LET split == should_split(b, n)
      r == u + n
      rest == b.size - n
      taken == Marking(b, TRUE, b.stream_uses, b.event_count)
  IN /\ block' = IF split
          THEN [a \in Units |->
                  IF a = u THEN Linking(taken, n, b.prev, r)
                  ELSE IF a = r THEN Linking(b, rest, u, b.next)
                  ELSE IF a = b.next
                    THEN Linking(block[a], block[a].size, r, block[a].next)
                  ELSE block[a]]
          ELSE [block EXCEPT ![u] = taken]
     /\ cached' = IF split THEN (cached \ {u}) \cup {r} ELSE cached \ {u}
     /\ active' = active \cup {u}
     /\ stats' =
          LET Add(count, bytes) ==
                [inactive_split |-> stats.inactive_split + count,
                 inactive_split_bytes |-> stats.inactive_split_bytes + bytes]
          IN IF split THEN IF is_split(b) THEN Add(0, -n) ELSE Add(1, rest)
             ELSE IF is_split(b) THEN Add(-1, -b.size) ELSE Add(0, 0)

\* Mutant of can_merge: an allocated neighbour is merged too.
can_merge_Allocated(src) ==
  /\ src # 0
  /\ block[src].event_count = 0
  /\ block[src].stream_uses = {}

\* The test of try_merge_blocks on the neighbour src.
can_merge(src) ==
  /\ src # 0
  /\ ~block[src].allocated
  /\ block[src].event_count = 0
  /\ block[src].stream_uses = {}

\* free_block: block b, that starts at u, absorbs its free neighbours and is
\* put into its pool.
free_block(u, b) ==
  LET p == IF can_merge(b.prev) THEN b.prev ELSE 0
      n == IF can_merge(b.next) THEN b.next ELSE 0
      lo == IF p # 0 THEN p ELSE u
      psize == IF p # 0 THEN block[p].size ELSE 0
      nsize == IF n # 0 THEN block[n].size ELSE 0
      before == IF p # 0 THEN block[p].prev ELSE b.prev
      after == IF n # 0 THEN block[n].next ELSE b.next
      merged == Linking(b, b.size + psize + nsize, before, after)
      subsumed == (IF p # 0 THEN 1 ELSE 0) + (IF n # 0 THEN 1 ELSE 0)
  IN /\ block' = [a \in Units |->
                    IF a = lo THEN merged
                    ELSE IF a = u \/ a = n THEN NoBlock
                    ELSE IF a = after
                      THEN Linking(block[a], block[a].size, lo, block[a].next)
                    ELSE block[a]]
     /\ cached' = (cached \ {n}) \cup {lo}
     /\ active' = active \ {u}
     /\ stats' = [inactive_split |-> stats.inactive_split - subsumed
                       + (IF is_split(merged) THEN 1 ELSE 0),
                  inactive_split_bytes |->
                       stats.inactive_split_bytes - psize - nsize
                       + (IF is_split(merged) THEN merged.size ELSE 0)]

(***************************************************************************)
(* release_block for every block of R.  musaFree returns the segment that  *)
(* starts at the block's address, after waiting for the kernels that use   *)
(* it.                                                                     *)
(***************************************************************************)
musaFreeReturns(R) ==
  \A u \in R : \A a \in Extent(u) \cap Units : \A s \in Streams : pend[s][a] = 0

release_blocks(R) ==
  /\ musaFreeReturns(R)
  /\ block' = [a \in Units |-> IF a \in R THEN NoBlock ELSE block[a]]
  /\ cached' = cached \ R
  /\ segment' = [a \in Units |-> IF a \in R THEN 0 ELSE segment[a]]
  /\ total' = total - BytesOf(R)
  /\ UNCHANGED <<active, stats>>

(***************************************************************************)
(* get_free_block: lower_bound in the pool ordered by stream, size and     *)
(* address, and the two oversize rules.                                    *)
(***************************************************************************)
SamePool(s, n) ==
  {u \in cached : block[u].is_small = is_small(n) /\ block[u].stream = s}

\* BlockComparatorSize within one stream.
Before(u, v) ==
  \/ block[u].size < block[v].size
  \/ block[u].size = block[v].size /\ u < v

lower_bound(pool, n, u) ==
  /\ u \in pool /\ block[u].size >= n
  /\ \A v \in pool \ {u} : block[v].size >= n => Before(u, v)

get_free_block(s, n, u) ==
  /\ lower_bound(SamePool(s, n), n, u)
  /\ ~(n < MaxSplitSize /\ block[u].size >= MaxSplitSize)
  /\ ~(n >= MaxSplitSize /\ block[u].size >= n + MaxNonSplitRounding)

(***************************************************************************)
(* free: a block no other stream has used goes back to its pool at once;   *)
(* otherwise insert_events records an event on every stream of its         *)
(* stream_uses and the block waits for them.                               *)
(***************************************************************************)
\* Mutant of insert_events: the events are recorded on the block's own stream.
insert_events_OwnStream(u) ==
  LET uses == block[u].stream_uses
  IN /\ block' = [block EXCEPT ![u] =
                    Marking(@, FALSE, {}, @.event_count + Cardinality(uses))]
     /\ musa_events' = [s \in Streams |->
                          IF s \in uses
                            THEN [musa_events[s] EXCEPT ![u] = depth[block[u].stream]]
                            ELSE musa_events[s]]
     /\ UNCHANGED <<cached, active, stats>>

insert_events(u) ==
  LET uses == block[u].stream_uses
  IN /\ block' = [block EXCEPT ![u] =
                    Marking(@, FALSE, {}, @.event_count + Cardinality(uses))]
     /\ musa_events' = [s \in Streams |->
                          IF s \in uses
                            THEN [musa_events[s] EXCEPT ![u] = depth[s]]
                            ELSE musa_events[s]]
     /\ UNCHANGED <<cached, active, stats>>

free(u) ==
  \/ /\ block[u].stream_uses # {}
     /\ insert_events(u)
  \/ /\ block[u].stream_uses = {}
     /\ free_block(u, Marking(block[u], FALSE, block[u].stream_uses,
                             block[u].event_count))
     /\ UNCHANGED musa_events

Free(t, u) ==
  /\ lock = NULL /\ pc[t] = "idle"
  /\ u \in Blocks /\ block[u].allocated
  /\ free(u)
  /\ UNCHANGED <<driverVars, gpuVars, threadVars>>

RecordStream(t, u, s) ==
  /\ lock = NULL /\ pc[t] = "idle"
  /\ u \in Blocks /\ block[u].allocated
  /\ s # block[u].stream
  /\ block' = [block EXCEPT ![u] =
                 Marking(@, TRUE, @.stream_uses \cup {s}, @.event_count)]
  /\ UNCHANGED <<cached, active, stats, musa_events, driverVars, gpuVars,
                 threadVars>>

(***************************************************************************)
(* malloc.  The lock is taken, the events of every stream are processed,   *)
(* the pool is searched, then the driver is asked up to three times.       *)
(***************************************************************************)
Locked(t, where) == lock = t /\ pc[t] = where

Malloc(t, s, n) ==
  /\ lock = NULL /\ pc[t] = "idle"
  /\ lock' = t
  /\ pc' = [pc EXCEPT ![t] = "process_events"]
  /\ call' = [call EXCEPT ![t] = [size |-> n, stream |-> s, try |-> 0, ptr |-> 0]]
  /\ todo' = Streams
  /\ UNCHANGED <<blockVars, musa_events, driverVars, gpuVars>>

\* The completed event of block u on stream s leaves the queue; the block is
\* freed with its last event.
pop_event(s, u) ==
  LET b == Marking(block[u], block[u].allocated, block[u].stream_uses,
                   block[u].event_count - 1)
  IN /\ musa_events[s][u] = 0
     /\ musa_events' = [musa_events EXCEPT ![s][u] = NoEvent]
     /\ \/ /\ b.event_count = 0
           /\ free_block(u, b)
        \/ /\ b.event_count # 0
           /\ block' = [block EXCEPT ![u] = b]
           /\ UNCHANGED <<cached, active, stats>>

\* One turn of the loops of process_events: a completed event of stream s is
\* popped, or none of its events is ready and the loop goes to another stream.
ProcessEvents(t, s) ==
  /\ Locked(t, "process_events") /\ s \in todo
  /\ \/ /\ \E u \in Units : pop_event(s, u)
        /\ UNCHANGED todo
     \/ /\ \A u \in Units : musa_events[s][u] # 0
        /\ todo' = todo \ {s}
        /\ UNCHANGED <<blockVars, musa_events>>
  /\ UNCHANGED <<driverVars, gpuVars, lock, pc, call>>

Return(t) ==
  /\ lock' = NULL
  /\ pc' = [pc EXCEPT ![t] = "idle"]
  /\ call' = [call EXCEPT ![t] = NoCall]
  /\ UNCHANGED todo

Goto(t, where) ==
  /\ pc' = [pc EXCEPT ![t] = where]
  /\ UNCHANGED <<lock, call, todo>>

\* get_free_block, before (where = "process_events") and after (where =
\* "callbacks") the free-memory callbacks; on failure go to next.
Search(t, where, next) ==
  /\ Locked(t, where) /\ (where = "process_events" => todo = {})
  /\ \/ \E u \in cached :
          /\ get_free_block(call[t].stream, call[t].size, u)
          /\ alloc_found_block(u, block[u], call[t].size)
          /\ Return(t)
     \/ /\ \A u \in cached : ~get_free_block(call[t].stream, call[t].size, u)
        /\ Goto(t, next)
        /\ UNCHANGED blockVars
  /\ UNCHANGED <<musa_events, driverVars, gpuVars>>

GetFreeBlock(t) == Search(t, "process_events", "callbacks")

\* trigger_free_memory_callbacks: a callback (MusaIPCCollect) may free blocks,
\* on the thread that holds the recursive mutex.
FreeMemoryCallback(t, u) ==
  /\ Locked(t, "callbacks")
  /\ u \in Blocks /\ block[u].allocated
  /\ free(u)
  /\ UNCHANGED <<driverVars, gpuVars, threadVars>>

GetFreeBlockRetry(t) == Search(t, "callbacks", "garbage_collect")

\* Mutant of GarbageCollect: the walk over the large blocks does not ask whether
\* a block is cached.
GarbageCollect_Allocated(t) ==
  LET freeable == {u \in Blocks : ~block[u].is_small /\ ~is_split(block[u])}
  IN /\ Locked(t, "garbage_collect")
     /\ IF total > GcThreshold /\ freeable # {}
        THEN release_blocks(freeable)
        ELSE UNCHANGED <<blockVars, driverVars>>
     /\ Goto(t, "alloc_block")
     /\ UNCHANGED <<musa_events, gpuVars>>

\* garbage_collect_cached_blocks: above the threshold, unsplit blocks of the
\* large pool are released, oldest first, until enough is reclaimed or none is
\* left.  The ages are abstracted: any such set may be the oldest blocks.
GarbageCollect(t) ==
  LET freeable == {u \in cached : ~block[u].is_small /\ ~is_split(block[u])}
  IN /\ Locked(t, "garbage_collect")
     /\ \/ /\ total > GcThreshold /\ freeable # {}
           /\ \E R \in SUBSET freeable \ {{}} :
                /\ R = freeable \/ BytesOf(R) >= total - GcThreshold
                /\ release_blocks(R)
        \/ /\ total <= GcThreshold \/ freeable = {}
           /\ UNCHANGED <<blockVars, driverVars>>
     /\ Goto(t, "alloc_block")
     /\ UNCHANGED <<musa_events, gpuVars>>

\* Mutant of AllocFailed: the last failure starts over instead of throwing.
AllocFailed_NoOutOfMemory(t) ==
  /\ pc' = [pc EXCEPT ![t] = IF call[t].try = 0 THEN "release_available"
                                                ELSE "synchronize"]
  /\ lock' = t /\ UNCHANGED <<call, todo>>

\* What malloc does when the call number try of alloc_block has failed.
AllocFailed(t) ==
  \/ /\ call[t].try = 0
     /\ pc' = [pc EXCEPT ![t] = "release_available"]
     /\ lock' = t /\ UNCHANGED <<call, todo>>
  \/ /\ call[t].try = 1
     /\ pc' = [pc EXCEPT ![t] = "synchronize"]
     /\ lock' = t /\ UNCHANGED <<call, todo>>
  \/ /\ call[t].try = 2      \* OutOfMemoryError
     /\ Return(t)

\* alloc_block up to the call of the driver.
AllocBlock(t) ==
  LET size == get_allocation_size(call[t].size)
  IN /\ Locked(t, "alloc_block")
     /\ \/ /\ total + size > AllowedMax
           /\ AllocFailed(t)
        \/ /\ total + size <= AllowedMax
           /\ pc' = [pc EXCEPT ![t] = "musaMalloc"]
           /\ lock' = IF ReleaseLock THEN NULL ELSE lock
           /\ UNCHANGED <<call, todo>>
     /\ UNCHANGED <<blockVars, musa_events, driverVars, gpuVars>>

\* The driver: a free range of the address space, or musaErrorMemoryAllocation.
Owned == UNION {b .. (b + segment[b] - 1) : b \in {a \in Units : segment[a] > 0}}

Room(p, n) ==
  /\ (p - 1) % DriverAlign = 0
  /\ p + n - 1 <= NumUnits
  /\ (p .. (p + n - 1)) \cap Owned = {}

MusaMalloc(t) ==
  LET size == get_allocation_size(call[t].size)
  IN /\ pc[t] = "musaMalloc"
     /\ \/ \E p \in Units :
             /\ Room(p, size)
             /\ segment' = [segment EXCEPT ![p] = size]
             /\ call' = [call EXCEPT ![t].ptr = p]
        \/ /\ \A p \in Units : ~Room(p, size)
           /\ UNCHANGED <<segment, call>>
     /\ pc' = [pc EXCEPT ![t] = "after_musaMalloc"]
     /\ UNCHANGED <<blockVars, musa_events, total, gpuVars, lock, todo>>

\* Mutants of AfterMusaMalloc: the Block is made as large as the request, not
\* the segment; the request is added to total_allocated_memory, not the segment.
AfterMusaMallocWith(t, size, added) ==
  LET n == call[t].size
  IN /\ pc[t] = "after_musaMalloc"
     /\ lock = IF ReleaseLock THEN NULL ELSE t
     /\ \/ /\ call[t].ptr # 0
           /\ total' = total + added
           /\ alloc_found_block(call[t].ptr,
                NewBlock(size, call[t].stream, is_small(n)), n)
           /\ Return(t)
        \/ /\ call[t].ptr = 0
           /\ AllocFailed(t)
           /\ UNCHANGED <<blockVars, total>>
     /\ UNCHANGED <<musa_events, segment, gpuVars>>
AfterMusaMalloc_ShortBlock(t) ==
  AfterMusaMallocWith(t, call[t].size, get_allocation_size(call[t].size))
AfterMusaMalloc_ShortTotal(t) ==
  AfterMusaMallocWith(t, get_allocation_size(call[t].size), call[t].size)

\* alloc_block after the call of the driver, with the lock taken again.
AfterMusaMalloc(t) ==
  LET n == call[t].size
      size == get_allocation_size(n)
  IN /\ pc[t] = "after_musaMalloc"
     /\ lock = IF ReleaseLock THEN NULL ELSE t
     /\ \/ /\ call[t].ptr # 0
           /\ total' = total + size
           /\ alloc_found_block(call[t].ptr,
                NewBlock(size, call[t].stream, is_small(n)), n)
           /\ Return(t)
        \/ /\ call[t].ptr = 0
           /\ AllocFailed(t)
           /\ UNCHANGED <<blockVars, total>>
     /\ UNCHANGED <<musa_events, segment, gpuVars>>

\* release_available_cached_blocks: one oversize block that is large enough, or
\* oversize blocks from the largest down until they add up to the request.
LargestFirst(R, D, size) ==
  /\ R \subseteq D
  /\ \A u \in R, v \in D \ R : Before(v, u)
  /\ R = D \/ BytesOf(R) >= size
  /\ \A u \in R : (\A v \in R \ {u} : Before(u, v)) => BytesOf(R \ {u}) < size

ReleaseAvailable(t) ==
  LET n == call[t].size
      pool == SamePool(call[t].stream, n)
      key == IF n < MaxSplitSize THEN MaxSplitSize ELSE n
      oversize == {u \in pool : block[u].size >= MaxSplitSize}
      Again(enough) ==
        /\ call' = IF enough THEN [call EXCEPT ![t].try = 1] ELSE call
        /\ pc' = [pc EXCEPT ![t] = IF enough THEN "alloc_block" ELSE "synchronize"]
  IN /\ Locked(t, "release_available")
     /\ \/ \E u \in pool :
             /\ lower_bound(pool, key, u)
             /\ release_blocks({u})
             /\ Again(TRUE)
        \/ /\ \A u \in pool : block[u].size < key
           /\ \E R \in SUBSET oversize :
                /\ LargestFirst(R, oversize, key)
                /\ release_blocks(R)
                /\ Again(BytesOf(R) >= key)
     /\ UNCHANGED <<musa_events, gpuVars, lock, todo>>

(***************************************************************************)
(* release_cached_blocks, called by malloc before its last try and by      *)
(* emptyCache: synchronize_and_free_events waits for every event, then     *)
(* all unsplit cached blocks are released.                                 *)
(***************************************************************************)
EmptyCache(t) ==
  /\ lock = NULL /\ pc[t] = "idle"
  /\ lock' = t
  /\ pc' = [pc EXCEPT ![t] = "synchronize"]
  /\ UNCHANGED <<blockVars, musa_events, driverVars, gpuVars, call, todo>>

SynchronizeEvent(t, s, u) ==
  /\ Locked(t, "synchronize")
  /\ pop_event(s, u)
  /\ UNCHANGED <<driverVars, gpuVars, threadVars>>

\* Mutant of ReleaseCachedBlocks: split blocks are released too.
ReleaseCachedBlocks_Split(t) ==
  /\ Locked(t, "synchronize")
  /\ \A s \in Streams, u \in Units : musa_events[s][u] = NoEvent
  /\ release_blocks(cached)
  /\ \/ /\ call[t].size # 0
        /\ call' = [call EXCEPT ![t].try = 2]
        /\ pc' = [pc EXCEPT ![t] = "alloc_block"]
        /\ UNCHANGED <<lock, todo>>
     \/ /\ call[t].size = 0
        /\ Return(t)
  /\ UNCHANGED <<musa_events, gpuVars>>

ReleaseCachedBlocks(t) ==
  /\ Locked(t, "synchronize")
  /\ \A s \in Streams, u \in Units : musa_events[s][u] = NoEvent
  /\ release_blocks({u \in cached : ~is_split(block[u])})
  /\ \/ /\ call[t].size # 0
        /\ call' = [call EXCEPT ![t].try = 2]
        /\ pc' = [pc EXCEPT ![t] = "alloc_block"]
        /\ UNCHANGED <<lock, todo>>
     \/ /\ call[t].size = 0
        /\ Return(t)
  /\ UNCHANGED <<musa_events, gpuVars>>

(***************************************************************************)
(* The GPU.  The program launches kernels on the block's own stream, or on *)
(* a stream it has recorded with recordStream.                             *)
(***************************************************************************)
Launch(s, u) ==
  /\ u \in Blocks /\ block[u].allocated
  /\ s = block[u].stream \/ s \in block[u].stream_uses
  /\ depth[s] < MaxDepth
  /\ depth' = [depth EXCEPT ![s] = @ + 1]
  /\ pend' = [pend EXCEPT ![s] =
                 [a \in Units |-> IF a \in Extent(u) THEN depth[s] + 1 ELSE @[a]]]
  /\ UNCHANGED <<blockVars, musa_events, driverVars, threadVars>>

Complete(s) ==
  /\ depth[s] > 0
  /\ depth' = [depth EXCEPT ![s] = @ - 1]
  /\ pend' = [pend EXCEPT ![s] =
                 [a \in Units |-> IF @[a] > 0 THEN @[a] - 1 ELSE 0]]
  /\ musa_events' = [musa_events EXCEPT ![s] =
                 [a \in Units |-> IF @[a] > 0 THEN @[a] - 1 ELSE @[a]]]
  /\ UNCHANGED <<blockVars, driverVars, threadVars>>

\* The steps of a call of malloc or emptyCache that has begun.
CallStep(t) ==
  \/ \E s \in Streams : ProcessEvents(t, s)
  \/ GetFreeBlock(t)
  \/ \E u \in Units : FreeMemoryCallback(t, u)
  \/ GetFreeBlockRetry(t)
  \/ GarbageCollect(t)
  \/ AllocBlock(t)
  \/ MusaMalloc(t)
  \/ AfterMusaMalloc(t)
  \/ ReleaseAvailable(t)
  \/ \E s \in Streams, u \in Units : SynchronizeEvent(t, s, u)
  \/ ReleaseCachedBlocks(t)

Next ==
  \/ \E t \in Threads :
       \/ \E s \in Streams, n \in Requests : Malloc(t, s, n)
       \/ \E u \in Units : Free(t, u)
       \/ \E u \in Units, s \in Streams : RecordStream(t, u, s)
       \/ EmptyCache(t)
       \/ CallStep(t)
  \/ \E s \in Streams : (\E u \in Units : Launch(s, u)) \/ Complete(s)

\* The GPU executes what is queued, and a thread that is inside a call goes on.
Fairness ==
  /\ \A t \in Threads : WF_vars(CallStep(t))
  /\ \A s \in Streams : WF_vars(Complete(s))

Spec == Init /\ [][Next]_vars

FairSpec == Spec /\ Fairness

(***************************************************************************)
(* Properties.                                                             *)
(***************************************************************************)
\* Every variable has its type (that of total is in StatsMatch).
TypeOK ==
  /\ block \in [Units -> Block]
  /\ cached \subseteq Units /\ active \subseteq Units
  /\ musa_events \in [Streams -> [Units -> Nat \cup {NoEvent}]]
  /\ stats \in [inactive_split : Int, inactive_split_bytes : Int]
  /\ segment \in [Units -> Nat]
  /\ pend \in [Streams -> [Units -> Nat]]
  /\ depth \in [Streams -> Nat]
  /\ lock \in Threads \cup {NULL}
  /\ pc \in [Threads -> {"idle", "process_events", "callbacks", "garbage_collect",
                        "alloc_block", "musaMalloc", "after_musaMalloc",
                        "release_available", "synchronize"}]
  /\ call \in [Threads -> [size : Requests \cup {0}, stream : Streams \cup {NULL},
                           try : 0..2, ptr : 0..NumUnits]]
  /\ todo \subseteq Streams

\* A block in a pool, ready to be handed to a request on its own stream, is not
\* used by the pending work of any other stream: free, insert_events and
\* process_events never recycle memory too early.  Work pending on an allocated
\* block that is not from its own stream is from a stream recorded in this
\* lifetime of the block, never from a former owner.
NoForeignWork ==
  \A u \in Blocks : \A a \in Extent(u), s \in Streams \ {block[u].stream} :
    pend[s][a] > 0 => /\ u \notin cached
                      /\ block[u].allocated => s \in block[u].stream_uses

\* Memory the driver has taken back is used by no pending work.
ReturnedMemoryIdle ==
  \A a \in Units \ Owned : \A s \in Streams : pend[s][a] = 0

InFlight(t) == pc[t] = "after_musaMalloc" /\ call[t].ptr # 0
InFlightSegments == {call[t].ptr : t \in {x \in Threads : InFlight(x)}}

\* The linked list of Blocks follows the addresses: splitting and merging keep
\* prev and next inverse to each other, between neighbours of one stream and pool.
Linked ==
  \A u \in Blocks :
    /\ block[u].next # 0 =>
         /\ block[u].next = u + block[u].size
         /\ block[u].next \in Blocks
         /\ block[block[u].next].prev = u
         /\ block[block[u].next].stream = block[u].stream
         /\ block[block[u].next].is_small = block[u].is_small
    /\ block[u].prev # 0 =>
         /\ block[u].prev \in Blocks
         /\ block[block[u].prev].next = u

\* No memory is lost and none is handed out twice: the blocks are disjoint, and
\* together they are exactly the segments obtained from the driver (but for a
\* segment another thread is still carrying back from musaMalloc).
SegmentsTiled ==
  /\ \A u, v \in Blocks : u # v => Extent(u) \cap Extent(v) = {}
  /\ Covered(Blocks) = Owned \ UNION {b .. (b + segment[b] - 1) : b \in InFlightSegments}

\* Two neighbouring free blocks are always merged.
Coalesced == \A u \in cached : block[u].next \notin cached

\* try_merge_blocks tells a pooled neighbour by its flags alone: a block that is
\* not allocated and waits for nothing is in its pool, every other block is in
\* active_blocks.
FlagsMatchPools ==
  /\ cached \subseteq Blocks
  /\ active = Blocks \ cached
  /\ \A u \in Blocks : u \in cached <=> can_merge(u)

\* event_count is the number of events in musa_events that hold the block, and
\* no event holds a block that is gone or still allocated.
EventCounts ==
  \A u \in Units :
    LET waiting == {s \in Streams : musa_events[s][u] # NoEvent}
    IN /\ block[u].event_count = Cardinality(waiting)
       /\ waiting # {} => u \in Blocks /\ ~block[u].allocated

\* release_block gives back whole segments: an unsplit block is exactly one
\* segment, and so is any cached block that counts as oversize, which
\* release_available_cached_blocks releases without looking at prev and next.
ReleasesWholeSegments ==
  \A u \in cached :
    ~is_split(block[u]) \/ block[u].size >= MaxSplitSize =>
      segment[u] = block[u].size

\* The statistics kept incrementally are the ones of the blocks: bytes obtained
\* from the driver, and number and bytes of cached blocks that are split.
StatsMatch ==
  LET inactive == {u \in cached : is_split(block[u])}
  IN /\ total = BytesOf(Blocks)
     /\ stats.inactive_split = Cardinality(inactive)
     /\ stats.inactive_split_bytes = BytesOf(inactive)

\* An allocation keeps its address range and its stream until it is freed,
\* whatever happens to its neighbours.
AllocationStable ==
  [][\A u \in Blocks :
       block[u].allocated =>
         \/ /\ block'[u].size = block[u].size
            /\ block'[u].stream = block[u].stream
            /\ block'[u].allocated
         \/ \E t \in Threads : Free(t, u) \/ FreeMemoryCallback(t, u)]_vars

\* The mutex is never held for ever, although synchronize_and_free_events and
\* musaFree wait for the GPU while they hold it.
LockReleased == \A t \in Threads : lock = t ~> lock # t

(***************************************************************************)
(* The inductive invariant behind the safety properties.                   *)
(***************************************************************************)
\* A block that exists lies inside the memory and has a stream; one that does
\* not has no trace.
WellFormed ==
  \A a \in Units :
    IF block[a].size > 0
      THEN a + block[a].size - 1 <= NumUnits /\ block[a].stream \in Streams
      ELSE block[a] = NoBlock

Disjoint ==
  \A u, v \in Blocks : u < v => u + block[u].size <= v

\* Only an allocated block has stream uses: free moves them into events.
UsesAllocated == \A u \in Blocks : block[u].stream_uses # {} => block[u].allocated

\* Work of a foreign stream is known: its stream is recorded, or an event that
\* completes no earlier than the work holds the block.
WorkTracked ==
  \A u \in Blocks : \A a \in Extent(u), s \in Streams :
    s # block[u].stream /\ pend[s][a] > 0 =>
      s \in block[u].stream_uses \/ musa_events[s][u] >= pend[s][a]

\* Memory outside all blocks is idle.
UncoveredIdle ==
  \A a \in Units : \A s \in Streams :
    pend[s][a] > 0 => \E u \in Blocks : a \in Extent(u)

PendBound == \A s \in Streams, a \in Units : pend[s][a] <= depth[s]

\* Segments of the driver do not overlap.
SegmentsDisjoint ==
  \A p \in Units : segment[p] > 0 =>
    /\ p + segment[p] - 1 <= NumUnits
    /\ \A q \in Units : segment[q] > 0 /\ p < q => p + segment[p] <= q

\* The segments that have been made into blocks.
Settled == {p \in Units : segment[p] > 0 /\ p \notin InFlightSegments}

Inside(u, p) == p <= u /\ u + block[u].size <= p + segment[p]

\* Every block is inside a settled segment; the ends of the linked list are the
\* ends of the segment; every unit of a settled segment is in a block.
SegmentsSplit ==
  /\ \A u \in Blocks : \E p \in Settled : Inside(u, p)
  /\ \A u \in Blocks : block[u].prev = 0 <=> u \in Settled
  /\ \A u \in Blocks, p \in Settled :
       Inside(u, p) /\ block[u].next = 0 => u + block[u].size = p + segment[p]
  /\ \A p \in Settled : \A a \in p .. (p + segment[p] - 1) :
       \E u \in Blocks : a \in Extent(u)

\* Segments of the small pool have kSmallBuffer units.
\* A split block of the large pool has more than kSmallSize units, and its
\* segment at most kSmallSize more than MaxSplitSize: no piece is oversize.
SplitSizes ==
  /\ \A u \in Blocks, p \in Settled :
       block[u].is_small /\ Inside(u, p) => segment[p] <= kSmallBuffer
  /\ \A u \in Blocks, p \in Settled :
       ~block[u].is_small /\ is_split(block[u]) /\ Inside(u, p) =>
         block[u].size > kSmallSize /\ segment[p] <= MaxSplitSize + kSmallSize

\* What a thread carries from one step of malloc to the next.
CallOK ==
  /\ \A t \in Threads :
       /\ pc[t] \notin {"idle", "synchronize"} =>
            call[t].size \in Requests /\ call[t].stream \in Streams
       /\ call[t].size # 0 => call[t].stream \in Streams
       /\ call[t].ptr # 0 =>
            /\ pc[t] = "after_musaMalloc"
            /\ segment[call[t].ptr] = get_allocation_size(call[t].size)
  /\ \A t, x \in Threads : t # x /\ call[t].ptr # 0 => call[t].ptr # call[x].ptr

IInv ==
  /\ TypeOK /\ WellFormed /\ Linked /\ Disjoint
  /\ FlagsMatchPools /\ UsesAllocated /\ EventCounts /\ Coalesced
  /\ WorkTracked /\ UncoveredIdle /\ PendBound
  /\ SegmentsDisjoint /\ SegmentsSplit /\ SplitSizes /\ CallOK

=============================================================================

---------------------------- MODULE PrivatePools ----------------------------
(***************************************************************************)
(* The private pools of DeviceCachingAllocator and those who keep them     *)
(* alive: MUSAGraph (capture_begin .. reset), MemPool objects, and the     *)
(* context manager torch.musa.use_mem_pool.                                *)
(*                                                                         *)
(* A segment is one block here (splitting is in DeviceAllocator), and the  *)
(* driver may refuse memory at any time, because other processes use the   *)
(* device too.  Each thread works on a stream of its own, so the filter of *)
(* a graph capture and the filter of use_mem_pool both select the thread.  *)
(***************************************************************************)
EXTENDS Integers, FiniteSets, SequencesExt

CONSTANTS
  Threads,
  MemPools,        \* MemPool objects, and their ids
  Handles,         \* ids from graph_pool_handle()
  Graphs,          \* MUSAGraph objects, and the ids of their own pools
  Default,         \* small_blocks and large_blocks of the allocator itself
  Segments,        \* what the driver has to give
  Scenarios,       \* the programs to look at: the threads, handles, MemPools and
                   \* graphs they use, the MemPools with use_on_oom, and whether
                   \* segments are at least max_split_size, which is set
  MaxNest,         \* bound: contexts (use_mem_pool, graph) nested on a thread
  MaxUse,          \* bound: a use_count
  NULL

Ids == MemPools \cup Handles \cup Graphs

ASSUME IdAssumption ==
  /\ MemPools \cap Handles = {} /\ MemPools \cap Graphs = {} /\ Handles \cap Graphs = {}
  /\ Default \notin Ids
ASSUME NullAssumption == NULL \notin Threads \cup Ids \cup {Default}
ASSUME FiniteAssumption == IsFiniteSet(Threads) /\ IsFiniteSet(Graphs) /\ IsFiniteSet(Segments)
ASSUME PoolBoundAssumption == MaxNest \in Nat /\ MaxUse \in Nat \ {0}
ASSUME ScenarioAssumption ==
  Scenarios \subseteq [threads : SUBSET Threads, handles : SUBSET Handles,
                       graphs : SUBSET Graphs, mempools : SUBSET MemPools,
                       onOom : SUBSET MemPools, oversize : BOOLEAN]

VARIABLES
  scenario,              \* the program of this behaviour
  graph_pools,           \* SUBSET Ids: the PrivatePools that exist
  use_count,             \* [Ids -> Nat]
  musaMalloc_count,      \* [Ids -> Nat]
  graph_pools_freeable,  \* SUBSET Ids
  captures_underway,     \* Seq([id, by]); by = NULL when the filter selects nobody
  use_on_oom_pools,      \* SUBSET Ids
  segment,               \* [Segments -> Segment]
  lock,                  \* owner of the allocator mutex between steps
  call,                  \* [Threads -> Call]: where a thread is inside malloc
  context,               \* [Threads -> Seq([kind, id])]: with-statements entered
  mempool,               \* [MemPools -> life of the object]
  graph,                 \* [Graphs -> [state, pool]]
  abort,                 \* the assertion in ~MemPool that ended the process
  memory                 \* history, [Graphs -> SUBSET Segments]: what was
                         \* allocated while the graph was captured

poolVars == <<graph_pools, use_count, musaMalloc_count, graph_pools_freeable>>
ownerVars == <<context, mempool, graph>>
vars == <<scenario, poolVars, captures_underway, use_on_oom_pools, segment, lock, call,
          ownerVars, abort, memory>>

Segment == [state : {"none", "allocated", "waiting", "cached"},
            pool : Ids \cup {Default, NULL}, asked : Ids \cup {Default, NULL}]
NoSegment == [state |-> "none", pool |-> NULL, asked |-> NULL]

Call == [at : {"idle", "musaMalloc", "release_available", "release_cached", "fallback"},
         pool : Ids \cup {Default, NULL}, fits : BOOLEAN, try : 0..2, todo : SUBSET Ids]
Idle == [at |-> "idle", pool |-> NULL, fits |-> TRUE, try |-> 0, todo |-> {}]

Init ==
  /\ scenario \in Scenarios
  /\ graph_pools = {} /\ graph_pools_freeable = {}
  /\ use_count = [p \in Ids |-> 0] /\ musaMalloc_count = [p \in Ids |-> 0]
  /\ captures_underway = <<>> /\ use_on_oom_pools = {}
  /\ segment = [x \in Segments |-> NoSegment]
  /\ lock = NULL /\ call = [t \in Threads |-> Idle]
  /\ context = [t \in Threads |-> <<>>]
  /\ mempool = [m \in MemPools |-> "none"]
  /\ graph = [g \in Graphs |-> [state |-> "new", pool |-> NULL]]
  /\ abort = "no" /\ memory = [g \in Graphs |-> {}]

\* The mutex is free, and the process is alive.
Unlocked == lock = NULL /\ abort = "no"

Recording == {captures_underway[i].id : i \in DOMAIN captures_underway}

(***************************************************************************)
(* The reference counts.                                                   *)
(***************************************************************************)
\* TORCH_INTERNAL_ASSERT(it->second->use_count > 0) for a pool that exists.
Sharable(p) == p \in graph_pools => use_count[p] > 0

create_or_incref_pool(p) ==
  /\ Sharable(p) /\ use_count[p] < MaxUse
  /\ graph_pools' = graph_pools \cup {p}
  /\ use_count' = [use_count EXCEPT ![p] = @ + 1]
  /\ UNCHANGED <<musaMalloc_count, graph_pools_freeable>>

\* Mutant of releasePool: every release makes the pool freeable.
releasePool_Always(p) ==
  /\ use_count' = [use_count EXCEPT ![p] = @ - 1]
  /\ graph_pools_freeable' = graph_pools_freeable \cup {p}
  /\ UNCHANGED <<graph_pools, musaMalloc_count>>

releasePool(p) ==
  /\ use_count' = [use_count EXCEPT ![p] = @ - 1]
  /\ graph_pools_freeable' = IF use_count[p] = 1 THEN graph_pools_freeable \cup {p}
                                                 ELSE graph_pools_freeable
  /\ UNCHANGED <<graph_pools, musaMalloc_count>>

\* The count goes up before the TORCH_CHECK, which throws when somebody is
\* already recording to the pool.
beginAllocateToPool(p, t, entered, thrown) ==
  /\ create_or_incref_pool(p)
  /\ \/ /\ p \in Recording
        /\ thrown
        /\ UNCHANGED captures_underway
     \/ /\ p \notin Recording
        /\ captures_underway' = Append(captures_underway, [id |-> p, by |-> t])
        /\ entered

\* The first entry for the pool is erased.  The TORCH_CHECK that there is one does
\* not fail: see ContextOK.
endAllocateToPool(p) ==
  \E i \in DOMAIN captures_underway :
    /\ captures_underway[i].id = p
    /\ \A j \in 1 .. i - 1 : captures_underway[j].id # p
    /\ captures_underway' = RemoveAt(captures_underway, i)

(***************************************************************************)
(* Giving memory back.  sg is the segments after the events that were      *)
(* waited for; R of them are released, and the freeable pools of P that    *)
(* hold no segment any more are erased.                                    *)
(***************************************************************************)
Synced(P) ==
  [x \in Segments |-> IF segment[x].state = "waiting" /\ segment[x].pool \in P
                      THEN [segment[x] EXCEPT !.state = "cached"] ELSE segment[x]]

CachedIn(sg, P) == {x \in Segments : sg[x].state = "cached" /\ sg[x].pool \in P}

\* Mutant of release_blocks: a freeable pool is erased whatever it still holds.
release_blocks_EraseAll(sg, R, P) ==
  LET erased == P \cap graph_pools_freeable
  IN /\ segment' = [x \in Segments |-> IF x \in R THEN NoSegment ELSE sg[x]]
     /\ musaMalloc_count' = [p \in Ids |-> IF p \in erased THEN 0 ELSE
          musaMalloc_count[p] - Cardinality({x \in R : sg[x].pool = p})]
     /\ graph_pools' = graph_pools \ erased
     /\ graph_pools_freeable' = graph_pools_freeable \ erased
     /\ UNCHANGED use_count

release_blocks(sg, R, P) ==
  LET left == [p \in Ids |->
                 musaMalloc_count[p] - Cardinality({x \in R : sg[x].pool = p})]
      erased == {p \in P \cap graph_pools_freeable : left[p] = 0}
  IN /\ segment' = [x \in Segments |-> IF x \in R THEN NoSegment ELSE sg[x]]
     /\ musaMalloc_count' = left
     /\ graph_pools' = graph_pools \ erased
     /\ graph_pools_freeable' = graph_pools_freeable \ erased
     /\ UNCHANGED use_count

\* Mutant of release_cached_blocks: pools that graphs still use are released too.
release_cached_blocks_InUse ==
  LET P == graph_pools \cup {Default}
  IN release_blocks(Synced(Ids \cup {Default}), CachedIn(Synced(Ids \cup {Default}), P), P)

\* release_cached_blocks({0, 0}): only when nothing is being recorded are events
\* waited for and the default pool released.
release_cached_blocks ==
  LET recording == captures_underway # <<>>
      P == IF recording THEN graph_pools_freeable ELSE graph_pools_freeable \cup {Default}
      sg == IF recording THEN segment ELSE Synced(Ids \cup {Default})
  IN release_blocks(sg, CachedIn(sg, P), P)

(***************************************************************************)
(* malloc and free.                                                        *)
(***************************************************************************)
\* A stream is being captured, so that the driver refuses musaFree.
Capturing == \E g \in Graphs : graph[g].state = "capturing"

\* Mutant of get_pool: the filter is not asked.
get_pool_Unfiltered(t) ==
  IF captures_underway = <<>> THEN Default ELSE captures_underway[1].id

\* The first entry whose filter selects the thread.
get_pool(t) ==
  LET mine == {i \in DOMAIN captures_underway : captures_underway[i].by = t}
  IN IF mine = {} THEN Default
     ELSE captures_underway[CHOOSE i \in mine : \A j \in mine : i <= j].id

\* The innermost context of the thread, and the pool it stands for.
Top(t) == context[t][Len(context[t])]
Innermost(t) == IF context[t] = <<>> THEN Default ELSE Top(t).id

\* The graph thread t is capturing takes note of segment x.
Remembered(t, x) ==
  [g \in Graphs |->
     IF graph[g].state = "capturing"
          /\ \E i \in DOMAIN context[t] : context[t][i] = [kind |-> "graph", id |-> graph[g].pool]
     THEN memory[g] \cup {x} ELSE memory[g]]

Take(t, sg, x, pool) ==
  /\ segment' = [sg EXCEPT ![x] = [state |-> "allocated", pool |-> pool, asked |-> Innermost(t)]]
  /\ memory' = Remembered(t, x)

Return(t) == lock' = NULL /\ call' = [call EXCEPT ![t] = Idle]

\* process_events, unless something is being recorded, then the search in the
\* pool.  A request that does not fit finds no cached segment.
Malloc(t, fits) ==
  /\ Unlocked /\ call[t].at = "idle"
  /\ context[t] # <<>> => Top(t).kind # "ended"
  /\ \E D \in SUBSET {x \in Segments : segment[x].state = "waiting"} :
       LET pool == get_pool(t)
           sg == [x \in Segments |->
                    IF x \in D THEN [segment[x] EXCEPT !.state = "cached"] ELSE segment[x]]
       IN /\ captures_underway # <<>> => D = {}
          /\ \/ /\ fits
                /\ \E x \in CachedIn(sg, {pool}) : Take(t, sg, x, pool)
                /\ UNCHANGED call
             \/ /\ ~fits \/ CachedIn(sg, {pool}) = {}
                /\ segment' = sg
                /\ call' = [call EXCEPT ![t] = [at |-> "musaMalloc", pool |-> pool,
                                               fits |-> fits, try |-> 0, todo |-> {}]]
                /\ UNCHANGED memory
  /\ UNCHANGED <<scenario, poolVars, captures_underway, use_on_oom_pools, lock, ownerVars, abort>>

Goto(t, where) == lock' = t /\ call' = [call EXCEPT ![t].at = where]

\* "try to use existing mempools as a last resort": only for the default pool.
GotoFallback(t) ==
  /\ lock' = t
  /\ call' = [call EXCEPT ![t].at = "fallback",
                ![t].todo = IF call[t].pool = Default THEN use_on_oom_pools ELSE {}]

\* alloc_block after musaMalloc, with the lock taken again.
AfterMusaMalloc(t) ==
  LET c == call[t]
  IN /\ Unlocked /\ c.at = "musaMalloc"
     /\ \/ /\ \E x \in Segments : segment[x].state = "none" /\ Take(t, segment, x, c.pool)
           /\ musaMalloc_count' = IF c.pool = Default THEN musaMalloc_count
                                  ELSE [musaMalloc_count EXCEPT ![c.pool] = @ + 1]
           /\ Return(t)
        \/ /\ \/ c.try = 0 /\ Goto(t, "release_available")
              \/ c.try = 1 /\ Goto(t, "release_cached")
              \/ c.try = 2 /\ GotoFallback(t)
           /\ UNCHANGED <<segment, memory, musaMalloc_count>>
     /\ UNCHANGED <<scenario, graph_pools, use_count, graph_pools_freeable, captures_underway,
                    use_on_oom_pools, ownerVars, abort>>

\* release_available_cached_blocks: oversize segments of the pool of the request,
\* as many as it needs, which may be all of them and still not enough.  During a
\* stream capture musaFree fails and malloc throws.
ReleaseAvailable(t) ==
  LET D == CachedIn(segment, {call[t].pool})
  IN /\ lock = t /\ call[t].at = "release_available"
     /\ \/ /\ ~scenario.oversize \/ D = {}
           /\ Goto(t, "release_cached")
           /\ UNCHANGED <<poolVars, segment>>
        \/ /\ scenario.oversize /\ D # {} /\ Capturing
           /\ Return(t)
           /\ UNCHANGED <<poolVars, segment>>
        \/ /\ scenario.oversize /\ D # {} /\ ~Capturing
           /\ \E R \in SUBSET D \ {{}} :
                /\ release_blocks(segment, R, {})
                /\ \/ /\ lock' = NULL
                      /\ call' = [call EXCEPT ![t].at = "musaMalloc", ![t].try = 1]
                   \/ /\ R = D
                      /\ Goto(t, "release_cached")
     /\ UNCHANGED <<scenario, captures_underway, use_on_oom_pools, ownerVars, abort, memory>>

ReleaseCached(t) ==
  /\ lock = t /\ call[t].at = "release_cached"
  /\ \/ /\ captures_underway = <<>>
        /\ release_cached_blocks
        /\ lock' = NULL
        /\ call' = [call EXCEPT ![t].at = "musaMalloc", ![t].try = 2]
     \/ /\ captures_underway # <<>>
        /\ GotoFallback(t)
        /\ UNCHANGED <<poolVars, segment>>
  /\ UNCHANGED <<scenario, captures_underway, use_on_oom_pools, ownerVars, abort, memory>>

\* One turn of the loop over use_on_oom_pools: beginAllocateToPool, the search,
\* endAllocateToPool and releasePool, under the lock.  A pool that has been erased
\* is created again and is freeable at once.
Fallback(t, p) ==
  LET found == CachedIn(segment, {p})
  IN /\ lock = t /\ call[t].at = "fallback" /\ p \in call[t].todo
     /\ \/ /\ ~Sharable(p)             \* the assertion of create_or_incref_pool
           /\ Return(t)
           /\ UNCHANGED <<poolVars, segment, memory>>
        \/ /\ p \in Recording          \* "already recording to mempool_id"
           /\ create_or_incref_pool(p)
           /\ Return(t)
           /\ UNCHANGED <<segment, memory>>
        \/ /\ p \notin graph_pools
           /\ graph_pools' = graph_pools \cup {p}
           /\ graph_pools_freeable' = graph_pools_freeable \cup {p}
           /\ lock' = t /\ call' = [call EXCEPT ![t].todo = @ \ {p}]
           /\ UNCHANGED <<use_count, musaMalloc_count, segment, memory>>
        \/ /\ p \in graph_pools /\ Sharable(p) /\ p \notin Recording
           /\ \/ /\ call[t].fits
                 /\ \E x \in found : Take(t, segment, x, p)
                 /\ Return(t)
              \/ /\ ~call[t].fits \/ found = {}
                 /\ lock' = t /\ call' = [call EXCEPT ![t].todo = @ \ {p}]
                 /\ UNCHANGED <<segment, memory>>
           /\ UNCHANGED poolVars
     /\ UNCHANGED <<scenario, captures_underway, use_on_oom_pools, ownerVars, abort>>

OutOfMemory(t) ==
  /\ lock = t /\ call[t].at = "fallback" /\ call[t].todo = {}
  /\ Return(t)
  /\ UNCHANGED <<scenario, poolVars, captures_underway, use_on_oom_pools, segment, ownerVars,
                 abort, memory>>

\* A block used by other streams waits for their events.
Free(x, after) ==
  /\ Unlocked /\ segment[x].state = "allocated"
  /\ segment' = [segment EXCEPT ![x].state = after, ![x].asked = NULL]
  /\ UNCHANGED <<scenario, poolVars, captures_underway, use_on_oom_pools, lock, call, ownerVars,
                 abort, memory>>

\* torch.musa.empty_cache(), not during a stream capture.
EmptyCache ==
  /\ Unlocked /\ ~Capturing
  /\ release_cached_blocks
  /\ UNCHANGED <<scenario, captures_underway, use_on_oom_pools, lock, call, ownerVars, abort, memory>>

(***************************************************************************)
(* MemPool and use_mem_pool.                                               *)
(***************************************************************************)
CreateMemPool(m) ==
  /\ Unlocked /\ mempool[m] = "none"
  /\ create_or_incref_pool(m)
  /\ use_on_oom_pools' = use_on_oom_pools \cup ({m} \cap scenario.onOom)
  /\ mempool' = [mempool EXCEPT ![m] = "alive"]
  /\ UNCHANGED <<scenario, captures_underway, segment, lock, call, context, graph, abort, memory>>

InUse(m) == \E t \in Threads : \E i \in DOMAIN context[t] :
              context[t][i].kind # "graph" /\ context[t][i].id = m

\* ~MemPool: the assertion on use_count() and releasePool, then emptyCache(id).
\* An assertion that fails in the destructor ends the process.
DestroyMemPool(m) ==
  /\ Unlocked /\ mempool[m] = "alive" /\ ~InUse(m)
  /\ \/ /\ use_count[m] = 1
        /\ releasePool(m)
        /\ mempool' = [mempool EXCEPT ![m] = "released"]
        /\ UNCHANGED abort
     \/ /\ use_count[m] # 1
        /\ abort' = "use_count_is_1"
        /\ UNCHANGED <<poolVars, mempool>>
  /\ UNCHANGED <<scenario, captures_underway, use_on_oom_pools, segment, lock, call, context, graph, memory>>

EmptyMemPool(m) ==
  /\ Unlocked /\ mempool[m] = "released"
  /\ \/ /\ m \in graph_pools_freeable /\ captures_underway = <<>>
        /\ release_blocks(Synced({m}), CachedIn(Synced({m}), {m}), {m})
        /\ mempool' = [mempool EXCEPT ![m] = "gone"]
        /\ UNCHANGED abort
     \/ /\ m \in graph_pools_freeable /\ captures_underway # <<>>
        /\ abort' = "captures_underway_is_empty"
        /\ UNCHANGED <<poolVars, segment, mempool>>
     \/ /\ m \notin graph_pools_freeable
        /\ mempool' = [mempool EXCEPT ![m] = "gone"]
        /\ UNCHANGED <<poolVars, segment, abort>>
  /\ UNCHANGED <<scenario, captures_underway, use_on_oom_pools, lock, call, context, graph, memory>>

MayEnter(t) ==
  /\ Unlocked /\ call[t].at = "idle" /\ Len(context[t]) < MaxNest
  /\ context[t] # <<>> => Top(t).kind # "ended"
Enter(t, kind, p) == context' = [context EXCEPT ![t] = Append(@, [kind |-> kind, id |-> p])]
Leave(t) == context' = [context EXCEPT ![t] = SubSeq(@, 1, Len(@) - 1)]

UseMemPool(t, m) ==
  /\ MayEnter(t) /\ mempool[m] = "alive"
  /\ beginAllocateToPool(m, t, Enter(t, "use", m), UNCHANGED context)
  /\ UNCHANGED <<scenario, use_on_oom_pools, segment, lock, call, mempool, graph, abort, memory>>

\* The two calls of the finally clause.
EndAllocateToPool(t) ==
  /\ Unlocked /\ call[t].at = "idle" /\ context[t] # <<>> /\ Top(t).kind = "use"
  /\ endAllocateToPool(Top(t).id)
  /\ context' = [context EXCEPT ![t][Len(context[t])].kind = "ended"]
  /\ UNCHANGED <<scenario, poolVars, use_on_oom_pools, segment, lock, call, mempool, graph, abort, memory>>

ReleasePool(t) ==
  /\ Unlocked /\ call[t].at = "idle" /\ context[t] # <<>> /\ Top(t).kind = "ended"
  /\ releasePool(Top(t).id)
  /\ Leave(t)
  /\ UNCHANGED <<scenario, captures_underway, use_on_oom_pools, segment, lock, call, mempool, graph,
                 abort, memory>>

(***************************************************************************)
(* MUSAGraph.  One capture at a time in the process, as graphs.py demands. *)
(* A graph whose capture has failed is not used again: reset() gives up on *)
(* such states.                                                            *)
(***************************************************************************)
\* The ids a program can pass to capture_begin: none (the graph takes a new id, for
\* which g stands once the pool of its last capture is gone), a handle, the id of
\* a MemPool, pool() of a captured graph.
PoolArguments(g) ==
  ({g} \ graph_pools) \cup scenario.handles \cup {m \in MemPools : mempool[m] = "alive"}
      \cup {graph[h].pool : h \in {x \in Graphs : graph[x].state = "captured"}}

\* When musaStreamBeginCapture fails, the entry is already made; its filter
\* selects nobody.
CaptureBegin(t, g, p) ==
  /\ MayEnter(t) /\ ~Capturing /\ graph[g].state = "new" /\ p \in PoolArguments(g)
  /\ \/ beginAllocateToPool(p, t,
          /\ Enter(t, "graph", p)
          /\ graph' = [graph EXCEPT ![g] = [state |-> "capturing", pool |-> p]],
          UNCHANGED <<context, graph>>)
     \/ beginAllocateToPool(p, NULL,
          /\ graph' = [graph EXCEPT ![g] = [state |-> "failed", pool |-> p]]
          /\ UNCHANGED context,
          UNCHANGED <<context, graph>>)
  /\ UNCHANGED <<scenario, use_on_oom_pools, segment, lock, call, mempool, abort, memory>>

Deselect(p) ==
  captures_underway' = [i \in DOMAIN captures_underway |->
     IF captures_underway[i].id = p THEN [id |-> p, by |-> NULL] ELSE captures_underway[i]]

\* Mutant of CaptureEnd: the pool is released with the end of the capture.
CaptureEnd_Release(t, g) ==
  /\ Unlocked /\ call[t].at = "idle" /\ context[t] # <<>>
  /\ Top(t) = [kind |-> "graph", id |-> graph[g].pool] /\ graph[g].state = "capturing"
  /\ Leave(t)
  /\ endAllocateToPool(graph[g].pool)
  /\ graph' = [graph EXCEPT ![g].state = "captured"]
  /\ releasePool(graph[g].pool)
  /\ UNCHANGED <<scenario, use_on_oom_pools, segment, lock, call, mempool, abort, memory>>

\* When musaStreamEndCapture fails, capture_end throws before endAllocateToPool:
\* the entry stays, and its filter selects nobody.  When it throws after it ("Invalid
\* capture."), the entry is gone, but reset will not release the pool.
CaptureEnd(t, g) ==
  /\ Unlocked /\ call[t].at = "idle" /\ context[t] # <<>>
  /\ Top(t) = [kind |-> "graph", id |-> graph[g].pool] /\ graph[g].state = "capturing"
  /\ Leave(t)
  /\ \/ /\ endAllocateToPool(graph[g].pool)
        /\ \E result \in {"captured", "failed"} : graph' = [graph EXCEPT ![g].state = result]
     \/ /\ Deselect(graph[g].pool)
        /\ graph' = [graph EXCEPT ![g].state = "failed"]
  /\ UNCHANGED <<scenario, poolVars, use_on_oom_pools, segment, lock, call, mempool, abort, memory>>

\* MUSAGraph::reset, also from the destructor.
Reset(g) ==
  /\ Unlocked /\ graph[g].state = "captured"
  /\ releasePool(graph[g].pool)
  /\ graph' = [graph EXCEPT ![g] = [state |-> "new", pool |-> NULL]]
  /\ memory' = [memory EXCEPT ![g] = {}]
  /\ UNCHANGED <<scenario, captures_underway, use_on_oom_pools, segment, lock, call, context, mempool, abort>>

Next ==
  \/ \E t \in scenario.threads :
       \/ \E fits \in BOOLEAN : (fits \/ scenario.oversize) /\ Malloc(t, fits)
       \/ AfterMusaMalloc(t)
       \/ ReleaseAvailable(t)
       \/ ReleaseCached(t)
       \/ \E p \in Ids : Fallback(t, p)
       \/ OutOfMemory(t)
       \/ \E m \in MemPools : UseMemPool(t, m)
       \/ EndAllocateToPool(t)
       \/ ReleasePool(t)
       \/ \E g \in scenario.graphs : CaptureEnd(t, g) \/ \E p \in Ids : CaptureBegin(t, g, p)
  \/ \E x \in Segments : Free(x, "cached") \/ Free(x, "waiting")
  \/ EmptyCache
  \/ \E m \in scenario.mempools : CreateMemPool(m) \/ DestroyMemPool(m) \/ EmptyMemPool(m)
  \/ \E g \in Graphs : Reset(g)

Spec == Init /\ [][Next]_vars

(***************************************************************************)
(* Properties.                                                             *)
(***************************************************************************)
\* Every variable has its type.
TypeOK ==
  /\ graph_pools \subseteq Ids /\ graph_pools_freeable \subseteq Ids
  /\ use_count \in [Ids -> Nat] /\ musaMalloc_count \in [Ids -> Nat]
  /\ captures_underway \in Seq([id : Ids, by : Threads \cup {NULL}])
  /\ use_on_oom_pools \subseteq Ids
  /\ segment \in [Segments -> Segment]
  /\ lock \in Threads \cup {NULL} /\ call \in [Threads -> Call]
  /\ context \in [Threads -> Seq([kind : {"use", "ended", "graph"}, id : Ids])]
  /\ mempool \in [MemPools -> {"none", "alive", "released", "gone"}]
  /\ graph \in [Graphs -> [state : {"new", "capturing", "captured", "failed"},
                           pool : Ids \cup {NULL}]]
  /\ abort \in {"no", "use_count_is_1", "captures_underway_is_empty"}
  /\ memory \in [Graphs -> SUBSET Segments]

\* No PrivatePool* dangles: the pool of every block, of every call of malloc that
\* is inside the driver, of every entry of captures_underway, and of everyone who
\* may still call releasePool exists.
PoolsExist ==
  /\ \A x \in Segments : segment[x].state # "none" => segment[x].pool \in graph_pools \cup {Default}
  /\ \A t \in Threads : call[t].at # "idle" => call[t].pool \in graph_pools \cup {Default}
  /\ Recording \subseteq graph_pools
  /\ \A m \in MemPools : mempool[m] = "alive" => m \in graph_pools
  /\ \A g \in Graphs : graph[g].state \in {"capturing", "captured"} => graph[g].pool \in graph_pools
  /\ \A t \in Threads : \A i \in DOMAIN context[t] : context[t][i].id \in graph_pools

\* Who will call releasePool(p): a MemPool, graphs, threads inside use_mem_pool.
MemPoolsOf(p) == IF p \in MemPools /\ mempool[p] = "alive" THEN 1 ELSE 0
GraphsOf(p) == {g \in Graphs : graph[g].pool = p /\ graph[g].state \in {"capturing", "captured"}}
ContextsOf(p) ==
  {k \in Threads \X (1..MaxNest) :
     /\ k[2] <= Len(context[k[1]])
     /\ context[k[1]][k[2]].kind # "graph" /\ context[k[1]][k[2]].id = p}

Holders(p) == MemPoolsOf(p) + Cardinality(GraphsOf(p)) + Cardinality(ContextsOf(p))

\* The use count never falls below the number of holders, so that no pool is
\* freeable while someone uses it.
UseCountSuffices == \A p \in Ids : use_count[p] >= Holders(p)

\* A pool is freeable exactly when it exists and nobody uses it; releasePool never
\* inserts it twice, and release_cached_blocks finds use_count == 0.
FreeableExact == graph_pools_freeable = {p \in graph_pools : use_count[p] = 0}

\* musaMalloc_count is the number of segments the pool holds, so that a pool is
\* erased with its last segment.
MallocCounts ==
  \A p \in Ids : musaMalloc_count[p] = Cardinality({x \in Segments : segment[x].pool = p})

\* The memory a graph was captured with stays with its pool as long as the graph
\* can be replayed ("as long as we never musaFree those addresses before replay").
\* This needs max_split_size to be unset: see ReleaseAvailable.
GraphMemoryKept ==
  ~scenario.oversize => \A g \in Graphs : graph[g].state \in {"capturing", "captured"} =>
    \A x \in memory[g] : segment[x].state # "none" /\ segment[x].pool = graph[g].pool

\* use_mem_pool and graph capture route the allocations of the thread, and of no
\* other thread, to the pool of the innermost context.
Routing ==
  \A x \in Segments : segment[x].state = "allocated" =>
    \/ segment[x].pool = segment[x].asked
    \/ segment[x].asked = Default /\ segment[x].pool \in use_on_oom_pools

\* The counts by which release_cached_blocks decides to erase a pool are exact:
\* musaMalloc_count of its segments, use_count of its users.
Bookkeeping == TypeOK /\ FreeableExact /\ MallocCounts
----------------------------------------------------------------------------
(* The inductive invariant *)

\* A pool that does not exist has no counts.
NewPoolsOK == \A p \in Ids \ graph_pools : use_count[p] = 0 /\ musaMalloc_count[p] = 0

SegmentsOK ==
  \A x \in Segments : /\ segment[x].state = "none" <=> segment[x].pool = NULL
                      /\ segment[x].pool \in graph_pools \cup {Default, NULL}

\* An entry whose capture failed: its use is never given back.
Stuck(p) ==
  IF \E i \in DOMAIN captures_underway : captures_underway[i] = [id |-> p, by |-> NULL]
  THEN 1 ELSE 0

CountOK(p) == use_count[p] >= Holders(p) + Stuck(p)

\* At most one entry for a pool; the one of a thread is that of a context it is in.
EntriesOK ==
  /\ \A i, j \in DOMAIN captures_underway :
       captures_underway[i].id = captures_underway[j].id => i = j
  /\ \A i \in DOMAIN captures_underway : \A t \in Threads :
       captures_underway[i].by = t =>
         \E k \in DOMAIN context[t] : /\ context[t][k].kind # "ended"
                                      /\ context[t][k].id = captures_underway[i].id

\* Whoever is inside a context has an entry, and only the innermost one may have
\* been ended; the context of a graph is that of the capture under way.
ContextOK(t) ==
  /\ Len(context[t]) <= MaxNest
  /\ \A k \in DOMAIN context[t] :
       /\ context[t][k].kind = "ended" => k = Len(context[t]) /\ call[t].at = "idle"
       /\ context[t][k].kind # "ended" =>
            /\ \E i \in DOMAIN captures_underway :
                 captures_underway[i] = [id |-> context[t][k].id, by |-> t]
            /\ \A l \in DOMAIN context[t] :
                 context[t][l].kind # "ended" /\ context[t][l].id = context[t][k].id => k = l
       /\ context[t][k].kind = "graph" =>
            /\ \E g \in Graphs : graph[g] = [state |-> "capturing", pool |-> context[t][k].id]
            /\ \A u \in Threads : \A l \in DOMAIN context[u] :
                 context[u][l].kind = "graph" => u = t /\ l = k

\* One graph is being captured; a graph that needs its pool has one, and a new one
\* has no memory yet.
GraphsOK ==
  /\ \A g, h \in Graphs : graph[g].state = "capturing" /\ graph[h].state = "capturing" => g = h
  /\ \A g \in Graphs : graph[g].state # "new" => graph[g].pool \in Ids
  /\ \A g \in Graphs : graph[g].state = "new" => memory[g] = {}

\* The pool that malloc allocates from is recorded to by its thread, and pools of
\* last resort are tried for the default pool only.
CallOK(t) ==
  call[t].at # "idle" =>
    /\ call[t].pool \in Ids => \E i \in DOMAIN captures_underway :
                                 captures_underway[i] = [id |-> call[t].pool, by |-> t]
    /\ call[t].pool \in Ids \cup {Default}
    /\ call[t].todo \subseteq use_on_oom_pools
    /\ call[t].todo # {} => call[t].pool = Default

\* Without nested contexts, malloc allocates from the pool of the context.
NotNested ==
  MaxNest <= 1 =>
    /\ \A t \in Threads : call[t].at # "idle" => call[t].pool = Innermost(t)
    /\ Routing /\ GraphMemoryKept

IInv ==
  /\ TypeOK /\ scenario \in Scenarios
  /\ FreeableExact /\ MallocCounts /\ NewPoolsOK /\ SegmentsOK
  /\ \A p \in Ids : CountOK(p)
  /\ EntriesOK /\ GraphsOK /\ \A t \in Threads : ContextOK(t) /\ CallOK(t)
  /\ NotNested
=============================================================================

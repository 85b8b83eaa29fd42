------------------------- MODULE ExpandableSegments -------------------------
(***************************************************************************)
(* expandable_segments:True.  An ExpandableSegment reserves a range of     *)
(* addresses and maps physical pages (segment_size_ bytes each) into it    *)
(* on demand; the blocks of the segment are a chain in address order, of   *)
(* which some are mapped and some are not: block->prev ends where the      *)
(* block begins, and block->next begins where it ends.  There are two      *)
(* pools here, the default one and the private pool of one graph; the      *)
(* segments of a pool belong to one stream each.                           *)
(*                                                                         *)
(* malloc, free and empty_cache hold the allocator mutex all the way, so   *)
(* one client thread makes all the calls, and only the GPU runs            *)
(* concurrently.  max_split_size and the memory fraction are not set.      *)
(***************************************************************************)
EXTENDS Integers, FiniteSets

CONSTANTS
  Streams,
  Peers,         \* devices that may be given access
  MaxSegments,   \* bound: address ranges the driver reserves
  Pages,         \* max_handles_: pages in a range, 1 1/8 of the memory
  PageSize,      \* segment_size_, in units of kMinBlockSize
  Memory,        \* physical pages of the device
  Requests,      \* bound: sizes asked for, after round_size
  Scenarios,     \* whether fabric handles are supported, where the graph may
                 \* be replayed, what else happens, and a bound on the blocks
                 \* in use
  MaxWork        \* bound: kernels not finished, and kernels in the graph

Segments == 1..MaxSegments
PageIds == 0..Pages - 1
RangeSize == Pages * PageSize     \* ExpandableSegment::size

ASSUME SizeAssumption ==
  /\ MaxSegments \in Nat /\ MaxWork \in Nat
  /\ PageSize \in Nat \ {0} /\ Memory \in Nat \ {0}
  /\ Requests \subseteq 1..Pages * PageSize
ASSUME AddressSpaceAssumption == Pages \in Nat /\ Memory < Pages
ASSUME ScenarioAssumption ==
  Scenarios \subseteq [fabric : BOOLEAN, faults : 0..1, share : BOOLEAN,
                       graph : BOOLEAN, replay : {"capture stream", "any stream"},
                       streams : SUBSET Streams, peers : SUBSET Peers, blocks : Nat]

VARIABLES
  scenario,
  segment,       \* [Segments -> the ExpandableSegment and its driver state]
  chain,         \* [Segments -> the blocks, by their address in the segment]
  total,         \* total_allocated_memory
  peers,         \* devices_with_peer_access_
  handle_type,   \* expandable_segments_handle_type()
  graph,         \* [state, count, kernels]: the graph and its private pool
  call,          \* where the client is inside malloc or empty_cache
  work,          \* GPU work not finished: [seg, lo, hi, stream]
  faults,        \* driver errors left
  failure        \* the exception after which this behaviour is not followed

vars == <<scenario, segment, chain, total, peers, handle_type, graph, call, work,
          faults, failure>>
deviceVars == <<segment, chain, total, handle_type, faults>>

None == "none"
\* Of a segment, handles are the pages that have one, mapped the pages that a call of
\* map has mapped and returned, and stray those that a call has mapped before it failed.
NoSegment == [live |-> FALSE, stream |-> None, pool |-> None, peers |-> {},
              handles |-> {}, mapped |-> {}, stray |-> {}, shared |-> {}, access |-> {}]
NoBlocks == [a \in {} |-> 0]
Idle == [at |-> "idle", stream |-> None, size |-> 0, pool |-> None, retry |-> FALSE,
         seg |-> 0, pos |-> 0]

Init ==
  /\ scenario \in Scenarios
  /\ segment = [g \in Segments |-> NoSegment]
  /\ chain = [g \in Segments |-> NoBlocks]
  /\ total = 0 /\ peers = {} /\ handle_type = "unspecified"
  /\ graph = [state |-> "none", stream |-> None, count |-> 0, kernels |-> {}]
  /\ call = Idle /\ work = {} /\ faults = scenario.faults /\ failure = None

(***************************************************************************)
(* Blocks and addresses.                                                   *)
(***************************************************************************)
Block(size, mapped) ==
  [size |-> size, mapped |-> mapped, allocated |-> FALSE, uses |-> {}, events |-> {}]

\* allocatable: not allocated, no event and no stream use outstanding.
allocatable(b) == ~b.allocated /\ b.uses = {} /\ b.events = {}

End(c, a) == a + c[a].size

segmentLeft(a) == a \div PageSize
segmentRight(a) == (a + PageSize - 1) \div PageSize
\* The pages of map and of share (outwards) and of unmap (inwards).
Touched(lo, hi) == segmentLeft(lo)..segmentRight(hi) - 1
Within(lo, hi) == segmentRight(lo)..segmentLeft(hi) - 1

Live == {g \in Segments : segment[g].live}
InPool(pool) == {g \in Live : segment[g].pool = pool}
\* A block is named by its segment and its address there.
AllBlocks == UNION {{g} \X DOMAIN chain[g] : g \in Live}
BlockAt(x) == chain[x[1]][x[2]]
EndOf(x) == End(chain[x[1]], x[2])
PagesOf(x) == Touched(x[2], EndOf(x))
Ours == {g \in InPool(call.pool) : segment[g].stream = call.stream}
\* The order of addresses.
Below(x, y) == x[1] < y[1] \/ (x[1] = y[1] /\ x[2] < y[2])

Capturing == graph.state = "capturing"

\* The block at n becomes part of the one at a, which is then like b.
Join(c, a, n, b) ==
  [x \in DOMAIN c \ {n} |->
     IF x = a THEN [b EXCEPT !.size = c[a].size + c[n].size] ELSE c[x]]

\* try_merge_blocks of the block at a with its predecessor, which it may then begin
\* at, and with its successor.
Merges(dst, src) == allocatable(src) /\ src.mapped = dst.mapped

MergesPrev(c, a) == {p \in DOMAIN c : End(c, p) = a /\ Merges(c[a], c[p])}
MergedAt(c, a) == IF MergesPrev(c, a) = {} THEN a ELSE CHOOSE p \in MergesPrev(c, a) : TRUE

try_merge_prev(c, a) ==
  IF MergesPrev(c, a) = {} THEN c ELSE Join(c, MergedAt(c, a), a, c[a])

try_merge_next(c, a) ==
  IF End(c, a) \in DOMAIN c /\ Merges(c[a], c[End(c, a)])
  THEN Join(c, a, End(c, a), c[a]) ELSE c

Merged(c, a) == try_merge_next(try_merge_prev(c, a), MergedAt(c, a))

\* The block at a ends after n; what remains of it is a block of its own.
Split(c, a, n) ==
  IF n \in 1..c[a].size - 1
  THEN [x \in DOMAIN c \cup {a + n} |->
          IF x = a THEN [c[a] EXCEPT !.size = n]
          ELSE IF x = a + n THEN [c[a] EXCEPT !.size = @ - n] ELSE c[x]]
  ELSE c

(***************************************************************************)
(* The clients of the memory.                                              *)
(***************************************************************************)
Ready == call.at = "idle"

InUse == {x \in AllBlocks : ~allocatable(BlockAt(x))}

Malloc(s, n) ==
  /\ Ready /\ s \in scenario.streams /\ Cardinality(InUse) < scenario.blocks
  /\ call' = [Idle EXCEPT !.at = IF Capturing THEN "search" ELSE "events",
                          !.stream = s, !.size = n,
                          !.pool = IF Capturing /\ s = graph.stream THEN "graph"
                                                                    ELSE "default"]
  /\ UNCHANGED <<scenario, deviceVars, peers, graph, work, failure>>

\* free: events for the other streams that used the block, which wait for the end
\* of a capture; without such streams the block is cached at once.
Free(g, a) ==
  LET c == chain[g]
      b == c[a]
  IN /\ Ready /\ b.allocated
     /\ chain' = [chain EXCEPT ![g] =
          IF b.uses = {} THEN Merged([c EXCEPT ![a] = [b EXCEPT !.allocated = FALSE]], a)
          ELSE IF Capturing THEN [c EXCEPT ![a] = [b EXCEPT !.allocated = FALSE]]
          ELSE [c EXCEPT ![a] = [b EXCEPT !.allocated = FALSE, !.uses = {},
                                          !.events = b.uses]]]
     /\ UNCHANGED <<scenario, segment, total, peers, handle_type, graph, call, work,
                    faults, failure>>

\* record_stream; what a capture makes of it is in CaptureDeferral.
RecordStream(g, a, s) ==
  LET c == chain[g]
      b == c[a]
  IN /\ Ready /\ ~Capturing /\ b.allocated
     /\ s \in scenario.streams \ ({segment[g].stream} \cup b.uses)
     /\ chain' = [chain EXCEPT ![g] = [c EXCEPT ![a] = [b EXCEPT !.uses = b.uses \cup {s}]]]
     /\ UNCHANGED <<scenario, segment, total, peers, handle_type, graph, call, work,
                    faults, failure>>

\* A kernel that uses a block, on its stream or on a recorded one; a capturing
\* stream puts it into the graph instead of running it.
Launch(g, a, s) ==
  LET c == chain[g]
      kernel == [seg |-> g, lo |-> a, hi |-> End(c, a)]
      captured == Capturing /\ s = graph.stream
  IN /\ Ready /\ c[a].allocated /\ s \in {segment[g].stream} \cup c[a].uses
     /\ \/ /\ captured /\ segment[g].pool = "graph" /\ Cardinality(graph.kernels) < MaxWork
           /\ graph' = [graph EXCEPT !.kernels = @ \cup {kernel}]
           /\ UNCHANGED work
        \/ /\ ~captured /\ Cardinality(work) < MaxWork
           /\ work' = work \cup {[kernel |-> kernel, stream |-> s, replay |-> FALSE]}
           /\ UNCHANGED graph
     /\ UNCHANGED <<scenario, deviceVars, peers, call, failure>>

\* The GPU finishes a kernel.
Complete(w) ==
  /\ w \in work
  /\ work' = work \ {w}
  /\ UNCHANGED <<scenario, deviceVars, peers, graph, call, failure>>

CaptureBegin(s) ==
  /\ Ready /\ scenario.graph /\ s \in scenario.streams /\ graph.state = "none"
  /\ graph' = [graph EXCEPT !.state = "capturing", !.stream = s]
  /\ UNCHANGED <<scenario, deviceVars, peers, call, work, failure>>

CaptureEnd ==
  /\ Ready /\ Capturing
  /\ graph' = [graph EXCEPT !.state = "captured"]
  /\ UNCHANGED <<scenario, deviceVars, peers, call, work, failure>>

\* "graph_exec_ may be replayed in any stream."
Replay(s) ==
  /\ Ready /\ graph.state = "captured" /\ graph.kernels # {}
  /\ s \in scenario.streams /\ (scenario.replay = "capture stream" => s = graph.stream)
  /\ Cardinality(work) < MaxWork
  /\ work' = work \cup {[kernel |-> k, stream |-> s, replay |-> TRUE] : k \in graph.kernels}
  /\ UNCHANGED <<scenario, deviceVars, peers, graph, call, failure>>

\* MUSAGraph::reset: the pool is freeable from now on.
Reset ==
  /\ Ready /\ graph.state = "captured"
  /\ graph' = [graph EXCEPT !.state = "freeable", !.kernels = {}]
  /\ UNCHANGED <<scenario, deviceVars, peers, call, work, failure>>

\* addPeerAccess, with addPeer of every segment: setAccess fails at a handle that an
\* earlier error has left without mapping it.
AddPeerAccess(p) ==
  /\ Ready /\ p \in scenario.peers \ peers
  /\ peers' = peers \cup {p}
  /\ segment' = [g \in Segments |->
       IF g \in Live
       THEN [segment[g] EXCEPT !.peers = @ \cup {p}, !.access = @ \cup (segment[g].handles \X {p})]
       ELSE segment[g]]
  /\ failure' = IF \A g \in Live : segment[g].handles \subseteq segment[g].mapped \cup segment[g].stray
                THEN None ELSE "peer access"
  /\ UNCHANGED <<scenario, chain, total, handle_type, graph, call, work, faults>>

\* shareIpcHandle exports the handles of the pages of a block.
ShareIpcHandle(g, a) ==
  /\ Ready /\ scenario.share /\ chain[g][a].allocated
  /\ segment' = [segment EXCEPT ![g].shared = @ \cup Touched(a, End(chain[g], a))]
  /\ UNCHANGED <<scenario, chain, total, peers, handle_type, graph, call, work, faults,
                 failure>>

EmptyCache ==
  /\ Ready /\ ~Capturing
  /\ call' = [Idle EXCEPT !.at = "sync"]
  /\ UNCHANGED <<scenario, deviceVars, peers, graph, work, failure>>

(***************************************************************************)
(* Events: process_events takes the ones that have happened, and           *)
(* synchronize_and_free_events waits for all of them.                      *)
(***************************************************************************)
Pending(b) == ~b.allocated /\ ~allocatable(b)

Happened(g, a) ==
  LET b == chain[g][a]
  IN \A w \in work : ~ /\ w.kernel = [seg |-> g, lo |-> a, hi |-> End(chain[g], a)]
                       /\ w.stream \in b.uses \cup b.events /\ ~w.replay

FreeBlock(g, a) ==
  LET c == chain[g]
  IN /\ call.at \in {"events", "sync"}
     /\ Pending(c[a]) /\ Happened(g, a)
     /\ chain' = [chain EXCEPT ![g] =
          Merged([c EXCEPT ![a] = [c[a] EXCEPT !.uses = {}, !.events = {}]], a)]
     /\ UNCHANGED <<scenario, segment, total, peers, handle_type, graph, call, work,
                    faults, failure>>

ProcessEvents ==
  /\ call.at = "events"
  /\ \A g \in Live : \A a \in DOMAIN chain[g] : Pending(chain[g][a]) => ~Happened(g, a)
  /\ call' = [call EXCEPT !.at = "search"]
  /\ UNCHANGED <<scenario, deviceVars, peers, graph, work, failure>>

SynchronizeEvents ==
  /\ call.at = "sync"
  /\ \A g \in Live : \A a \in DOMAIN chain[g] : ~Pending(chain[g][a])
  /\ call' = [call EXCEPT !.at = "release"]
  /\ UNCHANGED <<scenario, deviceVars, peers, graph, work, failure>>

(***************************************************************************)
(* malloc.                                                                 *)
(***************************************************************************)
\* The size a cached block can expand to.
expandable_size(x) ==
  LET c == chain[x[1]]
      n == EndOf(x)
  IN BlockAt(x).size + IF n \in DOMAIN c /\ ~c[n].mapped THEN c[n].size ELSE 0

\* The order of BlockPool::blocks: by size, then by address.
BlockComparatorSize(x, y) ==
  \/ BlockAt(x).size < BlockAt(y).size
  \/ BlockAt(x).size = BlockAt(y).size /\ Below(x, y)

Fitting ==
  {x \in AllBlocks :
     /\ x[1] \in Ours
     /\ allocatable(BlockAt(x)) /\ BlockAt(x).mapped /\ BlockAt(x).size >= call.size}

\* get_free_block stops at x: the next block does not expand to less.
Stops(x) ==
  \A y \in Fitting :
    /\ BlockComparatorSize(x, y)
    /\ ~\E z \in Fitting : BlockComparatorSize(x, z) /\ BlockComparatorSize(z, y)
    => expandable_size(y) >= expandable_size(x)

\* alloc_found_block, with should_split.
alloc_found_block(g, a) ==
  LET c == Split(chain[g], a, call.size)
  IN chain' = [chain EXCEPT ![g] = [c EXCEPT ![a] = [c[a] EXCEPT !.allocated = TRUE]]]

\* get_free_block: from the best fit on, the first block it stops at.
GetFreeBlock ==
  /\ call.at = "search"
  /\ \/ \E x \in Fitting :
          /\ Stops(x) /\ \A y \in Fitting : BlockComparatorSize(y, x) => ~Stops(y)
          /\ alloc_found_block(x[1], x[2])
          /\ call' = Idle
     \/ /\ Fitting = {}
        /\ call' = [call EXCEPT !.at = "find"]
        /\ UNCHANGED chain
  /\ UNCHANGED <<scenario, segment, total, peers, handle_type, graph, work, faults,
                 failure>>

\* Mutant of HasSpace: only the first block must be free.
HasSpace_Any(c, a) == allocatable(c[a]) /\ a + call.size <= RangeSize

\* has_available_address_space: the blocks that begin within the next call.size bytes.
HasSpace(c, a) ==
  /\ a + call.size <= RangeSize
  /\ \A b \in DOMAIN c : a <= b /\ b < a + call.size => allocatable(c[b])

\* The block before the one at a, if it can be used too.
StartAt(c, a) ==
  LET prev == {p \in DOMAIN c : End(c, p) = a /\ allocatable(c[p])}
  IN IF prev = {} THEN a ELSE CHOOSE p \in prev : TRUE

\* find_expandable_block: the lowest address with room, or a new segment; the
\* driver may have no addresses left, and then malloc throws.
FindExpandableBlock ==
  LET room == {x \in AllBlocks :
                 /\ x[1] \in Ours /\ ~BlockAt(x).mapped
                 /\ HasSpace(chain[x[1]], StartAt(chain[x[1]], x[2]))}
  IN /\ call.at = "find"
     /\ \/ \E x \in room :
             /\ \A y \in room : x = y \/ Below(x, y)
             /\ call' = [call EXCEPT !.at = "map", !.seg = x[1],
                                     !.pos = StartAt(chain[x[1]], x[2])]
             /\ UNCHANGED <<segment, chain>>
        \/ /\ room = {}
           /\ \E g \in Segments \ Live :
                /\ segment' = [segment EXCEPT ![g] =
                     [NoSegment EXCEPT !.live = TRUE, !.stream = call.stream,
                                       !.pool = call.pool, !.peers = peers]]
                /\ chain' = [chain EXCEPT ![g] = [a \in {0} |-> Block(RangeSize, FALSE)]]
                /\ call' = [call EXCEPT !.at = "map", !.seg = g, !.pos = 0]
        \/ /\ room = {} /\ Live = Segments
           /\ call' = Idle
           /\ UNCHANGED <<segment, chain>>
     /\ UNCHANGED <<scenario, total, peers, handle_type, graph, work, faults, failure>>

(***************************************************************************)
(* try_allocate_expandable_block: the candidate is mapped, part by part,   *)
(* until it is large enough.                                               *)
(***************************************************************************)
Candidate == chain[call.seg][call.pos]
LargeEnough == Candidate.mapped /\ Candidate.size >= call.size

\* The block that map_block maps next, and the pages it needs.
ToMap == IF Candidate.mapped THEN End(chain[call.seg], call.pos) ELSE call.pos
Remaining == IF Candidate.mapped THEN call.size - Candidate.size ELSE call.size

Needed ==
  LET next == chain[call.seg][ToMap].size
  IN Touched(ToMap, ToMap + IF Remaining < next THEN Remaining ELSE next)

\* The handles map makes, up to one that it finds there already.
Fresh == {k \in Needed : \A j \in segment[call.seg].handles \cap Needed : k < j}

PagesWith(P(_)) == {x \in Segments \X PageIds : x[2] \in P(x[1])}
FreePages == Memory - Cardinality(PagesWith(LAMBDA g : segment[g].handles))

\* The next attempt after alloc_block has failed: everything cached is given back,
\* once, and not during a capture.
AllocFailed ==
  call' = IF call.retry \/ Capturing THEN Idle
                                     ELSE [call EXCEPT !.at = "sync", !.retry = TRUE]

\* The handle type is found out by the first attempt.
Probed ==
  IF handle_type # "unspecified" THEN handle_type
  ELSE IF scenario.fabric THEN "fabric" ELSE "posix"

Mapping == call.at = "map" /\ ~LargeEnough

\* map and map_block: the handles are created and mapped, the rest of the block
\* stays unmapped, and the mapped part merges with its neighbours.
MapBlock ==
  LET g == call.seg
      t == ToMap
      mapped == PageSize * Cardinality(Needed)
      c == Split(chain[g], t, mapped)
      split == [c EXCEPT ![t] = [c[t] EXCEPT !.mapped = TRUE]]
  IN /\ Mapping /\ Fresh = Needed /\ Cardinality(Needed) <= FreePages
     /\ segment' = [segment EXCEPT ![g] =
          [segment[g] EXCEPT !.handles = @ \cup Needed, !.mapped = @ \cup Needed,
                             !.access = @ \cup (Needed \X segment[g].peers)]]
     /\ chain' = [chain EXCEPT ![g] = Merged(split, t)]
     /\ call' = [call EXCEPT !.pos = MergedAt(split, t)]
     /\ total' = total + mapped
     /\ handle_type' = Probed
     /\ UNCHANGED <<scenario, peers, graph, work, faults, failure>>

\* Mutant of MapOutOfMemory: the handles made before the memory ran out are kept.
MapOutOfMemory_Kept ==
  /\ Mapping /\ Cardinality(Fresh) > FreePages
  /\ handle_type' = Probed
  /\ segment' = [segment EXCEPT ![call.seg].handles =
       @ \cup {k \in Needed : k < segmentLeft(ToMap) + FreePages}]
  /\ AllocFailed
  /\ UNCHANGED <<scenario, chain, total, peers, graph, work, faults, failure>>

\* The handles made before the memory ran out are released.
MapOutOfMemory ==
  /\ Mapping /\ Cardinality(Fresh) > FreePages
  /\ handle_type' = Probed
  /\ AllocFailed
  /\ UNCHANGED <<scenario, segment, chain, total, peers, graph, work, faults, failure>>

\* Any other error of muMemCreate_, at page j: the handles made before it stay.  A first attempt
\* with fabric handles is repeated with file descriptors, a later one counts as
\* out of memory, and with file descriptors malloc throws.
MapError(j) ==
  LET made == {k \in Needed : k < j}
  IN /\ Mapping /\ faults > 0 /\ j \in Fresh /\ Cardinality(made) <= FreePages
     /\ faults' = faults - 1
     /\ segment' = [segment EXCEPT ![call.seg].handles = @ \cup made]
     /\ \/ /\ handle_type = "unspecified" /\ scenario.fabric
           /\ handle_type' = "posix"
           /\ UNCHANGED call
        \/ /\ handle_type = "fabric"
           /\ AllocFailed
           /\ UNCHANGED handle_type
        \/ /\ Probed = "posix"
           /\ handle_type' = "posix"
           /\ call' = Idle
     /\ UNCHANGED <<scenario, chain, total, peers, graph, work, failure>>

\* mapAndSetAccess, after all handles were made: muMemMap_ fails at page j, or for j =
\* Pages muMemSetAccess_ fails for the device or for a peer, after the ones in given.
\* malloc throws; the handles stay, and the pages mapped so far, in a block that is
\* not mapped.
MapAndSetAccessError(j) ==
  LET g == call.seg
      done == {k \in Needed : k < j}
  IN /\ Mapping /\ faults > 0 /\ Fresh = Needed /\ Cardinality(Needed) <= FreePages
     /\ j \in Needed \cup {Pages}
     /\ faults' = faults - 1
     /\ \E given \in SUBSET segment[g].peers :
          /\ given = {} \/ (j = Pages /\ given # segment[g].peers)
          /\ segment' = [segment EXCEPT ![g] =
               [segment[g] EXCEPT !.handles = @ \cup Needed, !.stray = @ \cup done,
                                  !.access = @ \cup (done \X given)]]
     /\ handle_type' = Probed
     /\ call' = Idle
     /\ UNCHANGED <<scenario, chain, total, peers, graph, work, failure>>

\* TORCH_INTERNAL_ASSERT(!handles_.at(i)), at a handle an earlier error left: the
\* handles before it are made and stay too.
MapAsserts ==
  /\ Mapping /\ Fresh # Needed /\ Cardinality(Fresh) <= FreePages
  /\ segment' = [segment EXCEPT ![call.seg].handles = @ \cup Fresh]
  /\ call' = Idle
  /\ UNCHANGED <<scenario, chain, total, peers, handle_type, graph, work, faults, failure>>

\* alloc_block has a block; for a private pool it counts as one musaMalloc, in
\* however many parts it was mapped.
AllocBlock ==
  /\ call.at = "map" /\ LargeEnough
  /\ alloc_found_block(call.seg, call.pos)
  /\ graph' = IF call.pool = "graph" THEN [graph EXCEPT !.count = @ + 1] ELSE graph
  /\ call' = Idle
  /\ UNCHANGED <<scenario, segment, total, peers, handle_type, work, faults, failure>>

(***************************************************************************)
(* release_blocks of the default pool, then of the graph's if it is        *)
(* freeable.                                                               *)
(***************************************************************************)
\* Mutant of ToUnmap: blocks that begin inside a page are passed over.
ToUnmap_Aligned(pool) ==
  {x \in AllBlocks :
     /\ segment[x[1]].pool = pool
     /\ allocatable(BlockAt(x)) /\ BlockAt(x).mapped
     /\ x[2] % PageSize = 0
     /\ Within(x[2], EndOf(x)) # {}}

\* Cached blocks with a page to unmap; the others are left as they are.
ToUnmap(pool) ==
  {x \in AllBlocks :
     /\ segment[x[1]].pool = pool
     /\ allocatable(BlockAt(x)) /\ BlockAt(x).mapped
     /\ Within(x[2], EndOf(x)) # {}}

\* Mutant of StreamIdle: unmapping does not wait, as musaFree would.
StreamIdle_NoWait(g) == g \in Live

\* unmapHandles waits for the stream of the segment.
StreamIdle(g) == \A w \in work : w.stream # segment[g].stream

\* unmap_block, and release_expandable_segment when nothing else is left.  The
\* variant of a shared fabric handle is not an int.  The destructor of a segment
\* unmaps the pages an error left, and fails at handles that were never mapped.
UnmapBlock(g, a) ==
  LET c == chain[g]
      pages == Within(a, End(c, a))
      first == PageSize * segmentRight(a)
      unmapped == PageSize * Cardinality(pages)
      d == Split(Split(c, a, first - a), first, unmapped)
      merged == Merged([d EXCEPT ![first] = [d[first] EXCEPT !.mapped = FALSE]], first)
      left == segment[g].handles \ pages
  IN /\ StreamIdle(g)
     /\ chain' = [chain EXCEPT ![g] = IF DOMAIN merged = {0} THEN NoBlocks ELSE merged]
     /\ segment' = [segment EXCEPT ![g] =
          IF DOMAIN merged = {0} THEN NoSegment
          ELSE [segment[g] EXCEPT !.handles = left, !.mapped = @ \ pages,
                                  !.shared = @ \ pages,
                                  !.access = {r \in @ : r[1] \notin pages}]]
     /\ total' = total - unmapped
     /\ graph' = IF segment[g].pool = "graph" THEN [graph EXCEPT !.count = @ - 1] ELSE graph
     /\ failure' = IF handle_type = "fabric" /\ pages \cap segment[g].shared # {}
                   THEN "bad_variant_access"
                   ELSE IF segment[g].pool = "graph" /\ graph.count = 0
                   THEN "musaMalloc_count"
                   ELSE IF DOMAIN merged = {0} /\ ~(left \subseteq segment[g].stray)
                   THEN "terminate" ELSE None

Releasable == IF ToUnmap("default") # {} \/ graph.state # "freeable" THEN ToUnmap("default")
                                                                     ELSE ToUnmap("graph")

ReleaseBlocks ==
  /\ call.at = "release"
  /\ \E x \in Releasable : UnmapBlock(x[1], x[2])
  /\ UNCHANGED <<scenario, peers, handle_type, call, work, faults>>

\* A freeable pool with a count of 0 is erased; malloc then tries again.
ReleaseDone ==
  LET erased == graph.state = "freeable" /\ graph.count = 0
      inUse == \E x \in InUse : segment[x[1]].pool = "graph"
  IN /\ call.at = "release" /\ Releasable = {}
     /\ graph' = IF erased THEN [graph EXCEPT !.state = "erased"] ELSE graph
     /\ failure' = IF erased /\ inUse THEN "dangling pool" ELSE None
     /\ call' = IF call.size = 0 THEN Idle ELSE [call EXCEPT !.at = "find"]
     /\ UNCHANGED <<scenario, deviceVars, peers, work>>

Failed == failure # None /\ UNCHANGED vars

Step ==
  \/ \E g \in Live : \E a \in DOMAIN chain[g] : FreeBlock(g, a)
  \/ ProcessEvents \/ SynchronizeEvents \/ GetFreeBlock \/ FindExpandableBlock
  \/ MapBlock \/ MapOutOfMemory \/ MapAsserts \/ AllocBlock
  \/ \E j \in PageIds : MapError(j)
  \/ \E j \in 0..Pages : MapAndSetAccessError(j)
  \/ ReleaseBlocks \/ ReleaseDone

Gpu == \E w \in work : Complete(w)

Client ==
  \/ \E s \in Streams, n \in Requests : Malloc(s, n)
  \/ \E g \in Live : \E a \in DOMAIN chain[g] :
       \/ Free(g, a) \/ ShareIpcHandle(g, a)
       \/ \E s \in Streams : RecordStream(g, a, s) \/ Launch(g, a, s)
  \/ \E s \in Streams : CaptureBegin(s) \/ Replay(s)
  \/ CaptureEnd \/ Reset \/ EmptyCache
  \/ \E p \in Peers : AddPeerAccess(p)

Next == (failure = None /\ (Step \/ Client)) \/ Gpu \/ Failed

Spec == Init /\ [][Next]_vars

-----------------------------------------------------------------------------
\* Every address of a segment belongs to exactly one block.
Tiled(c) ==
  /\ \A a \in DOMAIN c : a \in 0..RangeSize - 1 /\ c[a].size \in 1..RangeSize - a
  /\ \A a, b \in DOMAIN c : a < b => End(c, a) <= b
  /\ \A u \in 0..RangeSize - 1 : \E a \in DOMAIN c : a <= u /\ u < End(c, a)

\* Types; in particular the blocks of a segment tile its address range through every
\* split, merge and unmapping, and an unmapped block is in nobody's use.
TypeOK ==
  /\ \A g \in Segments :
       /\ segment[g].handles \cup segment[g].mapped \cup segment[g].stray
            \cup segment[g].shared \subseteq PageIds
       /\ segment[g].peers \subseteq Peers
       /\ IF g \in Live THEN Tiled(chain[g]) ELSE chain[g] = NoBlocks
  /\ \A x \in AllBlocks :
       /\ BlockAt(x).uses \cup BlockAt(x).events \subseteq Streams
       /\ ~BlockAt(x).mapped => allocatable(BlockAt(x))
  /\ total \in 0..Memory * PageSize
  /\ handle_type \in {"unspecified", "fabric", "posix"}
  /\ graph.count \in Int /\ faults \in 0..1

\* Block::mapped agrees with the driver: a mapped block has all its pages, and an
\* unmapped block none but those that an error in mapAndSetAccess has left, which are
\* in no mapped block.
Backed ==
  failure = None =>
    \A x \in AllBlocks :
      IF BlockAt(x).mapped
      THEN PagesOf(x) \subseteq segment[x[1]].mapped \ segment[x[1]].stray
      ELSE PagesOf(x) \cap segment[x[1]].mapped = {}

\* total_allocated_memory is what is mapped for blocks; what an error has left is not
\* part of it, but keeps its handle; and when the driver makes no error no handle is
\* lost.
Accounted ==
  failure = None =>
    /\ total = PageSize * Cardinality(PagesWith(LAMBDA g : segment[g].mapped))
    /\ \A g \in Segments :
         /\ segment[g].mapped \cup segment[g].stray \subseteq segment[g].handles
         /\ segment[g].mapped \cap segment[g].stray = {}
         /\ scenario.faults = 0 => segment[g].handles = segment[g].mapped

\* No kernel runs on pages that have been unmapped, although unmapHandles waits for
\* one stream only: the others have been waited for through events.  A graph is
\* replayed on the stream it was captured on.
WorkMapped ==
  scenario.replay = "capture stream" =>
    \A w \in work : LET k == w.kernel
                    IN Touched(k.lo, k.hi) \subseteq segment[k.seg].mapped

\* "invariant: free -> unmapped -> *": while the candidate is too small there is an
\* unmapped block after it, and the space from there on is enough.
LoopInvariant ==
  Mapping => /\ ToMap \in DOMAIN chain[call.seg] /\ ~chain[call.seg][ToMap].mapped
             /\ HasSpace(chain[call.seg], call.pos)

\* Every mapped page can be reached from every device with peer access, whether it
\* was mapped before the access was given or after.
PeersReach ==
  failure = None => \A g \in Live : segment[g].mapped \X peers \subseteq segment[g].access

\* empty_cache leaves a page of the default pool mapped only where a block in use
\* touches it; the pages that an error has left are in no cached block.
ReleasedAll ==
  [][ReleaseDone =>
       \A g \in InPool("default") : \A k \in segment[g].mapped :
         \E x \in InUse : x[1] = g /\ k \in PagesOf(x)]_vars

\* TORCH_INTERNAL_ASSERT(block->pool->owner_PrivatePool->musaMalloc_count > 0) in
\* unmap_block: the count covers every part of the pool that is mapped.
MallocCountPositive == failure # "musaMalloc_count"

\* What the allocator believes of the driver is so: which blocks are mapped, how much
\* memory it holds, and which devices reach it.
DriverAgrees == TypeOK /\ Backed /\ Accounted /\ PeersReach
=============================================================================

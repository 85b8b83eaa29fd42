-------------------------- MODULE CaptureDeferral --------------------------
(***************************************************************************)
(* What DeviceCachingAllocator does with a block that several streams have *)
(* used when it is freed around a MUSA graph capture.  During a capture no *)
(* event may be recorded or queried, so the free is deferred; with the     *)
(* setting graph_capture_record_stream_reuse, empty nodes of the graph     *)
(* ("free markers") tell already during the capture when the block can be  *)
(* reused.                                                                 *)
(*                                                                         *)
(* Blocks are not split here (that is DeviceAllocator), and all of them    *)
(* were allocated on stream Home.  The captured graph is kept by           *)
(* reachability: node k of stream s is <<s, k>>, ancestors[s][k] are the   *)
(* nodes that precede it.  pend and depth are as in DeviceAllocator.       *)
(***************************************************************************)
EXTENDS Integers, Sequences, FiniteSets

CONSTANTS
  Streams, Home,     \* the streams, and the one that allocates
  DefaultBlocks,     \* blocks of the default pool
  PrivateBlocks,     \* blocks of the private pool of the captured graphs
  Scenarios,         \* the settings and programs to look at
  MaxDepth, MaxNodes, MaxLife   \* bounds: queued kernels, captured nodes,
                                \* lifetimes of a block in one capture

ASSUME HomeAssumption == Home \in Streams
ASSUME BlockAssumption == DefaultBlocks \cap PrivateBlocks = {}
ASSUME BoundAssumption == MaxDepth \in Nat /\ MaxNodes \in Nat /\ MaxLife \in Nat
ASSUME ScenarioAssumption ==
  Scenarios \subseteq [reuse : BOOLEAN, outside : SUBSET {"malloc", "record", "launch"},
                       streams : SUBSET Streams, depth : 0..MaxDepth,
                       blocks : SUBSET (DefaultBlocks \cup PrivateBlocks), nodes : 0..MaxNodes]

Blocks == DefaultBlocks \cup PrivateBlocks
Nodes == Streams \X (Nat \ {0})
NoEvent == -1

VARIABLES
  scenario,     \* the scenario of this behaviour
  capture,      \* how far capture_begin and capture_end have come
  capturing,    \* driver: the streams that take part in the capture
  deps,         \* driver: capture dependencies (terminals) of each stream
  ancestors,    \* driver: [Streams -> Seq(SUBSET Nodes)]
  empty,        \* driver: the nodes of type musaGraphNodeTypeEmpty
  block,        \* [Blocks -> Block]
  pend, depth,  \* GPU, eager kernels
  \* History of the current lifetime of a block.
  life,         \* [Blocks -> Nat]: lifetimes since the capture began
  born,         \* [Blocks -> SUBSET Nodes]: dependencies of Home at malloc
  touched,      \* [Blocks -> SUBSET [node, life]]: the captured kernels
  in_capture,   \* [Blocks -> SUBSET Streams]: recorded during a capture
  left_over     \* [Blocks -> SUBSET Streams]: recorded during a capture in an
                \* earlier lifetime, which left the entry behind

driverVars == <<capturing, deps, ancestors, empty>>
gpuVars == <<pend, depth>>
historyVars == <<life, born, touched, in_capture, left_over>>
vars == <<scenario, capture, driverVars, block, gpuVars, historyVars>>

\* MUSAAllocatorConfig::graph_capture_record_stream_reuse().
Reuse == scenario.reuse
\* What threads that take no part in a capture do while it is under way.
Outside == scenario.outside

\* ~captures_underway.empty()
underway == capture # "none"

Block == [state : {"cached", "allocated", "deferred", "waiting"},
          stream_uses : SUBSET Streams, musagraph_stream_uses : SUBSET Streams,
          empty_nodes : SUBSET Nodes, events : [Streams -> Int]]

NoEvents == [s \in Streams |-> NoEvent]

Init ==
  /\ scenario \in Scenarios
  /\ capture = "none" /\ capturing = {} /\ empty = {}
  /\ deps = [s \in Streams |-> {}]
  /\ ancestors = [s \in Streams |-> <<>>]
  /\ block = [b \in Blocks |->
                [state |-> "cached", stream_uses |-> {}, musagraph_stream_uses |-> {},
                 empty_nodes |-> {}, events |-> NoEvents]]
  /\ pend = [s \in Streams |-> [b \in Blocks |-> 0]]
  /\ depth = [s \in Streams |-> 0]
  /\ life = [b \in Blocks |-> 0] /\ born = [b \in Blocks |-> {}]
  /\ touched = [b \in Blocks |-> {}] /\ in_capture = [b \in Blocks |-> {}]
  /\ left_over = [b \in Blocks |-> {}]

(***************************************************************************)
(* The graph.                                                              *)
(***************************************************************************)
\* The nodes captured so far.
Captured == UNION {{s} \X (1 .. Len(ancestors[s])) : s \in Streams}
Ancestors(node) == ancestors[node[1]][node[2]]
UpTo(nodes) == nodes \cup UNION {Ancestors(d) : d \in nodes}

\* One new node at the end of every stream of A.
AddNodes(A) ==
  /\ Cardinality(Captured) + Cardinality(A) <= scenario.nodes
  /\ ancestors' = [s \in Streams |->
                     IF s \in A THEN Append(ancestors[s], UpTo(deps[s])) ELSE ancestors[s]]
  /\ deps' = [s \in Streams |->
                IF s \in A THEN {<<s, Len(ancestors[s]) + 1>>} ELSE deps[s]]

\* The empty nodes that precede every terminal of stream s.
get_reusable_empty_nodes(s) ==
  IF deps[s] = {} THEN {}
  ELSE {e \in empty : \A d \in deps[s] : e \in UpTo({d})}

(***************************************************************************)
(* End of life of a block.                                                 *)
(***************************************************************************)
\* free_block.
Cached(b) == [b EXCEPT !.state = "cached", !.stream_uses = {}, !.empty_nodes = {}]

insert_events(b) ==
  [b EXCEPT !.state = "waiting", !.stream_uses = {}, !.empty_nodes = {},
            !.events = [s \in Streams |-> IF s \in b.stream_uses THEN depth[s] ELSE @[s]]]

\* Mutant of remove_musagraph_stream_uses: the test of membership is inverted.
remove_musagraph_stream_uses_Inverted(b) ==
  [b EXCEPT !.stream_uses = @ \cap b.musagraph_stream_uses, !.musagraph_stream_uses = {}]

\* Streams recorded during a capture get no event.
remove_musagraph_stream_uses(b) ==
  [b EXCEPT !.stream_uses = @ \ b.musagraph_stream_uses, !.musagraph_stream_uses = {}]

insert_events_deferred_until_no_capture(b) ==
  IF b.state = "deferred" THEN insert_events(remove_musagraph_stream_uses(b)) ELSE b

\* Completed events are dropped; a block without events is freed.
drop_completed(b) ==
  LET left == [b EXCEPT !.events = [s \in Streams |-> IF @[s] = 0 THEN NoEvent ELSE @[s]]]
  IN IF b.state = "waiting" /\ left.events = NoEvents THEN Cached(left) ELSE left

process_events(b) == drop_completed(insert_events_deferred_until_no_capture(b))

\* Mutant of free_safe_blocks_in_capture: one reusable marker is enough.
free_safe_blocks_in_capture_AnyMarker(b, s) ==
  IF /\ b.state = "deferred" /\ s = Home
     /\ b.empty_nodes \cap get_reusable_empty_nodes(s) # {}
  THEN Cached(b) ELSE b

free_safe_blocks_in_capture(b, s) ==
  IF /\ b.state = "deferred" /\ s = Home /\ b.empty_nodes # {}
     /\ b.empty_nodes \subseteq get_reusable_empty_nodes(s)
  THEN Cached(b) ELSE b

\* malloc on stream s: end-of-life processing of all blocks, then the search for
\* a cached block of the right pool; without one, new memory is obtained, which
\* is not a block of this model.
Recycled(s) ==
  [b \in Blocks |-> IF ~underway THEN process_events(block[b])
                    ELSE IF Reuse THEN free_safe_blocks_in_capture(block[b], s)
                    ELSE block[b]]

Pool(s) ==
  IF s # Home THEN {}
  ELSE scenario.blocks \cap (IF s \in capturing THEN PrivateBlocks ELSE DefaultBlocks)

\* With Reuse, malloc on a stream outside the capture throws (get_terminals:
\* "Invalid stream capture status") before it has changed anything.
Malloc(s) ==
  /\ s \in scenario.streams
  /\ underway => s \in capturing \/ "malloc" \in Outside
  /\ underway /\ Reuse => s \in capturing
  /\ LET found == {b \in Pool(s) : Recycled(s)[b].state = "cached"}
     IN \/ \E b \in found :
             /\ underway => life[b] < MaxLife
             /\ block' = [Recycled(s) EXCEPT ![b].state = "allocated"]
             /\ life' = [life EXCEPT ![b] = IF underway THEN @ + 1 ELSE 0]
             /\ born' = [born EXCEPT ![b] = deps[s]]
             /\ in_capture' = [in_capture EXCEPT ![b] = {x \in @ : pend[x][b] > 0}]
             /\ left_over' = [left_over EXCEPT ![b] = {x \in @ : pend[x][b] > 0}
                                \cup Recycled(s)[b].musagraph_stream_uses]
             /\ UNCHANGED touched
        \/ /\ found = {}
           /\ block' = Recycled(s)
           /\ UNCHANGED historyVars
  /\ UNCHANGED <<scenario, capture, driverVars, gpuVars>>

RecordStream(b, s) ==
  /\ block[b].state = "allocated" /\ s \in scenario.streams \ {Home}
  /\ underway => s \in capturing \/ "record" \in Outside
  /\ block' = [block EXCEPT ![b].stream_uses = @ \cup {s},
                            ![b].musagraph_stream_uses = IF underway THEN @ \cup {s} ELSE @]
  /\ in_capture' = IF underway THEN [in_capture EXCEPT ![b] = @ \cup {s}] ELSE in_capture
  /\ UNCHANGED <<scenario, capture, driverVars, gpuVars, life, born, touched, left_over>>

(***************************************************************************)
(* insert_free_marker: an empty node on Home and on every stream that used *)
(* the block, one after the other; on the first of them that does not      *)
(* capture it gives up, and the nodes made so far mark nothing.            *)
(***************************************************************************)
insert_free_marker(b, marked) ==
  LET users == {Home} \cup block[b].stream_uses
  IN /\ marked \subseteq users \cap capturing
     /\ users \subseteq capturing => marked = users
     /\ Home \notin capturing => marked = {}
     /\ Home \in capturing => Home \in marked
     /\ AddNodes(marked)
     /\ LET added == {<<s, Len(ancestors[s]) + 1>> : s \in marked}
        IN /\ empty' = empty \cup added
           /\ block' = [block EXCEPT ![b].state = "deferred",
                           ![b].empty_nodes = IF marked = users THEN added ELSE {}]
     /\ UNCHANGED capturing

\* Mutant of Free: during a capture every free is deferred.
Free_DeferAlways(b) ==
  /\ block[b].state = "allocated"
  /\ \/ /\ ~underway
        /\ block' = [block EXCEPT ![b] =
                        IF @.stream_uses = {} THEN Cached(@) ELSE insert_events(@)]
     \/ /\ underway
        /\ block' = [block EXCEPT ![b].state = "deferred"]
  /\ UNCHANGED <<scenario, capture, driverVars, gpuVars, historyVars>>

Free(b) ==
  /\ block[b].state = "allocated"
  /\ \/ /\ block[b].stream_uses = {}
        /\ block' = [block EXCEPT ![b] = Cached(@)]
        /\ UNCHANGED driverVars
     \/ /\ block[b].stream_uses # {} /\ ~underway
        /\ block' = [block EXCEPT ![b] = insert_events(@)]
        /\ UNCHANGED driverVars
     \/ /\ block[b].stream_uses # {} /\ underway /\ ~Reuse
        /\ block' = [block EXCEPT ![b].state = "deferred"]
        /\ UNCHANGED driverVars
     \/ /\ block[b].stream_uses # {} /\ underway /\ Reuse
        /\ \E marked \in SUBSET Streams : insert_free_marker(b, marked)
  /\ UNCHANGED <<scenario, capture, gpuVars, historyVars>>

(***************************************************************************)
(* torch.musa.graph: synchronize, empty_cache, capture_begin, capture_end. *)
(***************************************************************************)
\* synchronize_and_free_events, which returns when all events have completed.
EmptyCache ==
  /\ ~underway
  /\ \A b \in Blocks : process_events(block[b]).state # "waiting"
  /\ block' = [b \in Blocks |-> process_events(block[b])]
  /\ UNCHANGED <<scenario, capture, driverVars, gpuVars, historyVars>>

\* Unless other threads work, nothing is left to wait for after synchronize and
\* empty_cache.
BeginAllocateToPool ==
  /\ capture = "none"
  /\ \/ "launch" \in Outside
     \/ /\ \A s \in Streams : depth[s] = 0
        /\ \A b \in Blocks : block[b].state \in {"cached", "allocated"}
  /\ capture' = "begun"
  /\ UNCHANGED <<scenario, driverVars, block, gpuVars, historyVars>>

\* Mutant of StreamBeginCapture: the capture begins before beginAllocateToPool.
StreamBeginCapture_First ==
  /\ capture \in {"none", "begun"} /\ capturing = {}
  /\ capture' = IF capture = "begun" THEN "active" ELSE capture
  /\ capturing' = {Home}
  /\ UNCHANGED <<scenario, deps, ancestors, empty, block, gpuVars, historyVars>>

StreamBeginCapture ==
  /\ capture = "begun"
  /\ capture' = "active"
  /\ capturing' = {Home}
  /\ UNCHANGED <<scenario, deps, ancestors, empty, block, gpuVars, historyVars>>

\* The graph is complete; what is known of its nodes is not needed any more.
StreamEndCapture ==
  /\ capture = "active"
  /\ capture' = "ended"
  /\ capturing' = {} /\ empty' = {}
  /\ deps' = [s \in Streams |-> {}] /\ ancestors' = [s \in Streams |-> <<>>]
  /\ touched' = [b \in Blocks |-> {}] /\ born' = [b \in Blocks |-> {}]
  /\ life' = [b \in Blocks |-> 0]
  /\ UNCHANGED <<scenario, block, gpuVars, in_capture, left_over>>

EndAllocateToPool ==
  /\ capture = "ended"
  /\ capture' = "none"
  /\ UNCHANGED <<scenario, driverVars, block, gpuVars, historyVars>>

\* Stream s waits for an event recorded on stream x of the capture, and becomes
\* part of the capture.  Waiting that orders nothing new is left out.
WaitEvent(s, x) ==
  /\ x \in capturing /\ s \in scenario.streams \ {x}
  /\ s \in capturing => ~(deps[x] \subseteq UpTo(deps[s]))
  /\ capturing' = capturing \cup {s}
  /\ deps' = [deps EXCEPT ![s] = @ \cup deps[x]]
  /\ UNCHANGED <<scenario, capture, ancestors, empty, block, gpuVars, historyVars>>

Uses(s, b) == block[b].state = "allocated" /\ (s = Home \/ s \in block[b].stream_uses)

\* A kernel is captured.  The program has ordered it after the allocation.
CaptureKernel(s, b) ==
  /\ s \in capturing /\ Uses(s, b)
  /\ born[b] \subseteq UpTo(deps[s])
  /\ AddNodes({s})
  /\ touched' = [touched EXCEPT ![b] =
                   @ \cup {[node |-> <<s, Len(ancestors[s]) + 1>>, life |-> life[b]]}]
  /\ UNCHANGED <<scenario, capture, capturing, empty, block, gpuVars, life, born, in_capture, left_over>>

\* A kernel that uses none of the blocks is captured.
CaptureOther(s) ==
  /\ s \in capturing
  /\ AddNodes({s})
  /\ UNCHANGED <<scenario, capture, capturing, empty, block, gpuVars, historyVars>>

Launch(s, b) ==
  /\ s \notin capturing /\ Uses(s, b) /\ (underway => "launch" \in Outside)
  /\ depth[s] < scenario.depth
  /\ depth' = [depth EXCEPT ![s] = @ + 1]
  /\ pend' = [pend EXCEPT ![s][b] = depth[s] + 1]
  /\ UNCHANGED <<scenario, capture, driverVars, block, historyVars>>

Complete(s) ==
  /\ depth[s] > 0
  /\ depth' = [depth EXCEPT ![s] = @ - 1]
  /\ pend' = [pend EXCEPT ![s] = [b \in Blocks |-> IF @[b] > 0 THEN @[b] - 1 ELSE 0]]
  /\ block' = [b \in Blocks |-> [block[b] EXCEPT !.events[s] = IF @ > 0 THEN @ - 1 ELSE @]]
  /\ UNCHANGED <<scenario, capture, driverVars, historyVars>>

Next ==
  \/ \E s \in Streams : Malloc(s) \/ Complete(s) \/ CaptureOther(s)
  \/ \E b \in Blocks, s \in Streams :
       RecordStream(b, s) \/ Launch(s, b) \/ CaptureKernel(s, b)
  \/ \E b \in Blocks : Free(b)
  \/ \E s, x \in Streams : WaitEvent(s, x)
  \/ EmptyCache \/ BeginAllocateToPool \/ StreamBeginCapture \/ StreamEndCapture \/ EndAllocateToPool

Spec == Init /\ [][Next]_vars

(***************************************************************************)
(* Properties.                                                             *)
(***************************************************************************)
\* Every variable has its type; only a deferred block has free markers, only a
\* waiting one has events.
TypeOK ==
  /\ capture \in {"none", "begun", "active", "ended"} /\ capturing \subseteq Streams
  /\ deps \in [Streams -> SUBSET Nodes] /\ empty \subseteq Nodes
  /\ block \in [Blocks -> Block]
  /\ \A b \in Blocks : /\ block[b].empty_nodes # {} => block[b].state = "deferred"
                       /\ block[b].events # NoEvents => block[b].state = "waiting"
  /\ pend \in [Streams -> [Blocks -> Nat]] /\ depth \in [Streams -> Nat]

\* Work that was launched outside of the captures, by a thread that does not know of
\* them, may be pending while its block is freed, deferred, given events and reused.
\* It is waited for before the block is free, and belongs to the present lifetime of
\* an allocated one, unless its stream was recorded during a capture: in this lifetime
\* or in one that left the entry in block_to_musagraph_stream_uses.  (Free markers
\* tell of captured kernels only.)
Unwatched(b) == in_capture[b] \cup left_over[b]

DeferredWorkAwaited ==
  ~Reuse => \A b \in Blocks, s \in Streams \ {Home} :
    pend[s][b] > 0 => /\ block[b].state = "cached" => s \in Unwatched(b)
                      /\ block[b].state = "allocated" =>
                            s \in block[b].stream_uses \cup Unwatched(b)

\* Within one graph, the kernels of a later lifetime of a block run after all
\* kernels of its earlier lifetimes, in every replay: a block reused during the
\* capture was ready for it.
ReuseOrdered ==
  \A b \in Blocks : \A x, y \in touched[b] :
    x.life < y.life => x.node \in Ancestors(y.node)

\* No event is recorded on a stream that captures, although any thread may free
\* a block at any moment of capture_begin and capture_end.
NoEventInCapture ==
  [][\A b \in Blocks, s \in Streams :
       block[b].events[s] = NoEvent /\ block'[b].events[s] # NoEvent => s \notin capturing]_vars

\* TORCH_INTERNAL_ASSERT(!block->stream_uses.empty()) for every deferred block.
DeferredHasUses ==
  \A b \in Blocks : block[b].state = "deferred" => block[b].stream_uses # {}

\* A stream recorded outside of captures is waited for before the block is free.
EarlierStreamsAwaited ==
  \A b \in Blocks, s \in Streams \ {Home} :
    block[b].state = "cached" /\ pend[s][b] > 0 => s \in in_capture[b]

\* What free and the end of a capture rely on: flags, markers and events go with the
\* state of a block, and the assertion of insert_events_deferred_until_no_capture
\* on deferred blocks holds.
Bookkeeping == TypeOK /\ DeferredHasUses
----------------------------------------------------------------------------
(* The inductive invariant *)

RecordsOK ==
  /\ scenario \in Scenarios
  /\ ancestors \in [Streams -> Seq(SUBSET Nodes)]
  /\ life \in [Blocks -> Nat] /\ born \in [Blocks -> SUBSET Nodes]
  /\ touched \in [Blocks -> SUBSET [node : Nodes, life : Nat]]
  /\ in_capture \in [Blocks -> SUBSET Streams]
  /\ left_over \in [Blocks -> SUBSET Streams]

\* Streams capture only between musaStreamBeginCapture and musaStreamEndCapture,
\* Home all that time.
CaptureOK ==
  /\ capture = "active" => Home \in capturing
  /\ capture # "active" => /\ capturing = {} /\ empty = {}
                           /\ \A b \in Blocks : touched[b] = {}

\* The graph is closed under ancestors, and a stream's next node comes after all
\* nodes of the stream.
GraphOK ==
  /\ empty \subseteq Captured
  /\ \A s \in Streams : deps[s] \subseteq Captured
  /\ \A n \in Captured : /\ Ancestors(n) \subseteq Captured
                         /\ \A m \in Ancestors(n) : Ancestors(m) \subseteq Ancestors(n)
                         /\ n \in UpTo(deps[n[1]])

\* What the kernels captured on block b have to do with the state of the block:
\* those of earlier lives precede the present one, and those of the present
\* life are on streams that free or the markers know of.
LifeOK(b) ==
  /\ born[b] \subseteq UpTo(deps[Home])
  /\ \A x \in touched[b] :
       /\ x.node \in Captured /\ x.life <= life[b]
       /\ block[b].state = "cached" => x.node \in UpTo(deps[Home])
       /\ block[b].state = "allocated" =>
            IF x.life < life[b] THEN x.node \in UpTo(born[b])
            ELSE x.node[1] \in {Home} \cup block[b].stream_uses
       /\ block[b].state = "deferred" /\ block[b].empty_nodes # {} =>
            \E e \in block[b].empty_nodes : e \in Captured /\ x.node \in Ancestors(e)
       /\ block[b].state # "waiting"

\* Work of other streams is recorded in stream_uses or lies in front of an event,
\* apart from streams that a capture has hidden.
Awaited(b, s) ==
  /\ s \in block[b].musagraph_stream_uses => s \in Unwatched(b)
  /\ ~Reuse /\ pend[s][b] > 0 =>
       \/ s \in Unwatched(b)
       \/ block[b].state \in {"allocated", "deferred"} /\ s \in block[b].stream_uses
       \/ block[b].state = "waiting" /\ block[b].events[s] >= pend[s][b]

WorkOK ==
  /\ \A s \in Streams, b \in Blocks : pend[s][b] <= depth[s]
  /\ \A b \in Blocks, s \in Streams \ {Home} : Awaited(b, s)

IInv ==
  /\ TypeOK /\ RecordsOK /\ DeferredHasUses /\ CaptureOK /\ GraphOK /\ WorkOK
  /\ \A b \in Blocks : LifeOK(b)
  /\ ReuseOrdered
=============================================================================

------------------------- MODULE PrivatePools_proof -------------------------
(***************************************************************************)
(* Proofs about PrivatePools.  IInv is proved inductive action by action;  *)
(* the properties follow from it.                                          *)
(***************************************************************************)
EXTENDS PrivatePools, TLAPS, FiniteSetTheorems

PoolsTyped ==
  /\ graph_pools \subseteq Ids /\ graph_pools_freeable \subseteq Ids
  /\ use_count \in [Ids -> Nat] /\ musaMalloc_count \in [Ids -> Nat]

SegmentsTyped == segment \in [Segments -> Segment] /\ memory \in [Graphs -> SUBSET Segments]

Entry == [id : Ids, by : Threads \cup {NULL}]
Context == [kind : {"use", "ended", "graph"}, id : Ids]

OwnersTyped ==
  /\ captures_underway \in Seq(Entry)
  /\ context \in [Threads -> Seq(Context)]
  /\ mempool \in [MemPools -> {"none", "alive", "released", "gone"}]
  /\ graph \in [Graphs -> [state : {"new", "capturing", "captured", "failed"},
                           pool : Ids \cup {NULL}]]

CallsTyped ==
  /\ lock \in Threads \cup {NULL} /\ call \in [Threads -> Call]
  /\ use_on_oom_pools \subseteq Ids /\ scenario \in Scenarios
  /\ abort \in {"no", "use_count_is_1", "captures_underway_is_empty"}

\* What release_cached_blocks decides by.
PoolsSide == PoolsTyped /\ FreeableExact /\ NewPoolsOK

SegmentsSide == SegmentsTyped /\ MallocCounts /\ SegmentsOK

\* The entries of captures_underway.
Entries == {captures_underway[i] : i \in DOMAIN captures_underway}
Distinct ==
  \A i, j \in DOMAIN captures_underway : captures_underway[i].id = captures_underway[j].id => i = j

\* Thread t records to p: one of its contexts that has not been ended stands for p.
Inside(t, p) == \E k \in DOMAIN context[t] : context[t][k].kind # "ended" /\ context[t][k].id = p
InsideOnce(t) ==
  \A k, l \in DOMAIN context[t] :
    context[t][k].kind # "ended" /\ context[t][l].kind # "ended"
      /\ context[t][k].id = context[t][l].id => k = l

\* An entry of a thread is an entry for a context of it, and the other way round.
EntriesByContext == \A e \in Entries : \A t \in Threads : e.by = t => Inside(t, e.id)
ContextsHaveEntry ==
  \A t \in Threads : \A p \in Ids : Inside(t, p) => [id |-> p, by |-> t] \in Entries

EndedIsTop ==
  \A t \in Threads : \A k \in DOMAIN context[t] :
    context[t][k].kind = "ended" => k = Len(context[t]) /\ call[t].at = "idle"

GraphContexts ==
  \A t \in Threads : \A k \in DOMAIN context[t] : context[t][k].kind = "graph" =>
    /\ \E g \in Graphs : graph[g] = [state |-> "capturing", pool |-> context[t][k].id]
    /\ \A u \in Threads : \A l \in DOMAIN context[u] :
         context[u][l].kind = "graph" => u = t /\ l = k

EntriesSide ==
  /\ Distinct /\ EntriesByContext /\ ContextsHaveEntry /\ GraphContexts
  /\ \A t \in Threads : Len(context[t]) <= MaxNest /\ InsideOnce(t)

Sides ==
  /\ PoolsSide /\ SegmentsSide /\ OwnersTyped /\ EntriesSide /\ EndedIsTop /\ GraphsOK
  /\ CallsTyped /\ (\A p \in Ids : CountOK(p)) /\ (\A t \in Threads : CallOK(t))
  /\ NotNested

LEMMA EntriesAre ==
  ASSUME NEW e
  PROVE  (\E i \in DOMAIN captures_underway : captures_underway[i] = e) <=> e \in Entries
BY DEF Entries

LEMMA ContextOKIs ==
  ASSUME OwnersTyped
  PROVE  (\A t \in Threads : ContextOK(t)) <=>
           /\ \A t \in Threads : Len(context[t]) <= MaxNest /\ InsideOnce(t)
           /\ EndedIsTop /\ GraphContexts /\ ContextsHaveEntry
  <1>1. ASSUME \A t \in Threads : ContextOK(t)
        PROVE  /\ \A t \in Threads : Len(context[t]) <= MaxNest /\ InsideOnce(t)
               /\ EndedIsTop /\ GraphContexts /\ ContextsHaveEntry
    <2>1. \A t \in Threads : Len(context[t]) <= MaxNest BY <1>1 DEF ContextOK
    <2>2. \A t \in Threads : InsideOnce(t) BY <1>1 DEF ContextOK, InsideOnce
    <2>3. EndedIsTop BY <1>1 DEF ContextOK, EndedIsTop
    <2>4. GraphContexts BY <1>1 DEF ContextOK, GraphContexts
    <2>5. ContextsHaveEntry
      <3> SUFFICES ASSUME NEW t \in Threads, NEW p \in Ids, Inside(t, p)
                   PROVE  [id |-> p, by |-> t] \in Entries
        BY DEF ContextsHaveEntry
      <3>1. PICK k \in DOMAIN context[t] : context[t][k].kind # "ended" /\ context[t][k].id = p
        BY DEF Inside
      <3>2. \E i \in DOMAIN captures_underway :
              captures_underway[i] = [id |-> context[t][k].id, by |-> t]
        BY <1>1, <3>1 DEF ContextOK
      <3> QED BY <3>1, <3>2, EntriesAre
    <2> QED BY <2>1, <2>2, <2>3, <2>4, <2>5
  <1>2. ASSUME \A t \in Threads : Len(context[t]) <= MaxNest /\ InsideOnce(t),
               EndedIsTop, GraphContexts, ContextsHaveEntry, NEW t \in Threads
        PROVE  ContextOK(t)
    <2>1. Len(context[t]) <= MaxNest BY <1>2
    <2> SUFFICES ASSUME NEW k \in DOMAIN context[t]
                 PROVE
       /\ context[t][k].kind = "ended" => k = Len(context[t]) /\ call[t].at = "idle"
       /\ context[t][k].kind # "ended" =>
            /\ \E i \in DOMAIN captures_underway :
                 captures_underway[i] = [id |-> context[t][k].id, by |-> t]
            /\ \A l \in DOMAIN context[t] :
                 context[t][l].kind # "ended" /\ context[t][l].id = context[t][k].id => k = l
       /\ context[t][k].kind = "graph" =>
            /\ \E g \in Graphs : graph[g] = [state |-> "capturing", pool |-> context[t][k].id]
            /\ \A u \in Threads : \A l \in DOMAIN context[u] :
                 context[u][l].kind = "graph" => u = t /\ l = k
      BY <2>1 DEF ContextOK
    <2>2. context[t][k].kind = "ended" => k = Len(context[t]) /\ call[t].at = "idle"
      BY <1>2 DEF EndedIsTop
    <2>3. ASSUME context[t][k].kind # "ended"
          PROVE  \E i \in DOMAIN captures_underway :
                   captures_underway[i] = [id |-> context[t][k].id, by |-> t]
      <3>1. context[t] \in Seq(Context) BY DEF OwnersTyped
      <3>2. context[t][k] \in Context BY <3>1
      <3>3. context[t][k].id \in Ids BY <3>2 DEF Context
      <3>4. Inside(t, context[t][k].id) BY <2>3 DEF Inside
      <3>5. [id |-> context[t][k].id, by |-> t] \in Entries
        BY <1>2, <3>3, <3>4 DEF ContextsHaveEntry
      <3> QED BY <3>5, EntriesAre
    <2>4. context[t][k].kind # "ended" => \A l \in DOMAIN context[t] :
            context[t][l].kind # "ended" /\ context[t][l].id = context[t][k].id => k = l
      BY <1>2 DEF InsideOnce
    <2>5. context[t][k].kind = "graph" =>
            /\ \E g \in Graphs : graph[g] = [state |-> "capturing", pool |-> context[t][k].id]
            /\ \A u \in Threads : \A l \in DOMAIN context[u] :
                 context[u][l].kind = "graph" => u = t /\ l = k
      BY <1>2 DEF GraphContexts
    <2> QED BY <2>2, <2>3, <2>4, <2>5
  <1> QED BY <1>1, <1>2

LEMMA EntriesOKIs == EntriesOK <=> Distinct /\ EntriesByContext
  <1>1. ASSUME EntriesByContext
        PROVE  \A i \in DOMAIN captures_underway : \A t \in Threads :
                 captures_underway[i].by = t => Inside(t, captures_underway[i].id)
    BY <1>1 DEF EntriesByContext, Entries
  <1>2. ASSUME \A i \in DOMAIN captures_underway : \A t \in Threads :
                 captures_underway[i].by = t => Inside(t, captures_underway[i].id)
        PROVE  EntriesByContext
    BY <1>2 DEF EntriesByContext, Entries
  <1> QED BY <1>1, <1>2 DEF EntriesOK, Distinct, Inside

\* The invariant and its sides are the same.
LEMMA SidesOf == IInv <=> Sides
  <1>1. TypeOK /\ scenario \in Scenarios
          <=> PoolsTyped /\ SegmentsTyped /\ OwnersTyped /\ CallsTyped
    BY DEF TypeOK, PoolsTyped, SegmentsTyped, OwnersTyped, CallsTyped, Entry, Context
  <1> QED BY <1>1, ContextOKIs, EntriesOKIs
      DEF IInv, Sides, PoolsSide, SegmentsSide, EntriesSide

(***************************************************************************)
(* Who uses a pool keeps it.                                               *)
(***************************************************************************)
Used(p) == p \in graph_pools /\ p \notin graph_pools_freeable /\ use_count[p] > 0

LEMMA HoldersFinite ==
  ASSUME OwnersTyped, NEW p
  PROVE  /\ IsFiniteSet(GraphsOf(p)) /\ IsFiniteSet(ContextsOf(p))
         /\ Cardinality(GraphsOf(p)) \in Nat /\ Cardinality(ContextsOf(p)) \in Nat
         /\ MemPoolsOf(p) \in {0, 1} /\ Stuck(p) \in {0, 1} /\ Holders(p) \in Nat
  <1>1. IsFiniteSet(Graphs) /\ IsFiniteSet(Threads) BY FiniteAssumption
  <1>2. GraphsOf(p) \in SUBSET Graphs BY DEF GraphsOf
  <1>3. IsFiniteSet(GraphsOf(p)) BY <1>1, <1>2, FS_Subset
  <1>4. IsFiniteSet(1 .. MaxNest) BY PoolBoundAssumption, FS_Interval
  <1>5. IsFiniteSet(Threads \X (1 .. MaxNest)) BY <1>1, <1>4, FS_Product
  <1>6. ContextsOf(p) \in SUBSET (Threads \X (1 .. MaxNest)) BY DEF ContextsOf
  <1>7. IsFiniteSet(ContextsOf(p)) BY <1>5, <1>6, FS_Subset
  <1>8. Cardinality(GraphsOf(p)) \in Nat /\ Cardinality(ContextsOf(p)) \in Nat
    BY <1>3, <1>7, FS_CardinalityType
  <1>9. MemPoolsOf(p) \in {0, 1} /\ Stuck(p) \in {0, 1} BY DEF MemPoolsOf, Stuck
  <1> QED BY <1>3, <1>7, <1>8, <1>9 DEF Holders

LEMMA Nonempty ==
  ASSUME NEW S, NEW x \in S, IsFiniteSet(S)
  PROVE  Cardinality(S) \in Nat /\ Cardinality(S) > 0
  <1>1. Cardinality(S) \in Nat BY FS_CardinalityType
  <1>2. Cardinality(S) # 0 BY FS_EmptySet
  <1> QED BY <1>1, <1>2

\* A pool with a holder, or with an entry of a failed capture, is used.
LEMMA HeldIsUsed ==
  ASSUME PoolsSide, OwnersTyped, NEW p \in Ids, CountOK(p), Holders(p) + Stuck(p) > 0
  PROVE  Used(p)
  <1>1. Holders(p) \in Nat /\ Stuck(p) \in Nat BY HoldersFinite
  <1>2. use_count[p] \in Nat BY DEF PoolsSide, PoolsTyped
  <1>3. use_count[p] > 0 BY <1>1, <1>2 DEF CountOK
  <1>4. p \in graph_pools BY <1>2, <1>3 DEF PoolsSide, NewPoolsOK
  <1>5. p \notin graph_pools_freeable BY <1>2, <1>3 DEF PoolsSide, FreeableExact
  <1> QED BY <1>3, <1>4, <1>5 DEF Used

LEMMA MemPoolUsed ==
  ASSUME Sides, NEW m \in MemPools, mempool[m] = "alive"
  PROVE  m \in Ids /\ Used(m) /\ MemPoolsOf(m) = 1
  <1>1. m \in Ids BY DEF Ids
  <1>2. MemPoolsOf(m) = 1 BY DEF MemPoolsOf
  <1>3. PoolsSide /\ OwnersTyped /\ CountOK(m) BY <1>1 DEF Sides
  <1>4. Holders(m) + Stuck(m) > 0
    <2>1. /\ Cardinality(GraphsOf(m)) \in Nat /\ Cardinality(ContextsOf(m)) \in Nat
          /\ Stuck(m) \in {0, 1}
      BY <1>3, HoldersFinite
    <2> QED BY <1>2, <2>1 DEF Holders
  <1> QED BY <1>1, <1>2, <1>3, <1>4, HeldIsUsed

LEMMA GraphUsed ==
  ASSUME Sides, NEW g \in Graphs, graph[g].state \in {"capturing", "captured"}
  PROVE  graph[g].pool \in Ids /\ Used(graph[g].pool)
  <1>1. PICK p : p = graph[g].pool OBVIOUS
  <1>2. p \in Ids BY <1>1 DEF Sides, GraphsOK
  <1>3. PoolsSide /\ OwnersTyped /\ CountOK(p) BY <1>2 DEF Sides
  <1>4. g \in GraphsOf(p) BY <1>1 DEF GraphsOf
  <1>5. /\ IsFiniteSet(GraphsOf(p)) /\ Cardinality(ContextsOf(p)) \in Nat
        /\ MemPoolsOf(p) \in {0, 1} /\ Stuck(p) \in {0, 1}
    BY <1>3, HoldersFinite
  <1>6. Cardinality(GraphsOf(p)) \in Nat /\ Cardinality(GraphsOf(p)) > 0 BY <1>4, <1>5, Nonempty
  <1>7. Holders(p) + Stuck(p) > 0 BY <1>5, <1>6 DEF Holders
  <1> QED BY <1>1, <1>2, <1>3, <1>7, HeldIsUsed

LEMMA ContextTyped ==
  ASSUME OwnersTyped, NEW t \in Threads
  PROVE  /\ context[t] \in Seq(Context) /\ Len(context[t]) \in Nat
         /\ DOMAIN context[t] = 1 .. Len(context[t])
         /\ \A k \in DOMAIN context[t] : /\ context[t][k] \in Context
                                         /\ context[t][k].kind \in {"use", "ended", "graph"}
                                         /\ context[t][k].id \in Ids
  <1>1. context[t] \in Seq(Context) BY DEF OwnersTyped
  <1>2. \A k \in DOMAIN context[t] : context[t][k] \in Context BY <1>1
  <1> QED BY <1>1, <1>2 DEF Context

LEMMA ContextUsed ==
  ASSUME Sides, NEW t \in Threads, NEW k \in DOMAIN context[t]
  PROVE  context[t][k].id \in Ids /\ Used(context[t][k].id)
  <1>1. PICK p : p = context[t][k].id OBVIOUS
  <1>2. OwnersTyped /\ PoolsSide BY DEF Sides
  <1>3. p \in Ids /\ k \in 1 .. Len(context[t]) /\ Len(context[t]) \in Nat
    BY <1>1, <1>2, ContextTyped
  <1>4. CountOK(p) BY <1>3 DEF Sides
  <1>5. CASE context[t][k].kind = "graph"
    <2>1. PICK g \in Graphs : graph[g] = [state |-> "capturing", pool |-> p]
      BY <1>1, <1>5 DEF Sides, EntriesSide, GraphContexts
    <2>2. graph[g].state = "capturing" /\ graph[g].pool = p BY <2>1
    <2> QED BY <1>1, <2>2, GraphUsed
  <1>6. CASE context[t][k].kind # "graph"
    <2>1. Len(context[t]) <= MaxNest BY DEF Sides, EntriesSide
    <2>2. k \in 1 .. MaxNest BY <1>3, <2>1, PoolBoundAssumption
    <2>3. <<t, k>> \in ContextsOf(p) BY <1>1, <1>3, <1>6, <2>2 DEF ContextsOf
    <2>4. /\ IsFiniteSet(ContextsOf(p)) /\ Cardinality(GraphsOf(p)) \in Nat
          /\ MemPoolsOf(p) \in {0, 1} /\ Stuck(p) \in {0, 1}
      BY <1>2, HoldersFinite
    <2>5. Cardinality(ContextsOf(p)) \in Nat /\ Cardinality(ContextsOf(p)) > 0
      BY <2>3, <2>4, Nonempty
    <2>6. Holders(p) + Stuck(p) > 0 BY <2>4, <2>5 DEF Holders
    <2> QED BY <1>1, <1>2, <1>3, <1>4, <2>6, HeldIsUsed
  <1> QED BY <1>5, <1>6

LEMMA EntryTyped ==
  ASSUME OwnersTyped, NEW e \in Entries
  PROVE  e \in Entry /\ e.id \in Ids /\ e.by \in Threads \cup {NULL}
         /\ e = [id |-> e.id, by |-> e.by]
  <1>1. PICK i \in DOMAIN captures_underway : e = captures_underway[i] BY DEF Entries
  <1>2. captures_underway \in Seq(Entry) BY DEF OwnersTyped
  <1>3. e \in Entry BY <1>1, <1>2
  <1> QED BY <1>3 DEF Entry

LEMMA RecordingIs == \A p : p \in Recording <=> \E e \in Entries : e.id = p
BY DEF Recording, Entries

LEMMA EntryUsed ==
  ASSUME Sides, NEW e \in Entries
  PROVE  e.id \in Ids /\ Used(e.id)
  <1>1. PICK p : p = e.id OBVIOUS
  <1>2. OwnersTyped /\ PoolsSide BY DEF Sides
  <1>3. p \in Ids /\ e.by \in Threads \cup {NULL} /\ e = [id |-> p, by |-> e.by]
    BY <1>1, <1>2, EntryTyped
  <1>4. CountOK(p) BY <1>3 DEF Sides
  <1>5. CASE e.by = NULL
    <2>1. e = [id |-> p, by |-> NULL] BY <1>3, <1>5
    <2>2. Stuck(p) = 1 BY <2>1, EntriesAre DEF Stuck
    <2>3. Holders(p) \in Nat BY <1>2, HoldersFinite
    <2> QED BY <1>1, <1>2, <1>3, <1>4, <2>2, <2>3, HeldIsUsed
  <1>6. CASE e.by \in Threads
    <2>1. PICK k \in DOMAIN context[e.by] : context[e.by][k].id = p
      BY <1>1, <1>6 DEF Sides, EntriesSide, EntriesByContext, Inside
    <2> QED BY <1>1, <1>6, <2>1, ContextUsed
  <1> QED BY <1>3, <1>5, <1>6

LEMMA CallUsed ==
  ASSUME Sides, NEW t \in Threads, call[t].at # "idle"
  PROVE  /\ call[t].pool \in Ids \cup {Default}
         /\ call[t].pool # Default => call[t].pool \in Ids /\ Used(call[t].pool)
                                      /\ [id |-> call[t].pool, by |-> t] \in Entries
  <1>1. CallOK(t) BY DEF Sides
  <1>2. PICK p : p = call[t].pool OBVIOUS
  <1>3. p \in Ids \cup {Default} BY <1>1, <1>2 DEF CallOK
  <1>4. ASSUME p # Default PROVE p \in Ids /\ Used(p) /\ [id |-> p, by |-> t] \in Entries
    <2>1. p \in Ids BY <1>3, <1>4
    <2>2. \E i \in DOMAIN captures_underway : captures_underway[i] = [id |-> call[t].pool, by |-> t]
      BY <1>1, <1>2, <2>1 DEF CallOK
    <2>3. [id |-> p, by |-> t] \in Entries BY <1>2, <2>2, EntriesAre
    <2> QED BY <2>1, <2>3, EntryUsed
  <1> QED BY <1>2, <1>3, <1>4

(***************************************************************************)
(* The counts.                                                             *)
(***************************************************************************)
\* A reference more, to a pool that may be new.
LEMMA Incref ==
  ASSUME PoolsSide, NEW p \in Ids, create_or_incref_pool(p)
  PROVE  /\ PoolsSide' /\ graph_pools \subseteq graph_pools' /\ p \in graph_pools'
         /\ musaMalloc_count' = musaMalloc_count
         /\ \A q \in Ids : use_count'[q] = IF q = p THEN use_count[q] + 1 ELSE use_count[q]
  <1>1. /\ use_count \in [Ids -> Nat] /\ musaMalloc_count \in [Ids -> Nat]
        /\ graph_pools \subseteq Ids /\ graph_pools_freeable \subseteq Ids
    BY DEF PoolsSide, PoolsTyped
  <1>2. /\ graph_pools' = graph_pools \cup {p} /\ use_count' = [use_count EXCEPT ![p] = @ + 1]
        /\ musaMalloc_count' = musaMalloc_count /\ graph_pools_freeable' = graph_pools_freeable
        /\ (p \in graph_pools => use_count[p] > 0)
    BY DEF create_or_incref_pool, Sharable
  <1>3. use_count' \in [Ids -> Nat] BY <1>1, <1>2
  <1>4. \A q \in Ids : use_count'[q] = IF q = p THEN use_count[q] + 1 ELSE use_count[q]
    BY <1>1, <1>2
  <1>5. \A q \in Ids : use_count[q] \in Nat BY <1>1
  <1>6. PoolsTyped' BY <1>1, <1>2, <1>3 DEF PoolsTyped
  <1>7. NewPoolsOK' BY <1>2, <1>4 DEF NewPoolsOK, PoolsSide
  <1>8. FreeableExact'
    <2>1. \A q \in Ids : q \in graph_pools_freeable <=> q \in graph_pools /\ use_count[q] = 0
      BY <1>1 DEF PoolsSide, FreeableExact
    <2>2. ASSUME NEW q \in Ids
          PROVE  q \in graph_pools_freeable' <=> q \in graph_pools' /\ use_count'[q] = 0
      <3>1. CASE q # p BY <3>1, <2>1, <1>2, <1>4
      <3>2. CASE q = p
        <4>1. use_count'[q] > 0 BY <3>2, <1>4, <1>5
        <4>2. q \notin graph_pools_freeable BY <3>2, <2>1, <1>2, <1>5
        <4> QED BY <4>1, <4>2, <1>2, <1>5
      <3> QED BY <3>1, <3>2
    <2> QED BY <1>1, <1>2, <2>2 DEF FreeableExact
  <1> QED BY <1>2, <1>4, <1>6, <1>7, <1>8 DEF PoolsSide

\* A reference less, of a pool in use.
LEMMA Decref ==
  ASSUME PoolsSide, NEW p \in Ids, Used(p), releasePool(p)
  PROVE  /\ PoolsSide' /\ graph_pools' = graph_pools
         /\ musaMalloc_count' = musaMalloc_count
         /\ \A q \in Ids : use_count'[q] = IF q = p THEN use_count[q] - 1 ELSE use_count[q]
  <1>1. /\ use_count \in [Ids -> Nat] /\ musaMalloc_count \in [Ids -> Nat]
        /\ graph_pools \subseteq Ids /\ graph_pools_freeable \subseteq Ids
    BY DEF PoolsSide, PoolsTyped
  <1>2. /\ graph_pools' = graph_pools /\ use_count' = [use_count EXCEPT ![p] = @ - 1]
        /\ musaMalloc_count' = musaMalloc_count
        /\ graph_pools_freeable' = IF use_count[p] = 1 THEN graph_pools_freeable \cup {p}
                                                       ELSE graph_pools_freeable
    BY DEF releasePool
  <1>3. p \in graph_pools /\ use_count[p] \in Nat /\ use_count[p] > 0
        /\ p \notin graph_pools_freeable
    BY <1>1 DEF Used
  <1>4. use_count' \in [Ids -> Nat] BY <1>1, <1>2, <1>3
  <1>5. \A q \in Ids : use_count'[q] = IF q = p THEN use_count[q] - 1 ELSE use_count[q]
    BY <1>1, <1>2
  <1>6. PoolsTyped' BY <1>1, <1>2, <1>3, <1>4 DEF PoolsTyped
  <1>7. NewPoolsOK' BY <1>2, <1>3, <1>5 DEF NewPoolsOK, PoolsSide
  <1>8. FreeableExact'
    <2>1. \A q \in Ids : q \in graph_pools_freeable <=> q \in graph_pools /\ use_count[q] = 0
      BY <1>1 DEF PoolsSide, FreeableExact
    <2>2. ASSUME NEW q \in Ids
          PROVE  q \in graph_pools_freeable' <=> q \in graph_pools' /\ use_count'[q] = 0
      <3>1. CASE q # p BY <3>1, <2>1, <1>2, <1>5
      <3>2. CASE q = p /\ use_count[p] = 1 BY <3>2, <1>2, <1>3, <1>5
      <3>3. CASE q = p /\ use_count[p] # 1
        <4>1. use_count'[q] # 0 BY <3>3, <1>3, <1>5
        <4> QED BY <4>1, <3>3, <1>2, <1>3
      <3> QED BY <3>1, <3>2, <3>3
    <2>3. graph_pools_freeable' \subseteq Ids BY <1>6 DEF PoolsTyped
    <2> QED BY <1>1, <1>2, <2>2, <2>3 DEF FreeableExact
  <1> QED BY <1>2, <1>5, <1>6, <1>7, <1>8 DEF PoolsSide

\* The segments of a pool are finitely many.
SegmentsOf(p) == {x \in Segments : segment[x].pool = p}

LEMMA SegmentsFinite ==
  ASSUME NEW p
  PROVE  IsFiniteSet(SegmentsOf(p))
  <1>1. SegmentsOf(p) \in SUBSET Segments BY DEF SegmentsOf
  <1> QED BY <1>1, FiniteAssumption, FS_Subset

\* The pools of segments when pools are added only.
LEMMA SegmentsStay ==
  ASSUME SegmentsSide, graph_pools \subseteq graph_pools',
         UNCHANGED <<segment, musaMalloc_count>>, (memory \in [Graphs -> SUBSET Segments])'
  PROVE  SegmentsSide'
  <1>1. SegmentsTyped' BY DEF SegmentsSide, SegmentsTyped
  <1>2. MallocCounts' BY DEF SegmentsSide, MallocCounts
  <1>3. SegmentsOK' BY DEF SegmentsSide, SegmentsOK
  <1> QED BY <1>1, <1>2, <1>3 DEF SegmentsSide

\* The same segments in the same pools; what happens to a segment otherwise does
\* not change the counts.
SamePools(sg) ==
  /\ sg \in [Segments -> Segment]
  /\ \A x \in Segments : sg[x].pool = segment[x].pool
                         /\ (sg[x].state = "none" <=> segment[x].state = "none")

LEMMA SegmentsMove ==
  ASSUME SegmentsSide, graph_pools' = graph_pools, UNCHANGED musaMalloc_count,
         NEW sg, SamePools(sg), segment' = sg, (memory \in [Graphs -> SUBSET Segments])'
  PROVE  SegmentsSide'
  <1>1. SegmentsTyped' BY DEF SegmentsSide, SegmentsTyped, SamePools
  <1>2. MallocCounts'
    <2> SUFFICES ASSUME NEW p \in Ids
                 PROVE  musaMalloc_count'[p] = Cardinality({x \in Segments : segment'[x].pool = p})
      BY DEF MallocCounts
    <2>1. {x \in Segments : segment'[x].pool = p} = {x \in Segments : segment[x].pool = p}
      BY DEF SamePools
    <2>2. musaMalloc_count[p] = Cardinality({x \in Segments : segment[x].pool = p})
      BY DEF SegmentsSide, MallocCounts
    <2> QED BY <2>1, <2>2
  <1>3. SegmentsOK' BY DEF SegmentsSide, SegmentsOK, SamePools
  <1> QED BY <1>1, <1>2, <1>3 DEF SegmentsSide

\* release_blocks keeps the counts exact; a pool is erased when it is freeable and
\* has no segment left.
LEMMA ReleaseBlocks ==
  ASSUME PoolsSide, SegmentsSide, NEW sg, SamePools(sg), NEW R \in SUBSET Segments, NEW P,
         release_blocks(sg, R, P), (memory \in [Graphs -> SUBSET Segments])'
  PROVE  /\ PoolsSide' /\ SegmentsSide' /\ use_count' = use_count
         /\ graph_pools' \subseteq graph_pools
         /\ \A p \in graph_pools : Used(p) => p \in graph_pools'
         /\ \A x \in Segments : segment'[x] = IF x \in R THEN NoSegment ELSE sg[x]
  <1> DEFINE Out(p) == {x \in R : sg[x].pool = p}
             erased == {p \in P \cap graph_pools_freeable : musaMalloc_count'[p] = 0}
  <1>1. /\ use_count \in [Ids -> Nat] /\ musaMalloc_count \in [Ids -> Nat]
        /\ graph_pools \subseteq Ids /\ graph_pools_freeable \subseteq Ids
        /\ segment \in [Segments -> Segment] /\ sg \in [Segments -> Segment]
    BY DEF PoolsSide, PoolsTyped, SegmentsSide, SegmentsTyped, SamePools
  <1>2. /\ segment' = [x \in Segments |-> IF x \in R THEN NoSegment ELSE sg[x]]
        /\ musaMalloc_count' = [p \in Ids |-> musaMalloc_count[p] - Cardinality(Out(p))]
        /\ graph_pools' = graph_pools \ erased
        /\ graph_pools_freeable' = graph_pools_freeable \ erased
        /\ use_count' = use_count
    BY DEF release_blocks
  <1>3. \A x \in Segments : segment'[x] = IF x \in R THEN NoSegment ELSE sg[x] BY <1>2
  <1>4. NULL \notin Ids BY NullAssumption
  <1>5. NoSegment \in Segment /\ NoSegment.pool = NULL /\ NoSegment.state = "none"
    BY DEF NoSegment, Segment
  <1>6. segment' \in [Segments -> Segment] BY <1>1, <1>2, <1>5
  <1>7. ASSUME NEW p \in Ids
        PROVE  /\ musaMalloc_count'[p] \in Nat
               /\ musaMalloc_count'[p] = Cardinality({x \in Segments : segment'[x].pool = p})
    <2>1. PICK A : A = SegmentsOf(p) OBVIOUS
    <2>2. PICK B : B = Out(p) OBVIOUS
    <2>3. IsFiniteSet(A) BY <2>1, SegmentsFinite
    <2>4. \A x : x \in A <=> x \in Segments /\ segment[x].pool = p BY <2>1 DEF SegmentsOf
    <2>5. \A x : x \in B <=> x \in R /\ sg[x].pool = p BY <2>2
    <2>6. \A x : x \in {y \in Segments : segment'[y].pool = p} <=> x \in A \ B
      BY <1>3, <1>4, <1>5, <2>4, <2>5 DEF SamePools
    <2>7. {y \in Segments : segment'[y].pool = p} = A \ B BY <2>6
    <2>8. A \cap B = B BY <2>4, <2>5 DEF SamePools
    <2>9. IsFiniteSet(A \ B) /\ Cardinality(A \ B) = Cardinality(A) - Cardinality(B)
      BY <2>3, <2>8, FS_Difference
    <2>10. Cardinality(A \ B) \in Nat BY <2>9, FS_CardinalityType
    <2>11. Cardinality(A) = musaMalloc_count[p]
      BY <2>1 DEF SegmentsOf, SegmentsSide, MallocCounts
    <2>12. musaMalloc_count'[p] = musaMalloc_count[p] - Cardinality(B) BY <1>2, <2>2
    <2> QED BY <2>7, <2>9, <2>10, <2>11, <2>12
  <1>8. musaMalloc_count' \in [Ids -> Nat] BY <1>2, <1>7
  <1>9. PoolsTyped' BY <1>1, <1>2, <1>8 DEF PoolsTyped
  <1>10. FreeableExact' BY <1>2 DEF FreeableExact, PoolsSide
  <1>11. ASSUME NEW p \in Ids \ graph_pools'
         PROVE  use_count'[p] = 0 /\ musaMalloc_count'[p] = 0
    <2>1. CASE p \in graph_pools
      <3>1. p \in erased BY <1>2, <1>11, <2>1
      <3>2. use_count[p] = 0 BY <3>1 DEF PoolsSide, FreeableExact
      <3> QED BY <1>2, <3>1, <3>2
    <2>2. CASE p \notin graph_pools
      <3>1. use_count[p] = 0 /\ musaMalloc_count[p] = 0
        BY <1>11, <2>2 DEF PoolsSide, NewPoolsOK
      <3>2. PICK B : B = Out(p) OBVIOUS
      <3>3. B \subseteq SegmentsOf(p) BY <3>2 DEF SamePools, SegmentsOf
      <3>4. IsFiniteSet(B) BY <3>3, SegmentsFinite, FS_Subset
      <3>5. Cardinality(B) \in Nat BY <3>4, FS_CardinalityType
      <3>6. musaMalloc_count'[p] = 0 - Cardinality(B) BY <1>2, <1>11, <3>1, <3>2
      <3>7. musaMalloc_count'[p] \in Nat BY <1>7, <1>11
      <3> QED BY <1>2, <3>1, <3>5, <3>6, <3>7
    <2> QED BY <2>1, <2>2
  <1>12. NewPoolsOK' BY <1>11 DEF NewPoolsOK
  <1>13. MallocCounts' BY <1>7 DEF MallocCounts
  <1>14. ASSUME NEW x \in Segments
         PROVE  /\ segment'[x].state = "none" <=> segment'[x].pool = NULL
                /\ segment'[x].pool \in graph_pools' \cup {Default, NULL}
    <2>1. CASE x \in R BY <2>1, <1>3, <1>5
    <2>2. CASE x \notin R
      <3>1. segment'[x] = sg[x] BY <1>3, <2>2
      <3>2. /\ segment'[x].state = "none" <=> segment'[x].pool = NULL
            /\ segment'[x].pool \in graph_pools \cup {Default, NULL}
        BY <3>1 DEF SegmentsSide, SegmentsOK, SamePools
      <3>3. ASSUME segment'[x].pool \in erased PROVE FALSE
        <4>1. PICK p \in Ids : p = segment'[x].pool /\ musaMalloc_count'[p] = 0
          BY <1>1, <3>3
        <4>2. PICK A : A = {y \in Segments : segment'[y].pool = p} OBVIOUS
        <4>3. Cardinality(A) = 0 BY <1>7, <4>1, <4>2
        <4>4. x \in A BY <4>1, <4>2
        <4>5. IsFiniteSet(A)
          <5>1. A \in SUBSET Segments BY <4>2
          <5> QED BY <5>1, FiniteAssumption, FS_Subset
        <4> QED BY <4>3, <4>4, <4>5, FS_EmptySet
      <3> QED BY <1>2, <3>2, <3>3
    <2> QED BY <2>1, <2>2
  <1>15. SegmentsOK' BY <1>14 DEF SegmentsOK
  <1>16. SegmentsTyped' BY <1>6 DEF SegmentsTyped
  <1>17. \A p \in graph_pools : Used(p) => p \in graph_pools' BY <1>2 DEF Used
  <1>18. graph_pools' \subseteq graph_pools BY <1>2
  <1> QED BY <1>2, <1>3, <1>9, <1>10, <1>12, <1>13, <1>15, <1>16, <1>17, <1>18
      DEF PoolsSide, SegmentsSide

LEMMA SyncedSame ==
  ASSUME SegmentsSide, NEW P
  PROVE  /\ SamePools(Synced(P)) /\ SamePools(segment)
         /\ \A x \in Segments : Synced(P)[x].asked = segment[x].asked
                                /\ (Synced(P)[x].state = "allocated" <=> segment[x].state = "allocated")
  <1>1. segment \in [Segments -> Segment] BY DEF SegmentsSide, SegmentsTyped
  <1>2. PICK s : s = Synced(P) OBVIOUS
  <1>3. s = [x \in Segments |-> IF segment[x].state = "waiting" /\ segment[x].pool \in P
                      THEN [segment[x] EXCEPT !.state = "cached"] ELSE segment[x]]
    BY <1>2 DEF Synced
  <1>4. ASSUME NEW x \in Segments
        PROVE  /\ s[x] \in Segment /\ s[x].pool = segment[x].pool /\ s[x].asked = segment[x].asked
               /\ \/ s[x].state = segment[x].state
                  \/ segment[x].state = "waiting" /\ s[x].state = "cached"
    <2>1. segment[x] \in Segment BY <1>1
    <2>2. CASE segment[x].state = "waiting" /\ segment[x].pool \in P
      <3>1. s[x] = [segment[x] EXCEPT !.state = "cached"] BY <1>3, <2>2
      <3> QED BY <2>1, <2>2, <3>1 DEF Segment
    <2>3. CASE ~(segment[x].state = "waiting" /\ segment[x].pool \in P)
      <3>1. s[x] = segment[x] BY <1>3, <2>3
      <3> QED BY <2>1, <3>1
    <2> QED BY <2>2, <2>3
  <1>5. s \in [Segments -> Segment] BY <1>3, <1>4
  <1>6. SamePools(s) BY <1>4, <1>5 DEF SamePools
  <1>7. SamePools(segment) BY <1>1 DEF SamePools
  <1> QED BY <1>2, <1>4, <1>6, <1>7

(***************************************************************************)
(* Frames.                                                                 *)
(***************************************************************************)
\* What is the same when nothing happens to the owners.
LEMMA OwnersKept ==
  ASSUME Sides, UNCHANGED <<captures_underway, ownerVars>>, PoolsSide',
         \A p \in Ids : use_count'[p] >= use_count[p]
  PROVE  OwnersTyped' /\ EntriesSide' /\ (\A p \in Ids : CountOK(p))'
  <1>1. UNCHANGED <<captures_underway, context, mempool, graph>> BY DEF ownerVars
  <1>2. OwnersTyped /\ EntriesSide BY DEF Sides
  <1>3. OwnersTyped' BY <1>1, <1>2 DEF OwnersTyped
  <1>4. Entries' = Entries BY <1>1 DEF Entries
  <1>5. EntriesSide'
    <2>1. Distinct' BY <1>1, <1>2 DEF EntriesSide, Distinct
    <2>2. EntriesByContext' BY <1>1, <1>2, <1>4 DEF EntriesSide, EntriesByContext, Inside
    <2>3. ContextsHaveEntry' BY <1>1, <1>2, <1>4 DEF EntriesSide, ContextsHaveEntry, Inside
    <2>4. GraphContexts' BY <1>1, <1>2 DEF EntriesSide, GraphContexts
    <2>5. (\A t \in Threads : Len(context[t]) <= MaxNest /\ InsideOnce(t))'
      BY <1>1, <1>2 DEF EntriesSide, InsideOnce
    <2> QED BY <2>1, <2>2, <2>3, <2>4, <2>5 DEF EntriesSide
  <1>6. ASSUME NEW p \in Ids PROVE CountOK(p)'
    <2>1. MemPoolsOf(p)' = MemPoolsOf(p) BY <1>1 DEF MemPoolsOf
    <2>2. GraphsOf(p)' = GraphsOf(p) BY <1>1 DEF GraphsOf
    <2>3. ContextsOf(p)' = ContextsOf(p) BY <1>1 DEF ContextsOf
    <2>4. Stuck(p)' = Stuck(p) BY <1>1 DEF Stuck
    <2>5. Holders(p)' = Holders(p) BY <2>1, <2>2, <2>3 DEF Holders
    <2>6. use_count[p] >= Holders(p) + Stuck(p) BY DEF Sides, CountOK
    <2>7. Holders(p) \in Nat /\ Stuck(p) \in Nat BY <1>2, HoldersFinite
    <2>8. use_count'[p] \in Nat /\ use_count[p] \in Nat BY DEF PoolsSide, PoolsTyped, Sides
    <2>9. use_count'[p] >= use_count[p] OBVIOUS
    <2> QED BY <2>4, <2>5, <2>6, <2>7, <2>8, <2>9 DEF CountOK
  <1> QED BY <1>3, <1>5, <1>6

\* The steps of malloc, free and empty_cache.
LEMMA MemoryStep ==
  ASSUME Sides, UNCHANGED <<scenario, captures_underway, use_on_oom_pools, ownerVars, abort>>,
         PoolsSide', SegmentsSide', \A p \in Ids : use_count'[p] >= use_count[p],
         \A g \in Graphs : graph[g].state = "new" => memory'[g] = memory[g],
         lock' \in Threads \cup {NULL}, call' \in [Threads -> Call],
         \A t \in Threads : call'[t].at = "idle" \/ call[t].at # "idle"
                            \/ context[t] = <<>> \/ Top(t).kind # "ended",
         \A t \in Threads : CallOK(t)', NotNested'
  PROVE  Sides'
  <1>1. UNCHANGED <<captures_underway, context, mempool, graph>> BY DEF ownerVars
  <1>2. OwnersTyped' /\ EntriesSide' /\ (\A p \in Ids : CountOK(p))' BY OwnersKept
  <1>3. CallsTyped' BY DEF Sides, CallsTyped
  <1>4. GraphsOK' BY <1>1 DEF Sides, GraphsOK
  <1>5. EndedIsTop'
    <2> SUFFICES ASSUME NEW t \in Threads, NEW k \in DOMAIN context[t], context[t][k].kind = "ended"
                 PROVE  k = Len(context[t]) /\ call'[t].at = "idle"
      BY <1>1 DEF EndedIsTop
    <2>1. k = Len(context[t]) /\ call[t].at = "idle" BY DEF Sides, EndedIsTop
    <2>2. Top(t).kind = "ended" BY <2>1 DEF Top
    <2>3. context[t] # <<>> BY ContextTyped DEF Sides
    <2> QED BY <2>1, <2>2, <2>3
  <1>6. (\A t \in Threads : CallOK(t))' OBVIOUS
  <1> QED BY <1>2, <1>3, <1>4, <1>5, <1>6 DEF Sides

\* Segments only get less used.
Quieter(sg) ==
  /\ SamePools(sg)
  /\ \A x \in Segments : sg[x].state = "allocated" =>
       segment[x].state = "allocated" /\ sg[x].asked = segment[x].asked

LEMMA TopIsInnermost ==
  ASSUME OwnersTyped, NEW t \in Threads
  PROVE  /\ context[t] = <<>> => Innermost(t) = Default
         /\ context[t] # <<>> => /\ Len(context[t]) \in DOMAIN context[t]
                                 /\ Innermost(t) = context[t][Len(context[t])].id
                                 /\ Innermost(t) \in Ids /\ Innermost(t) # Default
  <1>1. /\ Len(context[t]) \in Nat /\ DOMAIN context[t] = 1 .. Len(context[t])
        /\ context[t] \in Seq(Context)
        /\ \A k \in DOMAIN context[t] : context[t][k].id \in Ids
    BY ContextTyped
  <1>2. ASSUME context[t] # <<>>
        PROVE  Len(context[t]) \in DOMAIN context[t]
    BY <1>1, <1>2
  <1> QED BY <1>1, <1>2, IdAssumption DEF Innermost, Top

\* Without nested contexts a thread has at most the one on top.
LEMMA OneContext ==
  ASSUME OwnersTyped, MaxNest <= 1, NEW t \in Threads, Len(context[t]) <= MaxNest,
         NEW k \in DOMAIN context[t]
  PROVE  k = Len(context[t]) /\ k = 1 /\ context[t] # <<>> /\ Innermost(t) = context[t][k].id
  <1>1. Len(context[t]) \in Nat /\ DOMAIN context[t] = 1 .. Len(context[t]) BY ContextTyped
  <1>2. k = Len(context[t]) /\ k = 1 BY <1>1, PoolBoundAssumption
  <1>3. context[t] # <<>> BY <1>1
  <1> QED BY <1>2, <1>3, TopIsInnermost

\* A segment is taken for thread t from pool p, and the graph it captures takes
\* note of it.
LEMMA Taken ==
  ASSUME Sides, NEW t \in Threads, NEW sg, Quieter(sg), NEW x \in Segments,
         NEW p \in Ids \cup {Default},
         Take(t, sg, x, p), UNCHANGED <<scenario, use_on_oom_pools, ownerVars>>,
         sg[x].state = "none" \/ sg[x].pool = p
  PROVE  /\ \A y \in Segments : segment'[y] =
              IF y = x THEN [state |-> "allocated", pool |-> p, asked |-> Innermost(t)] ELSE sg[y]
         /\ SegmentsTyped'
         /\ \A g \in Graphs : graph[g].state = "new" => memory'[g] = memory[g]
         /\ MaxNest <= 1 /\ (p = Innermost(t) \/ (Innermost(t) = Default /\ p \in use_on_oom_pools))
              => Routing' /\ GraphMemoryKept'
  <1> DEFINE new == [state |-> "allocated", pool |-> p, asked |-> Innermost(t)]
  <1>1. UNCHANGED <<context, mempool, graph, scenario, use_on_oom_pools>> BY DEF ownerVars
  <1>2. /\ segment' = [sg EXCEPT ![x] = new] /\ memory' = Remembered(t, x)
    BY DEF Take
  <1>3. sg \in [Segments -> Segment] BY DEF Quieter, SamePools
  <1>4. \A y \in Segments : segment'[y] = IF y = x THEN new ELSE sg[y] BY <1>2, <1>3
  <1>5. OwnersTyped BY DEF Sides
  <1>6. Innermost(t) \in Ids \cup {Default} BY <1>5, TopIsInnermost
  <1>7. new \in Segment BY <1>6 DEF Segment
  <1>8. segment' \in [Segments -> Segment] BY <1>2, <1>3, <1>7
  <1>9. memory \in [Graphs -> SUBSET Segments] BY DEF Sides, SegmentsSide, SegmentsTyped
  <1>10. /\ memory' \in [Graphs -> SUBSET Segments]
         /\ \A g \in Graphs : \/ memory'[g] = memory[g]
                              \/ /\ memory'[g] = memory[g] \cup {x}
                                 /\ graph[g].state = "capturing"
                                 /\ \E i \in DOMAIN context[t] :
                                      context[t][i] = [kind |-> "graph", id |-> graph[g].pool]
    BY <1>2, <1>9 DEF Remembered
  <1>11. SegmentsTyped' BY <1>8, <1>10 DEF SegmentsTyped
  <1>12. \A g \in Graphs : graph[g].state = "new" => memory'[g] = memory[g] BY <1>10
  <1>13. ASSUME MaxNest <= 1, p = Innermost(t) \/ (Innermost(t) = Default /\ p \in use_on_oom_pools)
         PROVE  Routing' /\ GraphMemoryKept'
    <2>1. Routing /\ GraphMemoryKept BY <1>13 DEF Sides, NotNested
    <2>2. ASSUME NEW y \in Segments, segment'[y].state = "allocated"
          PROVE  \/ segment'[y].pool = segment'[y].asked
                 \/ segment'[y].asked = Default /\ segment'[y].pool \in use_on_oom_pools'
      <3>1. CASE y = x
        <4>1. segment'[y].pool = p /\ segment'[y].asked = Innermost(t) BY <1>4, <3>1
        <4> QED BY <1>1, <1>13, <4>1
      <3>2. CASE y # x
        <4>1. segment'[y] = sg[y] BY <1>4, <3>2
        <4>2. /\ segment[y].state = "allocated" /\ sg[y].asked = segment[y].asked
              /\ sg[y].pool = segment[y].pool
          BY <2>2, <4>1 DEF Quieter, SamePools
        <4> QED BY <1>1, <2>1, <4>1, <4>2 DEF Routing
      <3> QED BY <3>1, <3>2
    <2>3. Routing' BY <2>2 DEF Routing
    <2>4. ASSUME ~scenario'.oversize, NEW g \in Graphs,
                 graph'[g].state \in {"capturing", "captured"}, NEW y \in memory'[g]
          PROVE  segment'[y].state # "none" /\ segment'[y].pool = graph'[g].pool
      <3>1. y \in Segments BY <1>10
      <3>2. CASE y \in memory[g]
        <4>1. segment[y].state # "none" /\ segment[y].pool = graph[g].pool
          BY <1>1, <2>1, <2>4, <3>2 DEF GraphMemoryKept
        <4>2. sg[y].state # "none" /\ sg[y].pool = graph[g].pool
          BY <3>1, <4>1 DEF Quieter, SamePools
        <4>3. CASE y = x
          <5>1. segment'[y].state = "allocated" /\ segment'[y].pool = p BY <1>4, <4>3
          <5> QED BY <1>1, <4>2, <4>3, <5>1
        <4>4. CASE y # x BY <1>1, <1>4, <3>1, <4>2, <4>4
        <4> QED BY <4>3, <4>4
      <3>3. CASE y \notin memory[g]
        <4>1. y = x BY <1>10, <2>4, <3>3
        <4>2. PICK i \in DOMAIN context[t] :
                context[t][i] = [kind |-> "graph", id |-> graph[g].pool]
          BY <1>10, <2>4, <3>3
        <4>3. context[t][i].id = graph[g].pool BY <4>2
        <4>4. Len(context[t]) <= MaxNest BY DEF Sides, EntriesSide
        <4>5. context[t] # <<>> /\ Innermost(t) = graph[g].pool
          BY <1>5, <1>13, <4>3, <4>4, OneContext
        <4>6. p = graph[g].pool BY <1>5, <1>13, <4>5, TopIsInnermost
        <4>7. segment'[x].state = "allocated" /\ segment'[x].pool = p BY <1>4
        <4> QED BY <1>1, <4>1, <4>6, <4>7
      <3> QED BY <3>2, <3>3
    <2>5. GraphMemoryKept' BY <2>4 DEF GraphMemoryKept
    <2> QED BY <2>3, <2>5
  <1> QED BY <1>4, <1>11, <1>12, <1>13

(***************************************************************************)
(* malloc.                                                                 *)
(***************************************************************************)
LEMMA Least ==
  ASSUME NEW S \in SUBSET Nat, S # {}
  PROVE  \E n \in S : \A m \in S : n <= m
  <1>1. \E n \in S : \A m \in S : ~ (<<m, n>> \in OpToRel(<, Nat))
    BY NatLessThanWellFounded, WFMin
  <1>2. PICK n \in S : \A m \in S : ~ (<<m, n>> \in OpToRel(<, Nat)) BY <1>1
  <1>3. ASSUME NEW m \in S PROVE n <= m
    <2>1. m \in Nat /\ n \in Nat OBVIOUS
    <2>2. ~(m < n) BY <1>2, <2>1 DEF OpToRel
    <2> QED BY <2>1, <2>2
  <1> QED BY <1>3

\* get_pool finds a pool the thread records to, and without nested contexts that
\* of its context.
LEMMA GetPool ==
  ASSUME Sides, NEW t \in Threads
  PROVE  /\ get_pool(t) \in Ids \cup {Default}
         /\ get_pool(t) # Default => [id |-> get_pool(t), by |-> t] \in Entries
         /\ MaxNest <= 1 /\ (context[t] # <<>> => Top(t).kind # "ended")
              => get_pool(t) = Innermost(t)
  <1> DEFINE mine == {i \in DOMAIN captures_underway : captures_underway[i].by = t}
  <1>1. OwnersTyped /\ EntriesSide BY DEF Sides
  <1>2. captures_underway \in Seq(Entry) BY <1>1 DEF OwnersTyped
  <1>3. mine \in SUBSET Nat BY <1>2
  <1>4. Len(context[t]) <= MaxNest BY <1>1 DEF EntriesSide
  <1>5. CASE mine = {}
    <2>1. get_pool(t) = Default BY <1>5 DEF get_pool
    <2>2. ASSUME context[t] # <<>>, MaxNest <= 1, Top(t).kind # "ended" PROVE FALSE
      <3>1. PICK k \in DOMAIN context[t] : k = Len(context[t]) BY <1>1, <2>2, TopIsInnermost
      <3>2. Inside(t, context[t][k].id) BY <2>2, <3>1 DEF Inside, Top
      <3>3. context[t][k].id \in Ids BY <1>1, ContextTyped
      <3>4. [id |-> context[t][k].id, by |-> t] \in Entries
        BY <1>1, <3>2, <3>3 DEF EntriesSide, ContextsHaveEntry
      <3>5. PICK i \in DOMAIN captures_underway :
              captures_underway[i] = [id |-> context[t][k].id, by |-> t]
        BY <3>4, EntriesAre
      <3>6. i \in mine BY <3>5
      <3> QED BY <1>5, <3>6
    <2> QED BY <1>1, <2>1, <2>2, TopIsInnermost
  <1>6. CASE mine # {}
    <2>1. \E i \in mine : \A j \in mine : i <= j BY <1>3, <1>6, Least
    <2>2. PICK i : i = CHOOSE n \in mine : \A j \in mine : n <= j OBVIOUS
    <2>3. i \in mine BY <2>1, <2>2
    <2>4. get_pool(t) = captures_underway[i].id BY <1>6, <2>2 DEF get_pool
    <2>5. captures_underway[i] \in Entries /\ captures_underway[i].by = t BY <2>3 DEF Entries
    <2>6. /\ get_pool(t) \in Ids
          /\ captures_underway[i] = [id |-> get_pool(t), by |-> t]
      BY <1>1, <2>4, <2>5, EntryTyped
    <2>7. PICK k \in DOMAIN context[t] : context[t][k].id = get_pool(t)
      BY <1>1, <2>4, <2>5 DEF EntriesSide, EntriesByContext, Inside
    <2>8. MaxNest <= 1 => get_pool(t) = Innermost(t) BY <1>1, <1>4, <2>7, OneContext
    <2> QED BY <2>5, <2>6, <2>8
  <1> QED BY <1>5, <1>6

CallsRouted == \A t \in Threads : call[t].at # "idle" => call[t].pool = Innermost(t)

\* The segments of others are left alone by whoever takes none.
LEMMA NothingTaken ==
  ASSUME NotNested, SegmentsTyped, UNCHANGED <<scenario, use_on_oom_pools, graph, memory>>,
         \A x \in Segments : segment'[x].state = "allocated" =>
           segment[x].state = "allocated" /\ segment'[x].asked = segment[x].asked
             /\ segment'[x].pool = segment[x].pool,
         ~scenario.oversize => \A g \in Graphs : graph[g].state \in {"capturing", "captured"} =>
           \A x \in Segments : segment[x].pool = graph[g].pool /\ segment[x].state # "none" =>
             segment'[x].pool = segment[x].pool /\ segment'[x].state # "none"
  PROVE  MaxNest <= 1 => Routing' /\ GraphMemoryKept'
  <1> SUFFICES ASSUME MaxNest <= 1 PROVE Routing' /\ GraphMemoryKept' OBVIOUS
  <1>1. Routing /\ GraphMemoryKept BY DEF NotNested
  <1>2. Routing' BY <1>1 DEF Routing
  <1>3. memory \in [Graphs -> SUBSET Segments] BY DEF SegmentsTyped
  <1>4. ASSUME ~scenario'.oversize, NEW g \in Graphs,
               graph'[g].state \in {"capturing", "captured"}, NEW x \in memory'[g]
        PROVE  segment'[x].state # "none" /\ segment'[x].pool = graph'[g].pool
    <2>1. x \in memory[g] /\ x \in Segments BY <1>3
    <2>2. segment[x].state # "none" /\ segment[x].pool = graph[g].pool
      BY <1>1, <1>4, <2>1 DEF GraphMemoryKept
    <2> QED BY <1>4, <2>1, <2>2
  <1>5. GraphMemoryKept' BY <1>4 DEF GraphMemoryKept
  <1> QED BY <1>2, <1>5

LEMMA NotNestedIs ==
  NotNested' <=> (MaxNest <= 1 => CallsRouted' /\ Routing' /\ GraphMemoryKept')
BY DEF NotNested, CallsRouted

\* What the call of a thread becomes.
Becomes(t, c) ==
  /\ call' = [call EXCEPT ![t] = c]
  /\ c.at # "idle" =>
       /\ \/ call[t].at # "idle" /\ c.pool = call[t].pool
          \/ call[t].at = "idle" /\ c.pool = get_pool(t)
       /\ c.todo \subseteq use_on_oom_pools /\ (c.todo # {} => c.pool = Default)

LEMMA CallStep ==
  ASSUME Sides, NEW t \in Threads, NEW c \in Call, Becomes(t, c),
         call[t].at = "idle" => (context[t] # <<>> => Top(t).kind # "ended"),
         UNCHANGED <<captures_underway, use_on_oom_pools, context>>
  PROVE  /\ call' \in [Threads -> Call]
         /\ \A u \in Threads : call'[u].at = "idle" \/ call[u].at # "idle"
                               \/ context[u] = <<>> \/ Top(u).kind # "ended"
         /\ \A u \in Threads : CallOK(u)'
         /\ MaxNest <= 1 => CallsRouted'
  <1>1. call \in [Threads -> Call] BY DEF Sides, CallsTyped
  <1>2. /\ call' \in [Threads -> Call]
        /\ \A u \in Threads : call'[u] = IF u = t THEN c ELSE call[u]
    BY <1>1 DEF Becomes
  <1>3. \A u \in Threads : call'[u].at = "idle" \/ call[u].at # "idle"
                           \/ context[u] = <<>> \/ Top(u).kind # "ended"
    BY <1>2
  <1>4. ASSUME NEW u \in Threads PROVE CallOK(u)'
    <2>1. CASE u # t
      <3>1. call'[u] = call[u] BY <1>2, <2>1
      <3>2. CallOK(u) BY DEF Sides
      <3> QED BY <3>1, <3>2 DEF CallOK
    <2>2. CASE u = t /\ c.at = "idle" BY <1>2, <2>2 DEF CallOK
    <2>3. CASE u = t /\ c.at # "idle"
      <3>1. call'[u] = c BY <1>2, <2>3
      <3>2. CASE c.pool = call[t].pool /\ call[t].at # "idle"
        <4>1. CallOK(t) BY DEF Sides
        <4> QED BY <2>3, <3>1, <3>2, <4>1 DEF CallOK, Becomes
      <3>3. CASE call[t].at = "idle" /\ c.pool = get_pool(t)
        <4>1. /\ c.pool \in Ids \cup {Default}
              /\ c.pool # Default => [id |-> c.pool, by |-> t] \in Entries
          BY <3>3, GetPool
        <4>2. c.pool \in Ids => \E i \in DOMAIN captures_underway :
                                  captures_underway[i] = [id |-> c.pool, by |-> t]
          BY <4>1, EntriesAre, IdAssumption
        <4> QED BY <2>3, <3>1, <4>1, <4>2 DEF CallOK, Becomes
      <3> QED BY <2>3, <3>2, <3>3 DEF Becomes
    <2> QED BY <2>1, <2>2, <2>3
  <1>5. ASSUME MaxNest <= 1 PROVE CallsRouted'
    <2> SUFFICES ASSUME NEW u \in Threads, call'[u].at # "idle"
                 PROVE  call'[u].pool = Innermost(u)'
      BY DEF CallsRouted
    <2>1. Innermost(u)' = Innermost(u) BY DEF Innermost, Top
    <2>2. call[u].at # "idle" => call[u].pool = Innermost(u) BY <1>5 DEF Sides, NotNested
    <2>3. CASE u # t BY <1>2, <2>1, <2>2, <2>3
    <2>4. CASE u = t
      <3>1. call'[u] = c /\ c.at # "idle" BY <1>2, <2>4
      <3>2. call[t].at = "idle" => get_pool(t) = Innermost(t) BY <1>5, GetPool
      <3> QED BY <2>1, <2>2, <2>4, <3>1, <3>2 DEF Becomes
    <2> QED BY <2>3, <2>4
  <1> QED BY <1>2, <1>3, <1>4, <1>5

\* The waited-for segments of malloc.
LEMMA Processed ==
  ASSUME SegmentsSide, NEW D \in SUBSET {x \in Segments : segment[x].state = "waiting"}, NEW sg,
         sg = [x \in Segments |->
                 IF x \in D THEN [segment[x] EXCEPT !.state = "cached"] ELSE segment[x]]
  PROVE  Quieter(sg)
  <1>1. segment \in [Segments -> Segment] BY DEF SegmentsSide, SegmentsTyped
  <1>2. ASSUME NEW x \in Segments
        PROVE  /\ sg[x] \in Segment /\ sg[x].pool = segment[x].pool /\ sg[x].asked = segment[x].asked
               /\ \/ sg[x].state = segment[x].state
                  \/ segment[x].state = "waiting" /\ sg[x].state = "cached"
    <2>1. segment[x] \in Segment BY <1>1
    <2>2. CASE x \in D
      <3>1. sg[x] = [segment[x] EXCEPT !.state = "cached"] BY <2>2
      <3>2. segment[x].state = "waiting" BY <2>2
      <3> QED BY <2>1, <3>1, <3>2 DEF Segment
    <2>3. CASE x \notin D
      <3>1. sg[x] = segment[x] BY <2>3
      <3> QED BY <2>1, <3>1
    <2> QED BY <2>2, <2>3
  <1>3. sg \in [Segments -> Segment] BY <1>2
  <1> QED BY <1>2, <1>3 DEF Quieter, SamePools

LEMMA QuieterSynced ==
  ASSUME SegmentsSide, NEW P
  PROVE  Quieter(Synced(P)) /\ Quieter(segment)
BY SyncedSame DEF Quieter

LEMMA SameIsSelf ==
  ASSUME PoolsSide, UNCHANGED poolVars
  PROVE  /\ PoolsSide' /\ graph_pools' = graph_pools /\ musaMalloc_count' = musaMalloc_count
         /\ \A p \in Ids : use_count'[p] = use_count[p] /\ use_count'[p] >= use_count[p]
  <1>1. UNCHANGED <<graph_pools, use_count, musaMalloc_count, graph_pools_freeable>>
    BY DEF poolVars
  <1>2. PoolsSide' BY <1>1 DEF PoolsSide, PoolsTyped, FreeableExact, NewPoolsOK
  <1>3. \A p \in Ids : use_count[p] \in Nat BY DEF PoolsSide, PoolsTyped
  <1> QED BY <1>1, <1>2, <1>3

LEMMA MallocStep ==
  ASSUME Sides, NEW t \in Threads, NEW fits \in BOOLEAN, Malloc(t, fits)
  PROVE  Sides'
  <1>1. /\ call[t].at = "idle"
        /\ context[t] # <<>> => Top(t).kind # "ended"
        /\ UNCHANGED <<scenario, poolVars, captures_underway, use_on_oom_pools, lock, ownerVars, abort>>
    BY DEF Malloc
  <1> DEFINE Called(q) == [at |-> "musaMalloc", pool |-> q, fits |-> fits, try |-> 0, todo |-> {}]
             After(D) == [x \in Segments |->
                    IF x \in D THEN [segment[x] EXCEPT !.state = "cached"] ELSE segment[x]]
             Either(q, sg) == \/ /\ \E x \in CachedIn(sg, {q}) : Take(t, sg, x, q)
                                 /\ UNCHANGED call
                              \/ /\ segment' = sg
                                 /\ call' = [call EXCEPT ![t] = Called(q)]
                                 /\ UNCHANGED memory
  <1>a. \E D \in SUBSET {x \in Segments : segment[x].state = "waiting"} : Either(get_pool(t), After(D))
    BY DEF Malloc
  <1>b. PICK D \in SUBSET {x \in Segments : segment[x].state = "waiting"} : Either(get_pool(t), After(D))
    BY <1>a
  <1>c. PICK pool : pool = get_pool(t) OBVIOUS
  <1>d. PICK sg : sg = After(D) OBVIOUS
  <1>e. Either(pool, sg) BY <1>b, <1>c, <1>d
  <1>2. pool = get_pool(t) /\ sg = After(D)
    BY <1>c, <1>d
  <1>3. PoolsSide /\ SegmentsSide /\ OwnersTyped /\ CallsTyped BY DEF Sides
  <1>4. /\ PoolsSide' /\ graph_pools' = graph_pools /\ musaMalloc_count' = musaMalloc_count
        /\ \A p \in Ids : use_count'[p] >= use_count[p]
    BY <1>1, <1>3, SameIsSelf
  <1>5. Quieter(sg) BY <1>2, <1>3, Processed
  <1>6. pool \in Ids \cup {Default} BY <1>2, GetPool
  <1>7. UNCHANGED <<context, mempool, graph>> BY <1>1 DEF ownerVars
  <1>8. lock' \in Threads \cup {NULL} BY <1>1, <1>3 DEF CallsTyped
  <1>9. memory \in [Graphs -> SUBSET Segments] BY <1>3 DEF SegmentsSide, SegmentsTyped
  <1>10. CASE (\E x \in CachedIn(sg, {pool}) : Take(t, sg, x, pool)) /\ UNCHANGED call
    <2>1. PICK x \in Segments : /\ sg[x].state = "cached" /\ sg[x].pool = pool
                                /\ Take(t, sg, x, pool)
      BY <1>10 DEF CachedIn
    <2>2. /\ \A y \in Segments : segment'[y] =
              IF y = x THEN [state |-> "allocated", pool |-> pool, asked |-> Innermost(t)] ELSE sg[y]
          /\ SegmentsTyped'
          /\ \A g \in Graphs : graph[g].state = "new" => memory'[g] = memory[g]
          /\ MaxNest <= 1 /\ pool = Innermost(t) => Routing' /\ GraphMemoryKept'
      BY <1>1, <1>5, <1>6, <2>1, Taken
    <2>3. PICK s : s = segment' OBVIOUS
    <2>4. SamePools(s)
      <3>1. s \in [Segments -> Segment] BY <2>2, <2>3 DEF SegmentsTyped
      <3>2. \A y \in Segments : y # x => s[y] = sg[y] BY <2>2, <2>3
      <3>3. s[x].state = "allocated" /\ s[x].pool = pool BY <2>2, <2>3
      <3>4. \A y \in Segments : sg[y].pool = segment[y].pool
                                /\ (sg[y].state = "none" <=> segment[y].state = "none")
        BY <1>5 DEF Quieter, SamePools
      <3> QED BY <2>1, <3>1, <3>2, <3>3, <3>4 DEF SamePools
    <2>5. SegmentsSide'
      <3>1. (memory \in [Graphs -> SUBSET Segments])' BY <2>2 DEF SegmentsTyped
      <3> QED BY <1>3, <1>4, <2>3, <2>4, <3>1, SegmentsMove
    <2>6. \A u \in Threads : CallOK(u)' BY <1>1, <1>10 DEF Sides, CallOK
    <2>7. NotNested'
      <3>1. MaxNest <= 1 => CallsRouted'
        BY <1>7, <1>10 DEF Sides, NotNested, CallsRouted, Innermost, Top
      <3>2. MaxNest <= 1 => pool = Innermost(t) BY <1>1, <1>2, GetPool
      <3> QED BY <2>2, <3>1, <3>2, NotNestedIs
    <2>8. call' \in [Threads -> Call] BY <1>3, <1>10 DEF CallsTyped
    <2>9. \A u \in Threads : call'[u].at = "idle" \/ call[u].at # "idle"
                               \/ context[u] = <<>> \/ Top(u).kind # "ended"
      BY <1>10
    <2> QED BY <1>1, <1>4, <1>8, <2>2, <2>5, <2>6, <2>7, <2>8, <2>9, MemoryStep
  <1>11. CASE /\ segment' = sg
              /\ call' = [call EXCEPT ![t] = Called(pool)]
              /\ UNCHANGED memory
    <2>1. PICK c : c = Called(pool) OBVIOUS
    <2>2. c \in Call BY <1>6, <2>1 DEF Call
    <2>3. Becomes(t, c) BY <1>1, <1>2, <1>11, <2>1 DEF Becomes
    <2>4. /\ call' \in [Threads -> Call]
          /\ \A u \in Threads : call'[u].at = "idle" \/ call[u].at # "idle"
                               \/ context[u] = <<>> \/ Top(u).kind # "ended"
          /\ \A u \in Threads : CallOK(u)'
          /\ MaxNest <= 1 => CallsRouted'
      BY <1>1, <1>7, <2>2, <2>3, CallStep
    <2>5. SegmentsSide' BY <1>3, <1>4, <1>5, <1>9, <1>11, SegmentsMove DEF Quieter
    <2>6. MaxNest <= 1 => Routing' /\ GraphMemoryKept'
      <3>1. NotNested /\ SegmentsTyped BY <1>3 DEF Sides, SegmentsSide
      <3>2. \A x \in Segments : segment'[x].state = "allocated" =>
              segment[x].state = "allocated" /\ segment'[x].asked = segment[x].asked
                /\ segment'[x].pool = segment[x].pool
        BY <1>5, <1>11 DEF Quieter, SamePools
      <3>3. \A x \in Segments : segment[x].state # "none" =>
              segment'[x].pool = segment[x].pool /\ segment'[x].state # "none"
        BY <1>5, <1>11 DEF Quieter, SamePools
      <3> QED BY <1>1, <1>7, <1>11, <3>1, <3>2, <3>3, NothingTaken
    <2>7. NotNested' BY <2>4, <2>6, NotNestedIs
    <2>8. \A g \in Graphs : graph[g].state = "new" => memory'[g] = memory[g] BY <1>11
    <2> QED BY <1>1, <1>4, <1>8, <2>4, <2>5, <2>7, <2>8, MemoryStep
  <1> QED BY <1>e, <1>10, <1>11

\* The calls keep their part of the invariant.
CallsFollow ==
  /\ lock' \in Threads \cup {NULL} /\ call' \in [Threads -> Call]
  /\ \A u \in Threads : call'[u].at = "idle" \/ call[u].at # "idle"
                        \/ context[u] = <<>> \/ Top(u).kind # "ended"
  /\ \A u \in Threads : CallOK(u)'
  /\ MaxNest <= 1 => CallsRouted'

Retry(t, try) == lock' = NULL /\ call' = [call EXCEPT ![t].at = "musaMalloc", ![t].try = try]

\* What the jumps of alloc do to the call.
LEMMA Jumps ==
  ASSUME Sides, NEW t \in Threads, call[t].at # "idle",
         \/ Return(t)
         \/ \E at \in {"release_available", "release_cached"} : Goto(t, at)
         \/ \E try \in 0..2 : Retry(t, try)
         \/ GotoFallback(t)
         \/ \E p : lock' = t /\ call' = [call EXCEPT ![t].todo = @ \ {p}],
         UNCHANGED <<captures_underway, use_on_oom_pools, context>>
  PROVE  CallsFollow
  <1>1. call \in [Threads -> Call] /\ use_on_oom_pools \subseteq Ids BY DEF Sides, CallsTyped
  <1>2. call[t] \in Call BY <1>1
  <1>3. call[t].todo \subseteq use_on_oom_pools /\ (call[t].todo # {} => call[t].pool = Default)
    BY DEF Sides, CallOK
  <1>4. lock' \in Threads \cup {NULL} BY DEF Return, Goto, Retry, GotoFallback
  <1>5. ASSUME Return(t) PROVE \E c \in Call : Becomes(t, c)
    <2>1. call' = [call EXCEPT ![t] = Idle] BY <1>5 DEF Return
    <2>2. Idle \in Call /\ Idle.at = "idle" BY DEF Idle, Call
    <2>3. Becomes(t, Idle) BY <2>1, <2>2 DEF Becomes
    <2> QED BY <2>2, <2>3
  <1>6. ASSUME NEW at \in {"release_available", "release_cached"}, Goto(t, at)
        PROVE  \E c \in Call : Becomes(t, c)
    <2>1. PICK c : c = [call[t] EXCEPT !.at = at] OBVIOUS
    <2>2. c \in Call /\ c.pool = call[t].pool /\ c.todo = call[t].todo BY <1>2, <2>1 DEF Call
    <2>3. call' = [call EXCEPT ![t] = c] BY <1>1, <1>6, <2>1 DEF Goto
    <2>4. Becomes(t, c) BY <1>3, <2>2, <2>3 DEF Becomes
    <2> QED BY <2>2, <2>4
  <1>7. ASSUME NEW try \in 0..2, Retry(t, try)
        PROVE  \E c \in Call : Becomes(t, c)
    <2>1. PICK c : c = [call[t] EXCEPT !.at = "musaMalloc", !.try = try] OBVIOUS
    <2>2. c \in Call /\ c.pool = call[t].pool /\ c.todo = call[t].todo BY <1>2, <2>1 DEF Call
    <2>3. call' = [call EXCEPT ![t] = c] BY <1>1, <1>7, <2>1 DEF Retry
    <2>4. Becomes(t, c) BY <1>3, <2>2, <2>3 DEF Becomes
    <2> QED BY <2>2, <2>4
  <1>8. ASSUME GotoFallback(t) PROVE \E c \in Call : Becomes(t, c)
    <2>1. PICK todo : todo = IF call[t].pool = Default THEN use_on_oom_pools ELSE {} OBVIOUS
    <2>2. todo \subseteq Ids /\ todo \subseteq use_on_oom_pools
          /\ (todo # {} => call[t].pool = Default)
      BY <1>1, <2>1
    <2>3. PICK c : c = [call[t] EXCEPT !.at = "fallback", !.todo = todo] OBVIOUS
    <2>4. c \in Call /\ c.pool = call[t].pool /\ c.todo = todo BY <1>2, <2>2, <2>3 DEF Call
    <2>5. call' = [call EXCEPT ![t].at = "fallback", ![t].todo = todo] BY <1>8, <2>1 DEF GotoFallback
    <2>6. call' = [call EXCEPT ![t] = c] BY <1>1, <2>3, <2>5
    <2>7. Becomes(t, c) BY <2>2, <2>4, <2>6 DEF Becomes
    <2> QED BY <2>4, <2>7
  <1>9. ASSUME NEW p, call' = [call EXCEPT ![t].todo = @ \ {p}]
        PROVE  \E c \in Call : Becomes(t, c)
    <2>1. PICK todo : todo = call[t].todo \ {p} OBVIOUS
    <2>2. PICK c : c = [call[t] EXCEPT !.todo = todo] OBVIOUS
    <2>3. todo \subseteq Ids /\ todo \subseteq use_on_oom_pools
          /\ (todo # {} => call[t].pool = Default)
      BY <1>1, <1>3, <2>1
    <2>4. c \in Call /\ c.pool = call[t].pool /\ c.todo = todo BY <1>2, <2>2, <2>3 DEF Call
    <2>5. call' = [call EXCEPT ![t] = c] BY <1>1, <1>9, <2>1, <2>2
    <2>6. Becomes(t, c) BY <2>3, <2>4, <2>5 DEF Becomes
    <2> QED BY <2>4, <2>6
  <1>10. PICK c \in Call : Becomes(t, c) BY <1>5, <1>6, <1>7, <1>8, <1>9
  <1> QED BY <1>4, <1>10, CallStep DEF CallsFollow

\* The call is left alone.
LEMMA SameCalls ==
  ASSUME Sides, UNCHANGED <<lock, call, captures_underway, use_on_oom_pools, context>>
  PROVE  CallsFollow
  <1>1. lock' \in Threads \cup {NULL} /\ call' \in [Threads -> Call] BY DEF Sides, CallsTyped
  <1>2. \A u \in Threads : CallOK(u)' BY DEF Sides, CallOK
  <1>3. MaxNest <= 1 => CallsRouted'
    BY DEF Sides, NotNested, CallsRouted, Innermost, Top
  <1> QED BY <1>1, <1>2, <1>3 DEF CallsFollow

\* No segment is taken, and none is released that a graph keeps.
LEMMA QuietStep ==
  ASSUME Sides, UNCHANGED <<scenario, captures_underway, use_on_oom_pools, ownerVars, abort, memory>>,
         PoolsSide', SegmentsSide', \A p \in Ids : use_count'[p] >= use_count[p], CallsFollow,
         \A x \in Segments : segment'[x].state = "allocated" =>
           segment[x].state = "allocated" /\ segment'[x].asked = segment[x].asked
             /\ segment'[x].pool = segment[x].pool,
         ~scenario.oversize => \A x \in Segments :
           Used(segment[x].pool) /\ segment[x].pool # Default /\ segment[x].state # "none" =>
             segment'[x].pool = segment[x].pool /\ segment'[x].state # "none"
  PROVE  Sides'
  <1>1. UNCHANGED <<context, mempool, graph>> BY DEF ownerVars
  <1>2. ~scenario.oversize => \A g \in Graphs : graph[g].state \in {"capturing", "captured"} =>
           \A x \in Segments : segment[x].pool = graph[g].pool /\ segment[x].state # "none" =>
             segment'[x].pool = segment[x].pool /\ segment'[x].state # "none"
    BY GraphUsed, IdAssumption
  <1>3. NotNested /\ SegmentsTyped BY DEF Sides, SegmentsSide
  <1>4. MaxNest <= 1 => Routing' /\ GraphMemoryKept' BY <1>1, <1>2, <1>3, NothingTaken
  <1>5. NotNested' BY <1>4, NotNestedIs DEF CallsFollow
  <1> QED BY <1>5, MemoryStep DEF CallsFollow

\* Blocks are released that are cached, and not those of a pool in use unless they
\* may be split no more (oversize).
LEMMA ReleaseStep ==
  ASSUME Sides, UNCHANGED <<scenario, captures_underway, use_on_oom_pools, ownerVars, abort, memory>>,
         CallsFollow, NEW sg, Quieter(sg), NEW R \in SUBSET Segments, NEW P, release_blocks(sg, R, P),
         \A x \in R : sg[x].state = "cached",
         scenario.oversize \/ \A x \in R : sg[x].pool = Default \/ ~Used(sg[x].pool)
  PROVE  Sides'
  <1>1. PoolsSide /\ SegmentsSide /\ SamePools(sg) BY DEF Sides, Quieter
  <1>2. (memory \in [Graphs -> SUBSET Segments])' BY <1>1 DEF SegmentsSide, SegmentsTyped
  <1>3. /\ PoolsSide' /\ SegmentsSide' /\ use_count' = use_count
        /\ \A x \in Segments : segment'[x] = IF x \in R THEN NoSegment ELSE sg[x]
    BY <1>1, <1>2, ReleaseBlocks
  <1>4. \A p \in Ids : use_count'[p] >= use_count[p] BY <1>1, <1>3 DEF PoolsSide, PoolsTyped
  <1>5. ASSUME NEW x \in Segments, segment'[x].state = "allocated"
        PROVE  segment[x].state = "allocated" /\ segment'[x].asked = segment[x].asked
                 /\ segment'[x].pool = segment[x].pool
    <2>1. x \notin R BY <1>3, <1>5 DEF NoSegment
    <2>2. segment'[x] = sg[x] BY <1>3, <2>1
    <2> QED BY <1>5, <2>2 DEF Quieter, SamePools
  <1>6. ASSUME ~scenario.oversize, NEW x \in Segments,
               Used(segment[x].pool), segment[x].pool # Default, segment[x].state # "none"
        PROVE  segment'[x].pool = segment[x].pool /\ segment'[x].state # "none"
    <2>1. sg[x].pool = segment[x].pool /\ sg[x].state # "none" BY <1>6 DEF Quieter, SamePools
    <2>2. x \notin R BY <1>6, <2>1
    <2>3. segment'[x] = sg[x] BY <1>3, <2>2
    <2> QED BY <2>1, <2>3
  <1> QED BY <1>3, <1>4, <1>5, <1>6, QuietStep

\* No segment changes.
LEMMA PoolStep ==
  ASSUME Sides, UNCHANGED <<scenario, captures_underway, use_on_oom_pools, ownerVars, abort, memory,
                            segment, musaMalloc_count>>,
         PoolsSide', graph_pools \subseteq graph_pools',
         \A p \in Ids : use_count'[p] >= use_count[p], CallsFollow
  PROVE  Sides'
  <1>1. SegmentsSide' BY SegmentsStay DEF Sides, SegmentsSide, SegmentsTyped
  <1> QED BY <1>1, QuietStep

LEMMA CallOnlyStep ==
  ASSUME Sides, UNCHANGED <<scenario, captures_underway, use_on_oom_pools, ownerVars, abort, memory,
                            segment, poolVars>>, CallsFollow
  PROVE  Sides'
  <1>1. PoolsSide BY DEF Sides
  <1>2. /\ PoolsSide' /\ graph_pools' = graph_pools /\ musaMalloc_count' = musaMalloc_count
        /\ \A p \in Ids : use_count'[p] >= use_count[p]
    BY <1>1, SameIsSelf
  <1> QED BY <1>2, PoolStep

\* A segment is taken from the driver or from what the pool has cached.
LEMMA TakeStep ==
  ASSUME Sides, UNCHANGED <<scenario, captures_underway, use_on_oom_pools, ownerVars, abort,
                            graph_pools, use_count, graph_pools_freeable>>,
         CallsFollow, NEW t \in Threads, NEW x \in Segments, NEW p \in Ids \cup {Default},
         p # Default => p \in graph_pools, Take(t, segment, x, p),
         p = Innermost(t) \/ (Innermost(t) = Default /\ p \in use_on_oom_pools) \/ MaxNest > 1,
         \/ segment[x].state = "cached" /\ segment[x].pool = p /\ musaMalloc_count' = musaMalloc_count
         \/ /\ segment[x].state = "none"
            /\ musaMalloc_count' = IF p = Default THEN musaMalloc_count
                                   ELSE [musaMalloc_count EXCEPT ![p] = @ + 1]
  PROVE  Sides'
  <1>1. PoolsSide /\ SegmentsSide BY DEF Sides
  <1>2. Quieter(segment) BY <1>1, QuieterSynced
  <1>3. /\ \A y \in Segments : segment'[y] =
              IF y = x THEN [state |-> "allocated", pool |-> p, asked |-> Innermost(t)] ELSE segment[y]
        /\ SegmentsTyped'
        /\ \A g \in Graphs : graph[g].state = "new" => memory'[g] = memory[g]
        /\ MaxNest <= 1 => Routing' /\ GraphMemoryKept'
    <2>1. PICK sg : sg = segment OBVIOUS
    <2>2. Take(t, sg, x, p) /\ Quieter(sg) /\ (sg[x].state = "none" \/ sg[x].pool = p)
      BY <1>2, <2>1
    <2>3. MaxNest <= 1 => p = Innermost(t) \/ (Innermost(t) = Default /\ p \in use_on_oom_pools)
      BY PoolBoundAssumption
    <2> QED BY <2>1, <2>2, <2>3, Taken
  <1>4. NotNested' BY <1>3, NotNestedIs DEF CallsFollow
  <1>5. segment'[x].state = "allocated" /\ segment'[x].pool = p BY <1>3
  <1>6. \A y \in Segments : y # x => segment'[y] = segment[y] BY <1>3
  <1>7. use_count \in [Ids -> Nat] /\ musaMalloc_count \in [Ids -> Nat]
    BY <1>1 DEF PoolsSide, PoolsTyped
  <1>8. \A q \in Ids : use_count'[q] >= use_count[q] BY <1>7
  <1>9. p # NULL BY NullAssumption, IdAssumption
  <1>10. SegmentsOK' BY <1>1, <1>3, <1>5, <1>6, <1>9 DEF SegmentsSide, SegmentsOK
  <1>11. musaMalloc_count' \in [Ids -> Nat] BY <1>7
  <1>12. NewPoolsOK'
    <2> SUFFICES ASSUME NEW q \in Ids \ graph_pools PROVE use_count[q] = 0 /\ musaMalloc_count'[q] = 0
      BY DEF NewPoolsOK
    <2>1. use_count[q] = 0 /\ musaMalloc_count[q] = 0 BY <1>1 DEF PoolsSide, NewPoolsOK
    <2>2. p = Default \/ q # p OBVIOUS
    <2> QED BY <1>7, <2>1, <2>2
  <1>13. PoolsSide' BY <1>1, <1>11, <1>12 DEF PoolsSide, PoolsTyped, FreeableExact
  <1>14. ASSUME NEW q \in Ids
         PROVE  musaMalloc_count'[q] = Cardinality({y \in Segments : segment'[y].pool = q})
    <2>1. musaMalloc_count[q] = Cardinality(SegmentsOf(q))
      BY <1>1 DEF SegmentsSide, MallocCounts, SegmentsOf
    <2>2. CASE segment[x].state = "cached"
      <3>1. {y \in Segments : segment'[y].pool = q} = SegmentsOf(q)
        BY <1>5, <1>6, <2>2 DEF SegmentsOf
      <3> QED BY <2>1, <2>2, <3>1
    <2>3. CASE segment[x].state = "none"
      <3>1. segment[x].pool = NULL BY <1>1, <2>3 DEF SegmentsSide, SegmentsOK
      <3>2. q # NULL BY NullAssumption
      <3>3. PICK A : A = SegmentsOf(q) OBVIOUS
      <3>4. IsFiniteSet(A) /\ x \notin A /\ Cardinality(A) = musaMalloc_count[q]
        BY <2>1, <3>1, <3>2, <3>3, SegmentsFinite DEF SegmentsOf
      <3>5. CASE q = p
        <4>1. \A y : y \in {z \in Segments : segment'[z].pool = q} <=> y \in A \cup {x}
          BY <1>5, <1>6, <3>3, <3>5 DEF SegmentsOf
        <4>2. {z \in Segments : segment'[z].pool = q} = A \cup {x} BY <4>1
        <4>3. Cardinality(A \cup {x}) = Cardinality(A) + 1 BY <3>4, FS_AddElement
        <4>4. q # Default BY IdAssumption
        <4>5. musaMalloc_count'[q] = musaMalloc_count[q] + 1 BY <1>7, <2>3, <3>5, <4>4
        <4> QED BY <3>4, <4>2, <4>3, <4>5
      <3>6. CASE q # p
        <4>1. {z \in Segments : segment'[z].pool = q} = A
          BY <1>5, <1>6, <3>1, <3>2, <3>3, <3>6 DEF SegmentsOf
        <4>2. musaMalloc_count'[q] = musaMalloc_count[q] BY <1>7, <2>3, <3>6
        <4> QED BY <3>4, <4>1, <4>2
      <3> QED BY <3>5, <3>6
    <2> QED BY <2>2, <2>3
  <1>15. SegmentsSide' BY <1>3, <1>10, <1>14 DEF SegmentsSide, MallocCounts
  <1> QED BY <1>3, <1>4, <1>8, <1>13, <1>15, MemoryStep DEF CallsFollow

LEMMA AfterMusaMallocStep ==
  ASSUME Sides, NEW t \in Threads, AfterMusaMalloc(t)
  PROVE  Sides'
  <1>1. /\ call[t].at = "musaMalloc"
        /\ UNCHANGED <<scenario, graph_pools, use_count, graph_pools_freeable, captures_underway,
                       use_on_oom_pools, ownerVars, abort>>
    BY DEF AfterMusaMalloc
  <1>2. UNCHANGED context BY <1>1 DEF ownerVars
  <1>3. PICK p : p = call[t].pool OBVIOUS
  <1>4. /\ p \in Ids \cup {Default}
        /\ p # Default => p \in graph_pools
    BY <1>1, <1>3, CallUsed DEF Used
  <1>5. MaxNest <= 1 => p = Innermost(t) BY <1>1, <1>3 DEF Sides, NotNested
  <1>6. CASE /\ \E x \in Segments : segment[x].state = "none" /\ Take(t, segment, x, p)
             /\ musaMalloc_count' = IF p = Default THEN musaMalloc_count
                                    ELSE [musaMalloc_count EXCEPT ![p] = @ + 1]
             /\ Return(t)
    <2>1. PICK x \in Segments : segment[x].state = "none" /\ Take(t, segment, x, p) BY <1>6
    <2>2. CallsFollow BY <1>1, <1>2, <1>6, Jumps
    <2>3. p = Innermost(t) \/ MaxNest > 1 BY <1>5, PoolBoundAssumption
    <2> QED BY <1>1, <1>4, <1>6, <2>1, <2>2, <2>3, TakeStep
  <1>7. CASE /\ \/ Goto(t, "release_available") \/ Goto(t, "release_cached") \/ GotoFallback(t)
             /\ UNCHANGED <<segment, memory, musaMalloc_count>>
    <2>1. CallsFollow BY <1>1, <1>2, <1>7, Jumps
    <2> QED BY <1>1, <1>7, <2>1, CallOnlyStep DEF poolVars
  <1> QED BY <1>3, <1>6, <1>7 DEF AfterMusaMalloc

\* CachedIn, and what it leaves alone.
LEMMA CachedIs ==
  ASSUME NEW sg, NEW P
  PROVE  /\ CachedIn(sg, P) \in SUBSET Segments
         /\ \A x \in CachedIn(sg, P) : sg[x].state = "cached" /\ sg[x].pool \in P
BY DEF CachedIn

LEMMA ReleaseAvailableStep ==
  ASSUME Sides, NEW t \in Threads, ReleaseAvailable(t)
  PROVE  Sides'
  <1>1. /\ call[t].at = "release_available"
        /\ UNCHANGED <<scenario, captures_underway, use_on_oom_pools, ownerVars, abort, memory>>
    BY DEF ReleaseAvailable
  <1>2. UNCHANGED context BY <1>1 DEF ownerVars
  <1>3. PICK D : D = CachedIn(segment, {call[t].pool}) OBVIOUS
  <1>4. CASE (Goto(t, "release_cached") \/ Return(t)) /\ UNCHANGED <<poolVars, segment>>
    <2>1. CallsFollow BY <1>1, <1>2, <1>4, Jumps
    <2> QED BY <1>1, <1>4, <2>1, CallOnlyStep
  <1>5. ASSUME scenario.oversize, NEW R \in SUBSET D, release_blocks(segment, R, {}),
               \/ /\ lock' = NULL
                  /\ call' = [call EXCEPT ![t].at = "musaMalloc", ![t].try = 1]
               \/ Goto(t, "release_cached")
        PROVE  Sides'
    <2>1. CallsFollow
      <3>1. Retry(t, 1) \/ Goto(t, "release_cached") BY <1>5 DEF Retry
      <3> QED BY <1>1, <1>2, <3>1, Jumps
    <2>2. R \in SUBSET Segments /\ \A x \in R : segment[x].state = "cached" BY <1>3, CachedIs
    <2>3. PICK sg : sg = segment OBVIOUS
    <2>4. Quieter(sg) /\ release_blocks(sg, R, {}) /\ (\A x \in R : sg[x].state = "cached")
      BY <1>5, <2>2, <2>3, QuieterSynced DEF Sides
    <2> QED BY <1>1, <1>5, <2>1, <2>2, <2>4, ReleaseStep
  <1> QED BY <1>3, <1>4, <1>5 DEF ReleaseAvailable

\* release_cached_blocks releases what nobody uses.
LEMMA CachedBlocks ==
  ASSUME Sides, UNCHANGED <<scenario, captures_underway, use_on_oom_pools, ownerVars, abort, memory>>,
         CallsFollow, release_cached_blocks
  PROVE  Sides'
  <1>1. SegmentsSide /\ PoolsSide BY DEF Sides
  <1>2. PICK P : P = IF captures_underway # <<>> THEN graph_pools_freeable
                     ELSE graph_pools_freeable \cup {Default}
    OBVIOUS
  <1>3. PICK sg : sg = IF captures_underway # <<>> THEN segment ELSE Synced(Ids \cup {Default})
    OBVIOUS
  <1>4. PICK R : R = CachedIn(sg, P) OBVIOUS
  <1>5. release_blocks(sg, R, P) BY <1>2, <1>3, <1>4 DEF release_cached_blocks
  <1>6. Quieter(sg) BY <1>1, <1>3, QuieterSynced
  <1>7. R \in SUBSET Segments /\ \A x \in R : sg[x].state = "cached" /\ sg[x].pool \in P
    BY <1>4, CachedIs
  <1>8. \A x \in R : sg[x].pool = Default \/ ~Used(sg[x].pool) BY <1>2, <1>7 DEF Used
  <1> QED BY <1>5, <1>6, <1>7, <1>8, ReleaseStep

LEMMA ReleaseCachedStep ==
  ASSUME Sides, NEW t \in Threads, ReleaseCached(t)
  PROVE  Sides'
  <1>1. /\ call[t].at = "release_cached"
        /\ UNCHANGED <<scenario, captures_underway, use_on_oom_pools, ownerVars, abort, memory>>
    BY DEF ReleaseCached
  <1>2. UNCHANGED context BY <1>1 DEF ownerVars
  <1>3. CASE /\ release_cached_blocks /\ lock' = NULL
             /\ call' = [call EXCEPT ![t].at = "musaMalloc", ![t].try = 2]
    <2>1. CallsFollow
      <3>1. Retry(t, 2) BY <1>3 DEF Retry
      <3> QED BY <1>1, <1>2, <3>1, Jumps
    <2> QED BY <1>1, <1>3, <2>1, CachedBlocks
  <1>4. CASE GotoFallback(t) /\ UNCHANGED <<poolVars, segment>>
    <2>1. CallsFollow BY <1>1, <1>2, <1>4, Jumps
    <2> QED BY <1>1, <1>4, <2>1, CallOnlyStep
  <1> QED BY <1>3, <1>4 DEF ReleaseCached

LEMMA EmptyCacheStep ==
  ASSUME Sides, EmptyCache
  PROVE  Sides'
  <1>1. /\ release_cached_blocks
        /\ UNCHANGED <<scenario, captures_underway, use_on_oom_pools, lock, call, ownerVars, abort, memory>>
    BY DEF EmptyCache
  <1>2. UNCHANGED context BY <1>1 DEF ownerVars
  <1>3. CallsFollow BY <1>1, <1>2, SameCalls
  <1> QED BY <1>1, <1>3, CachedBlocks

LEMMA OutOfMemoryStep ==
  ASSUME Sides, NEW t \in Threads, OutOfMemory(t)
  PROVE  Sides'
  <1>1. /\ call[t].at = "fallback" /\ Return(t)
        /\ UNCHANGED <<scenario, poolVars, captures_underway, use_on_oom_pools, segment, ownerVars,
                       abort, memory>>
    BY DEF OutOfMemory
  <1>2. UNCHANGED context BY <1>1 DEF ownerVars
  <1>3. CallsFollow BY <1>1, <1>2, Jumps
  <1> QED BY <1>1, <1>3, CallOnlyStep

LEMMA FallbackStep ==
  ASSUME Sides, NEW t \in Threads, NEW p \in Ids, Fallback(t, p)
  PROVE  Sides'
  <1>1. /\ call[t].at = "fallback" /\ p \in call[t].todo
        /\ UNCHANGED <<scenario, captures_underway, use_on_oom_pools, ownerVars, abort>>
    BY DEF Fallback
  <1>2. UNCHANGED context BY <1>1 DEF ownerVars
  <1>3. PoolsSide BY DEF Sides
  <1>4. use_count \in [Ids -> Nat] /\ musaMalloc_count \in [Ids -> Nat]
    BY <1>3 DEF PoolsSide, PoolsTyped
  <1>5. CASE Return(t) /\ UNCHANGED <<poolVars, segment, memory>>
    <2>1. CallsFollow BY <1>1, <1>2, <1>5, Jumps
    <2> QED BY <1>1, <1>5, <2>1, CallOnlyStep
  <1>6. CASE create_or_incref_pool(p) /\ Return(t) /\ UNCHANGED <<segment, memory>>
    <2>1. CallsFollow BY <1>1, <1>2, <1>6, Jumps
    <2>2. /\ PoolsSide' /\ graph_pools \subseteq graph_pools' /\ musaMalloc_count' = musaMalloc_count
          /\ \A q \in Ids : use_count'[q] = IF q = p THEN use_count[q] + 1 ELSE use_count[q]
      BY <1>3, <1>6, Incref
    <2>3. \A q \in Ids : use_count'[q] >= use_count[q] BY <1>4, <2>2
    <2> QED BY <1>1, <1>6, <2>1, <2>2, <2>3, PoolStep
  <1>7. CASE /\ p \notin graph_pools
             /\ graph_pools' = graph_pools \cup {p}
             /\ graph_pools_freeable' = graph_pools_freeable \cup {p}
             /\ lock' = t /\ call' = [call EXCEPT ![t].todo = @ \ {p}]
             /\ UNCHANGED <<use_count, musaMalloc_count, segment, memory>>
    <2>1. CallsFollow BY <1>1, <1>2, <1>7, Jumps
    <2>2. use_count[p] = 0 /\ musaMalloc_count[p] = 0 BY <1>3, <1>7 DEF PoolsSide, NewPoolsOK
    <2>3. PoolsTyped' BY <1>3, <1>7 DEF PoolsSide, PoolsTyped
    <2>4. NewPoolsOK' BY <1>3, <1>7 DEF PoolsSide, NewPoolsOK
    <2>5. FreeableExact' BY <1>3, <1>7, <2>2 DEF PoolsSide, FreeableExact
    <2>6. \A q \in Ids : use_count'[q] >= use_count[q] BY <1>4, <1>7
    <2> QED BY <1>1, <1>7, <2>1, <2>3, <2>4, <2>5, <2>6, PoolStep DEF PoolsSide
  <1>8. CASE /\ p \in graph_pools /\ UNCHANGED poolVars /\ Return(t)
             /\ \E x \in CachedIn(segment, {p}) : Take(t, segment, x, p)
    <2>1. CallsFollow BY <1>1, <1>2, <1>8, Jumps
    <2>2. PICK x \in Segments : /\ segment[x].state = "cached" /\ segment[x].pool = p
                                /\ Take(t, segment, x, p)
      BY <1>8, CachedIs
    <2>3. CallOK(t) BY DEF Sides
    <2>4. call[t].pool = Default /\ p \in use_on_oom_pools BY <1>1, <2>3 DEF CallOK
    <2>5. MaxNest <= 1 => Innermost(t) = Default BY <1>1, <2>4 DEF Sides, NotNested
    <2>6. (Innermost(t) = Default /\ p \in use_on_oom_pools) \/ MaxNest > 1
      BY <2>4, <2>5, PoolBoundAssumption
    <2> QED BY <1>1, <1>8, <2>1, <2>2, <2>6, TakeStep DEF poolVars
  <1>9. CASE /\ UNCHANGED <<poolVars, segment, memory>>
             /\ lock' = t /\ call' = [call EXCEPT ![t].todo = @ \ {p}]
    <2>1. CallsFollow BY <1>1, <1>2, <1>9, Jumps
    <2> QED BY <1>1, <1>9, <2>1, CallOnlyStep
  <1> QED BY <1>5, <1>6, <1>7, <1>8, <1>9 DEF Fallback

LEMMA FreeStep ==
  ASSUME Sides, NEW x \in Segments, NEW after \in {"cached", "waiting"}, Free(x, after)
  PROVE  Sides'
  <1>1. /\ segment[x].state = "allocated"
        /\ segment' = [segment EXCEPT ![x].state = after, ![x].asked = NULL]
        /\ UNCHANGED <<scenario, poolVars, captures_underway, use_on_oom_pools, lock, call, ownerVars,
                       abort, memory>>
    BY DEF Free
  <1>2. UNCHANGED context BY <1>1 DEF ownerVars
  <1>3. CallsFollow BY <1>1, <1>2, SameCalls
  <1>4. PoolsSide /\ SegmentsSide /\ segment \in [Segments -> Segment]
        /\ memory \in [Graphs -> SUBSET Segments]
    BY DEF Sides, SegmentsSide, SegmentsTyped
  <1>5. PICK r : r = [segment[x] EXCEPT !.state = after, !.asked = NULL] OBVIOUS
  <1>6. r \in Segment /\ r.state = after /\ r.pool = segment[x].pool BY <1>4, <1>5 DEF Segment
  <1>7. segment' = [segment EXCEPT ![x] = r] BY <1>1, <1>4, <1>5
  <1>8. PICK s : s = segment' OBVIOUS
  <1>9. Quieter(s) BY <1>1, <1>4, <1>6, <1>7, <1>8 DEF Quieter, SamePools
  <1>10. /\ PoolsSide' /\ graph_pools' = graph_pools /\ musaMalloc_count' = musaMalloc_count
         /\ \A p \in Ids : use_count'[p] >= use_count[p]
    BY <1>1, <1>4, SameIsSelf
  <1>11. SegmentsSide' BY <1>1, <1>4, <1>8, <1>9, <1>10, SegmentsMove DEF Quieter
  <1>12. \A y \in Segments : segment'[y].state = "allocated" =>
           segment[y].state = "allocated" /\ segment'[y].asked = segment[y].asked
             /\ segment'[y].pool = segment[y].pool
    BY <1>8, <1>9 DEF Quieter, SamePools
  <1>13. \A y \in Segments : segment[y].state # "none" =>
           segment'[y].pool = segment[y].pool /\ segment'[y].state # "none"
    BY <1>8, <1>9 DEF Quieter, SamePools
  <1> QED BY <1>1, <1>3, <1>10, <1>11, <1>12, <1>13, QuietStep

(***************************************************************************)
(* captures_underway.                                                      *)
(***************************************************************************)
\* The entries and the contexts are two views of the same.
Mirrored ==
  \A t \in Threads : \A p \in Ids : Inside(t, p) <=> [id |-> p, by |-> t] \in Entries

LEMMA MirroredIs ==
  ASSUME OwnersTyped
  PROVE  Mirrored <=> EntriesByContext /\ ContextsHaveEntry
  <1>1. ASSUME Mirrored PROVE EntriesByContext
    <2> SUFFICES ASSUME NEW e \in Entries, NEW t \in Threads, e.by = t PROVE Inside(t, e.id)
      BY DEF EntriesByContext
    <2>1. e.id \in Ids /\ e = [id |-> e.id, by |-> t] BY EntryTyped
    <2> QED BY <1>1, <2>1 DEF Mirrored
  <1>2. ASSUME Mirrored PROVE ContextsHaveEntry BY <1>2 DEF Mirrored, ContextsHaveEntry
  <1>3. ASSUME EntriesByContext, ContextsHaveEntry PROVE Mirrored
    <2> SUFFICES ASSUME NEW t \in Threads, NEW p \in Ids
                 PROVE  Inside(t, p) <=> [id |-> p, by |-> t] \in Entries
      BY DEF Mirrored
    <2>1. ASSUME [id |-> p, by |-> t] \in Entries PROVE Inside(t, p)
      <3>1. PICK e \in Entries : e = [id |-> p, by |-> t] BY <2>1
      <3>2. e.by = t /\ e.id = p BY <3>1
      <3> QED BY <1>3, <3>2 DEF EntriesByContext
    <2> QED BY <1>3, <2>1 DEF ContextsHaveEntry
  <1> QED BY <1>1, <1>2, <1>3

LEMMA SeqIndices ==
  ASSUME OwnersTyped
  PROVE  /\ Len(captures_underway) \in Nat
         /\ DOMAIN captures_underway = 1 .. Len(captures_underway)
         /\ \A i \in DOMAIN captures_underway : captures_underway[i] \in Entry
BY DEF OwnersTyped

\* A new entry.
LEMMA Appended ==
  ASSUME OwnersTyped, Distinct, NEW e \in Entry, e.id \notin Recording,
         captures_underway' = Append(captures_underway, e)
  PROVE  /\ captures_underway' \in Seq(Entry) /\ Distinct'
         /\ \A f : f \in Entries' <=> f \in Entries \/ f = e
  <1> DEFINE n == Len(captures_underway)
  <1>1. captures_underway \in Seq(Entry) /\ n \in Nat /\ DOMAIN captures_underway = 1 .. n
    BY SeqIndices DEF OwnersTyped
  <1>2. /\ captures_underway' \in Seq(Entry) /\ Len(captures_underway') = n + 1
        /\ DOMAIN captures_underway' = 1 .. n + 1
        /\ \A i \in 1 .. n : captures_underway'[i] = captures_underway[i]
        /\ captures_underway'[n + 1] = e
    BY <1>1
  <1>3. \A i \in 1 .. n + 1 : i \in 1 .. n \/ i = n + 1 BY <1>1
  <1>4. \A i \in 1 .. n : captures_underway[i].id # e.id BY <1>1 DEF Recording
  <1>5. Distinct'
    <2> SUFFICES ASSUME NEW i \in 1 .. n + 1, NEW j \in 1 .. n + 1,
                        captures_underway'[i].id = captures_underway'[j].id
                 PROVE  i = j
      BY <1>2 DEF Distinct
    <2>1. CASE i \in 1 .. n /\ j \in 1 .. n BY <1>1, <1>2, <2>1 DEF Distinct
    <2>2. CASE i \in 1 .. n /\ j = n + 1 BY <1>2, <1>4, <2>2
    <2>3. CASE i = n + 1 /\ j \in 1 .. n BY <1>2, <1>4, <2>3
    <2>4. CASE i = n + 1 /\ j = n + 1 BY <2>4
    <2> QED BY <1>3, <2>1, <2>2, <2>3, <2>4
  <1>6. ASSUME NEW f PROVE f \in Entries' <=> f \in Entries \/ f = e
    <2>1. f \in Entries' <=> \E i \in 1 .. n + 1 : captures_underway'[i] = f BY <1>2 DEF Entries
    <2>2. f \in Entries <=> \E i \in 1 .. n : captures_underway[i] = f BY <1>1 DEF Entries
    <2>3. \A i \in 1 .. n : i \in 1 .. n + 1 BY <1>1
    <2>4. n + 1 \in 1 .. n + 1 BY <1>1
    <2> QED BY <1>2, <1>3, <2>1, <2>2, <2>3, <2>4
  <1> QED BY <1>2, <1>5, <1>6

LEMMA RemovedAt ==
  ASSUME NEW S, NEW s \in Seq(S), NEW p \in 1 .. Len(s)
  PROVE  /\ RemoveAt(s, p) \in Seq(S) /\ Len(RemoveAt(s, p)) = Len(s) - 1
         /\ \A i \in 1 .. Len(s) - 1 : RemoveAt(s, p)[i] = IF i < p THEN s[i] ELSE s[i + 1]
  <1>1. PICK a : a = SubSeq(s, 1, p - 1)
    OBVIOUS
  <1>2. PICK b : b = SubSeq(s, p + 1, Len(s))
    OBVIOUS
  <1>3. PICK r : r = a \o b
    OBVIOUS
  <1>4. p \in Int /\ Len(s) \in Nat /\ 1 <= p /\ p <= Len(s)
    OBVIOUS
  <1>5. a \in Seq(S) /\ Len(a) = p - 1 /\ \A i \in 1 .. p - 1 : a[i] = s[i]
    BY <1>1, <1>4
  <1>6. b \in Seq(S) /\ Len(b) = Len(s) - p /\ \A i \in 1 .. Len(s) - p : b[i] = s[p + i]
    BY <1>2, <1>4
  <1>7. r \in Seq(S) /\ Len(r) = Len(a) + Len(b)
        /\ \A i \in 1 .. Len(a) + Len(b) : r[i] = IF i <= Len(a) THEN a[i] ELSE b[i - Len(a)]
    <2>1. a \in Seq(S) /\ b \in Seq(S) /\ Len(a) \in Nat /\ Len(b) \in Nat
      BY <1>5, <1>6
    <2> QED BY <1>3, <2>1
  <1>8. ASSUME NEW i \in 1 .. Len(s) - 1, i < p PROVE r[i] = s[i]
    <2>1. i \in 1 .. p - 1 /\ i <= Len(a) /\ i \in 1 .. Len(a) + Len(b)
      BY <1>4, <1>5, <1>6, <1>8
    <2>2. r[i] = a[i] BY <1>7, <2>1
    <2> QED BY <1>5, <2>1, <2>2
  <1>9. ASSUME NEW i \in 1 .. Len(s) - 1, ~(i < p) PROVE r[i] = s[i + 1]
    <2>1. i - (p - 1) \in 1 .. Len(s) - p /\ p + (i - (p - 1)) = i + 1 /\ i \in 1 .. Len(a) + Len(b)
      BY <1>4, <1>5, <1>6, <1>9
    <2>2. r[i] = b[i - (p - 1)]
      BY <1>4, <1>5, <1>7, <1>9, <2>1
    <2> QED BY <1>6, <2>1, <2>2
  <1>10. Len(r) = Len(s) - 1 BY <1>4, <1>5, <1>6, <1>7
  <1>11. r = RemoveAt(s, p) BY <1>1, <1>2, <1>3 DEF RemoveAt
  <1> QED BY <1>7, <1>8, <1>9, <1>10, <1>11

\* The entry for a pool is gone.
LEMMA EntryRemoved ==
  ASSUME OwnersTyped, Distinct, NEW p, endAllocateToPool(p)
  PROVE  /\ captures_underway' \in Seq(Entry) /\ Distinct'
         /\ \A f : f \in Entries' <=> f \in Entries /\ f.id # p
  <1> DEFINE n == Len(captures_underway)
             old(i) == captures_underway[i]
  <1>1. captures_underway \in Seq(Entry) /\ n \in Nat /\ DOMAIN captures_underway = 1 .. n
    BY SeqIndices DEF OwnersTyped
  <1>2. PICK m \in 1 .. n : /\ captures_underway[m].id = p
                            /\ captures_underway' = RemoveAt(captures_underway, m)
    BY <1>1 DEF endAllocateToPool
  <1>3. /\ captures_underway' \in Seq(Entry) /\ Len(captures_underway') = n - 1
        /\ \A i \in 1 .. n - 1 :
             captures_underway'[i] = IF i < m THEN captures_underway[i] ELSE captures_underway[i + 1]
    BY <1>1, <1>2, RemovedAt
  <1>4. DOMAIN captures_underway' = 1 .. n - 1 BY <1>3
  <1>5. /\ \A i \in 1 .. n - 1 : i \in 1 .. n /\ i + 1 \in 1 .. n
        /\ \A i \in 1 .. n : i < m => i \in 1 .. n - 1
        /\ \A i \in 1 .. n : ~(i < m) /\ i # m =>
             i - 1 \in 1 .. n - 1 /\ ~(i - 1 < m) /\ (i - 1) + 1 = i
        /\ \A i \in 1 .. n - 1 : ~(i < m) => i + 1 # m
    BY <1>1, <1>2
  <1>6. \A i, j \in 1 .. n : captures_underway[i].id = captures_underway[j].id => i = j
    BY <1>1 DEF Distinct
  <1>7. ASSUME NEW i \in 1 .. n - 1
        PROVE  \E k \in 1 .. n : /\ captures_underway'[i] = captures_underway[k] /\ k # m
                                 /\ k = IF i < m THEN i ELSE i + 1
    BY <1>3, <1>5, <1>7
  <1>8. Distinct'
    <2> SUFFICES ASSUME NEW i \in 1 .. n - 1, NEW j \in 1 .. n - 1,
                        captures_underway'[i].id = captures_underway'[j].id
                 PROVE  i = j
      BY <1>4 DEF Distinct
    <2>1. PICK k \in 1 .. n : captures_underway'[i] = captures_underway[k] /\ k = IF i < m THEN i ELSE i + 1
      BY <1>7
    <2>2. PICK l \in 1 .. n : captures_underway'[j] = captures_underway[l] /\ l = IF j < m THEN j ELSE j + 1
      BY <1>7
    <2>3. k = l BY <1>6, <2>1, <2>2
    <2> QED BY <1>1, <1>2, <2>1, <2>2, <2>3
  <1>9. ASSUME NEW f PROVE f \in Entries' <=> f \in Entries /\ f.id # p
    <2>1. f \in Entries' <=> \E i \in 1 .. n - 1 : captures_underway'[i] = f BY <1>4 DEF Entries
    <2>2. f \in Entries <=> \E i \in 1 .. n : captures_underway[i] = f BY <1>1 DEF Entries
    <2>3. ASSUME f \in Entries' PROVE f \in Entries /\ f.id # p
      <3>1. PICK i \in 1 .. n - 1 : captures_underway'[i] = f BY <2>1, <2>3
      <3>2. PICK k \in 1 .. n : captures_underway'[i] = captures_underway[k] /\ k # m BY <1>7
      <3>3. f.id # p BY <1>2, <1>6, <3>1, <3>2
      <3> QED BY <2>2, <3>1, <3>2, <3>3
    <2>4. ASSUME f \in Entries, f.id # p PROVE f \in Entries'
      <3>1. PICK i \in 1 .. n : captures_underway[i] = f BY <2>2, <2>4
      <3>2. i # m BY <1>2, <2>4, <3>1
      <3>3. CASE i < m BY <1>3, <1>5, <2>1, <3>1, <3>3
      <3>4. CASE ~(i < m) BY <1>3, <1>5, <2>1, <3>1, <3>2, <3>4
      <3> QED BY <3>3, <3>4
    <2> QED BY <2>3, <2>4
  <1> QED BY <1>3, <1>8, <1>9

\* The entry for a pool selects nobody any more.
LEMMA EntryDeselected ==
  ASSUME OwnersTyped, Distinct, NEW p \in Ids, Deselect(p)
  PROVE  /\ captures_underway' \in Seq(Entry) /\ Distinct'
         /\ \A f : f \in Entries' <=> \/ f \in Entries /\ f.id # p
                                      \/ f = [id |-> p, by |-> NULL] /\ p \in Recording
  <1> DEFINE n == Len(captures_underway)
             gone == [id |-> p, by |-> NULL]
  <1>1. captures_underway \in Seq(Entry) /\ n \in Nat /\ DOMAIN captures_underway = 1 .. n
        /\ \A i \in 1 .. n : captures_underway[i] \in Entry
    BY SeqIndices DEF OwnersTyped
  <1>2. captures_underway' = [i \in 1 .. n |->
          IF captures_underway[i].id = p THEN gone ELSE captures_underway[i]]
    BY <1>1 DEF Deselect
  <1>3. gone \in Entry BY DEF Entry
  <1>4. captures_underway' \in [1 .. n -> Entry] BY <1>1, <1>2, <1>3
  <1>5. captures_underway' \in Seq(Entry) BY <1>1, <1>4
  <1>6. DOMAIN captures_underway' = 1 .. n BY <1>2
  <1>7. \A i \in 1 .. n : captures_underway'[i] =
          IF captures_underway[i].id = p THEN gone ELSE captures_underway[i]
    BY <1>2
  <1>8. \A i \in 1 .. n : captures_underway'[i].id = captures_underway[i].id BY <1>7
  <1>9. Distinct' BY <1>1, <1>6, <1>8 DEF Distinct
  <1>10. ASSUME NEW f
         PROVE  f \in Entries' <=> (f \in Entries /\ f.id # p) \/ (f = gone /\ p \in Recording)
    <2>1. f \in Entries' <=> \E i \in 1 .. n : captures_underway'[i] = f BY <1>6 DEF Entries
    <2>2. f \in Entries <=> \E i \in 1 .. n : captures_underway[i] = f BY <1>1 DEF Entries
    <2>3. p \in Recording <=> \E i \in 1 .. n : captures_underway[i].id = p BY <1>1 DEF Recording
    <2>4. ASSUME f \in Entries' PROVE (f \in Entries /\ f.id # p) \/ (f = gone /\ p \in Recording)
      <3>1. PICK i \in 1 .. n : captures_underway'[i] = f BY <2>1, <2>4
      <3>2. CASE captures_underway[i].id = p BY <1>7, <2>3, <3>1, <3>2
      <3>3. CASE captures_underway[i].id # p BY <1>7, <2>2, <3>1, <3>3
      <3> QED BY <3>2, <3>3
    <2>5. ASSUME f \in Entries, f.id # p PROVE f \in Entries'
      <3>1. PICK i \in 1 .. n : captures_underway[i] = f BY <2>2, <2>5
      <3> QED BY <1>7, <2>1, <2>5, <3>1
    <2>6. ASSUME f = gone, p \in Recording PROVE f \in Entries'
      <3>1. PICK i \in 1 .. n : captures_underway[i].id = p BY <2>3, <2>6
      <3> QED BY <1>7, <2>1, <2>6, <3>1
    <2> QED BY <2>4, <2>5, <2>6
  <1> QED BY <1>5, <1>9, <1>10

(***************************************************************************)
(* The contexts of a thread.                                               *)
(***************************************************************************)
\* Thread t enters context c.
LEMMA Entered ==
  ASSUME OwnersTyped, NEW t \in Threads, NEW c \in Context,
         context' = [context EXCEPT ![t] = Append(@, c)]
  PROVE  /\ context' \in [Threads -> Seq(Context)]
         /\ \A u \in Threads : u # t => context'[u] = context[u]
         /\ Len(context[t]) \in Nat /\ DOMAIN context[t] = 1 .. Len(context[t])
         /\ Len(context'[t]) = Len(context[t]) + 1
         /\ DOMAIN context'[t] = 1 .. Len(context[t]) + 1
         /\ \A k \in 1 .. Len(context[t]) : context'[t][k] = context[t][k]
         /\ context'[t][Len(context[t]) + 1] = c
  <1>1. context \in [Threads -> Seq(Context)] BY DEF OwnersTyped
  <1>2. PICK s : s = context[t] OBVIOUS
  <1>3. s \in Seq(Context) /\ Len(s) \in Nat /\ DOMAIN s = 1 .. Len(s) BY <1>1, <1>2
  <1>4. PICK r : r = Append(s, c) OBVIOUS
  <1>5. /\ r \in Seq(Context) /\ Len(r) = Len(s) + 1 /\ DOMAIN r = 1 .. Len(s) + 1
        /\ \A k \in 1 .. Len(s) : r[k] = s[k]
        /\ r[Len(s) + 1] = c
    BY <1>3, <1>4
  <1>6. context' = [context EXCEPT ![t] = r] BY <1>1, <1>2, <1>4
  <1>7. context'[t] = r /\ context' \in [Threads -> Seq(Context)] BY <1>1, <1>5, <1>6
  <1>8. \A u \in Threads : u # t => context'[u] = context[u] BY <1>1, <1>6
  <1> QED BY <1>2, <1>3, <1>5, <1>7, <1>8

\* Thread t leaves its innermost context.
LEMMA Departed ==
  ASSUME OwnersTyped, NEW t \in Threads, context[t] # <<>>, Leave(t)
  PROVE  /\ context' \in [Threads -> Seq(Context)]
         /\ \A u \in Threads : u # t => context'[u] = context[u]
         /\ Len(context[t]) \in Nat \ {0} /\ DOMAIN context[t] = 1 .. Len(context[t])
         /\ Len(context'[t]) = Len(context[t]) - 1
         /\ DOMAIN context'[t] = 1 .. Len(context[t]) - 1
         /\ \A k \in 1 .. Len(context[t]) - 1 : context'[t][k] = context[t][k]
  <1>1. context \in [Threads -> Seq(Context)] BY DEF OwnersTyped
  <1>2. PICK s : s = context[t] OBVIOUS
  <1>3. s \in Seq(Context) /\ Len(s) \in Nat \ {0} /\ DOMAIN s = 1 .. Len(s) BY <1>1, <1>2
  <1>4. PICK r : r = SubSeq(s, 1, Len(s) - 1) OBVIOUS
  <1>5. /\ r \in Seq(Context) /\ Len(r) = Len(s) - 1 /\ DOMAIN r = 1 .. Len(s) - 1
        /\ \A k \in 1 .. Len(s) - 1 : r[k] = s[k]
    BY <1>3, <1>4
  <1>6. context' = [context EXCEPT ![t] = r] BY <1>1, <1>2, <1>4 DEF Leave
  <1>7. context'[t] = r /\ context' \in [Threads -> Seq(Context)] BY <1>1, <1>5, <1>6
  <1>8. \A u \in Threads : u # t => context'[u] = context[u] BY <1>1, <1>6
  <1> QED BY <1>2, <1>3, <1>5, <1>7, <1>8

\* Thread t has called endAllocateToPool for its innermost context.
LEMMA Marked ==
  ASSUME OwnersTyped, NEW t \in Threads, context[t] # <<>>,
         context' = [context EXCEPT ![t][Len(context[t])].kind = "ended"]
  PROVE  /\ context' \in [Threads -> Seq(Context)]
         /\ \A u \in Threads : u # t => context'[u] = context[u]
         /\ Len(context[t]) \in Nat \ {0} /\ DOMAIN context[t] = 1 .. Len(context[t])
         /\ Len(context'[t]) = Len(context[t])
         /\ DOMAIN context'[t] = 1 .. Len(context[t])
         /\ \A k \in 1 .. Len(context[t]) - 1 : context'[t][k] = context[t][k]
         /\ context'[t][Len(context[t])] = [kind |-> "ended", id |-> Top(t).id]
  <1>1. context \in [Threads -> Seq(Context)] BY DEF OwnersTyped
  <1>2. PICK s : s = context[t] OBVIOUS
  <1>3. s \in Seq(Context) /\ Len(s) \in Nat \ {0} /\ DOMAIN s = 1 .. Len(s) BY <1>1, <1>2
  <1>4. PICK n : n = Len(s) OBVIOUS
  <1>5. s[n] \in Context /\ n \in 1 .. Len(s) BY <1>3, <1>4
  <1>6. PICK c : c = [s[n] EXCEPT !.kind = "ended"] OBVIOUS
  <1>7. c \in Context /\ c = [kind |-> "ended", id |-> s[n].id] BY <1>5, <1>6 DEF Context
  <1>8. PICK r : r = [s EXCEPT ![n] = c] OBVIOUS
  <1>9. /\ r \in Seq(Context) /\ Len(r) = Len(s) /\ DOMAIN r = 1 .. Len(s)
        /\ \A k \in 1 .. Len(s) - 1 : r[k] = s[k]
        /\ r[n] = c
    BY <1>3, <1>4, <1>5, <1>7, <1>8
  <1>10. context' = [context EXCEPT ![t] = r] BY <1>1, <1>2, <1>3, <1>4, <1>5, <1>6, <1>8
  <1>11. context'[t] = r /\ context' \in [Threads -> Seq(Context)] BY <1>1, <1>9, <1>10
  <1>12. \A u \in Threads : u # t => context'[u] = context[u] BY <1>1, <1>10
  <1>13. Top(t) = s[n] BY <1>2, <1>4 DEF Top
  <1> QED BY <1>2, <1>3, <1>4, <1>7, <1>9, <1>11, <1>12, <1>13

(***************************************************************************)
(* Frames of the steps of owners.                                          *)
(***************************************************************************)
ContextsSide ==
  /\ Distinct /\ Mirrored /\ GraphContexts /\ EndedIsTop
  /\ \A t \in Threads : Len(context[t]) <= MaxNest /\ InsideOnce(t)

LEMMA ContextsSideIs ==
  ASSUME OwnersTyped
  PROVE  ContextsSide <=> EntriesSide /\ EndedIsTop
BY MirroredIs DEF ContextsSide, EntriesSide

LEMMA ContextsSideThen == OwnersTyped' => (ContextsSide' <=> EntriesSide' /\ EndedIsTop')
  <1>1. OwnersTyped => (ContextsSide <=> EntriesSide /\ EndedIsTop) BY ContextsSideIs
  <1> QED BY <1>1, PTL

\* Graphs that need their memory, before and after.
Needs(g) == graph[g].state \in {"capturing", "captured"}

LEMMA OwnerStep ==
  ASSUME Sides, UNCHANGED <<scenario, segment, lock, call>>,
         PoolsSide', SegmentsSide', OwnersTyped', ContextsSide', GraphsOK',
         \A p \in Ids : CountOK(p)',
         use_on_oom_pools \subseteq use_on_oom_pools', use_on_oom_pools' \subseteq Ids,
         abort' \in {"no", "use_count_is_1", "captures_underway_is_empty"},
         \A t \in Threads : call[t].at # "idle" => context'[t] = context[t],
         \A g \in Graphs : Needs(g)' =>
           \/ memory'[g] = {}
           \/ memory'[g] = memory[g] /\ Needs(g) /\ graph'[g].pool = graph[g].pool
  PROVE  Sides'
  <1>1. OwnersTyped /\ ContextsSide BY ContextsSideIs DEF Sides
  <1>2. EntriesSide' /\ EndedIsTop'
    BY ContextsSideThen
  <1>3. CallsTyped' BY DEF Sides, CallsTyped
  <1>4. ASSUME NEW t \in Threads PROVE CallOK(t)'
    <2> SUFFICES ASSUME call[t].at # "idle" PROVE CallOK(t)' BY DEF CallOK
    <2>1. PICK p : p = call[t].pool OBVIOUS
    <2>2. CallOK(t) /\ p \in Ids \cup {Default} BY <2>1, CallUsed DEF Sides
    <2>3. context'[t] = context[t] OBVIOUS
    <2>4. ASSUME p \in Ids PROVE \E i \in DOMAIN captures_underway' :
                                    captures_underway'[i] = [id |-> p, by |-> t]
      <3>1. [id |-> p, by |-> t] \in Entries BY <2>1, <2>4, CallUsed, IdAssumption
      <3>2. Inside(t, p) BY <1>1, <2>4, <3>1 DEF ContextsSide, Mirrored
      <3>3. Inside(t, p)' BY <2>3, <3>2 DEF Inside
      <3>4. [id |-> p, by |-> t] \in Entries' BY <2>4, <3>3 DEF ContextsSide, Mirrored
      <3> QED BY <3>4 DEF Entries
    <2> QED BY <2>1, <2>2, <2>4 DEF CallOK
  <1>5. ASSUME MaxNest <= 1 PROVE CallsRouted' /\ Routing' /\ GraphMemoryKept'
    <2>1. CallsRouted /\ Routing /\ GraphMemoryKept BY <1>5 DEF Sides, NotNested, CallsRouted
    <2>2. CallsRouted' BY <2>1 DEF CallsRouted, Innermost, Top
    <2>3. Routing' BY <2>1 DEF Routing
    <2>4. ASSUME ~scenario'.oversize, NEW g \in Graphs, Needs(g)', NEW x \in memory'[g]
          PROVE  segment'[x].state # "none" /\ segment'[x].pool = graph'[g].pool
      <3>1. memory'[g] = memory[g] /\ Needs(g) /\ graph'[g].pool = graph[g].pool BY <2>4
      <3> QED BY <2>1, <2>4, <3>1 DEF GraphMemoryKept, Needs
    <2>5. GraphMemoryKept' BY <2>4 DEF GraphMemoryKept, Needs
    <2> QED BY <2>2, <2>3, <2>5
  <1>6. NotNested' BY <1>5, NotNestedIs
  <1> QED BY <1>2, <1>3, <1>4, <1>6 DEF Sides

\* Contexts and entries that nobody touches; a capture that stays under way.
LEMMA ContextsKept ==
  ASSUME Sides, UNCHANGED <<captures_underway, context, call>>,
         \A g \in Graphs : graph[g].state = "capturing" => graph'[g] = graph[g]
  PROVE  ContextsSide' /\ (captures_underway \in Seq(Entry))'
         /\ (context \in [Threads -> Seq(Context)])'
  <1>1. OwnersTyped /\ ContextsSide BY ContextsSideIs DEF Sides
  <1>2. Distinct' BY <1>1 DEF ContextsSide, Distinct
  <1>3. Mirrored' BY <1>1 DEF ContextsSide, Mirrored, Inside, Entries
  <1>4. EndedIsTop' BY <1>1 DEF ContextsSide, EndedIsTop
  <1>5. (\A t \in Threads : Len(context[t]) <= MaxNest /\ InsideOnce(t))'
    BY <1>1 DEF ContextsSide, InsideOnce
  <1>6. GraphContexts'
    <2> SUFFICES ASSUME NEW t \in Threads, NEW k \in DOMAIN context[t], context[t][k].kind = "graph"
                 PROVE  /\ \E g \in Graphs : graph'[g] = [state |-> "capturing", pool |-> context[t][k].id]
                        /\ \A u \in Threads : \A l \in DOMAIN context[u] :
                             context[u][l].kind = "graph" => u = t /\ l = k
      BY DEF GraphContexts
    <2>1. PICK g \in Graphs : graph[g] = [state |-> "capturing", pool |-> context[t][k].id]
      BY <1>1 DEF ContextsSide, GraphContexts
    <2>2. graph'[g] = graph[g] BY <2>1
    <2> QED BY <1>1, <2>1, <2>2 DEF ContextsSide, GraphContexts
  <1> QED BY <1>1, <1>2, <1>3, <1>4, <1>5, <1>6 DEF ContextsSide, OwnersTyped

\* Now, and after a step.
LEMMA CountNow ==
  ASSUME Sides, NEW p \in Ids
  PROVE  /\ MemPoolsOf(p) \in Nat /\ Cardinality(GraphsOf(p)) \in Nat
         /\ Cardinality(ContextsOf(p)) \in Nat /\ Stuck(p) \in Nat /\ use_count[p] \in Nat
         /\ use_count[p] >= MemPoolsOf(p) + Cardinality(GraphsOf(p)) + Cardinality(ContextsOf(p))
                            + Stuck(p)
  <1>1. OwnersTyped /\ CountOK(p) /\ use_count \in [Ids -> Nat] BY DEF Sides, PoolsSide, PoolsTyped
  <1> QED BY <1>1, HoldersFinite DEF CountOK, Holders

LEMMA StuckIs == \A p : Stuck(p) = IF [id |-> p, by |-> NULL] \in Entries THEN 1 ELSE 0
  <1> TAKE p
  <1> QED BY EntriesAre DEF Stuck

\* The pool of a MemPool comes and goes.
LEMMA SegmentsUnmoved ==
  ASSUME Sides, UNCHANGED <<segment, musaMalloc_count, memory>>, graph_pools \subseteq graph_pools'
  PROVE  SegmentsSide'
BY SegmentsStay DEF Sides, SegmentsSide, SegmentsTyped

LEMMA CreateMemPoolStep ==
  ASSUME Sides, NEW m \in MemPools, CreateMemPool(m)
  PROVE  Sides'
  <1>1. /\ mempool[m] = "none" /\ create_or_incref_pool(m)
        /\ use_on_oom_pools' = use_on_oom_pools \cup ({m} \cap scenario.onOom)
        /\ mempool' = [mempool EXCEPT ![m] = "alive"]
        /\ UNCHANGED <<scenario, captures_underway, segment, lock, call, context, graph, abort, memory>>
    BY DEF CreateMemPool
  <1>2. m \in Ids BY DEF Ids
  <1>3. OwnersTyped /\ CallsTyped /\ PoolsSide BY DEF Sides
  <1>4. /\ PoolsSide' /\ graph_pools \subseteq graph_pools' /\ musaMalloc_count' = musaMalloc_count
        /\ \A q \in Ids : use_count'[q] = IF q = m THEN use_count[q] + 1 ELSE use_count[q]
    BY <1>1, <1>2, <1>3, Incref
  <1>5. SegmentsSide' BY <1>1, <1>4, SegmentsUnmoved
  <1>6. ContextsSide' BY <1>1, ContextsKept
  <1>7. OwnersTyped' BY <1>1, <1>3 DEF OwnersTyped
  <1>8. GraphsOK' BY <1>1 DEF Sides, GraphsOK
  <1>9. ASSUME NEW q \in Ids PROVE CountOK(q)'
    <2>1. GraphsOf(q)' = GraphsOf(q) BY <1>1 DEF GraphsOf
    <2>2. ContextsOf(q)' = ContextsOf(q) BY <1>1 DEF ContextsOf
    <2>3. Stuck(q)' = Stuck(q) BY <1>1 DEF Stuck
    <2>4. MemPoolsOf(q)' = IF q = m THEN MemPoolsOf(q) + 1 ELSE MemPoolsOf(q)
      <3>1. CASE q = m
        <4>1. MemPoolsOf(q) = 0 BY <1>1, <3>1 DEF MemPoolsOf
        <4>2. mempool'[m] = "alive" BY <1>1, <1>3 DEF OwnersTyped
        <4>3. MemPoolsOf(q)' = 1 BY <3>1, <4>2 DEF MemPoolsOf
        <4> QED BY <3>1, <4>1, <4>3
      <3>2. CASE q # m
        <4>1. q \in MemPools => mempool'[q] = mempool[q] BY <1>1, <1>3, <3>2 DEF OwnersTyped
        <4> QED BY <3>2, <4>1 DEF MemPoolsOf
      <3> QED BY <3>1, <3>2
    <2>5. Holders(q)' = MemPoolsOf(q)' + Cardinality(GraphsOf(q)) + Cardinality(ContextsOf(q))
      BY <2>1, <2>2 DEF Holders
    <2>6. use_count'[q] >= Holders(q)' + Stuck(q)' BY <1>4, <2>3, <2>4, <2>5, CountNow
    <2> QED BY <2>6 DEF CountOK
  <1>10. /\ use_on_oom_pools \subseteq use_on_oom_pools' /\ use_on_oom_pools' \subseteq Ids
         /\ abort' \in {"no", "use_count_is_1", "captures_underway_is_empty"}
    BY <1>1, <1>2, <1>3 DEF CallsTyped
  <1>11. \A g \in Graphs : Needs(g)' =>
           \/ memory'[g] = {}
           \/ memory'[g] = memory[g] /\ Needs(g) /\ graph'[g].pool = graph[g].pool
    BY <1>1 DEF Needs
  <1> QED BY <1>1, <1>4, <1>5, <1>6, <1>7, <1>8, <1>9, <1>10, <1>11, OwnerStep

LEMMA DestroyMemPoolStep ==
  ASSUME Sides, NEW m \in MemPools, DestroyMemPool(m)
  PROVE  Sides'
  <1>1. /\ mempool[m] = "alive"
        /\ UNCHANGED <<scenario, captures_underway, use_on_oom_pools, segment, lock, call, context,
                       graph, memory>>
    BY DEF DestroyMemPool
  <1>2. m \in Ids /\ Used(m) /\ MemPoolsOf(m) = 1 BY <1>1, MemPoolUsed
  <1>3. OwnersTyped /\ CallsTyped /\ PoolsSide BY DEF Sides
  <1>4. ContextsSide' BY <1>1, ContextsKept
  <1>5. GraphsOK' BY <1>1 DEF Sides, GraphsOK
  <1>6. \A g \in Graphs : Needs(g)' =>
           \/ memory'[g] = {}
           \/ memory'[g] = memory[g] /\ Needs(g) /\ graph'[g].pool = graph[g].pool
    BY <1>1 DEF Needs
  <1>7. use_on_oom_pools' \subseteq Ids BY <1>1, <1>3 DEF CallsTyped
  <1>8. CASE /\ releasePool(m)
             /\ mempool' = [mempool EXCEPT ![m] = "released"]
             /\ UNCHANGED abort
    <2>1. /\ PoolsSide' /\ graph_pools' = graph_pools /\ musaMalloc_count' = musaMalloc_count
          /\ \A q \in Ids : use_count'[q] = IF q = m THEN use_count[q] - 1 ELSE use_count[q]
      BY <1>2, <1>3, <1>8, Decref
    <2>2. SegmentsSide' BY <1>1, <2>1, SegmentsUnmoved
    <2>3. OwnersTyped' BY <1>1, <1>3, <1>8 DEF OwnersTyped
    <2>4. ASSUME NEW q \in Ids PROVE CountOK(q)'
      <3>1. GraphsOf(q)' = GraphsOf(q) BY <1>1 DEF GraphsOf
      <3>2. ContextsOf(q)' = ContextsOf(q) BY <1>1 DEF ContextsOf
      <3>3. Stuck(q)' = Stuck(q) BY <1>1 DEF Stuck
      <3>4. MemPoolsOf(q)' = IF q = m THEN MemPoolsOf(q) - 1 ELSE MemPoolsOf(q)
        <4>1. CASE q = m
          <5>1. mempool'[m] = "released" BY <1>3, <1>8 DEF OwnersTyped
          <5>2. MemPoolsOf(q)' = 0 BY <4>1, <5>1 DEF MemPoolsOf
          <5> QED BY <1>2, <4>1, <5>2
        <4>2. CASE q # m
          <5>1. q \in MemPools => mempool'[q] = mempool[q] BY <1>3, <1>8, <4>2 DEF OwnersTyped
          <5> QED BY <4>2, <5>1 DEF MemPoolsOf
        <4> QED BY <4>1, <4>2
      <3>5. Holders(q)' = MemPoolsOf(q)' + Cardinality(GraphsOf(q)) + Cardinality(ContextsOf(q))
        BY <3>1, <3>2 DEF Holders
      <3>6. use_count'[q] >= Holders(q)' + Stuck(q)' BY <2>1, <3>3, <3>4, <3>5, CountNow
      <3> QED BY <3>6 DEF CountOK
    <2>5. abort' \in {"no", "use_count_is_1", "captures_underway_is_empty"}
      BY <1>3, <1>8 DEF CallsTyped
    <2> QED BY <1>1, <1>4, <1>5, <1>6, <1>7, <2>1, <2>2, <2>3, <2>4, <2>5, OwnerStep
  <1>9. CASE abort' = "use_count_is_1" /\ UNCHANGED <<poolVars, mempool>>
    <2>1. /\ PoolsSide' /\ graph_pools' = graph_pools /\ musaMalloc_count' = musaMalloc_count
          /\ \A q \in Ids : use_count'[q] = use_count[q]
      BY <1>3, <1>9, SameIsSelf
    <2>2. SegmentsSide' BY <1>1, <2>1, SegmentsUnmoved
    <2>3. OwnersTyped' BY <1>1, <1>3, <1>9 DEF OwnersTyped
    <2>4. \A q \in Ids : CountOK(q)'
      <3>1. \A q \in Ids : use_count'[q] >= use_count[q] BY <2>1, CountNow
      <3> QED BY <1>1, <1>9, <2>1, <3>1, OwnersKept DEF ownerVars
    <2> QED BY <1>1, <1>4, <1>5, <1>6, <1>7, <1>9, <2>1, <2>2, <2>3, <2>4, OwnerStep
  <1> QED BY <1>8, <1>9 DEF DestroyMemPool

LEMMA EmptyMemPoolStep ==
  ASSUME Sides, NEW m \in MemPools, EmptyMemPool(m)
  PROVE  Sides'
  <1>1. /\ mempool[m] = "released"
        /\ UNCHANGED <<scenario, captures_underway, use_on_oom_pools, lock, call, context, graph, memory>>
    BY DEF EmptyMemPool
  <1>2. OwnersTyped /\ CallsTyped /\ PoolsSide /\ SegmentsSide
        /\ segment \in [Segments -> Segment] /\ memory \in [Graphs -> SUBSET Segments]
    BY DEF Sides, SegmentsSide, SegmentsTyped
  <1> DEFINE Kept == /\ PoolsSide' /\ SegmentsSide' /\ use_count' = use_count
                     /\ \A x \in Segments : segment'[x].state = "allocated" =>
                          segment[x].state = "allocated" /\ segment'[x].asked = segment[x].asked
                            /\ segment'[x].pool = segment[x].pool
                     /\ \A x \in Segments : Used(segment[x].pool) /\ segment[x].state # "none" =>
                          segment'[x].pool = segment[x].pool /\ segment'[x].state # "none"
  <1>3. ASSUME m \in graph_pools_freeable,
               release_blocks(Synced({m}), CachedIn(Synced({m}), {m}), {m})
        PROVE  Kept
    <2>1. PICK sg : sg = Synced({m}) OBVIOUS
    <2>2. PICK R : R = CachedIn(sg, {m}) OBVIOUS
    <2>3. Quieter(sg) BY <1>2, <2>1, QuieterSynced
    <2>4. R \in SUBSET Segments /\ \A x \in R : sg[x].pool = m BY <2>2, CachedIs
    <2>5. release_blocks(sg, R, {m}) BY <1>3, <2>1, <2>2
    <2>6. (memory \in [Graphs -> SUBSET Segments])' BY <1>1, <1>2
    <2>7. SamePools(sg) BY <2>3 DEF Quieter
    <2>8. /\ PoolsSide' /\ SegmentsSide' /\ use_count' = use_count
          /\ \A x \in Segments : segment'[x] = IF x \in R THEN NoSegment ELSE sg[x]
      BY <1>2, <2>4, <2>5, <2>6, <2>7, ReleaseBlocks
    <2>9. ASSUME NEW x \in Segments, segment'[x].state = "allocated"
          PROVE  segment[x].state = "allocated" /\ segment'[x].asked = segment[x].asked
                   /\ segment'[x].pool = segment[x].pool
      <3>1. x \notin R BY <2>8, <2>9 DEF NoSegment
      <3>2. segment'[x] = sg[x] BY <2>8, <3>1
      <3> QED BY <2>3, <2>9, <3>2 DEF Quieter, SamePools
    <2>10. ASSUME NEW x \in Segments, Used(segment[x].pool), segment[x].state # "none"
           PROVE  segment'[x].pool = segment[x].pool /\ segment'[x].state # "none"
      <3>1. sg[x].pool = segment[x].pool /\ sg[x].state # "none" BY <2>7, <2>10 DEF SamePools
      <3>2. x \notin R BY <1>3, <2>4, <2>10, <3>1 DEF Used
      <3>3. segment'[x] = sg[x] BY <2>8, <3>2
      <3> QED BY <3>1, <3>3
    <2> QED BY <1>3, <2>8, <2>9, <2>10
  <1>4. ASSUME UNCHANGED <<poolVars, segment>> PROVE Kept
    <2>1. /\ PoolsSide' /\ graph_pools' = graph_pools /\ musaMalloc_count' = musaMalloc_count
          /\ use_count' = use_count
      BY <1>2, <1>4, SameIsSelf DEF poolVars
    <2>2. SegmentsSide' BY <1>1, <1>4, <2>1, SegmentsUnmoved
    <2> QED BY <1>4, <2>1, <2>2
  <1>5. Kept BY <1>3, <1>4 DEF EmptyMemPool
  <1>6. /\ mempool' = [mempool EXCEPT ![m] = "gone"] \/ UNCHANGED mempool
        /\ abort' = abort \/ abort' = "captures_underway_is_empty"
    BY DEF EmptyMemPool
  <1>7. /\ mempool' \in [MemPools -> {"none", "alive", "released", "gone"}]
        /\ \A n \in MemPools : mempool'[n] = "alive" <=> mempool[n] = "alive"
    BY <1>1, <1>2, <1>6 DEF OwnersTyped
  <1>8. OwnersTyped' BY <1>1, <1>2, <1>7 DEF OwnersTyped
  <1>9. ContextsSide' BY <1>1, ContextsKept
  <1>10. EntriesSide' /\ EndedIsTop' BY <1>8, <1>9, ContextsSideThen
  <1>11. GraphsOK' BY <1>1 DEF Sides, GraphsOK
  <1>12. CallsTyped' BY <1>1, <1>2, <1>6 DEF CallsTyped
  <1>13. CallsFollow BY <1>1, SameCalls
  <1>14. ASSUME NEW q \in Ids PROVE CountOK(q)'
    <2>1. MemPoolsOf(q)' = MemPoolsOf(q) BY <1>7 DEF MemPoolsOf
    <2>2. GraphsOf(q)' = GraphsOf(q) BY <1>1 DEF GraphsOf
    <2>3. ContextsOf(q)' = ContextsOf(q) BY <1>1 DEF ContextsOf
    <2>4. Stuck(q)' = Stuck(q) BY <1>1 DEF Stuck
    <2>5. use_count'[q] = use_count[q] BY <1>5
    <2>6. Holders(q)' = Holders(q) BY <2>1, <2>2, <2>3 DEF Holders
    <2>7. CountOK(q) BY DEF Sides
    <2> QED BY <2>4, <2>5, <2>6, <2>7 DEF CountOK
  <1>15. NotNested'
    <2>1. NotNested /\ SegmentsTyped BY <1>2 DEF Sides, SegmentsSide
    <2>2. \A g \in Graphs : graph[g].state \in {"capturing", "captured"} =>
           \A x \in Segments : segment[x].pool = graph[g].pool /\ segment[x].state # "none" =>
             segment'[x].pool = segment[x].pool /\ segment'[x].state # "none"
      BY <1>5, GraphUsed
    <2>3. MaxNest <= 1 => Routing' /\ GraphMemoryKept' BY <1>1, <1>5, <2>1, <2>2, NothingTaken
    <2> QED BY <1>13, <2>3, NotNestedIs DEF CallsFollow
  <1> QED BY <1>5, <1>8, <1>10, <1>11, <1>12, <1>13, <1>14, <1>15 DEF Sides, CallsFollow

\* How the graphs of a pool change with one graph.
LEMMA GraphsOfThen ==
  ASSUME OwnersTyped, NEW g \in Graphs, NEW r, graph' = [graph EXCEPT ![g] = r], NEW q
  PROVE  /\ \A h : h \in GraphsOf(q)' <=>
              IF h = g THEN r.pool = q /\ r.state \in {"capturing", "captured"} ELSE h \in GraphsOf(q)
         /\ IsFiniteSet(GraphsOf(q))
         /\ (g \in GraphsOf(q)' <=> g \in GraphsOf(q)) => GraphsOf(q)' = GraphsOf(q)
         /\ g \in GraphsOf(q)' /\ g \notin GraphsOf(q) =>
              Cardinality(GraphsOf(q)') = Cardinality(GraphsOf(q)) + 1
         /\ g \notin GraphsOf(q)' /\ g \in GraphsOf(q) =>
              Cardinality(GraphsOf(q)') = Cardinality(GraphsOf(q)) - 1
  <1>1. \A h \in Graphs : graph'[h] = IF h = g THEN r ELSE graph[h] BY DEF OwnersTyped
  <1>2. \A h : h \in GraphsOf(q)' <=>
           IF h = g THEN r.pool = q /\ r.state \in {"capturing", "captured"} ELSE h \in GraphsOf(q)
    BY <1>1 DEF GraphsOf
  <1>3. IsFiniteSet(GraphsOf(q)) BY HoldersFinite
  <1>4. PICK A : A = GraphsOf(q) OBVIOUS
  <1>5. PICK B : B = GraphsOf(q)' OBVIOUS
  <1>6. (g \in B <=> g \in A) => B = A BY <1>2, <1>4, <1>5
  <1>7. ASSUME g \in B, g \notin A PROVE Cardinality(B) = Cardinality(A) + 1
    <2>1. B = A \cup {g} BY <1>2, <1>4, <1>5, <1>7
    <2> QED BY <1>3, <1>4, <1>7, <2>1, FS_AddElement
  <1>8. ASSUME g \notin B, g \in A PROVE Cardinality(B) = Cardinality(A) - 1
    <2>1. B = A \ {g} BY <1>2, <1>4, <1>5, <1>8
    <2> QED BY <1>3, <1>4, <1>8, <2>1, FS_RemoveElement
  <1> QED BY <1>2, <1>3, <1>4, <1>5, <1>6, <1>7, <1>8

LEMMA ResetStep ==
  ASSUME Sides, NEW g \in Graphs, Reset(g)
  PROVE  Sides'
  <1> DEFINE r == [state |-> "new", pool |-> NULL]
  <1>1. /\ graph[g].state = "captured" /\ releasePool(graph[g].pool)
        /\ graph' = [graph EXCEPT ![g] = r]
        /\ memory' = [memory EXCEPT ![g] = {}]
        /\ UNCHANGED <<scenario, captures_underway, use_on_oom_pools, segment, lock, call, context,
                       mempool, abort>>
    BY DEF Reset
  <1>2. PICK p : p = graph[g].pool OBVIOUS
  <1>3. p \in Ids /\ Used(p) BY <1>1, <1>2, GraphUsed
  <1>4. OwnersTyped /\ CallsTyped /\ PoolsSide /\ SegmentsSide /\ SegmentsTyped
    BY DEF Sides, SegmentsSide
  <1>5. /\ PoolsSide' /\ graph_pools' = graph_pools /\ musaMalloc_count' = musaMalloc_count
        /\ \A q \in Ids : use_count'[q] = IF q = p THEN use_count[q] - 1 ELSE use_count[q]
    BY <1>1, <1>2, <1>3, <1>4, Decref
  <1>6. memory' \in [Graphs -> SUBSET Segments] /\ \A h \in Graphs : h # g => memory'[h] = memory[h]
    BY <1>1, <1>4 DEF SegmentsTyped
  <1>7. memory'[g] = {} BY <1>1, <1>4 DEF SegmentsTyped
  <1>8. SegmentsSide' BY <1>1, <1>4, <1>5, <1>6, SegmentsStay
  <1>9. \A h \in Graphs : graph'[h] = IF h = g THEN r ELSE graph[h] BY <1>1, <1>4 DEF OwnersTyped
  <1>10. graph' \in [Graphs -> [state : {"new", "capturing", "captured", "failed"},
                                pool : Ids \cup {NULL}]]
    BY <1>1, <1>4 DEF OwnersTyped
  <1>11. OwnersTyped' BY <1>1, <1>4, <1>10 DEF OwnersTyped
  <1>12. ContextsSide'
    <2>1. \A h \in Graphs : graph[h].state = "capturing" => graph'[h] = graph[h] BY <1>1, <1>9
    <2> QED BY <1>1, <2>1, ContextsKept
  <1>13. GraphsOK'
    <2>1. GraphsOK BY DEF Sides
    <2>2. r.state = "new" OBVIOUS
    <2> QED BY <1>6, <1>7, <1>9, <2>1, <2>2 DEF GraphsOK
  <1>14. ASSUME NEW q \in Ids PROVE CountOK(q)'
    <2>1. MemPoolsOf(q)' = MemPoolsOf(q) BY <1>1 DEF MemPoolsOf
    <2>2. ContextsOf(q)' = ContextsOf(q) BY <1>1 DEF ContextsOf
    <2>3. Stuck(q)' = Stuck(q) BY <1>1 DEF Stuck
    <2>4. PICK s : s = r OBVIOUS
    <2>5. graph' = [graph EXCEPT ![g] = s] /\ s.state = "new" BY <1>1, <2>4
    <2>6. g \notin GraphsOf(q)' BY <1>4, <2>5, GraphsOfThen
    <2>7. g \in GraphsOf(q) <=> q = p BY <1>1, <1>2 DEF GraphsOf
    <2>8. Cardinality(GraphsOf(q)') = IF q = p THEN Cardinality(GraphsOf(q)) - 1
                                      ELSE Cardinality(GraphsOf(q))
      BY <1>4, <2>5, <2>6, <2>7, GraphsOfThen
    <2>9. Holders(q)' = MemPoolsOf(q) + Cardinality(GraphsOf(q)') + Cardinality(ContextsOf(q))
      BY <2>1, <2>2 DEF Holders
    <2>10. use_count'[q] >= Holders(q)' + Stuck(q)' BY <1>5, <2>3, <2>8, <2>9, CountNow
    <2> QED BY <2>10 DEF CountOK
  <1>15. \A h \in Graphs : Needs(h)' =>
           \/ memory'[h] = {}
           \/ memory'[h] = memory[h] /\ Needs(h) /\ graph'[h].pool = graph[h].pool
    BY <1>6, <1>7, <1>9 DEF Needs
  <1>16. /\ use_on_oom_pools' \subseteq Ids
         /\ abort' \in {"no", "use_count_is_1", "captures_underway_is_empty"}
    BY <1>1, <1>4 DEF CallsTyped
  <1> QED BY <1>1, <1>5, <1>8, <1>11, <1>12, <1>13, <1>14, <1>15, <1>16, OwnerStep

(***************************************************************************)
(* Beginning to record to a pool.                                          *)
(***************************************************************************)
LEMMA EnterSide ==
  ASSUME Sides, NEW t \in Threads, NEW p \in Ids, NEW kind \in {"use", "graph"},
         p \notin Recording, call[t].at = "idle", Len(context[t]) < MaxNest,
         context[t] # <<>> => Top(t).kind # "ended", Enter(t, kind, p),
         captures_underway' = Append(captures_underway, [id |-> p, by |-> t]), UNCHANGED call
  PROVE  /\ captures_underway' \in Seq(Entry) /\ context' \in [Threads -> Seq(Context)]
         /\ Distinct' /\ Mirrored' /\ EndedIsTop'
         /\ (\A u \in Threads : Len(context[u]) <= MaxNest /\ InsideOnce(u))'
         /\ \A u \in Threads : u # t => context'[u] = context[u]
         /\ Len(context[t]) \in Nat /\ DOMAIN context[t] = 1 .. Len(context[t])
         /\ Len(context'[t]) = Len(context[t]) + 1
         /\ DOMAIN context'[t] = 1 .. Len(context[t]) + 1
         /\ \A k \in 1 .. Len(context[t]) : context'[t][k] = context[t][k]
         /\ context'[t][Len(context[t]) + 1] = [kind |-> kind, id |-> p]
         /\ \A f : f \in Entries' <=> f \in Entries \/ f = [id |-> p, by |-> t]
  <1>1. OwnersTyped /\ ContextsSide BY ContextsSideIs DEF Sides
  <1>2. PICK e : e = [id |-> p, by |-> t] OBVIOUS
  <1>3. e \in Entry /\ e.id = p /\ e.by = t BY <1>2 DEF Entry
  <1>4. PICK c : c = [kind |-> kind, id |-> p] OBVIOUS
  <1>5. c \in Context /\ c.kind = kind /\ c.id = p BY <1>4 DEF Context
  <1>6. PICK n : n = Len(context[t]) OBVIOUS
  <1>7. /\ captures_underway' \in Seq(Entry) /\ Distinct'
        /\ \A f : f \in Entries' <=> f \in Entries \/ f = e
    BY <1>1, <1>2, <1>3, Appended DEF ContextsSide
  <1>8. /\ context' \in [Threads -> Seq(Context)]
        /\ \A u \in Threads : u # t => context'[u] = context[u]
        /\ n \in Nat /\ DOMAIN context[t] = 1 .. n
        /\ Len(context'[t]) = n + 1
        /\ DOMAIN context'[t] = 1 .. n + 1
        /\ \A k \in 1 .. n : context'[t][k] = context[t][k]
        /\ context'[t][n + 1] = c
    BY <1>1, <1>4, <1>5, <1>6, Entered DEF Enter
  <1>9. \A k \in 1 .. n + 1 : k \in 1 .. n \/ k = n + 1 BY <1>8
  <1>10. \A k \in 1 .. n : k \in 1 .. n + 1 BY <1>8
  <1>11. n + 1 \in 1 .. n + 1 BY <1>8
  <1>12. \A u \in Threads : ~Inside(u, p)
    <2> SUFFICES ASSUME NEW u \in Threads, Inside(u, p) PROVE FALSE OBVIOUS
    <2>1. [id |-> p, by |-> u] \in Entries BY <1>1 DEF ContextsSide, Mirrored
    <2> QED BY <2>1, RecordingIs
  <1>13. ASSUME NEW u \in Threads, NEW q \in Ids
         PROVE  Inside(u, q)' <=> Inside(u, q) \/ (u = t /\ q = p)
    <2>1. CASE u # t BY <1>8, <2>1 DEF Inside
    <2>2. CASE u = t
      <3>1. Inside(t, q)' <=> \E k \in 1 .. n + 1 : context'[t][k].kind # "ended" /\ context'[t][k].id = q
        BY <1>8 DEF Inside
      <3>2. Inside(t, q) <=> \E k \in 1 .. n : context[t][k].kind # "ended" /\ context[t][k].id = q
        BY <1>8 DEF Inside
      <3>3. c.kind # "ended" BY <1>5
      <3> QED BY <1>5, <1>8, <1>9, <1>10, <1>11, <2>2, <3>1, <3>2, <3>3
    <2> QED BY <2>1, <2>2
  <1>14. Mirrored'
    <2> SUFFICES ASSUME NEW u \in Threads, NEW q \in Ids
                 PROVE  Inside(u, q)' <=> [id |-> q, by |-> u] \in Entries'
      BY DEF Mirrored
    <2>1. [id |-> q, by |-> u] = e <=> u = t /\ q = p BY <1>2
    <2>2. Inside(u, q) <=> [id |-> q, by |-> u] \in Entries BY <1>1 DEF ContextsSide, Mirrored
    <2> QED BY <1>7, <1>13, <2>1, <2>2
  <1>15. \A k \in 1 .. n : context[t][k].kind # "ended"
    <2> SUFFICES ASSUME NEW k \in 1 .. n, context[t][k].kind = "ended" PROVE FALSE OBVIOUS
    <2>1. k = n BY <1>1, <1>6, <1>8 DEF ContextsSide, EndedIsTop
    <2>2. Top(t).kind = "ended" BY <1>6, <2>1 DEF Top
    <2>3. context[t] # <<>> BY <1>8
    <2> QED BY <2>2, <2>3
  <1>16. EndedIsTop'
    <2> SUFFICES ASSUME NEW u \in Threads, NEW k \in DOMAIN context'[u], context'[u][k].kind = "ended"
                 PROVE  k = Len(context'[u]) /\ call[u].at = "idle"
      BY DEF EndedIsTop
    <2>1. CASE u # t BY <1>1, <1>8, <2>1 DEF ContextsSide, EndedIsTop
    <2>2. CASE u = t BY <1>5, <1>8, <1>9, <1>15, <2>2
    <2> QED BY <2>1, <2>2
  <1>17. ASSUME NEW u \in Threads PROVE Len(context'[u]) <= MaxNest /\ InsideOnce(u)'
    <2>1. CASE u # t
      <3>1. Len(context[u]) <= MaxNest /\ InsideOnce(u) BY <1>1 DEF ContextsSide
      <3> QED BY <1>8, <2>1, <3>1 DEF InsideOnce
    <2>2. CASE u = t
      <3>1. Len(context'[t]) <= MaxNest BY <1>6, <1>8, PoolBoundAssumption
      <3>2. ASSUME NEW k \in 1 .. n PROVE context'[t][k].id # p
        <4>1. context'[t][k] = context[t][k] /\ k \in DOMAIN context[t] BY <1>8
        <4> QED BY <1>12, <1>15, <4>1 DEF Inside
      <3>3. ASSUME NEW k \in 1 .. n + 1, NEW l \in 1 .. n + 1,
                   context'[t][k].kind # "ended", context'[t][l].kind # "ended",
                   context'[t][k].id = context'[t][l].id
            PROVE  k = l
        <4>1. CASE k \in 1 .. n /\ l \in 1 .. n
          <5>1. InsideOnce(t) BY <1>1 DEF ContextsSide
          <5> QED BY <1>8, <3>3, <4>1, <5>1 DEF InsideOnce
        <4>2. CASE k = n + 1 /\ l \in 1 .. n BY <1>5, <1>8, <3>2, <3>3, <4>2
        <4>3. CASE k \in 1 .. n /\ l = n + 1 BY <1>5, <1>8, <3>2, <3>3, <4>3
        <4>4. CASE k = n + 1 /\ l = n + 1 BY <4>4
        <4> QED BY <1>9, <4>1, <4>2, <4>3, <4>4
      <3> QED BY <1>8, <2>2, <3>1, <3>3 DEF InsideOnce
    <2> QED BY <2>1, <2>2
  <1>18. (\A u \in Threads : Len(context[u]) <= MaxNest /\ InsideOnce(u))' BY <1>17
  <1> QED BY <1>2, <1>4, <1>6, <1>7, <1>8, <1>14, <1>16, <1>18

\* The use of a thread: <<t, k>> counts for the pools of contexts that are not those
\* of graphs.
LEMMA ContextsOfIs ==
  ASSUME NEW q
  PROVE  \A u, k : <<u, k>> \in ContextsOf(q) <=>
           /\ u \in Threads /\ k \in 1 .. MaxNest /\ k <= Len(context[u])
           /\ context[u][k].kind # "graph" /\ context[u][k].id = q
BY DEF ContextsOf

LEMMA ContextsOfPairs ==
  ASSUME NEW q, NEW w \in ContextsOf(q)
  PROVE  w = <<w[1], w[2]>>
BY DEF ContextsOf

\* Graph contexts do not count.
LEMMA ContextsOfEntered ==
  ASSUME OwnersTyped, NEW t \in Threads, NEW p \in Ids, NEW kind \in {"use", "graph"},
         Enter(t, kind, p), Len(context[t]) < MaxNest, NEW q \in Ids
  PROVE  Cardinality(ContextsOf(q)') = IF q = p /\ kind = "use" THEN Cardinality(ContextsOf(q)) + 1
                                      ELSE Cardinality(ContextsOf(q))
  <1>1. PICK c : c = [kind |-> kind, id |-> p] OBVIOUS
  <1>2. c \in Context /\ c.kind = kind /\ c.id = p BY <1>1 DEF Context
  <1>3. PICK n : n = Len(context[t]) OBVIOUS
  <1>4. /\ \A u \in Threads : u # t => context'[u] = context[u]
        /\ n \in Nat /\ Len(context'[t]) = n + 1
        /\ \A k \in 1 .. n : context'[t][k] = context[t][k]
        /\ context'[t][n + 1] = c
    BY <1>1, <1>2, <1>3, Entered DEF Enter
  <1>5. n + 1 \in 1 .. MaxNest BY <1>3, <1>4, PoolBoundAssumption
  <1>6. PICK A : A = ContextsOf(q) OBVIOUS
  <1>7. PICK B : B = ContextsOf(q)' OBVIOUS
  <1>8. \A u, k : <<u, k>> \in A <=>
           /\ u \in Threads /\ k \in 1 .. MaxNest /\ k <= Len(context[u])
           /\ context[u][k].kind # "graph" /\ context[u][k].id = q
    BY <1>6, ContextsOfIs
  <1>9. \A u, k : <<u, k>> \in B <=>
           /\ u \in Threads /\ k \in 1 .. MaxNest /\ k <= Len(context'[u])
           /\ context'[u][k].kind # "graph" /\ context'[u][k].id = q
    BY <1>7 DEF ContextsOf
  <1>10. (\A w \in A : w = <<w[1], w[2]>>) /\ (\A w \in B : w = <<w[1], w[2]>>)
    BY <1>6, <1>7 DEF ContextsOf
  <1>11. IsFiniteSet(A) /\ Cardinality(A) \in Nat BY <1>6, HoldersFinite
  <1>12. \A k \in 1 .. MaxNest : k <= n + 1 <=> k \in 1 .. n \/ k = n + 1
    BY <1>4, PoolBoundAssumption
  <1>13. \A k \in 1 .. MaxNest : k <= n <=> k \in 1 .. n BY <1>4, PoolBoundAssumption
  <1>14. n + 1 \notin 1 .. n BY <1>4
  <1>15. ASSUME NEW u, NEW k
         PROVE  <<u, k>> \in B <=>
                  <<u, k>> \in A \/ (u = t /\ k = n + 1 /\ kind = "use" /\ q = p)
    <2>1. CASE u # t BY <1>4, <1>8, <1>9, <2>1
    <2>2. CASE u = t /\ k \in 1 .. n BY <1>3, <1>4, <1>8, <1>9, <1>12, <1>13, <1>14, <2>2
    <2>3. CASE u = t /\ k \notin 1 .. n
      BY <1>2, <1>3, <1>4, <1>5, <1>8, <1>9, <1>12, <1>13, <2>3
    <2> QED BY <2>1, <2>2, <2>3
  <1>16. CASE q = p /\ kind = "use"
    <2>1. PICK w : w = <<t, n + 1>> OBVIOUS
    <2>2. w \notin A BY <1>3, <1>4, <1>5, <1>8, <1>13, <1>14, <2>1
    <2>3. \A v : v \in B <=> v \in A \cup {w}
      <3>1. ASSUME NEW v \in B PROVE v \in A \cup {w} BY <1>10, <1>15, <2>1, <3>1
      <3>2. ASSUME NEW v \in A PROVE v \in B BY <1>10, <1>15, <3>2
      <3>3. w \in B BY <1>15, <1>16, <2>1
      <3> QED BY <3>1, <3>2, <3>3
    <2>4. B = A \cup {w} BY <2>3
    <2> QED BY <1>6, <1>7, <1>11, <1>16, <2>2, <2>4, FS_AddElement
  <1>17. CASE ~(q = p /\ kind = "use")
    <2>1. \A v : v \in B <=> v \in A
      <3>1. ASSUME NEW v \in B PROVE v \in A BY <1>10, <1>15, <1>17, <3>1
      <3>2. ASSUME NEW v \in A PROVE v \in B BY <1>10, <1>15, <3>2
      <3> QED BY <3>1, <3>2
    <2>2. B = A BY <2>1
    <2> QED BY <1>6, <1>7, <1>17, <2>2
  <1> QED BY <1>16, <1>17

\* The TORCH_CHECK of beginAllocateToPool throws, after the count went up.
LEMMA ThrownStep ==
  ASSUME Sides, NEW p \in Ids, create_or_incref_pool(p),
         UNCHANGED <<scenario, captures_underway, use_on_oom_pools, segment, lock, call, context,
                     mempool, graph, abort, memory>>
  PROVE  Sides'
  <1>1. PoolsSide BY DEF Sides
  <1>2. /\ PoolsSide' /\ graph_pools \subseteq graph_pools' /\ musaMalloc_count' = musaMalloc_count
        /\ \A q \in Ids : use_count'[q] = IF q = p THEN use_count[q] + 1 ELSE use_count[q]
    BY <1>1, Incref
  <1>3. \A q \in Ids : use_count'[q] >= use_count[q] BY <1>2, CountNow
  <1>4. CallsFollow BY SameCalls
  <1> QED BY <1>2, <1>3, <1>4, PoolStep DEF ownerVars

LEMMA UseMemPoolStep ==
  ASSUME Sides, NEW t \in Threads, NEW m \in MemPools, UseMemPool(t, m)
  PROVE  Sides'
  <1>1. /\ MayEnter(t)
        /\ UNCHANGED <<scenario, use_on_oom_pools, segment, lock, call, mempool, graph, abort, memory>>
        /\ create_or_incref_pool(m)
    BY DEF UseMemPool, beginAllocateToPool
  <1>2. m \in Ids BY DEF Ids
  <1>3. CASE UNCHANGED captures_underway /\ UNCHANGED context
    BY <1>1, <1>2, <1>3, ThrownStep
  <1>4. CASE /\ m \notin Recording
             /\ captures_underway' = Append(captures_underway, [id |-> m, by |-> t])
             /\ Enter(t, "use", m)
    <2>1. OwnersTyped /\ CallsTyped /\ PoolsSide /\ ContextsSide BY ContextsSideIs DEF Sides
    <2>2. /\ call[t].at = "idle" /\ Len(context[t]) < MaxNest
          /\ context[t] # <<>> => Top(t).kind # "ended"
      BY <1>1 DEF MayEnter
    <2>3. /\ PoolsSide' /\ graph_pools \subseteq graph_pools' /\ musaMalloc_count' = musaMalloc_count
          /\ \A q \in Ids : use_count'[q] = IF q = m THEN use_count[q] + 1 ELSE use_count[q]
      BY <1>1, <1>2, <2>1, Incref
    <2>4. SegmentsSide' BY <1>1, <2>3, SegmentsUnmoved
    <2>5. PICK n : n = Len(context[t]) OBVIOUS
    <2>6. /\ captures_underway' \in Seq(Entry) /\ context' \in [Threads -> Seq(Context)]
          /\ Distinct' /\ Mirrored' /\ EndedIsTop'
          /\ (\A u \in Threads : Len(context[u]) <= MaxNest /\ InsideOnce(u))'
          /\ \A u \in Threads : u # t => context'[u] = context[u]
          /\ n \in Nat /\ DOMAIN context[t] = 1 .. n /\ DOMAIN context'[t] = 1 .. n + 1
          /\ \A k \in 1 .. n : context'[t][k] = context[t][k]
          /\ context'[t][n + 1] = [kind |-> "use", id |-> m]
          /\ \A f : f \in Entries' <=> f \in Entries \/ f = [id |-> m, by |-> t]
      BY <1>1, <1>2, <1>4, <2>2, <2>5, EnterSide
    <2>7. OwnersTyped' BY <1>1, <2>1, <2>6 DEF OwnersTyped
    <2>8. \A u \in Threads : \A k \in DOMAIN context'[u] : context'[u][k].kind = "graph" =>
            k \in DOMAIN context[u] /\ context'[u][k] = context[u][k]
      <3>1. \A k \in 1 .. n + 1 : k \in 1 .. n \/ k = n + 1 BY <2>6
      <3>2. context'[t][n + 1].kind = "use" BY <2>6
      <3> QED BY <2>6, <3>1, <3>2
    <2>9. GraphContexts'
      <3>1. GraphContexts BY <2>1 DEF ContextsSide
      <3> QED BY <1>1, <2>8, <3>1 DEF GraphContexts
    <2>10. ContextsSide' BY <2>6, <2>9 DEF ContextsSide
    <2>11. GraphsOK' BY <1>1 DEF Sides, GraphsOK
    <2>12. ASSUME NEW q \in Ids PROVE CountOK(q)'
      <3>1. MemPoolsOf(q)' = MemPoolsOf(q) BY <1>1 DEF MemPoolsOf
      <3>2. GraphsOf(q)' = GraphsOf(q) BY <1>1 DEF GraphsOf
      <3>3. Cardinality(ContextsOf(q)') = IF q = m THEN Cardinality(ContextsOf(q)) + 1
                                          ELSE Cardinality(ContextsOf(q))
        BY <1>2, <1>4, <2>1, <2>2, ContextsOfEntered
      <3>4. Stuck(q)' = Stuck(q)
        <4>1. [id |-> q, by |-> NULL] # [id |-> m, by |-> t] BY NullAssumption
        <4>2. [id |-> q, by |-> NULL] \in Entries' <=> [id |-> q, by |-> NULL] \in Entries
          BY <2>6, <4>1
        <4>3. Stuck(q)' = IF [id |-> q, by |-> NULL] \in Entries' THEN 1 ELSE 0
          BY DEF Stuck, Entries
        <4> QED BY <4>2, <4>3, StuckIs
      <3>5. Holders(q)' = MemPoolsOf(q) + Cardinality(GraphsOf(q)) + Cardinality(ContextsOf(q)')
        BY <3>1, <3>2 DEF Holders
      <3>6. use_count'[q] >= Holders(q)' + Stuck(q)' BY <2>3, <3>3, <3>4, <3>5, CountNow
      <3> QED BY <3>6 DEF CountOK
    <2>13. \A u \in Threads : call[u].at # "idle" => context'[u] = context[u] BY <2>2, <2>6
    <2>14. \A g \in Graphs : Needs(g)' =>
             \/ memory'[g] = {}
             \/ memory'[g] = memory[g] /\ Needs(g) /\ graph'[g].pool = graph[g].pool
      BY <1>1 DEF Needs
    <2>15. /\ use_on_oom_pools' \subseteq Ids
           /\ abort' \in {"no", "use_count_is_1", "captures_underway_is_empty"}
      BY <1>1, <2>1 DEF CallsTyped
    <2> QED BY <1>1, <2>3, <2>4, <2>7, <2>10, <2>11, <2>12, <2>13, <2>14, <2>15, OwnerStep
  <1> QED BY <1>3, <1>4 DEF UseMemPool, beginAllocateToPool

LEMMA CaptureBeginStep ==
  ASSUME Sides, NEW t \in Threads, NEW g \in Graphs, NEW p \in Ids, CaptureBegin(t, g, p)
  PROVE  Sides'
  <1>1. /\ MayEnter(t) /\ ~Capturing /\ graph[g].state = "new"
        /\ UNCHANGED <<scenario, use_on_oom_pools, segment, lock, call, mempool, abort, memory>>
        /\ create_or_incref_pool(p)
    BY DEF CaptureBegin, beginAllocateToPool
  <1>2. OwnersTyped /\ CallsTyped /\ PoolsSide /\ ContextsSide /\ GraphsOK
    BY ContextsSideIs DEF Sides
  <1>3. /\ call[t].at = "idle" /\ Len(context[t]) < MaxNest
        /\ context[t] # <<>> => Top(t).kind # "ended"
    BY <1>1 DEF MayEnter
  <1>4. /\ PoolsSide' /\ graph_pools \subseteq graph_pools' /\ musaMalloc_count' = musaMalloc_count
        /\ \A q \in Ids : use_count'[q] = IF q = p THEN use_count[q] + 1 ELSE use_count[q]
    BY <1>1, <1>2, Incref
  <1>5. SegmentsSide' BY <1>1, <1>4, SegmentsUnmoved
  <1>6. /\ use_on_oom_pools' \subseteq Ids
        /\ abort' \in {"no", "use_count_is_1", "captures_underway_is_empty"}
    BY <1>1, <1>2 DEF CallsTyped
  <1>7. \A u \in Threads : \A k \in DOMAIN context[u] : context[u][k].kind # "graph"
    <2> SUFFICES ASSUME NEW u \in Threads, NEW k \in DOMAIN context[u], context[u][k].kind = "graph"
                 PROVE  FALSE
      OBVIOUS
    <2>1. PICK h \in Graphs : graph[h] = [state |-> "capturing", pool |-> context[u][k].id]
      BY <1>2 DEF ContextsSide, GraphContexts
    <2>2. graph[h].state = "capturing" BY <2>1
    <2> QED BY <1>1, <2>2 DEF Capturing
  <1>8. memory[g] = {} /\ memory'[g] = {} BY <1>1, <1>2 DEF GraphsOK
  <1>9. ASSUME NEW r, graph' = [graph EXCEPT ![g] = r], r.pool = p, r.state \in {"capturing", "failed"},
               r \in [state : {"new", "capturing", "captured", "failed"}, pool : Ids \cup {NULL}]
        PROVE  /\ \A h \in Graphs : graph'[h] = IF h = g THEN r ELSE graph[h]
               /\ graph' \in [Graphs -> [state : {"new", "capturing", "captured", "failed"},
                                         pool : Ids \cup {NULL}]]
               /\ GraphsOK'
               /\ \A h \in Graphs : Needs(h)' =>
                    \/ memory'[h] = {}
                    \/ memory'[h] = memory[h] /\ Needs(h) /\ graph'[h].pool = graph[h].pool
               /\ \A q \in Ids : Cardinality(GraphsOf(q)') =
                    IF q = p /\ r.state = "capturing" THEN Cardinality(GraphsOf(q)) + 1
                    ELSE Cardinality(GraphsOf(q))
    <2>1. \A h \in Graphs : graph'[h] = IF h = g THEN r ELSE graph[h] BY <1>2, <1>9 DEF OwnersTyped
    <2>2. graph' \in [Graphs -> [state : {"new", "capturing", "captured", "failed"},
                                 pool : Ids \cup {NULL}]]
      BY <1>2, <1>9 DEF OwnersTyped
    <2>3. \A h \in Graphs : graph[h].state # "capturing" BY <1>1 DEF Capturing
    <2>4. GraphsOK' BY <1>1, <1>2, <1>9, <2>1, <2>3 DEF GraphsOK
    <2>5. ASSUME NEW h \in Graphs, Needs(h)'
          PROVE  \/ memory'[h] = {}
                 \/ memory'[h] = memory[h] /\ Needs(h) /\ graph'[h].pool = graph[h].pool
      <3>1. CASE h = g BY <1>8, <3>1
      <3>2. CASE h # g BY <1>1, <2>1, <2>5, <3>2 DEF Needs
      <3> QED BY <3>1, <3>2
    <2>6. ASSUME NEW q \in Ids
          PROVE  Cardinality(GraphsOf(q)') =
                    IF q = p /\ r.state = "capturing" THEN Cardinality(GraphsOf(q)) + 1
                    ELSE Cardinality(GraphsOf(q))
      <3>1. g \notin GraphsOf(q) BY <1>1 DEF GraphsOf
      <3>2. g \in GraphsOf(q)' <=> q = p /\ r.state = "capturing" BY <1>2, <1>9, GraphsOfThen
      <3> QED BY <1>2, <1>9, <3>1, <3>2, GraphsOfThen
    <2> QED BY <2>1, <2>2, <2>4, <2>5, <2>6
  <1>10. \A q \in Ids : MemPoolsOf(q)' = MemPoolsOf(q) BY <1>1 DEF MemPoolsOf
  <1>11. \A q \in Ids : Stuck(q)' = IF [id |-> q, by |-> NULL] \in Entries' THEN 1 ELSE 0
    BY DEF Stuck, Entries
  <1>12. CASE UNCHANGED captures_underway /\ UNCHANGED <<context, graph>>
    BY <1>1, <1>12, ThrownStep
  <1>13. CASE /\ p \notin Recording
              /\ captures_underway' = Append(captures_underway, [id |-> p, by |-> t])
              /\ Enter(t, "graph", p)
              /\ graph' = [graph EXCEPT ![g] = [state |-> "capturing", pool |-> p]]
    <2>1. PICK r : r = [state |-> "capturing", pool |-> p] OBVIOUS
    <2>2. /\ graph' = [graph EXCEPT ![g] = r] /\ r.state = "capturing" /\ r.pool = p
          /\ r \in [state : {"new", "capturing", "captured", "failed"}, pool : Ids \cup {NULL}]
      BY <1>13, <2>1
    <2>3. /\ \A h \in Graphs : graph'[h] = IF h = g THEN r ELSE graph[h]
          /\ graph' \in [Graphs -> [state : {"new", "capturing", "captured", "failed"},
                                    pool : Ids \cup {NULL}]]
          /\ GraphsOK'
          /\ \A h \in Graphs : Needs(h)' =>
               \/ memory'[h] = {}
               \/ memory'[h] = memory[h] /\ Needs(h) /\ graph'[h].pool = graph[h].pool
          /\ \A q \in Ids : Cardinality(GraphsOf(q)') =
                    IF q = p THEN Cardinality(GraphsOf(q)) + 1 ELSE Cardinality(GraphsOf(q))
      BY <1>9, <2>2
    <2>4. PICK n : n = Len(context[t]) OBVIOUS
    <2>5. /\ captures_underway' \in Seq(Entry) /\ context' \in [Threads -> Seq(Context)]
          /\ Distinct' /\ Mirrored' /\ EndedIsTop'
          /\ (\A u \in Threads : Len(context[u]) <= MaxNest /\ InsideOnce(u))'
          /\ \A u \in Threads : u # t => context'[u] = context[u]
          /\ n \in Nat /\ DOMAIN context[t] = 1 .. n /\ DOMAIN context'[t] = 1 .. n + 1
          /\ \A k \in 1 .. n : context'[t][k] = context[t][k]
          /\ context'[t][n + 1] = [kind |-> "graph", id |-> p]
          /\ \A f : f \in Entries' <=> f \in Entries \/ f = [id |-> p, by |-> t]
      BY <1>1, <1>3, <1>13, <2>4, EnterSide
    <2>6. OwnersTyped' BY <1>1, <1>2, <2>3, <2>5 DEF OwnersTyped
    <2>7. \A u \in Threads : \A k \in DOMAIN context'[u] : context'[u][k].kind = "graph" =>
            u = t /\ k = n + 1
      <3>1. \A k \in 1 .. n + 1 : k \in 1 .. n \/ k = n + 1 BY <2>5
      <3> QED BY <1>7, <2>5, <3>1
    <2>8. GraphContexts'
      <3>1. graph'[g] = [state |-> "capturing", pool |-> context'[t][n + 1].id] BY <2>1, <2>3, <2>5
      <3> QED BY <2>7, <3>1 DEF GraphContexts
    <2>9. ContextsSide' BY <2>5, <2>8 DEF ContextsSide
    <2>10. ASSUME NEW q \in Ids PROVE CountOK(q)'
      <3>1. Cardinality(ContextsOf(q)') = Cardinality(ContextsOf(q))
        BY <1>2, <1>3, <1>13, ContextsOfEntered
      <3>2. Stuck(q)' = Stuck(q)
        <4>1. [id |-> q, by |-> NULL] # [id |-> p, by |-> t] BY NullAssumption
        <4> QED BY <1>11, <2>5, <4>1, StuckIs
      <3>3. Holders(q)' = MemPoolsOf(q)' + Cardinality(GraphsOf(q)') + Cardinality(ContextsOf(q)')
        BY DEF Holders
      <3>4. use_count'[q] >= Holders(q)' + Stuck(q)'
        BY <1>4, <1>10, <2>3, <3>1, <3>2, <3>3, CountNow
      <3> QED BY <3>4 DEF CountOK
    <2>11. \A u \in Threads : call[u].at # "idle" => context'[u] = context[u] BY <1>3, <2>5
    <2> QED BY <1>1, <1>4, <1>5, <1>6, <2>3, <2>6, <2>9, <2>10, <2>11, OwnerStep
  <1>14. CASE /\ p \notin Recording
              /\ captures_underway' = Append(captures_underway, [id |-> p, by |-> NULL])
              /\ graph' = [graph EXCEPT ![g] = [state |-> "failed", pool |-> p]]
              /\ UNCHANGED context
    <2>1. PICK r : r = [state |-> "failed", pool |-> p] OBVIOUS
    <2>2. /\ graph' = [graph EXCEPT ![g] = r] /\ r.state = "failed" /\ r.pool = p
          /\ r \in [state : {"new", "capturing", "captured", "failed"}, pool : Ids \cup {NULL}]
      BY <1>14, <2>1
    <2>3. /\ \A h \in Graphs : graph'[h] = IF h = g THEN r ELSE graph[h]
          /\ graph' \in [Graphs -> [state : {"new", "capturing", "captured", "failed"},
                                    pool : Ids \cup {NULL}]]
          /\ GraphsOK'
          /\ \A h \in Graphs : Needs(h)' =>
               \/ memory'[h] = {}
               \/ memory'[h] = memory[h] /\ Needs(h) /\ graph'[h].pool = graph[h].pool
          /\ \A q \in Ids : Cardinality(GraphsOf(q)') = Cardinality(GraphsOf(q))
      BY <1>9, <2>2
    <2>4. PICK e : e = [id |-> p, by |-> NULL] OBVIOUS
    <2>5. e \in Entry /\ e.id = p BY <2>4 DEF Entry
    <2>6. /\ captures_underway' \in Seq(Entry) /\ Distinct'
          /\ \A f : f \in Entries' <=> f \in Entries \/ f = e
      BY <1>2, <1>14, <2>4, <2>5, Appended DEF ContextsSide
    <2>7. OwnersTyped' BY <1>1, <1>2, <1>14, <2>3, <2>6 DEF OwnersTyped
    <2>8. Mirrored'
      <3> SUFFICES ASSUME NEW u \in Threads, NEW q \in Ids
                   PROVE  Inside(u, q)' <=> [id |-> q, by |-> u] \in Entries'
        BY DEF Mirrored
      <3>1. [id |-> q, by |-> u] # e BY <2>4, NullAssumption
      <3>2. Inside(u, q)' <=> Inside(u, q) BY <1>14 DEF Inside
      <3> QED BY <1>2, <2>6, <3>1, <3>2 DEF ContextsSide, Mirrored
    <2>9. GraphContexts' BY <1>7, <1>14 DEF GraphContexts
    <2>10. EndedIsTop' BY <1>1, <1>2, <1>14 DEF ContextsSide, EndedIsTop
    <2>11. (\A u \in Threads : Len(context[u]) <= MaxNest /\ InsideOnce(u))'
      BY <1>2, <1>14 DEF ContextsSide, InsideOnce
    <2>12. ContextsSide' BY <2>6, <2>8, <2>9, <2>10, <2>11 DEF ContextsSide
    <2>13. ASSUME NEW q \in Ids PROVE CountOK(q)'
      <3>1. ContextsOf(q)' = ContextsOf(q) BY <1>14 DEF ContextsOf
      <3>2. Stuck(q)' = IF q = p THEN 1 ELSE Stuck(q)
        <4>1. [id |-> q, by |-> NULL] = e <=> q = p BY <2>4
        <4> QED BY <1>11, <2>6, <4>1, StuckIs
      <3>3. q = p => Stuck(q) = 0
        <4>1. e \notin Entries BY <1>14, <2>5, RecordingIs
        <4> QED BY <2>4, <4>1, StuckIs
      <3>4. Holders(q)' = MemPoolsOf(q)' + Cardinality(GraphsOf(q)') + Cardinality(ContextsOf(q)')
        BY DEF Holders
      <3>5. use_count'[q] >= Holders(q)' + Stuck(q)'
        BY <1>4, <1>10, <2>3, <3>1, <3>2, <3>3, <3>4, CountNow
      <3> QED BY <3>5 DEF CountOK
    <2>14. \A u \in Threads : call[u].at # "idle" => context'[u] = context[u] BY <1>14
    <2> QED BY <1>1, <1>4, <1>5, <1>6, <2>3, <2>7, <2>12, <2>13, <2>14, OwnerStep
  <1> QED BY <1>12, <1>13, <1>14 DEF CaptureBegin, beginAllocateToPool

(***************************************************************************)
(* Ending it.                                                              *)
(***************************************************************************)
\* The innermost context of t goes, or is marked as ended.
LEMMA ContextsOfDeparted ==
  ASSUME OwnersTyped, NEW t \in Threads, context[t] # <<>>, Leave(t),
         Len(context[t]) <= MaxNest, NEW q \in Ids
  PROVE  Cardinality(ContextsOf(q)') = IF q = Top(t).id /\ Top(t).kind # "graph"
                                      THEN Cardinality(ContextsOf(q)) - 1
                                      ELSE Cardinality(ContextsOf(q))
  <1>1. PICK n : n = Len(context[t]) OBVIOUS
  <1>2. /\ \A u \in Threads : u # t => context'[u] = context[u]
        /\ n \in Nat \ {0} /\ Len(context'[t]) = n - 1
        /\ \A k \in 1 .. n - 1 : context'[t][k] = context[t][k]
    BY <1>1, Departed
  <1>3. PICK c : c = Top(t) OBVIOUS
  <1>4. context[t][n] = c BY <1>1, <1>3 DEF Top
  <1>5. n \in 1 .. MaxNest BY <1>1, <1>2, PoolBoundAssumption
  <1>6. PICK A : A = ContextsOf(q) OBVIOUS
  <1>7. PICK B : B = ContextsOf(q)' OBVIOUS
  <1>8. \A u, k : <<u, k>> \in A <=>
           /\ u \in Threads /\ k \in 1 .. MaxNest /\ k <= Len(context[u])
           /\ context[u][k].kind # "graph" /\ context[u][k].id = q
    BY <1>6, ContextsOfIs
  <1>9. \A u, k : <<u, k>> \in B <=>
           /\ u \in Threads /\ k \in 1 .. MaxNest /\ k <= Len(context'[u])
           /\ context'[u][k].kind # "graph" /\ context'[u][k].id = q
    BY <1>7 DEF ContextsOf
  <1>10. (\A w \in A : w = <<w[1], w[2]>>) /\ (\A w \in B : w = <<w[1], w[2]>>)
    BY <1>6, <1>7 DEF ContextsOf
  <1>11. IsFiniteSet(A) /\ Cardinality(A) \in Nat BY <1>6, HoldersFinite
  <1>12. \A k \in 1 .. MaxNest : k <= n <=> k \in 1 .. n - 1 \/ k = n
    BY <1>2, PoolBoundAssumption
  <1>13. \A k \in 1 .. MaxNest : k <= n - 1 <=> k \in 1 .. n - 1 BY <1>2, PoolBoundAssumption
  <1>14. n \notin 1 .. n - 1 BY <1>2
  <1>15. ASSUME NEW u, NEW k
         PROVE  <<u, k>> \in B <=> <<u, k>> \in A /\ ~(u = t /\ k = n)
    <2>1. CASE u # t BY <1>2, <1>8, <1>9, <2>1
    <2>2. CASE u = t /\ k \in 1 .. n - 1
      <3>1. k \in 1 .. MaxNest /\ k <= n - 1 /\ k <= n /\ k # n
        BY <1>2, <1>5, <2>2, PoolBoundAssumption
      <3>2. context'[t][k] = context[t][k] BY <1>2, <2>2
      <3>3. <<u, k>> \in A <=> context[t][k].kind # "graph" /\ context[t][k].id = q
        BY <1>1, <1>8, <2>2, <3>1
      <3>4. <<u, k>> \in B <=> context'[t][k].kind # "graph" /\ context'[t][k].id = q
        BY <1>2, <1>9, <2>2, <3>1
      <3> QED BY <3>1, <3>2, <3>3, <3>4
    <2>3. CASE u = t /\ k \notin 1 .. n - 1
      BY <1>1, <1>2, <1>5, <1>8, <1>9, <1>12, <1>13, <2>3
    <2> QED BY <2>1, <2>2, <2>3
  <1>16. PICK w : w = <<t, n>> OBVIOUS
  <1>17. w \in A <=> q = c.id /\ c.kind # "graph" BY <1>1, <1>2, <1>4, <1>5, <1>8, <1>12, <1>16
  <1>18. \A v : v \in B <=> v \in A \ {w}
    <2>1. ASSUME NEW v \in B PROVE v \in A \ {w} BY <1>10, <1>15, <1>16, <2>1
    <2>2. ASSUME NEW v \in A \ {w} PROVE v \in B BY <1>10, <1>15, <1>16, <2>2
    <2> QED BY <2>1, <2>2
  <1>19. B = A \ {w} BY <1>18
  <1>20. CASE q = c.id /\ c.kind # "graph"
    <2>1. Cardinality(A \ {w}) = Cardinality(A) - 1 BY <1>11, <1>17, <1>20, FS_RemoveElement
    <2> QED BY <1>3, <1>6, <1>7, <1>19, <1>20, <2>1
  <1>21. CASE ~(q = c.id /\ c.kind # "graph")
    <2>1. A \ {w} = A BY <1>17, <1>21
    <2> QED BY <1>3, <1>6, <1>7, <1>19, <1>21, <2>1
  <1> QED BY <1>20, <1>21

LEMMA ContextsOfMarked ==
  ASSUME OwnersTyped, NEW t \in Threads, context[t] # <<>>, Top(t).kind = "use",
         context' = [context EXCEPT ![t][Len(context[t])].kind = "ended"], NEW q
  PROVE  ContextsOf(q)' = ContextsOf(q)
  <1>1. PICK n : n = Len(context[t]) OBVIOUS
  <1>2. /\ \A u \in Threads : u # t => context'[u] = context[u]
        /\ n \in Nat \ {0} /\ Len(context'[t]) = n
        /\ \A k \in 1 .. n - 1 : context'[t][k] = context[t][k]
        /\ context'[t][n] = [kind |-> "ended", id |-> Top(t).id]
    BY <1>1, Marked
  <1>3. context[t][n] = Top(t) BY <1>1 DEF Top
  <1>4. ASSUME NEW u \in Threads, NEW k \in 1 .. MaxNest
        PROVE  /\ k <= Len(context'[u]) <=> k <= Len(context[u])
               /\ k <= Len(context[u]) =>
                    /\ context'[u][k].kind # "graph" <=> context[u][k].kind # "graph"
                    /\ context'[u][k].id = context[u][k].id
    <2>1. CASE u # t BY <1>2, <2>1
    <2>2. CASE u = t
      <3>1. Len(context'[t]) = Len(context[t]) BY <1>1, <1>2
      <3>2. k <= n => k \in 1 .. n - 1 \/ k = n BY <1>2, PoolBoundAssumption
      <3>3. /\ context'[t][n].kind # "graph" /\ context[t][n].kind # "graph"
            /\ context'[t][n].id = context[t][n].id
        BY <1>2, <1>3
      <3> QED BY <1>1, <1>2, <2>2, <3>1, <3>2, <3>3
    <2> QED BY <2>1, <2>2
  <1>5. \A w \in Threads \X (1 .. MaxNest) : w[1] \in Threads /\ w[2] \in 1 .. MaxNest OBVIOUS
  <1> QED BY <1>4, <1>5 DEF ContextsOf

\* The context on top stands for nothing any more.
Dropped(t) ==
  /\ context' \in [Threads -> Seq(Context)]
  /\ \A u \in Threads : u # t => context'[u] = context[u]
  /\ Len(context'[t]) <= Len(context[t]) /\ Len(context'[t]) \in Nat
  /\ \A k \in DOMAIN context'[t] :
       \/ k \in DOMAIN context[t] /\ k # Len(context[t]) /\ context'[t][k] = context[t][k]
       \/ k = Len(context[t]) /\ Len(context'[t]) = k /\ context'[t][k].kind = "ended"
  /\ \A k \in DOMAIN context[t] : k # Len(context[t]) => k \in DOMAIN context'[t]

LEMMA DepartedDrops ==
  ASSUME OwnersTyped, NEW t \in Threads, context[t] # <<>>, Leave(t)
  PROVE  Dropped(t) /\ Len(context'[t]) = Len(context[t]) - 1
  <1>1. /\ context' \in [Threads -> Seq(Context)]
        /\ \A u \in Threads : u # t => context'[u] = context[u]
        /\ Len(context[t]) \in Nat \ {0} /\ DOMAIN context[t] = 1 .. Len(context[t])
        /\ Len(context'[t]) = Len(context[t]) - 1
        /\ DOMAIN context'[t] = 1 .. Len(context[t]) - 1
        /\ \A k \in 1 .. Len(context[t]) - 1 : context'[t][k] = context[t][k]
    BY Departed
  <1>2. \A k \in 1 .. Len(context[t]) - 1 : k \in 1 .. Len(context[t]) /\ k # Len(context[t]) BY <1>1
  <1>3. \A k \in 1 .. Len(context[t]) : k # Len(context[t]) => k \in 1 .. Len(context[t]) - 1 BY <1>1
  <1>4. Len(context'[t]) <= Len(context[t]) /\ Len(context'[t]) \in Nat BY <1>1
  <1> QED BY <1>1, <1>2, <1>3, <1>4 DEF Dropped

LEMMA MarkedDrops ==
  ASSUME OwnersTyped, NEW t \in Threads, context[t] # <<>>,
         context' = [context EXCEPT ![t][Len(context[t])].kind = "ended"]
  PROVE  Dropped(t)
  <1>1. /\ context' \in [Threads -> Seq(Context)]
        /\ \A u \in Threads : u # t => context'[u] = context[u]
        /\ Len(context[t]) \in Nat \ {0} /\ DOMAIN context[t] = 1 .. Len(context[t])
        /\ Len(context'[t]) = Len(context[t])
        /\ DOMAIN context'[t] = 1 .. Len(context[t])
        /\ \A k \in 1 .. Len(context[t]) - 1 : context'[t][k] = context[t][k]
        /\ context'[t][Len(context[t])] = [kind |-> "ended", id |-> Top(t).id]
    BY Marked
  <1>2. \A k \in 1 .. Len(context[t]) : k # Len(context[t]) => k \in 1 .. Len(context[t]) - 1 BY <1>1
  <1>3. Len(context'[t]) <= Len(context[t]) /\ Len(context'[t]) \in Nat BY <1>1
  <1>4. context'[t][Len(context[t])].kind = "ended" BY <1>1
  <1> QED BY <1>1, <1>2, <1>3, <1>4 DEF Dropped

\* What is left of the contexts then.
LEMMA DroppedSide ==
  ASSUME Sides, NEW t \in Threads, context[t] # <<>>, Dropped(t), call[t].at = "idle", UNCHANGED call
  PROVE  /\ \A u \in Threads : \A q \in Ids :
              Inside(u, q)' <=> Inside(u, q) /\ ~(u = t /\ Top(t).kind # "ended" /\ q = Top(t).id)
         /\ EndedIsTop'
         /\ (\A u \in Threads : Len(context[u]) <= MaxNest /\ InsideOnce(u))'
         /\ \A u \in Threads : \A k \in DOMAIN context'[u] : context'[u][k].kind = "graph" =>
              k \in DOMAIN context[u] /\ context'[u][k] = context[u][k]
              /\ ~(u = t /\ k = Len(context[t]))
  <1>1. OwnersTyped /\ ContextsSide BY ContextsSideIs DEF Sides
  <1>2. PICK n : n = Len(context[t]) OBVIOUS
  <1>3. n \in Nat /\ DOMAIN context[t] = 1 .. n /\ n \in DOMAIN context[t]
    BY <1>1, <1>2, ContextTyped, TopIsInnermost
  <1>4. context[t][n] = Top(t) BY <1>2 DEF Top
  <1>5. /\ context' \in [Threads -> Seq(Context)]
        /\ \A u \in Threads : u # t => context'[u] = context[u]
        /\ Len(context'[t]) <= n /\ Len(context'[t]) \in Nat
        /\ \A k \in DOMAIN context'[t] :
             \/ k \in DOMAIN context[t] /\ k # n /\ context'[t][k] = context[t][k]
             \/ k = n /\ Len(context'[t]) = k /\ context'[t][k].kind = "ended"
        /\ \A k \in DOMAIN context[t] : k # n => k \in DOMAIN context'[t]
    BY <1>2 DEF Dropped
  <1>6. InsideOnce(t) /\ Len(context[t]) <= MaxNest BY <1>1 DEF ContextsSide
  <1>7. ASSUME NEW u \in Threads, NEW q \in Ids
        PROVE  Inside(u, q)' <=> Inside(u, q) /\ ~(u = t /\ Top(t).kind # "ended" /\ q = Top(t).id)
    <2>1. CASE u # t BY <1>5, <2>1 DEF Inside
    <2>2. CASE u = t
      <3>1. ASSUME Inside(t, q)'
            PROVE  Inside(t, q) /\ ~(Top(t).kind # "ended" /\ q = Top(t).id)
        <4>1. PICK k \in DOMAIN context'[t] : context'[t][k].kind # "ended" /\ context'[t][k].id = q
          BY <3>1 DEF Inside
        <4>2. k \in DOMAIN context[t] /\ k # n /\ context'[t][k] = context[t][k] BY <1>5, <4>1
        <4> QED BY <1>3, <1>4, <1>6, <4>1, <4>2 DEF Inside, InsideOnce
      <3>2. ASSUME Inside(t, q), ~(Top(t).kind # "ended" /\ q = Top(t).id)
            PROVE  Inside(t, q)'
        <4>1. PICK k \in DOMAIN context[t] : context[t][k].kind # "ended" /\ context[t][k].id = q
          BY <3>2 DEF Inside
        <4>2. k # n BY <1>4, <3>2, <4>1
        <4>3. k \in DOMAIN context'[t] BY <1>5, <4>2
        <4>4. context'[t][k] = context[t][k] BY <1>5, <4>2, <4>3
        <4> QED BY <4>1, <4>3, <4>4 DEF Inside
      <3> QED BY <2>2, <3>1, <3>2
    <2> QED BY <2>1, <2>2
  <1>8. EndedIsTop'
    <2> SUFFICES ASSUME NEW u \in Threads, NEW k \in DOMAIN context'[u], context'[u][k].kind = "ended"
                 PROVE  k = Len(context'[u]) /\ call[u].at = "idle"
      BY DEF EndedIsTop
    <2>1. CASE u # t BY <1>1, <1>5, <2>1 DEF ContextsSide, EndedIsTop
    <2>2. CASE u = t
      <3>1. ASSUME k # n PROVE FALSE
        <4>1. k \in DOMAIN context[t] /\ context'[t][k] = context[t][k] BY <1>5, <2>2, <3>1
        <4> QED BY <1>1, <1>2, <2>2, <3>1, <4>1 DEF ContextsSide, EndedIsTop
      <3> QED BY <1>5, <2>2, <3>1
    <2> QED BY <2>1, <2>2
  <1>9. ASSUME NEW u \in Threads PROVE Len(context'[u]) <= MaxNest /\ InsideOnce(u)'
    <2>1. CASE u # t
      <3>1. Len(context[u]) <= MaxNest /\ InsideOnce(u) BY <1>1 DEF ContextsSide
      <3> QED BY <1>5, <2>1, <3>1 DEF InsideOnce
    <2>2. CASE u = t
      <3>1. Len(context'[t]) <= MaxNest BY <1>2, <1>3, <1>5, <1>6, PoolBoundAssumption
      <3>2. ASSUME NEW k \in DOMAIN context'[t], NEW l \in DOMAIN context'[t],
                   context'[t][k].kind # "ended", context'[t][l].kind # "ended",
                   context'[t][k].id = context'[t][l].id
            PROVE  k = l
        <4>1. k \in DOMAIN context[t] /\ context'[t][k] = context[t][k] BY <1>5, <3>2
        <4>2. l \in DOMAIN context[t] /\ context'[t][l] = context[t][l] BY <1>5, <3>2
        <4> QED BY <1>6, <3>2, <4>1, <4>2 DEF InsideOnce
      <3> QED BY <2>2, <3>1, <3>2 DEF InsideOnce
    <2> QED BY <2>1, <2>2
  <1>10. (\A u \in Threads : Len(context[u]) <= MaxNest /\ InsideOnce(u))' BY <1>9
  <1>11. ASSUME NEW u \in Threads, NEW k \in DOMAIN context'[u], context'[u][k].kind = "graph"
         PROVE  k \in DOMAIN context[u] /\ context'[u][k] = context[u][k] /\ ~(u = t /\ k = n)
    <2>1. CASE u # t BY <1>5, <2>1
    <2>2. CASE u = t BY <1>5, <1>11, <2>2
    <2> QED BY <2>1, <2>2
  <1> QED BY <1>2, <1>7, <1>8, <1>10, <1>11

LEMMA OnlyEntry ==
  ASSUME Distinct, NEW e \in Entries, NEW f \in Entries, e.id = f.id
  PROVE  e = f
BY DEF Entries, Distinct

\* What a thread is in has its entry, and no other thread is in it.
LEMMA TopRecords ==
  ASSUME Sides, NEW t \in Threads, context[t] # <<>>
  PROVE  /\ Top(t).id \in Ids /\ Used(Top(t).id) /\ Top(t).kind \in {"use", "ended", "graph"}
         /\ Top(t).kind # "ended" =>
              /\ Inside(t, Top(t).id)
              /\ [id |-> Top(t).id, by |-> t] \in Entries
              /\ \A e \in Entries : e.id = Top(t).id => e = [id |-> Top(t).id, by |-> t]
              /\ \A u \in Threads : Inside(u, Top(t).id) => u = t
  <1>1. OwnersTyped /\ ContextsSide BY ContextsSideIs DEF Sides
  <1>2. PICK n : n = Len(context[t]) OBVIOUS
  <1>3. n \in DOMAIN context[t] BY <1>1, <1>2, TopIsInnermost
  <1>4. context[t][n] = Top(t) BY <1>2 DEF Top
  <1>5. Top(t).id \in Ids /\ Used(Top(t).id) BY <1>3, <1>4, ContextUsed
  <1>6. Top(t).kind \in {"use", "ended", "graph"} BY <1>1, <1>3, <1>4, ContextTyped
  <1>7. ASSUME Top(t).kind # "ended"
        PROVE  /\ Inside(t, Top(t).id)
               /\ [id |-> Top(t).id, by |-> t] \in Entries
               /\ \A e \in Entries : e.id = Top(t).id => e = [id |-> Top(t).id, by |-> t]
               /\ \A u \in Threads : Inside(u, Top(t).id) => u = t
    <2>1. Inside(t, Top(t).id) BY <1>3, <1>4, <1>7 DEF Inside
    <2>2. PICK e : e = [id |-> Top(t).id, by |-> t] OBVIOUS
    <2>3. e \in Entries BY <1>1, <1>5, <2>1, <2>2 DEF ContextsSide, Mirrored
    <2>4. \A f \in Entries : f.id = Top(t).id => f = e BY <1>1, <2>2, <2>3, OnlyEntry DEF ContextsSide
    <2>5. ASSUME NEW u \in Threads, Inside(u, Top(t).id) PROVE u = t
      <3>1. [id |-> Top(t).id, by |-> u] \in Entries
        BY <1>1, <1>5, <2>5 DEF ContextsSide, Mirrored
      <3>2. [id |-> Top(t).id, by |-> u] = e BY <2>4, <3>1
      <3> QED BY <2>2, <3>2
    <2> QED BY <2>1, <2>2, <2>3, <2>4, <2>5
  <1> QED BY <1>5, <1>6, <1>7

\* Contexts and entries after the one on top has gone with its entry.
LEMMA DroppedMirrors ==
  ASSUME Sides, NEW t \in Threads, context[t] # <<>>, Dropped(t), call[t].at = "idle",
         UNCHANGED call, captures_underway' \in Seq(Entry), Distinct', GraphContexts',
         \A u \in Threads : \A q \in Ids :
           [id |-> q, by |-> u] \in Entries' <=>
             [id |-> q, by |-> u] \in Entries /\ ~(Top(t).kind # "ended" /\ q = Top(t).id)
  PROVE  ContextsSide'
  <1>1. Mirrored BY ContextsSideIs DEF Sides, ContextsSide
  <1>2. /\ \A u \in Threads : \A q \in Ids :
              Inside(u, q)' <=> Inside(u, q) /\ ~(u = t /\ Top(t).kind # "ended" /\ q = Top(t).id)
        /\ EndedIsTop'
        /\ (\A u \in Threads : Len(context[u]) <= MaxNest /\ InsideOnce(u))'
    BY DroppedSide
  <1>3. Mirrored'
    <2> SUFFICES ASSUME NEW u \in Threads, NEW q \in Ids
                 PROVE  Inside(u, q)' <=> [id |-> q, by |-> u] \in Entries'
      BY DEF Mirrored
    <2>1. Inside(u, q) <=> [id |-> q, by |-> u] \in Entries BY <1>1 DEF Mirrored
    <2>2. Top(t).kind # "ended" /\ q = Top(t).id /\ Inside(u, q) => u = t BY TopRecords
    <2> QED BY <1>2, <2>1, <2>2
  <1> QED BY <1>2, <1>3 DEF ContextsSide

LEMMA FewerGraphContexts ==
  ASSUME GraphContexts, UNCHANGED graph,
         \A u \in Threads : \A k \in DOMAIN context'[u] : context'[u][k].kind = "graph" =>
           k \in DOMAIN context[u] /\ context'[u][k] = context[u][k]
  PROVE  GraphContexts'
  <1> SUFFICES ASSUME NEW t \in Threads, NEW k \in DOMAIN context'[t], context'[t][k].kind = "graph"
               PROVE  /\ \E g \in Graphs :
                           graph'[g] = [state |-> "capturing", pool |-> context'[t][k].id]
                      /\ \A u \in Threads : \A l \in DOMAIN context'[u] :
                           context'[u][l].kind = "graph" => u = t /\ l = k
    BY DEF GraphContexts
  <1>1. k \in DOMAIN context[t] /\ context[t][k].kind = "graph" /\ context'[t][k].id = context[t][k].id
    OBVIOUS
  <1>2. PICK g \in Graphs : graph[g] = [state |-> "capturing", pool |-> context[t][k].id]
    BY <1>1 DEF GraphContexts
  <1>3. ASSUME NEW u \in Threads, NEW l \in DOMAIN context'[u], context'[u][l].kind = "graph"
        PROVE  u = t /\ l = k
    <2>1. l \in DOMAIN context[u] /\ context[u][l].kind = "graph" BY <1>3
    <2>2. \A v \in Threads : \A m \in DOMAIN context[v] :
            context[v][m].kind = "graph" => v = t /\ m = k
      BY <1>1 DEF GraphContexts
    <2> QED BY <2>1, <2>2
  <1>4. graph'[g] = [state |-> "capturing", pool |-> context'[t][k].id] BY <1>1, <1>2
  <1> QED BY <1>3, <1>4

LEMMA EndAllocateToPoolStep ==
  ASSUME Sides, NEW t \in Threads, EndAllocateToPool(t)
  PROVE  Sides'
  <1>1. /\ call[t].at = "idle" /\ context[t] # <<>> /\ Top(t).kind = "use"
        /\ endAllocateToPool(Top(t).id)
        /\ context' = [context EXCEPT ![t][Len(context[t])].kind = "ended"]
        /\ UNCHANGED <<scenario, poolVars, use_on_oom_pools, segment, lock, call, mempool, graph,
                       abort, memory>>
    BY DEF EndAllocateToPool
  <1>2. OwnersTyped /\ CallsTyped /\ PoolsSide /\ ContextsSide BY ContextsSideIs DEF Sides
  <1>3. PICK p : p = Top(t).id OBVIOUS
  <1>4. /\ captures_underway' \in Seq(Entry) /\ Distinct'
        /\ \A f : f \in Entries' <=> f \in Entries /\ f.id # p
    BY <1>1, <1>2, <1>3, EntryRemoved DEF ContextsSide
  <1>5. Dropped(t) BY <1>1, <1>2, MarkedDrops
  <1>6. /\ context' \in [Threads -> Seq(Context)]
        /\ \A u \in Threads : u # t => context'[u] = context[u]
    BY <1>5 DEF Dropped
  <1>7. OwnersTyped' BY <1>1, <1>2, <1>4, <1>6 DEF OwnersTyped
  <1>8. GraphContexts'
    <2>1. \A u \in Threads : \A k \in DOMAIN context'[u] : context'[u][k].kind = "graph" =>
            k \in DOMAIN context[u] /\ context'[u][k] = context[u][k]
      BY <1>1, <1>5, DroppedSide
    <2> QED BY <1>1, <1>2, <2>1, FewerGraphContexts DEF ContextsSide
  <1>9. \A u \in Threads : \A q \in Ids :
          [id |-> q, by |-> u] \in Entries' <=> [id |-> q, by |-> u] \in Entries /\ q # p
    BY <1>4
  <1>10. ContextsSide' BY <1>1, <1>3, <1>4, <1>5, <1>8, <1>9, DroppedMirrors
  <1>11. PoolsSide' /\ graph_pools' = graph_pools /\ musaMalloc_count' = musaMalloc_count
         /\ \A q \in Ids : use_count'[q] = use_count[q]
    BY <1>1, <1>2, SameIsSelf DEF poolVars
  <1>12. SegmentsSide' BY <1>1, <1>11, SegmentsUnmoved
  <1>13. GraphsOK' BY <1>1 DEF Sides, GraphsOK
  <1>14. ASSUME NEW q \in Ids PROVE CountOK(q)'
    <2>1. MemPoolsOf(q)' = MemPoolsOf(q) BY <1>1 DEF MemPoolsOf
    <2>2. GraphsOf(q)' = GraphsOf(q) BY <1>1 DEF GraphsOf
    <2>3. ContextsOf(q)' = ContextsOf(q) BY <1>1, <1>2, ContextsOfMarked
    <2>4. Stuck(q)' = Stuck(q)
      <3>1. PICK e : e = [id |-> q, by |-> NULL] OBVIOUS
      <3>2. e.id = q /\ e.by = NULL BY <3>1
      <3>3. q = p => e \notin Entries
        <4>1. e \in Entries /\ q = p => e = [id |-> p, by |-> t] BY <1>1, <1>3, <3>2, TopRecords
        <4>2. [id |-> p, by |-> t].by = t OBVIOUS
        <4> QED BY <3>2, <4>1, <4>2, NullAssumption
      <3>4. e \in Entries' <=> e \in Entries BY <1>4, <3>2, <3>3
      <3>5. Stuck(q)' = IF e \in Entries' THEN 1 ELSE 0 BY <3>1 DEF Stuck, Entries
      <3>6. Stuck(q) = IF e \in Entries THEN 1 ELSE 0 BY <3>1, StuckIs
      <3> QED BY <3>4, <3>5, <3>6
    <2>5. Holders(q)' = MemPoolsOf(q) + Cardinality(GraphsOf(q)) + Cardinality(ContextsOf(q))
      BY <2>1, <2>2, <2>3 DEF Holders
    <2>6. use_count'[q] >= Holders(q)' + Stuck(q)' BY <1>11, <2>4, <2>5, CountNow
    <2> QED BY <2>6 DEF CountOK
  <1>15. \A u \in Threads : call[u].at # "idle" => context'[u] = context[u] BY <1>1, <1>6
  <1>16. \A g \in Graphs : Needs(g)' =>
           \/ memory'[g] = {}
           \/ memory'[g] = memory[g] /\ Needs(g) /\ graph'[g].pool = graph[g].pool
    BY <1>1 DEF Needs
  <1>17. /\ use_on_oom_pools' \subseteq Ids
         /\ abort' \in {"no", "use_count_is_1", "captures_underway_is_empty"}
    BY <1>1, <1>2 DEF CallsTyped
  <1> QED BY <1>1, <1>7, <1>10, <1>11, <1>12, <1>13, <1>14, <1>15, <1>16, <1>17, OwnerStep

LEMMA ReleasePoolStep ==
  ASSUME Sides, NEW t \in Threads, ReleasePool(t)
  PROVE  Sides'
  <1>1. /\ call[t].at = "idle" /\ context[t] # <<>> /\ Top(t).kind = "ended"
        /\ releasePool(Top(t).id) /\ Leave(t)
        /\ UNCHANGED <<scenario, captures_underway, use_on_oom_pools, segment, lock, call, mempool,
                       graph, abort, memory>>
    BY DEF ReleasePool
  <1>2. OwnersTyped /\ CallsTyped /\ PoolsSide /\ ContextsSide BY ContextsSideIs DEF Sides
  <1>3. PICK p : p = Top(t).id OBVIOUS
  <1>4. p \in Ids /\ Used(p) BY <1>1, <1>3, TopRecords
  <1>5. /\ PoolsSide' /\ graph_pools' = graph_pools /\ musaMalloc_count' = musaMalloc_count
        /\ \A q \in Ids : use_count'[q] = IF q = p THEN use_count[q] - 1 ELSE use_count[q]
    BY <1>1, <1>2, <1>3, <1>4, Decref
  <1>6. SegmentsSide' BY <1>1, <1>5, SegmentsUnmoved
  <1>7. Dropped(t) BY <1>1, <1>2, DepartedDrops
  <1>8. /\ context' \in [Threads -> Seq(Context)]
        /\ \A u \in Threads : u # t => context'[u] = context[u]
    BY <1>7 DEF Dropped
  <1>9. Entries' = Entries BY <1>1 DEF Entries
  <1>10. captures_underway' \in Seq(Entry) BY <1>1, <1>2 DEF OwnersTyped
  <1>11. Distinct' BY <1>1, <1>2 DEF ContextsSide, Distinct
  <1>12. OwnersTyped' BY <1>1, <1>2, <1>8, <1>10 DEF OwnersTyped
  <1>13. GraphContexts'
    <2>1. \A u \in Threads : \A k \in DOMAIN context'[u] : context'[u][k].kind = "graph" =>
            k \in DOMAIN context[u] /\ context'[u][k] = context[u][k]
      BY <1>1, <1>7, DroppedSide
    <2> QED BY <1>1, <1>2, <2>1, FewerGraphContexts DEF ContextsSide
  <1>14. ContextsSide' BY <1>1, <1>7, <1>9, <1>10, <1>11, <1>13, DroppedMirrors
  <1>15. GraphsOK' BY <1>1 DEF Sides, GraphsOK
  <1>16. ASSUME NEW q \in Ids PROVE CountOK(q)'
    <2>1. MemPoolsOf(q)' = MemPoolsOf(q) BY <1>1 DEF MemPoolsOf
    <2>2. GraphsOf(q)' = GraphsOf(q) BY <1>1 DEF GraphsOf
    <2>3. Len(context[t]) <= MaxNest BY <1>2 DEF ContextsSide
    <2>4. Cardinality(ContextsOf(q)') = IF q = p THEN Cardinality(ContextsOf(q)) - 1
                                        ELSE Cardinality(ContextsOf(q))
      BY <1>1, <1>2, <1>3, <2>3, ContextsOfDeparted
    <2>5. Stuck(q)' = Stuck(q) BY <1>1 DEF Stuck
    <2>6. Holders(q)' = MemPoolsOf(q) + Cardinality(GraphsOf(q)) + Cardinality(ContextsOf(q)')
      BY <2>1, <2>2 DEF Holders
    <2>7. use_count'[q] >= Holders(q)' + Stuck(q)' BY <1>5, <2>4, <2>5, <2>6, CountNow
    <2> QED BY <2>7 DEF CountOK
  <1>17. \A u \in Threads : call[u].at # "idle" => context'[u] = context[u] BY <1>1, <1>8
  <1>18. \A g \in Graphs : Needs(g)' =>
           \/ memory'[g] = {}
           \/ memory'[g] = memory[g] /\ Needs(g) /\ graph'[g].pool = graph[g].pool
    BY <1>1 DEF Needs
  <1>19. /\ use_on_oom_pools' \subseteq Ids
         /\ abort' \in {"no", "use_count_is_1", "captures_underway_is_empty"}
    BY <1>1, <1>2 DEF CallsTyped
  <1> QED BY <1>1, <1>5, <1>6, <1>12, <1>14, <1>15, <1>16, <1>17, <1>18, <1>19, OwnerStep

LEMMA CaptureEndStep ==
  ASSUME Sides, NEW t \in Threads, NEW g \in Graphs, CaptureEnd(t, g)
  PROVE  Sides'
  <1>1. /\ call[t].at = "idle" /\ context[t] # <<>>
        /\ Top(t) = [kind |-> "graph", id |-> graph[g].pool] /\ graph[g].state = "capturing"
        /\ Leave(t)
        /\ UNCHANGED <<scenario, poolVars, use_on_oom_pools, segment, lock, call, mempool, abort, memory>>
    BY DEF CaptureEnd
  <1>2. OwnersTyped /\ CallsTyped /\ PoolsSide /\ ContextsSide /\ GraphsOK BY ContextsSideIs DEF Sides
  <1>3. PICK p : p = graph[g].pool OBVIOUS
  <1>4. Top(t).kind = "graph" /\ Top(t).id = p BY <1>1, <1>3
  <1>5. /\ p \in Ids /\ [id |-> p, by |-> t] \in Entries
        /\ \A e \in Entries : e.id = p => e = [id |-> p, by |-> t]
    BY <1>1, <1>4, TopRecords
  <1>6. /\ PoolsSide' /\ graph_pools' = graph_pools /\ musaMalloc_count' = musaMalloc_count
        /\ \A q \in Ids : use_count'[q] = use_count[q]
    BY <1>1, <1>2, SameIsSelf DEF poolVars
  <1>7. SegmentsSide' BY <1>1, <1>6, SegmentsUnmoved
  <1>8. Dropped(t) BY <1>1, <1>2, DepartedDrops
  <1>9. /\ context' \in [Threads -> Seq(Context)]
        /\ \A u \in Threads : u # t => context'[u] = context[u]
    BY <1>8 DEF Dropped
  <1>10. \A u \in Threads : \A k \in DOMAIN context'[u] : context'[u][k].kind # "graph"
    <2> SUFFICES ASSUME NEW u \in Threads, NEW k \in DOMAIN context'[u], context'[u][k].kind = "graph"
                 PROVE  FALSE
      OBVIOUS
    <2>1. PICK n : n = Len(context[t]) OBVIOUS
    <2>2. n \in DOMAIN context[t] BY <1>1, <1>2, <2>1, TopIsInnermost
    <2>3. context[t][n].kind = "graph" BY <1>4, <2>1 DEF Top
    <2>4. k \in DOMAIN context[u] /\ context'[u][k] = context[u][k] /\ ~(u = t /\ k = n)
      BY <1>1, <1>8, <2>1, DroppedSide
    <2>5. \A v \in Threads : \A l \in DOMAIN context[v] :
            context[v][l].kind = "graph" => v = t /\ l = n
      BY <1>2, <2>2, <2>3 DEF ContextsSide, GraphContexts
    <2> QED BY <2>4, <2>5
  <1>11. GraphContexts' BY <1>10 DEF GraphContexts
  <1>12. \A u \in Threads : call[u].at # "idle" => context'[u] = context[u] BY <1>1, <1>9
  <1>13. ASSUME NEW q \in Ids
         PROVE  /\ MemPoolsOf(q)' = MemPoolsOf(q)
                /\ Cardinality(ContextsOf(q)') = Cardinality(ContextsOf(q))
    <2>1. MemPoolsOf(q)' = MemPoolsOf(q) BY <1>1 DEF MemPoolsOf
    <2>2. Len(context[t]) <= MaxNest BY <1>2 DEF ContextsSide
    <2>3. Cardinality(ContextsOf(q)') = Cardinality(ContextsOf(q))
      BY <1>1, <1>2, <1>4, <2>2, ContextsOfDeparted
    <2> QED BY <2>1, <2>3
  <1>14. /\ use_on_oom_pools' \subseteq Ids
         /\ abort' \in {"no", "use_count_is_1", "captures_underway_is_empty"}
    BY <1>1, <1>2 DEF CallsTyped
  <1>15. ASSUME NEW r, graph' = [graph EXCEPT ![g] = r], r.pool = p, r.state \in {"captured", "failed"},
                r \in [state : {"new", "capturing", "captured", "failed"}, pool : Ids \cup {NULL}]
         PROVE  /\ graph' \in [Graphs -> [state : {"new", "capturing", "captured", "failed"},
                                          pool : Ids \cup {NULL}]]
                /\ GraphsOK'
                /\ \A h \in Graphs : Needs(h)' =>
                     \/ memory'[h] = {}
                     \/ memory'[h] = memory[h] /\ Needs(h) /\ graph'[h].pool = graph[h].pool
                /\ \A q \in Ids : Cardinality(GraphsOf(q)') =
                     IF q = p /\ r.state = "failed" THEN Cardinality(GraphsOf(q)) - 1
                     ELSE Cardinality(GraphsOf(q))
    <2>1. \A h \in Graphs : graph'[h] = IF h = g THEN r ELSE graph[h] BY <1>2, <1>15 DEF OwnersTyped
    <2>2. graph' \in [Graphs -> [state : {"new", "capturing", "captured", "failed"},
                                 pool : Ids \cup {NULL}]]
      BY <1>2, <1>15 DEF OwnersTyped
    <2>3. GraphsOK' BY <1>1, <1>2, <1>5, <1>15, <2>1 DEF GraphsOK
    <2>4. \A h \in Graphs : Needs(h)' =>
            \/ memory'[h] = {}
            \/ memory'[h] = memory[h] /\ Needs(h) /\ graph'[h].pool = graph[h].pool
      BY <1>1, <1>3, <1>15, <2>1 DEF Needs
    <2>5. ASSUME NEW q \in Ids
          PROVE  Cardinality(GraphsOf(q)') = IF q = p /\ r.state = "failed"
                                             THEN Cardinality(GraphsOf(q)) - 1
                                             ELSE Cardinality(GraphsOf(q))
      <3>1. g \in GraphsOf(q) <=> q = p BY <1>1, <1>3 DEF GraphsOf
      <3>2. g \in GraphsOf(q)' <=> q = p /\ r.state = "captured" BY <1>2, <1>15, GraphsOfThen
      <3>3. CASE q = p /\ r.state = "failed" BY <1>2, <1>15, <3>1, <3>2, <3>3, GraphsOfThen
      <3>4. CASE ~(q = p /\ r.state = "failed")
        <4>1. g \in GraphsOf(q)' <=> g \in GraphsOf(q) BY <1>15, <3>1, <3>2, <3>4
        <4>2. GraphsOf(q)' = GraphsOf(q) BY <1>2, <1>15, <4>1, GraphsOfThen
        <4> QED BY <3>4, <4>2
      <3> QED BY <3>3, <3>4
    <2> QED BY <2>2, <2>3, <2>4, <2>5
  <1>16. CASE /\ endAllocateToPool(p)
              /\ \E result \in {"captured", "failed"} : graph' = [graph EXCEPT ![g].state = result]
    <2>1. PICK result \in {"captured", "failed"} : graph' = [graph EXCEPT ![g].state = result] BY <1>16
    <2>2. PICK r : r = [graph[g] EXCEPT !.state = result] OBVIOUS
    <2>3. /\ graph' = [graph EXCEPT ![g] = r] /\ r.pool = p /\ r.state \in {"captured", "failed"}
          /\ r \in [state : {"new", "capturing", "captured", "failed"}, pool : Ids \cup {NULL}]
      BY <1>2, <1>3, <2>1, <2>2 DEF OwnersTyped
    <2>4. /\ graph' \in [Graphs -> [state : {"new", "capturing", "captured", "failed"},
                                    pool : Ids \cup {NULL}]]
          /\ GraphsOK'
          /\ \A h \in Graphs : Needs(h)' =>
               \/ memory'[h] = {}
               \/ memory'[h] = memory[h] /\ Needs(h) /\ graph'[h].pool = graph[h].pool
          /\ \A q \in Ids : \/ Cardinality(GraphsOf(q)') = Cardinality(GraphsOf(q)) - 1
                            \/ Cardinality(GraphsOf(q)') = Cardinality(GraphsOf(q))
      BY <1>15, <2>3
    <2>5. /\ captures_underway' \in Seq(Entry) /\ Distinct'
          /\ \A f : f \in Entries' <=> f \in Entries /\ f.id # p
      BY <1>2, <1>16, EntryRemoved DEF ContextsSide
    <2>6. OwnersTyped' BY <1>1, <1>2, <1>9, <2>4, <2>5 DEF OwnersTyped
    <2>7. \A u \in Threads : \A q \in Ids :
            [id |-> q, by |-> u] \in Entries' <=> [id |-> q, by |-> u] \in Entries /\ q # p
      BY <2>5
    <2>8. ContextsSide' BY <1>1, <1>4, <1>8, <1>11, <2>5, <2>7, DroppedMirrors
    <2>9. ASSUME NEW q \in Ids PROVE CountOK(q)'
      <3>1. Stuck(q)' = 0 \/ Stuck(q)' = Stuck(q)
        <4>1. PICK e : e = [id |-> q, by |-> NULL] OBVIOUS
        <4>2. Stuck(q)' = IF e \in Entries' THEN 1 ELSE 0 BY <4>1 DEF Stuck, Entries
        <4>3. Stuck(q) = IF e \in Entries THEN 1 ELSE 0 BY <4>1, StuckIs
        <4> QED BY <2>5, <4>2, <4>3
      <3>2. Holders(q)' = MemPoolsOf(q)' + Cardinality(GraphsOf(q)') + Cardinality(ContextsOf(q)')
        BY DEF Holders
      <3>3. use_count'[q] >= Holders(q)' + Stuck(q)'
        BY <1>6, <1>13, <2>4, <3>1, <3>2, CountNow
      <3> QED BY <3>3 DEF CountOK
    <2> QED BY <1>1, <1>6, <1>7, <1>12, <1>14, <2>4, <2>6, <2>8, <2>9, OwnerStep
  <1>17. CASE Deselect(p) /\ graph' = [graph EXCEPT ![g].state = "failed"]
    <2>1. PICK r : r = [graph[g] EXCEPT !.state = "failed"] OBVIOUS
    <2>2. /\ graph' = [graph EXCEPT ![g] = r] /\ r.pool = p /\ r.state = "failed"
          /\ r \in [state : {"new", "capturing", "captured", "failed"}, pool : Ids \cup {NULL}]
      BY <1>2, <1>3, <1>17, <2>1 DEF OwnersTyped
    <2>3. /\ graph' \in [Graphs -> [state : {"new", "capturing", "captured", "failed"},
                                    pool : Ids \cup {NULL}]]
          /\ GraphsOK'
          /\ \A h \in Graphs : Needs(h)' =>
               \/ memory'[h] = {}
               \/ memory'[h] = memory[h] /\ Needs(h) /\ graph'[h].pool = graph[h].pool
          /\ \A q \in Ids : Cardinality(GraphsOf(q)') =
               IF q = p THEN Cardinality(GraphsOf(q)) - 1 ELSE Cardinality(GraphsOf(q))
      BY <1>15, <2>2
    <2>4. /\ captures_underway' \in Seq(Entry) /\ Distinct'
          /\ \A f : f \in Entries' <=> \/ f \in Entries /\ f.id # p
                                       \/ f = [id |-> p, by |-> NULL] /\ p \in Recording
      BY <1>2, <1>5, <1>17, EntryDeselected DEF ContextsSide
    <2>5. OwnersTyped' BY <1>1, <1>2, <1>9, <2>3, <2>4 DEF OwnersTyped
    <2>6. ASSUME NEW u \in Threads, NEW q \in Ids
          PROVE  [id |-> q, by |-> u] \in Entries' <=> [id |-> q, by |-> u] \in Entries /\ q # p
      <3>1. [id |-> q, by |-> u] # [id |-> p, by |-> NULL] BY NullAssumption
      <3> QED BY <2>4, <3>1
    <2>7. ContextsSide' BY <1>1, <1>4, <1>8, <1>11, <2>4, <2>6, DroppedMirrors
    <2>8. ASSUME NEW q \in Ids PROVE CountOK(q)'
      <3>1. PICK e : e = [id |-> q, by |-> NULL] OBVIOUS
      <3>2. e.id = q /\ e.by = NULL BY <3>1
      <3>3. Stuck(q)' = IF e \in Entries' THEN 1 ELSE 0 BY <3>1 DEF Stuck, Entries
      <3>4. Stuck(q) = IF e \in Entries THEN 1 ELSE 0 BY <3>1, StuckIs
      <3>5. q # p => (e \in Entries' <=> e \in Entries)
        <4>1. q # p => e # [id |-> p, by |-> NULL] BY <3>1
        <4> QED BY <2>4, <3>2, <4>1
      <3>6. q # p => Stuck(q)' = Stuck(q) BY <3>3, <3>4, <3>5
      <3>7. Stuck(q)' \in {0, 1} /\ Stuck(q) \in {0, 1} BY <3>3, <3>4
      <3>8. Holders(q)' = MemPoolsOf(q)' + Cardinality(GraphsOf(q)') + Cardinality(ContextsOf(q)')
        BY DEF Holders
      <3>9. use_count'[q] >= Holders(q)' + Stuck(q)'
        <4>1. CASE q = p BY <1>6, <1>13, <2>3, <3>7, <3>8, <4>1, CountNow
        <4>2. CASE q # p BY <1>6, <1>13, <2>3, <3>6, <3>8, <4>2, CountNow
        <4> QED BY <4>1, <4>2
      <3> QED BY <3>9 DEF CountOK
    <2> QED BY <1>1, <1>6, <1>7, <1>12, <1>14, <2>3, <2>5, <2>7, <2>8, OwnerStep
  <1> QED BY <1>3, <1>16, <1>17 DEF CaptureEnd

(***************************************************************************)
(* The inductive invariant.                                                *)
(***************************************************************************)
LEMMA InitSides == Init => Sides
  <1> SUFFICES ASSUME Init PROVE Sides OBVIOUS
  <1>1. Entries = {} /\ captures_underway = <<>> /\ DOMAIN captures_underway = {}
    BY DEF Init, Entries
  <1>2. \A t \in Threads : context[t] = <<>> /\ call[t] = Idle /\ DOMAIN context[t] = {}
    BY DEF Init
  <1>3. \A x \in Segments : segment[x] = NoSegment BY DEF Init
  <1>4. \A g \in Graphs : /\ graph[g].state = "new" /\ graph[g].pool = NULL /\ memory[g] = {}
    BY DEF Init
  <1>5. PoolsSide BY DEF Init, PoolsSide, PoolsTyped, FreeableExact, NewPoolsOK
  <1>6. SegmentsSide
    <2>1. NoSegment \in Segment BY DEF NoSegment, Segment
    <2>2. SegmentsTyped BY <2>1 DEF Init, SegmentsTyped
    <2>3. SegmentsOK BY <1>3 DEF SegmentsOK, NoSegment
    <2>4. MallocCounts
      <3> SUFFICES ASSUME NEW p \in Ids
                   PROVE  musaMalloc_count[p] = Cardinality({x \in Segments : segment[x].pool = p})
        BY DEF MallocCounts
      <3>1. \A x \in Segments : segment[x].pool = NULL BY <1>3 DEF NoSegment
      <3>2. p # NULL BY NullAssumption
      <3>3. {x \in Segments : segment[x].pool = p} = {} BY <3>1, <3>2
      <3>4. musaMalloc_count[p] = 0 BY DEF Init
      <3> QED BY <3>3, <3>4, FS_EmptySet
    <2> QED BY <2>2, <2>3, <2>4 DEF SegmentsSide
  <1>7. OwnersTyped
    <2>1. captures_underway \in Seq(Entry) BY <1>1
    <2>2. context \in [Threads -> Seq(Context)] BY DEF Init
    <2>3. graph \in [Graphs -> [state : {"new", "capturing", "captured", "failed"},
                                pool : Ids \cup {NULL}]]
      BY DEF Init
    <2>4. mempool \in [MemPools -> {"none", "alive", "released", "gone"}] BY DEF Init
    <2> QED BY <2>1, <2>2, <2>3, <2>4 DEF OwnersTyped
  <1>8. EntriesSide
    <2>1. Distinct BY <1>1 DEF Distinct
    <2>2. EntriesByContext BY <1>1 DEF EntriesByContext
    <2>3. ContextsHaveEntry BY <1>2 DEF ContextsHaveEntry, Inside
    <2>4. GraphContexts BY <1>2 DEF GraphContexts
    <2>5. \A t \in Threads : Len(context[t]) <= MaxNest /\ InsideOnce(t)
      BY <1>2, PoolBoundAssumption DEF InsideOnce
    <2> QED BY <2>1, <2>2, <2>3, <2>4, <2>5 DEF EntriesSide
  <1>9. EndedIsTop BY <1>2 DEF EndedIsTop
  <1>10. GraphsOK BY <1>4 DEF GraphsOK
  <1>11. CallsTyped
    <2>1. Idle \in Call BY DEF Idle, Call
    <2> QED BY <2>1 DEF Init, CallsTyped
  <1>12. ASSUME NEW p \in Ids PROVE CountOK(p)
    <2>1. MemPoolsOf(p) = 0 BY DEF Init, MemPoolsOf
    <2>2. GraphsOf(p) = {} BY <1>4 DEF GraphsOf
    <2>3. ContextsOf(p) = {}
      <3>1. \A t \in Threads : \A k \in 1 .. MaxNest : ~(k <= Len(context[t]))
        BY <1>2, PoolBoundAssumption
      <3> QED BY <3>1 DEF ContextsOf
    <2>4. Stuck(p) = 0 BY <1>1, StuckIs
    <2>5. Holders(p) = 0 BY <2>1, <2>2, <2>3, FS_EmptySet DEF Holders
    <2>6. use_count[p] = 0 BY DEF Init
    <2> QED BY <2>4, <2>5, <2>6 DEF CountOK
  <1>13. \A t \in Threads : CallOK(t) BY <1>2 DEF CallOK, Idle
  <1>14. NotNested
    <2>1. CallsRouted BY <1>2 DEF CallsRouted, Idle
    <2>2. Routing BY <1>3 DEF Routing, NoSegment
    <2>3. GraphMemoryKept BY <1>4 DEF GraphMemoryKept
    <2> QED BY <2>1, <2>2, <2>3 DEF NotNested, CallsRouted
  <1> QED BY <1>5, <1>6, <1>7, <1>8, <1>9, <1>10, <1>11, <1>12, <1>13, <1>14 DEF Sides

LEMMA Stutter ==
  ASSUME Sides, UNCHANGED vars
  PROVE  Sides'
  <1>1. UNCHANGED <<scenario, poolVars, captures_underway, use_on_oom_pools, segment, lock, call,
                    ownerVars, abort, memory>>
    BY DEF vars
  <1>2. UNCHANGED context BY <1>1 DEF ownerVars
  <1>3. CallsFollow BY <1>1, <1>2, SameCalls
  <1> QED BY <1>1, <1>3, CallOnlyStep

LEMMA NextSides == Sides /\ [Next]_vars => Sides'
  <1> SUFFICES ASSUME Sides, [Next]_vars PROVE Sides' OBVIOUS
  <1>1. /\ scenario.threads \subseteq Threads /\ scenario.graphs \subseteq Graphs
        /\ scenario.mempools \subseteq MemPools
    BY ScenarioAssumption DEF Sides, CallsTyped
  <1>2. ASSUME NEW t \in scenario.threads, NEW fits \in BOOLEAN, Malloc(t, fits) PROVE Sides'
    BY <1>1, <1>2, MallocStep
  <1>3. ASSUME NEW t \in scenario.threads, AfterMusaMalloc(t) PROVE Sides'
    BY <1>1, <1>3, AfterMusaMallocStep
  <1>4. ASSUME NEW t \in scenario.threads, ReleaseAvailable(t) PROVE Sides'
    BY <1>1, <1>4, ReleaseAvailableStep
  <1>5. ASSUME NEW t \in scenario.threads, ReleaseCached(t) PROVE Sides'
    BY <1>1, <1>5, ReleaseCachedStep
  <1>6. ASSUME NEW t \in scenario.threads, NEW p \in Ids, Fallback(t, p) PROVE Sides'
    BY <1>1, <1>6, FallbackStep
  <1>7. ASSUME NEW t \in scenario.threads, OutOfMemory(t) PROVE Sides'
    BY <1>1, <1>7, OutOfMemoryStep
  <1>8. ASSUME NEW t \in scenario.threads, NEW m \in MemPools, UseMemPool(t, m) PROVE Sides'
    BY <1>1, <1>8, UseMemPoolStep
  <1>9. ASSUME NEW t \in scenario.threads, EndAllocateToPool(t) PROVE Sides'
    BY <1>1, <1>9, EndAllocateToPoolStep
  <1>10. ASSUME NEW t \in scenario.threads, ReleasePool(t) PROVE Sides'
    BY <1>1, <1>10, ReleasePoolStep
  <1>11. ASSUME NEW t \in scenario.threads, NEW g \in scenario.graphs, CaptureEnd(t, g) PROVE Sides'
    BY <1>1, <1>11, CaptureEndStep
  <1>12. ASSUME NEW t \in scenario.threads, NEW g \in scenario.graphs, NEW p \in Ids,
                CaptureBegin(t, g, p)
         PROVE  Sides'
    BY <1>1, <1>12, CaptureBeginStep
  <1>13. ASSUME NEW x \in Segments, Free(x, "cached") \/ Free(x, "waiting") PROVE Sides'
    BY <1>13, FreeStep
  <1>14. CASE EmptyCache BY <1>14, EmptyCacheStep
  <1>15. ASSUME NEW m \in scenario.mempools, CreateMemPool(m) \/ DestroyMemPool(m) \/ EmptyMemPool(m)
         PROVE  Sides'
    BY <1>1, <1>15, CreateMemPoolStep, DestroyMemPoolStep, EmptyMemPoolStep
  <1>16. ASSUME NEW g \in Graphs, Reset(g) PROVE Sides'
    BY <1>16, ResetStep
  <1>17. CASE UNCHANGED vars BY <1>17, Stutter
  <1> QED BY <1>2, <1>3, <1>4, <1>5, <1>6, <1>7, <1>8, <1>9, <1>10, <1>11, <1>12, <1>13, <1>14,
             <1>15, <1>16, <1>17 DEF Next

\* IInv holds in every state, whatever use_mem_pool, graph captures, MemPools and
\* failing driver calls do, and in whatever order.
THEOREM Invariance == Spec => []IInv
  <1>1. Init => IInv BY InitSides, SidesOf
  <1>2. (Sides => IInv) /\ (IInv => Sides) BY SidesOf
  <1>3. (Sides => IInv)' BY <1>2, PTL
  <1>4. IInv /\ [Next]_vars => IInv' BY <1>2, <1>3, NextSides
  <1> QED BY <1>1, <1>4, PTL DEF Spec

\* No PrivatePool* of the allocator dangles: the pool of a block, of a call of
\* malloc that waits for musaMalloc without the mutex, of an entry of
\* captures_underway and of everybody who may still call releasePool is in
\* graph_pools, for release_cached_blocks has not erased it.
THEOREM PoolsNeverDangle == Spec => []PoolsExist
  <1>1. ASSUME Sides PROVE PoolsExist
    <2>1. ASSUME NEW x \in Segments, segment[x].state # "none"
          PROVE  segment[x].pool \in graph_pools \cup {Default}
      BY <1>1, <2>1 DEF Sides, SegmentsSide, SegmentsOK
    <2>2. ASSUME NEW t \in Threads, call[t].at # "idle"
          PROVE  call[t].pool \in graph_pools \cup {Default}
      BY <1>1, <2>2, CallUsed DEF Used
    <2>3. Recording \subseteq graph_pools
      BY <1>1, RecordingIs, EntryUsed DEF Used
    <2>4. ASSUME NEW m \in MemPools, mempool[m] = "alive" PROVE m \in graph_pools
      BY <1>1, <2>4, MemPoolUsed DEF Used
    <2>5. ASSUME NEW g \in Graphs, graph[g].state \in {"capturing", "captured"}
          PROVE  graph[g].pool \in graph_pools
      BY <1>1, <2>5, GraphUsed DEF Used
    <2>6. ASSUME NEW t \in Threads, NEW i \in DOMAIN context[t]
          PROVE  context[t][i].id \in graph_pools
      BY <1>1, ContextUsed DEF Used
    <2> QED BY <2>1, <2>2, <2>3, <2>4, <2>5, <2>6 DEF PoolsExist
  <1>2. IInv => PoolsExist BY <1>1, SidesOf
  <1> QED BY <1>2, Invariance, PTL

\* use_count counts everybody who will call releasePool, so that a pool becomes
\* freeable no earlier than its last user leaves it.  An entry whose capture failed
\* counts too: its use is never given back.
THEOREM UsersCounted == Spec => []UseCountSuffices
  <1>1. ASSUME Sides, NEW p \in Ids PROVE use_count[p] >= Holders(p)
    <2>1. OwnersTyped /\ CountOK(p) /\ use_count[p] \in Nat
      BY <1>1 DEF Sides, PoolsSide, PoolsTyped
    <2>2. Holders(p) \in Nat /\ Stuck(p) \in {0, 1} BY <2>1, HoldersFinite
    <2> QED BY <2>1, <2>2 DEF CountOK
  <1>2. IInv => UseCountSuffices BY <1>1, SidesOf DEF UseCountSuffices
  <1> QED BY <1>2, Invariance, PTL

\* What release_cached_blocks decides by is exact: the freeable pools are those
\* with use_count 0, and musaMalloc_count is the number of segments a pool holds.
THEOREM PoolCountsExact == Spec => []Bookkeeping
  <1>1. IInv => Bookkeeping BY DEF IInv, Bookkeeping
  <1> QED BY <1>1, Invariance, PTL

\* Where contexts are not nested, every allocation of a thread comes from the pool
\* of the context it is in, also when malloc gave up the mutex, had cached blocks
\* released and tried again, or from a pool of last resort outside of contexts.
\* (Nested contexts break this: get_pool takes the first entry that selects.)
THEOREM AllocationsRouted ==
  ASSUME MaxNest <= 1
  PROVE  Spec => []Routing
  <1>1. IInv => Routing BY DEF IInv, NotNested
  <1> QED BY <1>1, Invariance, PTL

\* Where contexts are not nested, and max_split_size is unset, whatever was
\* allocated while a graph was captured stays a segment of the graph's pool until
\* the graph is reset: no release_cached_blocks gives it to the driver.
THEOREM GraphMemoryStays ==
  ASSUME MaxNest <= 1
  PROVE  Spec => []GraphMemoryKept
  <1>1. IInv => GraphMemoryKept BY DEF IInv, NotNested
  <1> QED BY <1>1, Invariance, PTL
=============================================================================

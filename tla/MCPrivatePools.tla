--------------------------- MODULE MCPrivatePools ---------------------------
EXTENDS PrivatePools, TLC

\* Threads, segments and graphs are interchangeable, and MCScenarios is symmetric.
Symmetry == Permutations(Threads) \cup Permutations(Segments) \cup Permutations(Graphs)

\* Two threads, a MemPool that is a last resort, a graph, and oversize segments.
WithThreads ==
  {[threads |-> Threads, handles |-> {}, graphs |-> {g}, mempools |-> MemPools,
    onOom |-> MemPools, oversize |-> TRUE] :
     g \in Graphs}

\* One thread, two graphs and a handle.
WithGraphs ==
  {[threads |-> {t}, handles |-> Handles, graphs |-> Graphs, mempools |-> {},
    onOom |-> {}, oversize |-> FALSE] :
     t \in Threads}

MCScenarios == WithThreads \cup WithGraphs
=============================================================================

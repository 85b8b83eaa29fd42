------------------------- MODULE MCCaptureDeferral -------------------------
EXTENDS CaptureDeferral
CONSTANTS s2    \* a stream other than Home

Two == {Home, s2}

\* torch.musa.graph in one thread: a block of the private pool is reused within a
\* capture, and used eagerly between captures.
OneThread == [reuse |-> TRUE, outside |-> {}, streams |-> Two, depth |-> 1,
              blocks |-> PrivateBlocks, nodes |-> MaxNodes]

\* Other threads allocate, record, launch and free while the capture is under way.
OtherThreads == [reuse |-> FALSE, outside |-> {"malloc", "record", "launch"},
                 streams |-> Two, depth |-> 1, blocks |-> Blocks, nodes |-> 0]

\* The same with one block, which two other streams may have used, and
\* with events that have work behind them.
TwoOthers ==
  [OtherThreads EXCEPT !.streams = Streams, !.depth = MaxDepth, !.blocks = DefaultBlocks]

MCScenarios == {OneThread, OtherThreads, TwoOthers}

\* Other threads launch kernels, but record no streams, during the capture.
LaunchingScenarios == {[reuse |-> FALSE, outside |-> {"launch"}, streams |-> Two,
                        depth |-> MaxDepth, blocks |-> DefaultBlocks, nodes |-> 1]}
=============================================================================

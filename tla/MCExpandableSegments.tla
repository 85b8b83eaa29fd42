------------------------ MODULE MCExpandableSegments ------------------------
EXTENDS ExpandableSegments

CONSTANTS s1, s2, p1

OneStream ==
  [fabric |-> TRUE, faults |-> 0, share |-> FALSE, graph |-> FALSE,
   replay |-> "capture stream", streams |-> {s1}, peers |-> {}, blocks |-> 3]

TwoStreams == [OneStream EXCEPT !.streams = {s1, s2}, !.blocks = 2]
WithGraph == [OneStream EXCEPT !.graph = TRUE, !.blocks = 2]
Fabric == [OneStream EXCEPT !.faults = 1, !.peers = {p1}]
FabricShared == [OneStream EXCEPT !.share = TRUE]
Posix == [OneStream EXCEPT !.fabric = FALSE, !.faults = 1, !.share = TRUE]

GraphOnly == {[WithGraph EXCEPT !.blocks = 3]}

MCScenarios == {TwoStreams, WithGraph, Fabric, FabricShared, Posix}
=============================================================================

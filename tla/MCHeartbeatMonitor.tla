------------------------- MODULE MCHeartbeatMonitor -------------------------
EXTENDS HeartbeatMonitor

CONSTANTS r1, r2

Default == [dump |-> FALSE, monitoring |-> TRUE, propagate |-> FALSE,
            exception |-> "kills", traces |-> FALSE, hook |-> FALSE,
            busy |-> {}, job |-> {r1}, ending |-> {r1}]
Dumping == [Default EXCEPT !.dump = TRUE, !.propagate = TRUE]
Pair == [Dumping EXCEPT !.job = {r1, r2}, !.ending = {}]

MCScenarios ==
  {Pair, [Pair EXCEPT !.exception = "ends_the_watchdog", !.busy = {r2}],
   Dumping, [Dumping EXCEPT !.exception = "ends_the_watchdog", !.traces = TRUE, !.hook = TRUE],
   [Default EXCEPT !.hook = TRUE],
   [Default EXCEPT !.exception = "is_not_thrown", !.monitoring = FALSE, !.traces = TRUE]}
=============================================================================

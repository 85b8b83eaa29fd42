------------------------ MODULE HeartbeatMonitor_proof ------------------------
(***************************************************************************)
(* Proofs about HeartbeatMonitor, for any ranks, scenarios, failures and   *)
(* timeouts.  Most of the invariant speaks of one rank (RankInv); two      *)
(* ranks are related by the dump key in the store only (PairInv).          *)
(***************************************************************************)
EXTENDS HeartbeatMonitor, TLAPS

Procs == {"alive", "exited", "killed_by_watchdog", "killed_by_monitor"}
Watchdogs ==
  [at : {"running", "reading", "sleeping", "hung", "dead", "done"}, timer : 0..4 * DumpTimeout]
Monitors ==
  [at : {"waiting", "dumping", "tracing", "dumped", "sleeping", "leaving", "done"},
   timer : 0..Heartbeat, polled : 0..1, checked : 0..Heartbeat,
   reason : {NULL, "failure", "hang"}, tries : 0..1]
Mains ==
  {"running", "aborting", "aborted", "abort_failed", "joining_watchdog", "joining_hook",
   "destructor"}

\* The conjuncts of the invariant that are about one rank.
RankInv(r) ==
  /\ Alive(r) /\ monitor[r].reason = "hang" => watchdog[r].at \in {"hung", "dead", "done"}
  /\ proc[r] = "killed_by_monitor" =>
       \/ monitor[r].reason = "failure"
       \/ watchdog[r].at \in {"hung", "dead"}
       \/ /\ watchdog[r].at = "done"
          /\ \/ main[r] \in {"aborting", "abort_failed"}
             \/ main[r] = "joining_hook" /\ scenario.hook
  /\ BeatsInTime(r) /\ ReasonKnown(r) /\ MainProgress(r) /\ PollsInTime(r)

\* The conjuncts that are about two.
PairInv(r, q) ==
  /\ DumpsInTime(r, q)
  /\ scenario.dump /\ StoreUp /\ proc[r] = "killed_by_watchdog" /\ store.dump = r
       /\ Alive(q) /\ q \notin scenario.busy /\ ~stopped[q]
       => dumped[q] # "no"

LEMMA Parts ==
  IInv <=> /\ TypeOK /\ FlagsOK
           /\ \A r \in Ranks : RankInv(r)
           /\ \A r, q \in Ranks : PairInv(r, q)
BY DEF IInv, RankInv, PairInv, NoFalseHang, KilledForCause, DumpedBeforeThrow

LEMMA PartsPrimed ==
  IInv' <=> /\ TypeOK' /\ FlagsOK'
            /\ \A r \in Ranks : RankInv(r)'
            /\ \A r, q \in Ranks : PairInv(r, q)'
BY DEF IInv, RankInv, PairInv, NoFalseHang, KilledForCause, DumpedBeforeThrow

LEMMA Types ==
  ASSUME IInv
  PROVE  /\ proc \in [Ranks -> Procs] /\ watchdog \in [Ranks -> Watchdogs]
         /\ monitor \in [Ranks -> Monitors] /\ main \in [Ranks -> Mains]
         /\ error \in [Ranks -> {"success", "own", "remote"}]
         /\ store \in [dump : Ranks \cup {NULL}, error : Ranks \cup {NULL}]
         /\ FlagsOK
         /\ DumpTimeout \in Nat /\ DumpTimeout > 0
         /\ Heartbeat \in Nat /\ Heartbeat > 4 * DumpTimeout
<1>1. /\ DumpTimeout \in Nat /\ DumpTimeout > 0
      /\ Heartbeat \in Nat /\ Heartbeat > 4 * DumpTimeout
  BY TimeAssumption
<1>. QED BY <1>1 DEF IInv, TypeOK, Procs, Watchdogs, Monitors, Mains

LEMMA TypesMade ==
  ASSUME proc' \in [Ranks -> Procs], watchdog' \in [Ranks -> Watchdogs],
         monitor' \in [Ranks -> Monitors], main' \in [Ranks -> Mains],
         error' \in [Ranks -> {"success", "own", "remote"}],
         store' \in [dump : Ranks \cup {NULL}, error : Ranks \cup {NULL}]
  PROVE  TypeOK'
BY DEF TypeOK, Procs, Watchdogs, Monitors, Mains

(***************************************************************************)
(* What a step of rank r leaves alone, and what it cannot disturb.         *)
(***************************************************************************)
Kept(q) ==
  /\ proc'[q] = proc[q] /\ watchdog'[q] = watchdog[q] /\ beat'[q] = beat[q]
  /\ monitor'[q] = monitor[q] /\ dumped'[q] = dumped[q] /\ fresh'[q] = fresh[q]
  /\ terminate'[q] = terminate[q] /\ stopped'[q] = stopped[q]
  /\ hooked'[q] = hooked[q] /\ main'[q] = main[q]

\* No other rank notices, but for the store.
OnlyRank(r) == scenario' = scenario /\ \A q \in Ranks \ {r} : Kept(q)

\* Nobody starts to sleep, to dump or to wait, and nobody is killed by its watchdog.
Harmless(q) ==
  /\ Alive(q)' => Alive(q)
  /\ stopped[q] => stopped'[q]
  /\ dumped[q] # "no" => dumped'[q] # "no"
  /\ proc'[q] = "killed_by_watchdog" => proc[q] = "killed_by_watchdog"
  /\ Alive(q)' /\ watchdog'[q].at = "sleeping" => watchdog'[q] = watchdog[q]
  /\ Alive(q)' /\ monitor'[q].at \in {"waiting", "dumping"} => monitor'[q] = monitor[q]

LEMMA RankKept ==
  ASSUME NEW q, RankInv(q), scenario' = scenario, Kept(q)
  PROVE  RankInv(q)'
<1>. USE DEF Kept, Alive
<1>1. BeatsInTime(q)'
  BY DEF RankInv, BeatsInTime, Retiring
<1>2. ReasonKnown(q)'
  BY DEF RankInv, ReasonKnown
<1>3. MainProgress(q)'
  BY DEF RankInv, MainProgress, Retiring
<1>4. PollsInTime(q)'
  BY DEF RankInv, PollsInTime
<1>. QED BY <1>1, <1>2, <1>3, <1>4 DEF RankInv

\* A harmless step keeps what relates two ranks.
LEMMA HarmlessStep ==
  ASSUME IInv, NEW r \in Ranks, OnlyRank(r), Harmless(r), store'.dump = store.dump
  PROVE  \A p, q \in Ranks : PairInv(p, q)'
<1>1. \A q \in Ranks : Harmless(q)
  BY DEF OnlyRank, Kept, Harmless, Alive
<1>2. SUFFICES ASSUME NEW p \in Ranks, NEW q \in Ranks PROVE PairInv(p, q)'
  OBVIOUS
<1>3. PairInv(p, q)
  BY Parts
<1>4. StoreUp' => StoreUp
  BY <1>1, RankAssumption DEF StoreUp, Harmless
<1>5. Harmless(p) /\ Harmless(q) /\ scenario' = scenario
  BY <1>1 DEF OnlyRank
<1>6. DumpsInTime(p, q)'
  BY <1>3, <1>4, <1>5 DEF PairInv, DumpsInTime, Harmless
<1>. QED BY <1>3, <1>4, <1>5, <1>6 DEF PairInv, Harmless

(***************************************************************************)
(* Every action of a rank touches that rank only.                          *)
(***************************************************************************)
LEMMA Frame ==
  ASSUME IInv, NEW r \in Ranks, Watchdog(r) \/ Monitor(r) \/ MainEnds(r) \/ Environment(r)
  PROVE  OnlyRank(r)
<1>1. /\ proc \in [Ranks -> Procs] /\ watchdog \in [Ranks -> Watchdogs]
      /\ monitor \in [Ranks -> Monitors] /\ main \in [Ranks -> Mains] /\ FlagsOK
  BY Types
<1>. USE <1>1 DEF FlagsOK, OnlyRank, Kept, mainVars, watchVars, monitorVars, Throw, Main, stop
<1>2. CASE Watchdog(r)
  <2>1. CASE WatchdogThrows(r)
    BY <2>1 DEF WatchdogThrows
  <2>2. CASE CheckRemoteError(r)
    BY <2>2 DEF CheckRemoteError
  <2>3. CASE GetRemoteError(r)
    BY <2>3 DEF GetRemoteError
  <2>4. CASE WatchdogEnds(r)
    BY <2>4 DEF WatchdogEnds
  <2>. QED BY <1>2, <2>1, <2>2, <2>3, <2>4 DEF Watchdog
<1>3. CASE Monitor(r)
  <2>1. CASE MonitorStops(r)
    BY <2>1 DEF MonitorStops
  <2>2. CASE MonitorPass(r)
    BY <2>2 DEF MonitorPass
  <2>3. CASE DumpSucceeds(r)
    BY <2>3 DEF DumpSucceeds
  <2>4. CASE DumpFails(r)
    BY <2>4 DEF DumpFails
  <2>5. CASE MonitorSleeps(r)
    BY <2>5 DEF MonitorSleeps
  <2>6. CASE MonitorDecides(r)
    BY <2>6 DEF MonitorDecides
  <2>7. CASE MonitorLeaves(r)
    BY <2>7 DEF MonitorLeaves
  <2>. QED BY <1>3, <2>1, <2>2, <2>3, <2>4, <2>5, <2>6, <2>7 DEF Monitor
<1>4. CASE MainEnds(r)
  <2>1. CASE AbortReturns(r)
    BY <2>1 DEF AbortReturns
  <2>2. CASE WatchdogJoined(r)
    BY <2>2 DEF WatchdogJoined
  <2>3. CASE HookJoined(r)
    BY <2>3 DEF HookJoined
  <2>4. CASE Destructor(r)
    BY <2>4 DEF Destructor
  <2>5. CASE ThreadsJoined(r)
    BY <2>5 DEF ThreadsJoined
  <2>. QED BY <1>4, <2>1, <2>2, <2>3, <2>4, <2>5 DEF MainEnds
<1>5. CASE Environment(r)
  <2>1. CASE WatchdogFails(r)
    BY <2>1 DEF WatchdogFails
  <2>2. CASE WatchdogHangs(r)
    BY <2>2 DEF WatchdogHangs
  <2>3. CASE WorkListChanges(r)
    BY <2>3 DEF WorkListChanges
  <2>4. CASE LateDump(r)
    BY <2>4 DEF LateDump
  <2>5. CASE TracesEnd(r)
    BY <2>5 DEF TracesEnd
  <2>6. CASE HookEnds(r)
    BY <2>6 DEF HookEnds
  <2>7. CASE Abort(r)
    BY <2>7 DEF Abort
  <2>8. CASE Shutdown(r)
    BY <2>8 DEF Shutdown
  <2>. QED BY <1>5, <2>1, <2>2, <2>3, <2>4, <2>5, <2>6, <2>7, <2>8 DEF Environment
<1>. QED BY <1>2, <1>3, <1>4, <1>5

\* Every action of a rank keeps the types.
LEMMA MonitorTyped ==
  ASSUME IInv, NEW r \in Ranks, Monitor(r) \/ TracesEnd(r)
  PROVE  monitor' \in [Ranks -> Monitors]
<1>1. monitor \in [Ranks -> Monitors] /\ DumpTimeout \in 0..Heartbeat /\ Heartbeat \in 0..Heartbeat
      /\ 0 \in 0..Heartbeat /\ PollInterval \in 0..Heartbeat
  BY Types DEF PollInterval
<1>2. ASSUME NEW a \in {"waiting", "dumping", "tracing", "dumped", "sleeping", "leaving", "done"}
      PROVE  [monitor EXCEPT ![r].at = a] \in [Ranks -> Monitors]
  BY <1>1 DEF Monitors
<1>3. ASSUME NEW m \in Monitors PROVE [monitor EXCEPT ![r] = m] \in [Ranks -> Monitors]
  BY <1>1
<1>4. monitor[r] \in Monitors
  BY <1>1
<1>5. CASE MonitorPass(r)
  <2>1. PICK m : monitor' = [monitor EXCEPT ![r] = m] /\ m = monitor'[r]
    BY <1>1, <1>5 DEF MonitorPass
  <2>2. m \in Monitors
    BY <2>1, <1>1, <1>4, <1>5 DEF Monitors, MonitorPass, AfterDump
  <2>. QED BY <2>1, <2>2, <1>3
<1>6. CASE DumpFails(r)
  <2>1. CASE monitor' = [monitor EXCEPT ![r] = [@ EXCEPT !.tries = 1, !.timer = DumpTimeout]]
    <3>1. [monitor[r] EXCEPT !.tries = 1, !.timer = DumpTimeout] \in Monitors
      <4>1. 1 \in 0..1
        OBVIOUS
      <4>. QED BY <1>1, <1>4, <4>1 DEF Monitors
    <3>. QED BY <2>1, <3>1, <1>3
  <2>2. CASE monitor' = [monitor EXCEPT ![r].at = AfterDump]
    BY <2>2, <1>2 DEF AfterDump
  <2>. QED BY <1>6, <2>1, <2>2 DEF DumpFails
<1>7. CASE MonitorSleeps(r)
  <2>1. PICK n \in 0..Heartbeat :
             monitor' = [monitor EXCEPT ![r] = [@ EXCEPT !.at = "sleeping", !.timer = n]]
    BY <1>7, <1>1 DEF MonitorSleeps
  <2>2. [monitor[r] EXCEPT !.at = "sleeping", !.timer = n] \in Monitors
    BY <1>1, <1>4 DEF Monitors
  <2>. QED BY <2>1, <2>2, <1>3
<1>8. CASE MonitorStops(r) \/ DumpSucceeds(r) \/ MonitorLeaves(r) \/ TracesEnd(r)
  BY <1>8, <1>2 DEF MonitorStops, DumpSucceeds, MonitorLeaves, TracesEnd, AfterDump
<1>9. CASE MonitorDecides(r)
  BY <1>1, <1>9, <1>2 DEF MonitorDecides
<1>. QED BY <1>5, <1>6, <1>7, <1>8, <1>9 DEF Monitor

LEMMA WatchdogTyped ==
  ASSUME IInv, NEW r \in Ranks, Watchdog(r) \/ WatchdogFails(r) \/ WatchdogHangs(r)
  PROVE  watchdog' \in [Ranks -> Watchdogs]
<1>1. watchdog \in [Ranks -> Watchdogs] /\ 4 * DumpTimeout \in 0..4 * DumpTimeout
  BY Types
<1>2. ASSUME NEW a \in {"running", "reading", "sleeping", "hung", "dead", "done"}
      PROVE  [watchdog EXCEPT ![r].at = a] \in [Ranks -> Watchdogs]
  BY <1>1 DEF Watchdogs
<1>3. \/ watchdog' = watchdog
      \/ watchdog' = [watchdog EXCEPT ![r] = [at |-> "sleeping", timer |-> 4 * DumpTimeout]]
      \/ \E a \in {"running", "reading", "sleeping", "hung", "dead", "done"} :
           watchdog' = [watchdog EXCEPT ![r].at = a]
  BY DEF Watchdog, WatchdogThrows, CheckRemoteError, GetRemoteError, WatchdogEnds,
         WatchdogFails, WatchdogHangs, Throw
<1>4. [at |-> "sleeping", timer |-> 4 * DumpTimeout] \in Watchdogs
  BY <1>1 DEF Watchdogs
<1>. QED BY <1>1, <1>2, <1>3, <1>4

LEMMA FlagsTyped ==
  ASSUME IInv, NEW r \in Ranks, Watchdog(r) \/ Monitor(r) \/ MainEnds(r) \/ Environment(r)
  PROVE  FlagsOK'
<1>0. \A n \in Nat : n > 0 => n - 1 \in Nat
  OBVIOUS
<1>1. FlagsOK
  BY Types
<1>. USE <1>1 DEF FlagsOK, mainVars, watchVars, monitorVars, Main, stop
<1>2. CASE Watchdog(r)
  BY <1>2 DEF Watchdog, WatchdogThrows, CheckRemoteError, GetRemoteError, WatchdogEnds
<1>3. CASE Monitor(r)
  <2>1. CASE MonitorStops(r)
    BY <2>1 DEF MonitorStops
  <2>2. CASE MonitorPass(r)
    BY <2>2 DEF MonitorPass
  <2>3. CASE DumpSucceeds(r)
    BY <2>3 DEF DumpSucceeds
  <2>4. CASE DumpFails(r)
    BY <2>4 DEF DumpFails
  <2>5. CASE MonitorSleeps(r)
    BY <2>5 DEF MonitorSleeps
  <2>6. CASE MonitorDecides(r)
    BY <2>6 DEF MonitorDecides
  <2>7. CASE MonitorLeaves(r)
    BY <2>7 DEF MonitorLeaves
  <2>. QED BY <1>3, <2>1, <2>2, <2>3, <2>4, <2>5, <2>6, <2>7 DEF Monitor
<1>4. CASE MainEnds(r)
  BY <1>4 DEF MainEnds, AbortReturns, WatchdogJoined, HookJoined, Destructor, ThreadsJoined
<1>5. CASE Environment(r)
  <2>1. CASE WatchdogFails(r) \/ WatchdogHangs(r)
    <3>1. faults' \in Nat
      <4>1. faults > 0 /\ faults' = faults - 1
        BY <2>1 DEF WatchdogFails, WatchdogHangs
      <4>. QED BY <4>1, <1>0
    <3>2. /\ shouldDump' \in [Ranks -> BOOLEAN]
          /\ UNCHANGED <<scenario, beat, terminate, stopped, notified, hooked, fresh, hungDump,
                        dumped>>
      BY <2>1 DEF WatchdogFails, WatchdogHangs
    <3>. QED BY <3>1, <3>2
  <2>2. CASE WorkListChanges(r) \/ LateDump(r) \/ TracesEnd(r) \/ HookEnds(r)
    BY <2>2 DEF WorkListChanges, LateDump, TracesEnd, HookEnds
  <2>3. CASE Abort(r) \/ Shutdown(r)
    BY <2>3 DEF Abort, Shutdown
  <2>. QED BY <1>5, <2>1, <2>2, <2>3 DEF Environment
<1>. QED BY <1>2, <1>3, <1>4, <1>5

LEMMA RankTypes ==
  ASSUME IInv, NEW r \in Ranks, Watchdog(r) \/ Monitor(r) \/ MainEnds(r) \/ Environment(r)
  PROVE  TypeOK' /\ FlagsOK'
<1>. USE DEF mainVars, watchVars, monitorVars, Throw, Main, stop
<1>1. monitor' \in [Ranks -> Monitors]
  <2>1. CASE ~(Monitor(r) \/ TracesEnd(r))
    <3>1. monitor' = monitor
      BY <2>1 DEF Watchdog, WatchdogThrows, CheckRemoteError, GetRemoteError, WatchdogEnds,
                  MainEnds, AbortReturns, WatchdogJoined, HookJoined, Destructor, ThreadsJoined,
                  Environment, WatchdogFails, WatchdogHangs, WorkListChanges, LateDump,
                  HookEnds, Abort, Shutdown
    <3>. QED BY <3>1, Types
  <2>. QED BY <2>1, MonitorTyped
<1>2. watchdog' \in [Ranks -> Watchdogs]
  <2>1. CASE Monitor(r) \/ MainEnds(r) \/ WorkListChanges(r) \/ LateDump(r) \/ TracesEnd(r)
             \/ HookEnds(r) \/ Abort(r) \/ Shutdown(r)
    <3>1. watchdog' = watchdog
      BY <2>1 DEF Monitor, MonitorStops, MonitorPass, DumpSucceeds, DumpFails, MonitorSleeps,
                  MonitorDecides, MonitorLeaves, MainEnds, AbortReturns, WatchdogJoined,
                  HookJoined, Destructor, ThreadsJoined, WorkListChanges, LateDump, TracesEnd,
                  HookEnds, Abort, Shutdown
    <3>. QED BY <3>1, Types
  <2>. QED BY <2>1, WatchdogTyped DEF Environment
<1>3. /\ proc' \in [Ranks -> Procs]
      /\ error' \in [Ranks -> {"success", "own", "remote"}]
      /\ store' \in [dump : Ranks \cup {NULL}, error : Ranks \cup {NULL}]
      /\ main' \in [Ranks -> Mains]
  <2>. USE Types DEF Procs, Mains
  <2>1. CASE Watchdog(r)
    BY <2>1 DEF Watchdog, WatchdogThrows, CheckRemoteError, GetRemoteError, WatchdogEnds
  <2>2. CASE Monitor(r)
    BY <2>2 DEF Monitor, MonitorStops, MonitorPass, DumpSucceeds, DumpFails, MonitorSleeps,
                MonitorDecides, MonitorLeaves
  <2>3. CASE MainEnds(r)
    BY <2>3 DEF MainEnds, AbortReturns, WatchdogJoined, HookJoined, Destructor, ThreadsJoined
  <2>4. CASE Environment(r)
    <3>1. CASE WatchdogFails(r)
      <4>1. proc' = proc /\ main' = main
        BY <3>1 DEF WatchdogFails
      <4>2. error' \in [Ranks -> {"success", "own", "remote"}]
        BY <3>1 DEF WatchdogFails
      <4>3. PICK e \in {r, store.error} : store' = store \/ store' = [dump |-> r, error |-> e]
        BY <3>1 DEF WatchdogFails
      <4>4. store' \in [dump : Ranks \cup {NULL}, error : Ranks \cup {NULL}]
        <5>1. e \in Ranks \cup {NULL}
          OBVIOUS
        <5>. QED BY <4>3, <5>1
      <4>. QED BY <4>1, <4>2, <4>4
    <3>2. CASE WatchdogHangs(r) \/ WorkListChanges(r) \/ LateDump(r) \/ TracesEnd(r)
               \/ HookEnds(r) \/ Abort(r) \/ Shutdown(r)
      BY <3>2 DEF WatchdogHangs, WorkListChanges, LateDump, TracesEnd, HookEnds, Abort, Shutdown
    <3>. QED BY <2>4, <3>1, <3>2 DEF Environment
  <2>. QED BY <2>1, <2>2, <2>3, <2>4
<1>. QED BY <1>1, <1>2, <1>3, FlagsTyped, TypesMade

(***************************************************************************)
(* The part of the invariant about the rank that takes the step.           *)
(***************************************************************************)
LEMMA RankStep ==
  ASSUME IInv, NEW r \in Ranks, Watchdog(r) \/ Monitor(r) \/ MainEnds(r) \/ Environment(r)
  PROVE  RankInv(r)'
<1>1. /\ proc \in [Ranks -> Procs] /\ watchdog \in [Ranks -> Watchdogs]
      /\ monitor \in [Ranks -> Monitors] /\ main \in [Ranks -> Mains] /\ FlagsOK
      /\ DumpTimeout \in Nat /\ DumpTimeout > 0
      /\ Heartbeat \in Nat /\ Heartbeat > 4 * DumpTimeout
  BY Types
<1>2. RankInv(r)
  BY Parts
<1>. USE <1>1, <1>2 DEF RankInv, Alive, BeatsInTime, ReasonKnown, MainProgress, PollsInTime,
         Retiring, FlagsOK, mainVars, watchVars, monitorVars, Watchdogs, Monitors
<1>3. ASSUME WatchdogThrows(r) PROVE RankInv(r)'
  BY <1>3 DEF WatchdogThrows, Throw
<1>4. ASSUME CheckRemoteError(r) PROVE RankInv(r)'
  BY <1>4 DEF CheckRemoteError, Watching
<1>5. ASSUME GetRemoteError(r) PROVE RankInv(r)'
  BY <1>5 DEF GetRemoteError, Throw
<1>6. ASSUME WatchdogEnds(r) PROVE RankInv(r)'
  BY <1>6 DEF WatchdogEnds, Watching
<1>7. ASSUME MonitorStops(r) PROVE RankInv(r)'
  BY <1>7 DEF MonitorStops
<1>8. ASSUME MonitorPass(r) PROVE RankInv(r)'
  <2>. DEFINE failed == scenario.dump /\ (shouldDump[r] \/ Signalled(r))
              missed == ~failed /\ BeatChecked(r) /\ ~beat[r]
              broken == failed \/ missed
              dumps == scenario.dump /\ broken
  <2>1. /\ Alive(r) /\ monitor[r].at = "waiting" /\ monitor[r].timer = 0 /\ ~stopped[r]
        /\ beat'[r] = IF ~failed /\ BeatChecked(r) THEN FALSE ELSE beat[r]
        /\ UNCHANGED <<scenario, proc, watchdog, dumped, terminate, stopped, hooked, main, fresh>>
    BY <1>8 DEF MonitorPass
  <2>2. /\ monitor'[r].at = IF dumps THEN "dumping" ELSE IF broken THEN AfterDump ELSE "waiting"
        /\ monitor'[r].timer = IF dumps THEN DumpTimeout ELSE IF broken THEN 0 ELSE PollInterval
        /\ monitor'[r].polled = IF Polls(r) THEN 0 ELSE monitor[r].polled
        /\ monitor'[r].checked = IF ~failed /\ BeatChecked(r) THEN 0 ELSE monitor[r].checked
        /\ monitor'[r].reason = IF failed THEN "failure" ELSE IF missed THEN "hang" ELSE NULL
        /\ monitor'[r].tries = monitor[r].tries
    BY <1>8 DEF MonitorPass
  <2>3. missed => watchdog[r].at \in {"hung", "dead", "done"}
    <3>1. ASSUME missed, watchdog[r].at \in {"running", "reading", "sleeping"} PROVE FALSE
      <4>1. /\ monitor[r].checked >= Heartbeat /\ monitor[r].checked \in Nat
            /\ watchdog[r].timer \in Nat
        BY <3>1 DEF BeatChecked
      <4>2. monitor[r].checked <= 4 * DumpTimeout
        BY <2>1, <3>1, <4>1
      <4>. QED BY <4>1, <4>2
    <3>2. watchdog[r].at \in {"running", "reading", "sleeping", "hung", "dead", "done"}
      OBVIOUS
    <3>. QED BY <3>1, <3>2
  <2>4. missed /\ watchdog[r].at = "done" => ~Retiring(r)
    BY <2>1 DEF BeatChecked
  <2>. HIDE DEF failed, missed
  <2>. USE DEF AfterDump
  <2>5. BeatsInTime(r)'
    BY <2>1, <2>2
  <2>6. ReasonKnown(r)'
    BY <2>1, <2>2, RankAssumption
  <2>7. MainProgress(r)'
    BY <2>1, <2>2, <2>4, RankAssumption
  <2>8. PollsInTime(r)'
    BY <2>1, <2>2 DEF PollInterval
  <2>. QED BY <2>1, <2>2, <2>3, <2>5, <2>6, <2>7, <2>8, RankAssumption
<1>9. ASSUME DumpSucceeds(r) PROVE RankInv(r)'
  BY <1>9 DEF DumpSucceeds, AfterDump
<1>10. ASSUME DumpFails(r) PROVE RankInv(r)'
  <2>1. monitor' = [monitor EXCEPT ![r] = [@ EXCEPT !.tries = 1, !.timer = DumpTimeout]]
          => monitor'[r].at = "dumping" /\ monitor'[r].reason = monitor[r].reason
             /\ monitor'[r].timer = DumpTimeout
             /\ monitor'[r].checked = monitor[r].checked
    BY <1>10 DEF DumpFails
  <2>2. monitor' = [monitor EXCEPT ![r].at = AfterDump]
          => monitor'[r].at \in {"tracing", "dumped"} /\ monitor'[r].reason = monitor[r].reason
             /\ monitor'[r].checked = monitor[r].checked
    BY DEF AfterDump
  <2>. QED BY <1>10, <2>1, <2>2 DEF DumpFails
<1>11. ASSUME MonitorSleeps(r) PROVE RankInv(r)'
  BY <1>11 DEF MonitorSleeps
<1>12. ASSUME MonitorDecides(r) PROVE RankInv(r)'
  <2>1. /\ Alive(r) /\ monitor[r].at = "sleeping"
        /\ UNCHANGED <<scenario, watchdog, beat, dumped, terminate, stopped, hooked, main, fresh>>
    BY <1>12 DEF MonitorDecides
  <2>2. CASE proc' = [proc EXCEPT ![r] = "killed_by_monitor"] /\ monitor' = monitor /\ ~stopped[r]
    BY <2>1, <2>2 DEF Mains
  <2>3. CASE proc' = proc /\ monitor' = [monitor EXCEPT ![r].at = "leaving"]
    BY <2>1, <2>3
  <2>. QED BY <1>12, <2>2, <2>3 DEF MonitorDecides
<1>13. ASSUME MonitorLeaves(r) PROVE RankInv(r)'
  BY <1>13 DEF MonitorLeaves
<1>14. ASSUME AbortReturns(r) PROVE RankInv(r)'
  BY <1>14 DEF AbortReturns, Main, stop
<1>15. ASSUME WatchdogJoined(r) PROVE RankInv(r)'
  BY <1>15 DEF WatchdogJoined, Main
<1>16. ASSUME HookJoined(r) PROVE RankInv(r)'
  BY <1>16 DEF HookJoined, Main, stop
<1>17. ASSUME Destructor(r) PROVE RankInv(r)'
  BY <1>17 DEF Destructor, Main, stop
<1>18. ASSUME ThreadsJoined(r) PROVE RankInv(r)'
  BY <1>18 DEF ThreadsJoined, Main
<1>19. ASSUME WatchdogFails(r) PROVE RankInv(r)'
  BY <1>19 DEF WatchdogFails, Watching
<1>20. ASSUME WatchdogHangs(r) PROVE RankInv(r)'
  BY <1>20 DEF WatchdogHangs, Watching
<1>21. ASSUME WorkListChanges(r) PROVE RankInv(r)'
  BY <1>21 DEF WorkListChanges, Watching
<1>22. ASSUME LateDump(r) PROVE RankInv(r)'
  BY <1>22 DEF LateDump
<1>23. ASSUME Abort(r) PROVE RankInv(r)'
  BY <1>23 DEF Abort, Main
<1>24. ASSUME Shutdown(r) PROVE RankInv(r)'
  BY <1>24 DEF Shutdown, Main
<1>25. ASSUME TracesEnd(r) PROVE RankInv(r)'
  BY <1>25 DEF TracesEnd
<1>26. ASSUME HookEnds(r) PROVE RankInv(r)'
  BY <1>26 DEF HookEnds
<1>. QED BY <1>3, <1>4, <1>5, <1>6, <1>7, <1>8, <1>9, <1>10, <1>11, <1>12, <1>13, <1>14, <1>15, <1>16, <1>17, <1>18, <1>19, <1>20, <1>21, <1>22, <1>23, <1>24, <1>25, <1>26
         DEF Watchdog, Monitor, MainEnds, Environment

(***************************************************************************)
(* The part about two ranks.                                               *)
(***************************************************************************)
LEMMA PairStep ==
  ASSUME IInv, NEW r \in Ranks, Watchdog(r) \/ Monitor(r) \/ MainEnds(r) \/ Environment(r)
  PROVE  \A p, q \in Ranks : PairInv(p, q)'
<1>1. /\ proc \in [Ranks -> Procs] /\ watchdog \in [Ranks -> Watchdogs]
      /\ monitor \in [Ranks -> Monitors] /\ main \in [Ranks -> Mains] /\ FlagsOK
      /\ DumpTimeout \in Nat /\ DumpTimeout > 0
      /\ Heartbeat \in Nat /\ Heartbeat > 4 * DumpTimeout
  BY Types
<1>2. OnlyRank(r) /\ scenario' = scenario
  BY Frame DEF OnlyRank
<1>3. \A p, q \in Ranks : PairInv(p, q) /\ RankInv(q)
  BY Parts
<1>4. SUFFICES ASSUME ~(Harmless(r) /\ store'.dump = store.dump),
                      NEW p \in Ranks, NEW q \in Ranks
               PROVE  PairInv(p, q)'
  BY <1>2, HarmlessStep
<1>. USE DEF mainVars, watchVars, monitorVars
<1>5. CASE WatchdogThrows(r)
  <2>1. /\ Alive(r) /\ watchdog[r].at = "sleeping" /\ watchdog[r].timer = 0
        /\ UNCHANGED <<store, monitor, dumped, stopped>>
    BY <1>5 DEF WatchdogThrows
  <2>2. \/ proc'[r] = "killed_by_watchdog" /\ watchdog' = watchdog
        \/ proc' = proc /\ watchdog'[r].at # "sleeping"
    BY <1>1, <1>5 DEF WatchdogThrows, Throw, Watchdogs
  <2>3. /\ DumpsInTime(p, q) /\ PollsInTime(q)
        /\ scenario.dump /\ StoreUp /\ proc[p] = "killed_by_watchdog" /\ store.dump = p
             /\ Alive(q) /\ q \notin scenario.busy /\ ~stopped[q]
             => dumped[q] # "no"
    BY <1>3 DEF PairInv, RankInv
  <2>4. (Alive(q)' => Alive(q)) /\ (StoreUp' => StoreUp)
    BY <1>2, <2>1, <2>2, RankAssumption DEF OnlyRank, Kept, Alive, StoreUp
  <2>5. CASE p = r
    <3>1. DumpsInTime(p, q)'
      BY <2>1, <2>2, <2>5 DEF DumpsInTime, Alive
    <3>2. ASSUME scenario.dump, StoreUp, store.dump = r, Alive(q), q \notin scenario.busy,
                 ~stopped[q], dumped[q] = "no"
          PROVE  FALSE
      <4>1. monitor[q] \in Monitors
        BY <1>1
      <4>2. CASE monitor[q].at = "waiting"
        BY <1>1, <2>1, <2>3, <2>5, <3>2, <4>1, <4>2 DEF DumpsInTime, Monitors
      <4>3. CASE monitor[q].at = "dumping"
        BY <1>1, <2>1, <2>3, <2>5, <3>2, <4>1, <4>3 DEF DumpsInTime, Monitors
      <4>4. CASE monitor[q].at \notin {"waiting", "dumping"}
        BY <2>3, <3>2, <4>1, <4>4 DEF PollsInTime, Monitors
      <4>. QED BY <4>2, <4>3, <4>4
    <3>3. CASE proc' = proc
      BY <2>1, <2>4, <2>5, <3>1, <3>3 DEF PairInv, Alive
    <3>. QED BY <1>2, <2>1, <2>2, <2>4, <2>5, <3>1, <3>2 DEF PairInv
  <2>6. CASE p # r
    <3>1. watchdog'[p] = watchdog[p] /\ proc'[p] = proc[p]
      BY <1>2, <2>6 DEF OnlyRank, Kept
    <3>2. DumpsInTime(p, q)'
      BY <1>2, <2>1, <2>3, <2>4, <3>1 DEF DumpsInTime, Alive
    <3>. QED BY <1>2, <2>1, <2>3, <2>4, <3>1, <3>2 DEF PairInv
  <2>. QED BY <2>5, <2>6
<1>6. CASE GetRemoteError(r)
  <2>1. /\ UNCHANGED <<store, monitor, dumped, stopped>> /\ watchdog[r].at = "reading" /\ Alive(r)
    BY <1>6 DEF GetRemoteError
  <2>2. CASE StoreUp /\ proc' = proc /\ watchdog' = [watchdog EXCEPT ![r].at = "running"]
    BY <1>1, <1>4, <2>1, <2>2 DEF Harmless, Alive, Watchdogs
  <2>3. CASE ~StoreUp /\ Throw(r)
    <3>1. ~StoreUp'
      BY <1>1, <2>3, RankAssumption DEF StoreUp, Alive, Throw
    <3>. QED BY <3>1 DEF PairInv, DumpsInTime
  <2>. QED BY <1>6, <2>2, <2>3 DEF GetRemoteError
<1>7. CASE MonitorPass(r)
  <2>1. /\ Alive(r) /\ monitor[r].at = "waiting" /\ monitor[r].timer = 0
        /\ UNCHANGED <<proc, store, watchdog, dumped, stopped>>
    BY <1>7 DEF MonitorPass
  <2>2. PairInv(p, q) /\ PollsInTime(q)
    BY <1>3 DEF RankInv
  <2>3. CASE q = r
    <3>1. ASSUME scenario.dump, StoreUp, store.dump = p, r \notin scenario.busy
          PROVE  monitor'[r].at = "dumping" /\ monitor'[r].timer = DumpTimeout
      <4>1. shouldDump[r] \/ Signalled(r)
        <5>1. ~fresh[r] /\ monitor[r].polled = 1
          BY <2>1, <2>2, <2>3, <3>1 DEF PollsInTime
        <5>2. p # NULL
          BY RankAssumption
        <5>. QED BY <3>1, <5>1, <5>2 DEF Signalled, Polls
      <4>. QED BY <1>1, <1>7, <3>1, <4>1 DEF MonitorPass, Monitors
    <3>2. DumpsInTime(p, r)'
      <4>1. CASE /\ scenario.dump /\ StoreUp /\ Alive(p) /\ watchdog[p].at = "sleeping"
                 /\ store.dump = p /\ r \notin scenario.busy /\ ~stopped[r] /\ dumped[r] = "no"
        <5>1. watchdog[p].timer + 1 >= 4 * DumpTimeout + 0
          BY <2>1, <2>2, <2>3, <4>1 DEF PairInv, DumpsInTime
        <5>2. monitor'[r].at = "dumping" /\ monitor'[r].timer = DumpTimeout
          BY <3>1, <4>1
        <5>3. monitor'[r].tries = 0
          <6>1. monitor[r].tries = 0
            BY <1>3, <2>1 DEF RankInv, ReasonKnown
          <6>. QED BY <1>1, <1>7, <6>1 DEF MonitorPass
        <5>4. watchdog'[p].timer + 1 >= 3 * DumpTimeout + monitor'[r].timer
          BY <1>1, <2>1, <5>1, <5>2 DEF Watchdogs
        <5>. QED BY <5>2, <5>3, <5>4 DEF DumpsInTime
      <4>2. CASE ~(/\ scenario.dump /\ StoreUp /\ Alive(p) /\ watchdog[p].at = "sleeping"
                   /\ store.dump = p /\ r \notin scenario.busy /\ ~stopped[r] /\ dumped[r] = "no")
        BY <1>2, <2>1, <4>2 DEF DumpsInTime, StoreUp, Alive
      <4>. QED BY <4>1, <4>2
    <3>. QED BY <1>2, <2>1, <2>2, <2>3, <3>2 DEF PairInv, StoreUp, Alive
  <2>4. CASE q # r
    <3>1. monitor'[q] = monitor[q]
      BY <1>2, <2>4 DEF OnlyRank, Kept
    <3>. QED BY <1>2, <2>1, <2>2, <3>1 DEF PairInv, DumpsInTime, StoreUp, Alive
  <2>. QED BY <2>3, <2>4
<1>8. CASE DumpFails(r)
  <2>1. /\ Alive(r) /\ monitor[r].at = "dumping" /\ UNCHANGED <<proc, store, watchdog, stopped>>
        /\ \/ /\ monitor[r].tries = 0 /\ dumped' = dumped
              /\ monitor' = [monitor EXCEPT ![r] = [@ EXCEPT !.tries = 1, !.timer = DumpTimeout]]
           \/ /\ monitor' = [monitor EXCEPT ![r].at = AfterDump]
              /\ dumped' = [dumped EXCEPT ![r] = "given_up"]
    BY <1>8 DEF DumpFails
  <2>2. PairInv(p, q) /\ PairInv(p, r)
    BY <1>3
  <2>3. CASE dumped' = [dumped EXCEPT ![r] = "given_up"]
    <3>1. dumped'[r] # "no" /\ (q # r => dumped'[q] = dumped[q] /\ monitor'[q] = monitor[q])
      BY <1>1, <1>2, <2>3 DEF OnlyRank, Kept, FlagsOK
    <3>. QED BY <1>2, <2>1, <2>2, <3>1 DEF PairInv, DumpsInTime, StoreUp, Alive
  <2>4. CASE /\ monitor[r].tries = 0 /\ dumped' = dumped
             /\ monitor' = [monitor EXCEPT ![r] = [@ EXCEPT !.tries = 1, !.timer = DumpTimeout]]
    <3>1. /\ monitor'[r].at = "dumping" /\ monitor'[r].tries = 1 /\ monitor'[r].timer = DumpTimeout
          /\ monitor[r].timer \in Nat /\ watchdog[p].timer \in Nat
      BY <1>1, <2>1, <2>4 DEF Monitors, Watchdogs
    <3>2. DumpsInTime(p, r)'
      BY <1>1, <1>2, <2>1, <2>2, <2>4, <3>1 DEF PairInv, DumpsInTime, StoreUp, Alive
    <3>3. q # r => monitor'[q] = monitor[q]
      BY <1>2 DEF OnlyRank, Kept
    <3>4. DumpsInTime(p, q)'
      BY <1>2, <2>1, <2>2, <2>4, <3>2, <3>3 DEF PairInv, DumpsInTime, StoreUp, Alive
    <3>. QED BY <1>2, <2>1, <2>2, <2>4, <3>4 DEF PairInv, StoreUp, Alive
  <2>. QED BY <2>1, <2>3, <2>4
<1>9. CASE WatchdogFails(r)
  <2>1. /\ Alive(r) /\ UNCHANGED <<proc, monitor, dumped, stopped>>
        /\ watchdog'[r] = [at |-> "sleeping", timer |-> 4 * DumpTimeout]
        /\ StoreUp => store'.dump = r
    BY <1>1, <1>9 DEF WatchdogFails, Watching
  <2>2. PollsInTime(q) /\ monitor[q] \in Monitors
    BY <1>1, <1>3 DEF RankInv
  <2>3. StoreUp' = StoreUp
    BY <2>1 DEF StoreUp, Alive
  <2>4. CASE p # r
    BY <2>1, <2>3, <2>4 DEF PairInv, DumpsInTime
  <2>5. CASE p = r
    <3>1. DumpsInTime(r, q)'
      BY <1>1, <1>2, <2>1, <2>2 DEF DumpsInTime, PollsInTime, Monitors
    <3>. QED BY <2>1, <2>5, <3>1 DEF PairInv, Alive
  <2>. QED BY <2>4, <2>5
<1>10. CASE MainEnds(r)
  <2>1. Harmless(r) /\ store' = store
    BY <1>1, <1>10 DEF MainEnds, AbortReturns, WatchdogJoined, HookJoined, Destructor,
         ThreadsJoined, Main, stop, Harmless, Alive, Mains, Procs, FlagsOK
  <2>. QED BY <1>4, <2>1
<1>11. CASE CheckRemoteError(r) \/ WatchdogEnds(r) \/ WatchdogHangs(r)
  <2>1. Harmless(r) /\ store' = store
    BY <1>1, <1>11 DEF CheckRemoteError, WatchdogEnds, WatchdogHangs, Watching, Watchdogs,
         Harmless, Alive
  <2>. QED BY <1>4, <2>1
<1>12. CASE MonitorStops(r) \/ DumpSucceeds(r) \/ MonitorLeaves(r) \/ TracesEnd(r)
  <2>1. Harmless(r) /\ store' = store
    BY <1>1, <1>12 DEF MonitorStops, DumpSucceeds, AfterDump, MonitorLeaves, TracesEnd, Monitors,
         Harmless, Alive, FlagsOK
  <2>. QED BY <1>4, <2>1
<1>13. CASE MonitorSleeps(r) \/ MonitorDecides(r)
  <2>1. UNCHANGED <<store, watchdog, dumped, stopped>>
        /\ (Alive(r)' => Alive(r)) /\ proc'[r] \in {proc[r], "killed_by_monitor"}
    BY <1>1, <1>13 DEF MonitorSleeps, MonitorDecides, Alive
  <2>2. CASE MonitorSleeps(r)
    <3>1. monitor'[r].at = "sleeping"
      BY <1>1, <2>2 DEF MonitorSleeps, Monitors
    <3>. QED BY <1>4, <2>1, <3>1 DEF Harmless
  <2>3. CASE MonitorDecides(r)
    <3>1. ~Alive(r)' \/ monitor'[r].at = "leaving"
      BY <1>1, <2>3 DEF MonitorDecides, Alive, Monitors
    <3>. QED BY <1>4, <2>1, <3>1 DEF Harmless
  <2>. QED BY <1>13, <2>2, <2>3
<1>14. CASE WorkListChanges(r) \/ LateDump(r) \/ HookEnds(r) \/ Abort(r) \/ Shutdown(r)
  <2>1. Harmless(r) /\ store' = store
    BY <1>14 DEF WorkListChanges, LateDump, HookEnds, Abort, Shutdown, Main, Harmless, Alive
  <2>. QED BY <1>4, <2>1
<1>. QED BY <1>5, <1>6, <1>7, <1>8, <1>9, <1>10, <1>11, <1>12, <1>13, <1>14
         DEF Watchdog, Monitor, Environment

(***************************************************************************)
(* The invariant.                                                          *)
(***************************************************************************)
LEMMA RankActionStep ==
  ASSUME IInv, NEW r \in Ranks, Watchdog(r) \/ Monitor(r) \/ MainEnds(r) \/ Environment(r)
  PROVE  IInv'
<1>1. ASSUME NEW q \in Ranks PROVE RankInv(q)'
  <2>1. CASE q = r
    BY <2>1, RankStep
  <2>2. CASE q # r
    BY <2>2, Frame, Parts, RankKept DEF OnlyRank
  <2>. QED BY <2>1, <2>2
<1>2. \A p, q \in Ranks : PairInv(p, q)'
  BY PairStep
<1>. QED BY <1>1, <1>2, RankTypes, PartsPrimed

\* Time passes, and everybody who is due has done what he had to.
LEMMA TickStep ==
  ASSUME IInv, Tick
  PROVE  IInv'
<1>1. /\ proc \in [Ranks -> Procs] /\ watchdog \in [Ranks -> Watchdogs]
      /\ monitor \in [Ranks -> Monitors] /\ main \in [Ranks -> Mains] /\ FlagsOK
      /\ error \in [Ranks -> {"success", "own", "remote"}]
      /\ store \in [dump : Ranks \cup {NULL}, error : Ranks \cup {NULL}]
      /\ DumpTimeout \in Nat /\ DumpTimeout > 0
      /\ Heartbeat \in Nat /\ Heartbeat > 4 * DumpTimeout
  BY Types
<1>2. /\ UNCHANGED <<scenario, faults, proc, store, error, dumped, hungDump, shouldDump>>
      /\ UNCHANGED <<terminate, stopped, notified, hooked, main>>
  BY DEF Tick, mainVars
<1>3. \A q \in Ranks : RankInv(q) /\ ~Due(q)
  BY Parts DEF Tick
<1>4. \A n \in Nat : Down(n) \in Nat /\ Down(n) <= n /\ n <= Down(n) + 1 /\ (n = 0 => Down(n) = 0)
  BY DEF Down
<1>5. \A n, m \in Nat : n <= m => Up(n, m) \in 0..m /\ Up(n, m) <= n + 1
  BY DEF Up
<1>6. \A n \in 0..1 : Up(n, 1) = 1
  BY DEF Up
<1>7. ASSUME NEW q \in Ranks
      PROVE  /\ watchdog'[q].at = watchdog[q].at
             /\ watchdog'[q].timer = IF Alive(q) THEN Down(watchdog[q].timer)
                                                 ELSE watchdog[q].timer
             /\ watchdog'[q] \in Watchdogs
  <2>1. watchdog[q] \in Watchdogs /\ watchdog[q].timer \in 0..4 * DumpTimeout
    BY <1>1 DEF Watchdogs
  <2>2. watchdog'[q] = IF Alive(q) THEN [watchdog[q] EXCEPT !.timer = Down(watchdog[q].timer)]
                                   ELSE watchdog[q]
    BY DEF Tick
  <2>3. Down(watchdog[q].timer) \in 0..4 * DumpTimeout
    BY <1>1, <1>4, <2>1
  <2>. QED BY <2>1, <2>2, <2>3 DEF Watchdogs
<1>8. ASSUME NEW q \in Ranks
      PROVE  /\ monitor'[q].at = monitor[q].at /\ monitor'[q].reason = monitor[q].reason
             /\ monitor'[q].tries = monitor[q].tries
             /\ Alive(q) => /\ monitor'[q].timer = Down(monitor[q].timer)
                            /\ monitor'[q].polled = 1
                            /\ monitor'[q].checked <= monitor[q].checked + 1
             /\ ~Alive(q) => monitor'[q] = monitor[q]
             /\ monitor'[q] \in Monitors
  <2>1. monitor[q] \in Monitors /\ monitor[q].timer \in 0..Heartbeat
        /\ monitor[q].polled \in 0..1 /\ monitor[q].checked \in 0..Heartbeat
    BY <1>1 DEF Monitors
  <2>2. monitor'[q] = IF Alive(q)
                      THEN [monitor[q] EXCEPT !.timer = Down(monitor[q].timer),
                                              !.polled = Up(monitor[q].polled, 1),
                                              !.checked = Up(monitor[q].checked, Heartbeat)]
                      ELSE monitor[q]
    BY DEF Tick
  <2>3. /\ Down(monitor[q].timer) \in 0..Heartbeat /\ Up(monitor[q].polled, 1) = 1
        /\ Up(monitor[q].checked, Heartbeat) \in 0..Heartbeat
        /\ Up(monitor[q].checked, Heartbeat) <= monitor[q].checked + 1
    <3>1. \A n \in 0..Heartbeat : n \in Nat /\ n <= Heartbeat
      BY <1>1
    <3>2. \A n \in 0..Heartbeat : Down(n) \in 0..Heartbeat
      BY <1>1, <1>4
    <3>3. Up(monitor[q].polled, 1) = 1
      BY <1>6, <2>1
    <3>4. /\ Up(monitor[q].checked, Heartbeat) \in 0..Heartbeat
          /\ Up(monitor[q].checked, Heartbeat) <= monitor[q].checked + 1
      BY <1>1, <1>5, <2>1, <3>1
    <3>. QED BY <2>1, <3>2, <3>3, <3>4
  <2>4. 1 \in 0..1
    OBVIOUS
  <2>. QED BY <2>1, <2>2, <2>3, <2>4 DEF Monitors
<1>9. /\ watchdog' \in [Ranks -> Watchdogs] /\ monitor' \in [Ranks -> Monitors]
  <2>1. DOMAIN watchdog' = Ranks /\ watchdog' = [q \in Ranks |-> watchdog'[q]]
    BY DEF Tick
  <2>2. DOMAIN monitor' = Ranks /\ monitor' = [q \in Ranks |-> monitor'[q]]
    BY DEF Tick
  <2>. QED BY <1>7, <1>8, <2>1, <2>2
<1>10. TypeOK' /\ FlagsOK'
  <2>1. TypeOK'
    BY <1>1, <1>2, <1>9, TypesMade
  <2>2. beat' \in [Ranks -> BOOLEAN] /\ fresh' \in [Ranks -> BOOLEAN]
    BY <1>1 DEF Tick, FlagsOK
  <2>. QED BY <1>1, <1>2, <2>1, <2>2 DEF FlagsOK
<1>11. ASSUME NEW q \in Ranks PROVE RankInv(q)'
  <2>1. /\ beat'[q] = (beat[q] \/ Beats(q)) /\ fresh'[q] = FALSE
    BY DEF Tick
  <2>2. Alive(q)' = Alive(q)
    BY <1>2 DEF Alive
  <2>3. monitor[q].timer \in Nat /\ monitor[q].checked \in Nat /\ watchdog[q].timer \in Nat
        /\ monitor'[q].checked \in Nat
    BY <1>1, <1>8 DEF Monitors, Watchdogs
  <2>4. BeatsInTime(q)'
    <3>1. SUFFICES ASSUME Alive(q), ~beat'[q]
                   PROVE  BeatsInTime(q)'
      BY <2>2 DEF BeatsInTime
    <3>2. ~beat[q] /\ watchdog[q].at # "running"
      BY <2>1, <3>1 DEF Beats, Watching
    <3>3. watchdog[q].at # "reading"
      BY <1>3, <3>1 DEF Due
    <3>4. watchdog[q].at = "done" => ~Retiring(q)
      BY <1>3, <3>1 DEF Due, Retiring, RankInv, MainProgress
    <3>5. ASSUME watchdog[q].at = "sleeping"
          PROVE  monitor'[q].checked + watchdog'[q].timer <= 4 * DumpTimeout
      <4>1. monitor[q].checked + watchdog[q].timer <= 4 * DumpTimeout
        BY <1>3, <3>1, <3>2, <3>5 DEF RankInv, BeatsInTime
      <4>2. watchdog[q].timer # 0
        <5>1. watchdog[q].timer = 0 => watchdog[q] = [at |-> "sleeping", timer |-> 0]
          BY <1>1, <3>5 DEF Watchdogs
        <5>. QED BY <1>3, <3>1, <5>1 DEF Due
      <4>3. watchdog'[q].timer = watchdog[q].timer - 1
        BY <1>7, <2>3, <3>1, <4>2 DEF Down
      <4>4. monitor'[q].checked <= monitor[q].checked + 1
        BY <1>8, <3>1
      <4>. QED BY <1>1, <2>3, <4>1, <4>3, <4>4
    <3>. QED BY <1>2, <1>7, <3>2, <3>3, <3>4, <3>5 DEF BeatsInTime, Retiring
  <2>5. ReasonKnown(q)'
    BY <1>3, <1>8 DEF RankInv, ReasonKnown
  <2>6. MainProgress(q)'
    BY <1>2, <1>3, <1>7, <1>8, <2>2 DEF RankInv, MainProgress, Retiring
  <2>7. PollsInTime(q)'
    <3>1. CASE Alive(q)
      <4>1. monitor'[q].timer = Down(monitor[q].timer) /\ monitor'[q].polled = 1
        BY <1>8, <3>1
      <4>2. monitor'[q].timer <= monitor[q].timer /\ monitor'[q].timer \in Nat
        BY <1>4, <2>3, <4>1
      <4>3. \A m \in Nat : monitor[q].timer <= m => monitor'[q].timer <= m
        BY <2>3, <4>2
      <4>. QED BY <1>1, <1>2, <1>3, <1>8, <2>1, <4>1, <4>3 DEF RankInv, PollsInTime
    <3>2. CASE ~Alive(q)
      BY <1>2, <1>3, <1>8, <2>1, <3>2 DEF RankInv, PollsInTime
    <3>. QED BY <3>1, <3>2
  <2>. QED BY <1>2, <1>3, <1>7, <1>8, <2>2, <2>4, <2>5, <2>6, <2>7 DEF RankInv
<1>12. ASSUME NEW p \in Ranks, NEW q \in Ranks PROVE PairInv(p, q)'
  <2>1. PairInv(p, q)
    BY Parts
  <2>2. /\ Alive(p)' = Alive(p) /\ Alive(q)' = Alive(q) /\ StoreUp' = StoreUp
    BY <1>2 DEF Alive, StoreUp
  <2>3. CASE /\ scenario.dump /\ StoreUp
             /\ Alive(p) /\ watchdog[p].at = "sleeping" /\ store.dump = p
             /\ Alive(q) /\ q \notin scenario.busy /\ ~stopped[q] /\ dumped[q] = "no"
             /\ monitor[q].at \in {"waiting", "dumping"}
    <3>1. monitor[q].timer # 0 /\ monitor[q].timer \in Nat /\ watchdog[p].timer \in Nat
      BY <1>1, <1>3, <2>3 DEF Due, Monitors, Watchdogs
    <3>2. monitor'[q].timer = monitor[q].timer - 1
      BY <1>8, <2>3, <3>1 DEF Down
    <3>3. watchdog'[p].timer \in Nat /\ watchdog'[p].timer + 1 >= watchdog[p].timer
      BY <1>4, <1>7, <2>3, <3>1
    <3>4. \A m \in Nat : watchdog[p].timer + 1 >= m + monitor[q].timer
                           => watchdog'[p].timer + 1 >= m + monitor'[q].timer
      BY <3>1, <3>2, <3>3
    <3>5. 4 * DumpTimeout \in Nat /\ 3 * DumpTimeout \in Nat /\ 2 * DumpTimeout \in Nat
      BY <1>1
    <3>6. DumpsInTime(p, q)'
      BY <1>8, <2>1, <2>3, <3>4, <3>5 DEF PairInv, DumpsInTime
    <3>. QED BY <1>2, <2>1, <2>2, <3>6 DEF PairInv
  <2>4. CASE ~(/\ scenario.dump /\ StoreUp
               /\ Alive(p) /\ watchdog[p].at = "sleeping" /\ store.dump = p
               /\ Alive(q) /\ q \notin scenario.busy /\ ~stopped[q] /\ dumped[q] = "no"
               /\ monitor[q].at \in {"waiting", "dumping"})
    <3>1. DumpsInTime(p, q)'
      BY <1>2, <1>7, <1>8, <2>2, <2>4 DEF DumpsInTime
    <3>. QED BY <1>2, <2>1, <2>2, <3>1 DEF PairInv
  <2>. QED BY <2>3, <2>4
<1>. QED BY <1>10, <1>11, <1>12, PartsPrimed

LEMMA InitInv == Init => IInv
<1>. SUFFICES ASSUME Init PROVE IInv
  OBVIOUS
<1>1. /\ DumpTimeout \in Nat /\ DumpTimeout > 0 /\ MaxFaults \in Nat
      /\ Heartbeat \in Nat /\ Heartbeat > 4 * DumpTimeout
  BY TimeAssumption
<1>2. /\ PollInterval \in 0..Heartbeat /\ (scenario.dump => PollInterval = 1)
      /\ 0 \in 0..Heartbeat /\ 0 \in 0..1 /\ 0 \in 0..4 * DumpTimeout
  BY <1>1 DEF PollInterval
<1>3. TypeOK
  <2>1. monitor \in [Ranks -> Monitors] /\ watchdog \in [Ranks -> Watchdogs]
    BY <1>2 DEF Init, Monitors, Watchdogs
  <2>2. proc \in [Ranks -> Procs] /\ main \in [Ranks -> Mains]
        /\ error \in [Ranks -> {"success", "own", "remote"}]
        /\ store \in [dump : Ranks \cup {NULL}, error : Ranks \cup {NULL}]
    BY DEF Init, Procs, Mains
  <2>. QED BY <2>1, <2>2 DEF TypeOK, Monitors, Watchdogs, Procs, Mains
<1>4. FlagsOK
  <2>1. scenario \in Scenarios /\ scenario.hook \in BOOLEAN
    BY ScenarioAssumption DEF Init
  <2>. QED BY <1>1, <2>1 DEF Init, FlagsOK
<1>5. ASSUME NEW r \in Ranks PROVE RankInv(r)
  <2>1. /\ proc[r] \in {"alive", "exited"} /\ watchdog[r].at = "running"
        /\ monitor[r].at = "waiting" /\ monitor[r].timer = PollInterval
        /\ monitor[r].reason = NULL /\ monitor[r].tries = 0 /\ ~fresh[r] /\ beat[r]
        /\ main[r] = "running" /\ ~terminate[r] /\ hooked[r] = scenario.hook
    BY DEF Init
  <2>2. PollsInTime(r)
    BY <1>2, <2>1 DEF PollsInTime
  <2>. QED BY <2>1, <2>2, RankAssumption
       DEF RankInv, BeatsInTime, ReasonKnown, MainProgress, Retiring, Alive
<1>6. ASSUME NEW r \in Ranks, NEW q \in Ranks PROVE PairInv(r, q)
  BY DEF Init, PairInv, DumpsInTime
<1>. QED BY <1>3, <1>4, <1>5, <1>6, Parts

LEMMA NextInv == IInv /\ [Next]_vars => IInv'
<1>. SUFFICES ASSUME IInv, [Next]_vars PROVE IInv'
  OBVIOUS
<1>1. CASE \E r \in Ranks : Watchdog(r) \/ Monitor(r) \/ MainEnds(r) \/ Environment(r)
  BY <1>1, RankActionStep
<1>2. CASE Tick
  BY <1>2, TickStep
<1>3. CASE UNCHANGED vars
  <2>1. /\ UNCHANGED <<scenario, faults, proc, store, beat, shouldDump, fresh>>
        /\ UNCHANGED <<watchdog, error, monitor, dumped, hungDump>>
        /\ UNCHANGED <<terminate, stopped, notified, hooked, main>>
    BY <1>3 DEF vars, watchVars, monitorVars, mainVars
  <2>2. TypeOK' /\ FlagsOK'
    BY <2>1 DEF IInv, TypeOK, FlagsOK
  <2>3. \A r \in Ranks : RankInv(r)'
    BY <2>1, Parts, RankKept DEF Kept
  <2>4. ASSUME NEW r \in Ranks, NEW q \in Ranks PROVE PairInv(r, q)'
    <3>1. PairInv(r, q)
      BY Parts
    <3>. QED BY <2>1, <3>1 DEF PairInv, DumpsInTime, Alive, StoreUp
  <2>. QED BY <2>2, <2>3, <2>4, PartsPrimed
<1>. QED BY <1>1, <1>2, <1>3 DEF Next, Finished

\* The inductive invariant is one.
THEOREM Invariance == Spec => []IInv
<1>. QED BY InitInv, NextInv, PTL DEF Spec

\* The monitor of any rank calls only a stopped watchdog hung, and kills its process
\* only for that or for a failure that was signalled, whatever the heartbeat timeout,
\* as long as it is longer than the four dump timeouts the watchdog may sleep
\* (ProcessGroupMCCL.cpp, HeartbeatMonitor::runLoop and broadcastDumpSignal).
THEOREM NoFalseAlarmHolds == Spec => []NoFalseAlarm
<1>1. IInv => NoFalseAlarm
  BY DEF IInv, NoFalseAlarm
<1>. QED BY <1>1, Invariance, PTL

\* Four dump timeouts are enough: for any ranks and any failures, when a watchdog
\* kills its process, no rank that can still be reached has its dump to do.
THEOREM DumpsFinish == Spec => []DumpedBeforeThrow
<1>1. IInv => DumpedBeforeThrow
  BY DEF IInv
<1>. QED BY <1>1, Invariance, PTL

=============================================================================

-------------------------- MODULE HeartbeatMonitor --------------------------
(***************************************************************************)
(* The threads that end a job that has failed: the watchdog of             *)
(* ProcessGroupMCCL, the HeartbeatMonitor that watches the watchdog, and   *)
(* the keys in the TCPStore through which the ranks tell one another.      *)
(* There is one process group, with uid 0, in every rank's process; what   *)
(* the watchdog does with works is in ProcessGroup.                        *)
(*                                                                         *)
(* Time passes in ticks of TORCH_MCCL_COORD_CHECK_MILSEC, in which every   *)
(* thread that can go on does; the watchdog's period is shorter.           *)
(***************************************************************************)
EXTENDS Integers, FiniteSets

CONSTANTS
  Ranks,
  StoreHost,     \* the rank in whose process the TCPStore server runs
  DumpTimeout,   \* waitTimeoutDumpInMilSec_
  Heartbeat,     \* heartbeatTimeoutInSec_
  Scenarios,     \* the environment variables, and the programs
  MaxFaults,     \* bound: failures and hangs
  NULL

ASSUME RankAssumption ==
  StoreHost \in Ranks /\ NULL \notin Ranks /\ NULL \notin {"failure", "hang"}
\* 15 seconds to dump, 8 minutes without a heartbeat, one second a tick.
ASSUME TimeAssumption ==
  /\ DumpTimeout \in Nat \ {0} /\ Heartbeat \in Nat /\ Heartbeat > 4 * DumpTimeout
  /\ MaxFaults \in Nat
ASSUME ScenarioAssumption ==
  Scenarios \subseteq
    [dump : BOOLEAN,        \* TORCH_MCCL_DUMP_ON_TIMEOUT
     monitoring : BOOLEAN,  \* TORCH_MCCL_ENABLE_MONITORING
     propagate : BOOLEAN,   \* TORCH_MCCL_PROPAGATE_ERROR
     exception : {"kills", "ends_the_watchdog", "is_not_thrown"},
     traces : BOOLEAN,      \* TORCH_MCCL_LOG_CPP_STACK_ON_UNCLEAN_SHUTDOWN, and a dumper
     hook : BOOLEAN,        \* registerOnCompletionHook
     busy : SUBSET Ranks,   \* the ranks that issue works all the time
     job : SUBSET Ranks,    \* the ranks of the job
     ending : SUBSET Ranks] \* the ranks whose program ends the process group

VARIABLES
  scenario, faults,
  proc,          \* [Ranks -> how the process is]
  store,         \* [dump, error]: the rank in kStoreDumpKey and kStoreErrorSignalKey
  watchdog,      \* [Ranks -> [at, timer]]
  beat,          \* [Ranks -> BOOLEAN]: heartbeat_ # heartBeatCounter
  error,         \* [Ranks -> error_]
  monitor,       \* [Ranks -> [at, timer, polled, checked, reason, tries]]
  shouldDump,    \* [Ranks -> BOOLEAN]
  terminate,     \* [Ranks -> BOOLEAN]: terminateProcessGroup_
  stopped,       \* [Ranks -> BOOLEAN]: terminateHeartbeatMonitorThread_
  notified,      \* [Ranks -> BOOLEAN]: monitorWakeUpCV_ was notified in time
  fresh,         \* [Ranks -> BOOLEAN]: the work list changed within this tick
  dumped,        \* [Ranks -> what came of the flight recorder dump]
  hungDump,      \* [Ranks -> BOOLEAN]: futures of dumps that did not finish in time
  hooked,        \* [Ranks -> BOOLEAN]: onCompletionHookThread_ runs
  main           \* [Ranks -> where the main thread is]

mainVars == <<terminate, stopped, notified, hooked, main>>
watchVars == <<watchdog, error>>
monitorVars == <<monitor, dumped, hungDump>>
vars == <<scenario, faults, proc, store, watchVars, beat, monitorVars, shouldDump,
          mainVars, fresh>>

\* monitorPollInterval.
PollInterval == IF scenario.dump THEN 1 ELSE Heartbeat

Init ==
  /\ scenario \in Scenarios /\ faults = MaxFaults
  /\ proc = [r \in Ranks |-> IF r \in scenario.job THEN "alive" ELSE "exited"]
  /\ store = [dump |-> NULL, error |-> NULL]
  /\ watchdog = [r \in Ranks |-> [at |-> "running", timer |-> 0]]
  /\ beat = [r \in Ranks |-> TRUE]
  /\ error = [r \in Ranks |-> "success"]
  /\ monitor = [r \in Ranks |-> [at |-> "waiting", timer |-> PollInterval, polled |-> 0,
                                 checked |-> 0, reason |-> NULL, tries |-> 0]]
  /\ shouldDump = [r \in Ranks |-> FALSE]
  /\ terminate = [r \in Ranks |-> FALSE] /\ stopped = [r \in Ranks |-> FALSE]
  /\ notified = [r \in Ranks |-> FALSE] /\ fresh = [r \in Ranks |-> FALSE]
  /\ dumped = [r \in Ranks |-> "no"] /\ hungDump = [r \in Ranks |-> FALSE]
  /\ hooked = [r \in Ranks |-> scenario.hook] /\ main = [r \in Ranks |-> "running"]

Alive(r) == proc[r] = "alive"
StoreUp == Alive(StoreHost)

(***************************************************************************)
(* The watchdog.                                                           *)
(***************************************************************************)
Watching(r) == Alive(r) /\ watchdog[r].at = "running"

\* heartbeat_ goes up in every round of the loop.
Beats(r) == Watching(r)

\* Faulty: time for one attempt to dump only.
WatchdogFails_Hasty(r) ==
  /\ Watching(r) /\ faults > 0
  /\ faults' = faults - 1
  /\ error' = [error EXCEPT ![r] = IF @ = "success" THEN "own" ELSE @]
  /\ store' = IF StoreUp THEN [dump |-> r,
                               error |-> IF scenario.propagate THEN r ELSE store.error]
                         ELSE store
  /\ shouldDump' = [shouldDump EXCEPT ![r] = TRUE]
  /\ watchdog' = [watchdog EXCEPT ![r] = [at |-> "sleeping", timer |-> DumpTimeout]]
  /\ UNCHANGED <<scenario, proc, beat, monitorVars, mainVars, fresh>>

\* A work has failed or timed out: the signals go out (or are lost with the
\* store), and the exception waits until everybody has had the time to dump.
WatchdogFails(r) ==
  /\ Watching(r) /\ faults > 0
  /\ faults' = faults - 1
  /\ error' = [error EXCEPT ![r] = IF @ = "success" THEN "own" ELSE @]
  /\ store' = IF StoreUp THEN [dump |-> r,
                               error |-> IF scenario.propagate THEN r ELSE store.error]
                         ELSE store
  /\ shouldDump' = [shouldDump EXCEPT ![r] = TRUE]
  /\ watchdog' = [watchdog EXCEPT ![r] = [at |-> "sleeping", timer |-> 4 * DumpTimeout]]
  /\ UNCHANGED <<scenario, proc, beat, monitorVars, mainVars, fresh>>

\* Watchdog::run catches what its loop throws, and rethrows it or ends.
Throw(r) ==
  \/ /\ scenario.exception = "kills"
     /\ proc' = [proc EXCEPT ![r] = "killed_by_watchdog"]
     /\ UNCHANGED watchdog
  \/ /\ scenario.exception # "kills"
     /\ watchdog' = [watchdog EXCEPT ![r].at = "dead"]
     /\ UNCHANGED proc

\* handleException: under NoHandling the watchdog goes on, and counts a heartbeat
\* for the work it has processed.
WatchdogThrows(r) ==
  /\ Alive(r) /\ watchdog[r] = [at |-> "sleeping", timer |-> 0]
  /\ \/ scenario.exception # "is_not_thrown" /\ Throw(r) /\ UNCHANGED beat
     \/ /\ scenario.exception = "is_not_thrown"
        /\ watchdog' = [watchdog EXCEPT ![r].at = "running"]
        /\ beat' = [beat EXCEPT ![r] = TRUE]
        /\ UNCHANGED proc
  /\ UNCHANGED <<scenario, faults, store, error, monitorVars, shouldDump, mainVars, fresh>>

\* A call of the driver or of MCCL does not return.
WatchdogHangs(r) ==
  /\ Watching(r) /\ faults > 0
  /\ faults' = faults - 1
  /\ watchdog' = [watchdog EXCEPT ![r].at = "hung"]
  /\ UNCHANGED <<scenario, proc, store, error, beat, monitorVars, shouldDump, mainVars,
                 fresh>>

\* checkAndSetRemoteError: the key is looked for, and then read.
CheckRemoteError(r) ==
  /\ Watching(r) /\ scenario.propagate /\ error[r] = "success"
  /\ StoreUp /\ store.error # NULL
  /\ watchdog' = [watchdog EXCEPT ![r].at = "reading"]
  /\ UNCHANGED <<scenario, faults, proc, store, error, beat, monitorVars, shouldDump,
                 mainVars, fresh>>

GetRemoteError(r) ==
  /\ Alive(r) /\ watchdog[r].at = "reading"
  /\ \/ /\ StoreUp
        /\ error' = [error EXCEPT ![r] = "remote"]
        /\ watchdog' = [watchdog EXCEPT ![r].at = "running"]
        /\ UNCHANGED proc
     \/ /\ ~StoreUp    \* "Invalid size for the timeout rank ID"
        /\ Throw(r)
        /\ UNCHANGED error
  /\ UNCHANGED <<scenario, faults, store, beat, monitorVars, shouldDump, mainVars, fresh>>

\* Faulty: a loop that met an error does not end.
WatchdogEnds_Clean(r) ==
  /\ Watching(r) /\ terminate[r] /\ error[r] = "success"
  /\ watchdog' = [watchdog EXCEPT ![r].at = "done"]
  /\ UNCHANGED <<scenario, faults, proc, store, error, beat, monitorVars, shouldDump,
                 mainVars, fresh>>

\* The loop ends when it is told to and the list of works is empty.
WatchdogEnds(r) ==
  /\ Watching(r) /\ terminate[r]
  /\ watchdog' = [watchdog EXCEPT ![r].at = "done"]
  /\ UNCHANGED <<scenario, faults, proc, store, error, beat, monitorVars, shouldDump,
                 mainVars, fresh>>

\* setLastWorkListUpdateTime, when a work is enqueued or retired.
WorkListChanges(r) ==
  /\ Watching(r) /\ ~fresh[r] /\ r \in scenario.busy
  /\ fresh' = [fresh EXCEPT ![r] = TRUE]
  /\ UNCHANGED <<scenario, faults, proc, store, watchVars, beat, monitorVars, shouldDump,
                 mainVars>>

(***************************************************************************)
(* HeartbeatMonitor::runLoop.                                              *)
(***************************************************************************)
\* wait_for: notified of the end, or not until the time is over.
MonitorStops(r) ==
  /\ Alive(r) /\ monitor[r].at = "waiting" /\ stopped[r]
  /\ notified[r] \/ monitor[r].timer = 0
  /\ monitor' = [monitor EXCEPT ![r].at = "leaving"]
  /\ UNCHANGED <<scenario, faults, proc, store, watchVars, beat, dumped, hungDump,
                 shouldDump, mainVars, fresh>>

\* The store is asked when the work list has not changed for a while.
Polls(r) == scenario.dump /\ ~shouldDump[r] /\ ~fresh[r] /\ monitor[r].polled >= 1
Signalled(r) == Polls(r) /\ StoreUp /\ store.dump # NULL
BeatChecked(r) == monitor[r].checked >= Heartbeat

\* After the flight recorder come the C++ stack traces, if a dumper is registered.
AfterDump == IF scenario.traces THEN "tracing" ELSE "dumped"

\* One pass of the loop: a failure here, a failure elsewhere, a missing heartbeat,
\* or nothing.
MonitorPass(r) ==
  LET failed == scenario.dump /\ (shouldDump[r] \/ Signalled(r))
      missed == ~failed /\ BeatChecked(r) /\ ~beat[r]
      broken == failed \/ missed
      dumps == scenario.dump /\ broken
  IN /\ Alive(r) /\ monitor[r].at = "waiting" /\ monitor[r].timer = 0 /\ ~stopped[r]
     /\ shouldDump' = [shouldDump EXCEPT ![r] = @ \/ broken]
     /\ beat' = [beat EXCEPT ![r] = IF ~failed /\ BeatChecked(r) THEN FALSE ELSE @]
     /\ monitor' = [monitor EXCEPT ![r] =
          [at |-> IF dumps THEN "dumping" ELSE IF broken THEN AfterDump ELSE "waiting",
           timer |-> IF dumps THEN DumpTimeout ELSE IF broken THEN 0 ELSE PollInterval,
           polled |-> IF Polls(r) THEN 0 ELSE @.polled,
           checked |-> IF ~failed /\ BeatChecked(r) THEN 0 ELSE @.checked,
           reason |-> IF failed THEN "failure" ELSE IF missed THEN "hang" ELSE NULL,
           tries |-> @.tries]]
     /\ UNCHANGED <<scenario, faults, proc, store, watchVars, dumped, hungDump, mainVars,
                    fresh>>

DumpSucceeds(r) ==
  /\ Alive(r) /\ monitor[r].at = "dumping"
  /\ dumped' = [dumped EXCEPT ![r] = "yes"]
  /\ monitor' = [monitor EXCEPT ![r].at = AfterDump]
  /\ UNCHANGED <<scenario, faults, proc, store, watchVars, beat, hungDump, shouldDump,
                 mainVars, fresh>>

\* waitForFutureOrTimeout: the dump failed, or took too long and goes on; the
\* second attempt does without the stack traces.
DumpFails(r) ==
  /\ Alive(r) /\ monitor[r].at = "dumping"
  /\ hungDump' = [hungDump EXCEPT ![r] = @ \/ monitor[r].timer = 0]
  /\ \/ /\ monitor[r].tries = 0
        /\ monitor' = [monitor EXCEPT ![r] = [@ EXCEPT !.tries = 1, !.timer = DumpTimeout]]
        /\ UNCHANGED dumped
     \/ /\ monitor[r].tries = 1
        /\ monitor' = [monitor EXCEPT ![r].at = AfterDump]
        /\ dumped' = [dumped EXCEPT ![r] = "given_up"]
  /\ UNCHANGED <<scenario, faults, proc, store, watchVars, beat, shouldDump, mainVars, fresh>>

\* A dump that was given up finishes after all.
LateDump(r) ==
  /\ Alive(r) /\ hungDump[r]
  /\ hungDump' = [hungDump EXCEPT ![r] = FALSE]
  /\ UNCHANGED <<scenario, faults, proc, store, watchVars, beat, monitor, dumped,
                 shouldDump, mainVars, fresh>>

\* The dumper runs in the thread of the monitor, without a timeout: it is "blocking
\* and would hang".
TracesEnd(r) ==
  /\ Alive(r) /\ monitor[r].at = "tracing"
  /\ monitor' = [monitor EXCEPT ![r].at = "dumped"]
  /\ UNCHANGED <<scenario, faults, proc, store, watchVars, beat, dumped, hungDump,
                 shouldDump, mainVars, fresh>>

\* Another period, "to verify there is indeed a watchdog hang".
MonitorSleeps(r) ==
  /\ Alive(r) /\ monitor[r].at = "dumped"
  /\ monitor' = [monitor EXCEPT ![r] = [@ EXCEPT !.at = "sleeping",
       !.timer = IF (terminate[r] \/ shouldDump[r]) /\ ~stopped[r] THEN Heartbeat ELSE 0]]
  /\ UNCHANGED <<scenario, faults, proc, store, watchVars, beat, dumped, hungDump,
                 shouldDump, mainVars, fresh>>

\* Faulty: a process group that is being shut down is let be.
MonitorDecides_Terminating(r) ==
  /\ Alive(r) /\ monitor[r].at = "sleeping" /\ monitor[r].timer = 0
  /\ \/ /\ ~terminate[r] /\ ~stopped[r] /\ scenario.monitoring
        /\ proc' = [proc EXCEPT ![r] = "killed_by_monitor"]
        /\ UNCHANGED monitor
     \/ /\ stopped[r] \/ terminate[r] \/ ~scenario.monitoring
        /\ monitor' = [monitor EXCEPT ![r].at = "leaving"]
        /\ UNCHANGED proc
  /\ UNCHANGED <<scenario, faults, store, watchVars, beat, dumped, hungDump, shouldDump,
                 mainVars, fresh>>

MonitorDecides(r) ==
  /\ Alive(r) /\ monitor[r].at = "sleeping" /\ monitor[r].timer = 0
  /\ \/ /\ ~stopped[r] /\ scenario.monitoring
        /\ proc' = [proc EXCEPT ![r] = "killed_by_monitor"]
        /\ UNCHANGED monitor
     \/ /\ stopped[r] \/ ~scenario.monitoring
        /\ monitor' = [monitor EXCEPT ![r].at = "leaving"]
        /\ UNCHANGED proc
  /\ UNCHANGED <<scenario, faults, store, watchVars, beat, dumped, hungDump, shouldDump,
                 mainVars, fresh>>

\* The destructors of the futures wait for the dumps.
MonitorLeaves(r) ==
  /\ Alive(r) /\ monitor[r].at = "leaving" /\ ~hungDump[r]
  /\ monitor' = [monitor EXCEPT ![r].at = "done"]
  /\ UNCHANGED <<scenario, faults, proc, store, watchVars, beat, dumped, hungDump,
                 shouldDump, mainVars, fresh>>

(***************************************************************************)
(* The main thread ends the process group.                                 *)
(***************************************************************************)
Main(r, from, to) ==
  /\ Alive(r) /\ main[r] = from
  /\ main' = [main EXCEPT ![r] = to]
  /\ UNCHANGED <<scenario, faults, store, watchVars, beat, monitorVars, shouldDump, fresh,
                 hooked>>

\* runHookLoop ends when it is told to, the list is empty and the hook has returned.
HookEnds(r) ==
  /\ Alive(r) /\ hooked[r] /\ terminate[r]
  /\ hooked' = [hooked EXCEPT ![r] = FALSE]
  /\ UNCHANGED <<scenario, faults, proc, store, watchVars, beat, monitorVars, shouldDump,
                 fresh, terminate, stopped, notified, main>>

\* HeartbeatMonitor::stop takes no lock: the notification comes too early when the
\* monitor has looked at the flag and does not wait yet.
stop(r) ==
  /\ stopped' = [stopped EXCEPT ![r] = TRUE]
  /\ \E in_time \in {TRUE, monitor[r].at # "waiting"} :
       notified' = [notified EXCEPT ![r] = @ \/ in_time]

\* abort waits for abortComms; a timeout of that wait throws, past the stop().
Abort(r) ==
  /\ Main(r, "running", "aborting") /\ r \in scenario.ending
  /\ terminate' = [terminate EXCEPT ![r] = TRUE]
  /\ UNCHANGED <<proc, stopped, notified>>

AbortReturns(r) ==
  \/ Main(r, "aborting", "aborted") /\ stop(r) /\ UNCHANGED <<proc, terminate>>
  \/ Main(r, "aborting", "abort_failed") /\ UNCHANGED <<proc, terminate, stopped, notified>>

\* shutdown joins the watchdog, then the thread of the completion hook.
Shutdown(r) ==
  /\ Main(r, "running", "joining_watchdog") /\ r \in scenario.ending
  /\ terminate' = [terminate EXCEPT ![r] = TRUE]
  /\ UNCHANGED <<proc, stopped, notified>>

WatchdogJoined(r) ==
  /\ Main(r, "joining_watchdog", "joining_hook")
  /\ watchdog[r].at \in {"done", "dead"}
  /\ UNCHANGED <<proc, terminate, stopped, notified>>

\* Faulty: shutdown does not retire the monitor.
HookJoined_NoStop(r) ==
  /\ Main(r, "joining_hook", "aborted") /\ ~hooked[r]
  /\ UNCHANGED <<proc, terminate, stopped, notified>>

HookJoined(r) ==
  /\ Main(r, "joining_hook", "aborted") /\ ~hooked[r]
  /\ stop(r)
  /\ UNCHANGED <<proc, terminate>>

\* The destructor, after shutdown or abort.
Destructor(r) ==
  /\ Main(r, "aborted", "destructor") \/ Main(r, "abort_failed", "destructor")
  /\ stop(r)
  /\ UNCHANGED <<proc, terminate>>

\* The joins of the watchdog, of the monitor and of the thread of the hook.
ThreadsJoined(r) ==
  /\ Main(r, "destructor", "destructor")
  /\ watchdog[r].at \in {"done", "dead"} /\ monitor[r].at = "done" /\ ~hooked[r]
  /\ proc' = [proc EXCEPT ![r] = "exited"]
  /\ UNCHANGED <<terminate, stopped, notified>>

(***************************************************************************)
(* Time passes when no thread has something to do at once.                 *)
(***************************************************************************)
Due(r) ==
  /\ Alive(r)
  /\ \/ watchdog[r].at = "reading" \/ watchdog[r] = [at |-> "sleeping", timer |-> 0]
     \/ monitor[r].at \in {"waiting", "dumping", "sleeping"} /\ monitor[r].timer = 0
     \/ monitor[r].at = "waiting" /\ stopped[r] /\ notified[r]
     \/ monitor[r].at = "dumped"
     \/ monitor[r].at = "leaving" /\ ~hungDump[r]
     \/ main[r] = "joining_watchdog" /\ watchdog[r].at \in {"done", "dead"}
     \/ main[r] = "joining_hook" /\ ~hooked[r]
     \/ /\ main[r] = "destructor" /\ watchdog[r].at \in {"done", "dead"}
        /\ monitor[r].at = "done" /\ ~hooked[r]

Down(n) == IF n > 0 THEN n - 1 ELSE 0
Up(n, max) == IF n < max THEN n + 1 ELSE max

Tick ==
  /\ \A r \in Ranks : ~Due(r)
  /\ \E r \in Ranks : Alive(r)
  /\ watchdog' = [r \in Ranks |->
       IF Alive(r) THEN [watchdog[r] EXCEPT !.timer = Down(@)] ELSE watchdog[r]]
  /\ beat' = [r \in Ranks |-> beat[r] \/ Beats(r)]
  /\ monitor' = [r \in Ranks |->
       IF Alive(r) THEN [monitor[r] EXCEPT !.timer = Down(@), !.polled = Up(@, 1),
                                           !.checked = Up(@, Heartbeat)]
                   ELSE monitor[r]]
  /\ fresh' = [r \in Ranks |-> FALSE]
  /\ UNCHANGED <<scenario, faults, proc, store, error, dumped, hungDump, shouldDump, mainVars>>

Finished == (\A r \in Ranks : ~Alive(r)) /\ UNCHANGED vars

Watchdog(r) ==
  \/ WatchdogThrows(r) \/ CheckRemoteError(r) \/ GetRemoteError(r) \/ WatchdogEnds(r)
Monitor(r) ==
  \/ MonitorStops(r) \/ MonitorPass(r) \/ DumpSucceeds(r) \/ DumpFails(r)
  \/ MonitorSleeps(r) \/ MonitorDecides(r) \/ MonitorLeaves(r)
MainEnds(r) ==
  \/ AbortReturns(r) \/ WatchdogJoined(r) \/ HookJoined(r) \/ Destructor(r)
  \/ ThreadsJoined(r)
Environment(r) ==
  \/ WatchdogFails(r) \/ WatchdogHangs(r) \/ WorkListChanges(r) \/ LateDump(r)
  \/ TracesEnd(r) \/ HookEnds(r) \/ Abort(r) \/ Shutdown(r)

Next ==
  \/ \E r \in Ranks : Watchdog(r) \/ Monitor(r) \/ MainEnds(r) \/ Environment(r)
  \/ Tick \/ Finished

Spec == Init /\ [][Next]_vars

\* Time goes on, and every thread that can go on does.  A dump that hangs, the dump of
\* the stack traces, an abort and a completion hook need not end.
FairSpec ==
  /\ Spec /\ WF_vars(Tick)
  /\ \A r \in Ranks : /\ WF_vars(Watchdog(r)) /\ WF_vars(Monitor(r))
                      /\ WF_vars(WatchdogJoined(r)) /\ WF_vars(HookJoined(r))
                      /\ WF_vars(Destructor(r)) /\ WF_vars(ThreadsJoined(r))

-----------------------------------------------------------------------------
\* Types; in particular a dump is tried at most twice (runLoop retries it once), and
\* the timers stay within the dump timeout and the heartbeat timeout.
TypeOK ==
  /\ proc \in [Ranks -> {"alive", "exited", "killed_by_watchdog", "killed_by_monitor"}]
  /\ store \in [dump : Ranks \cup {NULL}, error : Ranks \cup {NULL}]
  /\ watchdog \in [Ranks -> [at : {"running", "reading", "sleeping", "hung", "dead", "done"},
                             timer : 0..4 * DumpTimeout]]
  /\ monitor \in [Ranks -> [at : {"waiting", "dumping", "tracing", "dumped", "sleeping",
                                  "leaving", "done"},
                            timer : 0..Heartbeat, polled : 0..1, checked : 0..Heartbeat,
                            reason : {NULL, "failure", "hang"}, tries : 0..1]]
  /\ error \in [Ranks -> {"success", "own", "remote"}]
  /\ main \in [Ranks -> {"running", "aborting", "aborted", "abort_failed",
                         "joining_watchdog", "joining_hook", "destructor"}]

\* The monitor calls a watchdog hung only when it is: not one that sleeps before it
\* throws, and not one that makes its rounds.
NoFalseHang ==
  \A r \in Ranks : Alive(r) /\ monitor[r].reason = "hang"
                     => watchdog[r].at \in {"hung", "dead", "done"}

\* "Give time for dumping before throwing exception for all ranks": when a watchdog
\* kills its process, the ranks that can still be reached have finished their dumps,
\* or given them up.
DumpedBeforeThrow ==
  scenario.dump /\ StoreUp =>
    \A r, q \in Ranks :
      proc[r] = "killed_by_watchdog" /\ store.dump = r /\ Alive(q) /\ q \notin scenario.busy
        /\ ~stopped[q]
        => dumped[q] # "no"

\* The monitor kills a process for a failure that some rank signalled, or for a
\* watchdog that has stopped; of a watchdog that ended as it should, only while
\* abort or a completion hook holds up the main thread.
KilledForCause ==
  \A r \in Ranks :
    proc[r] = "killed_by_monitor" =>
      \/ monitor[r].reason = "failure"
      \/ watchdog[r].at \in {"hung", "dead"}
      \/ /\ watchdog[r].at = "done"
         /\ \/ main[r] \in {"aborting", "abort_failed"}
            \/ main[r] = "joining_hook" /\ scenario.hook

\* A watchdog that hangs or dies takes the process with it, unless the process ends
\* the monitor first, or the monitor is held up by the dump of the stack traces.
HangEnds ==
  \A r \in Ranks :
    watchdog[r].at \in {"hung", "dead"} /\ scenario.monitoring
      ~> (~Alive(r) \/ stopped[r] \/ monitor[r].at = "tracing")

\* The destructor returns, whether the notification of stop() was lost or not; it
\* waits for a hung watchdog, for a hung dump, of the flight recorder or of the stack
\* traces, and after abort for a completion hook, though.
DestructorReturns ==
  \A r \in Ranks :
    main[r] = "destructor"
      ~> (~Alive(r) \/ watchdog[r].at = "hung" \/ hungDump[r] \/ monitor[r].at = "tracing"
          \/ hooked[r])

\* The monitor raises no "false alarm": it calls only a stopped watchdog hung, and
\* kills for a hang or a signalled failure only.
NoFalseAlarm == TypeOK /\ NoFalseHang /\ KilledForCause

(***************************************************************************)
(* The inductive invariant behind the safety properties.                   *)
(***************************************************************************)
\* The flags and counters TypeOK leaves out.
FlagsOK ==
  /\ scenario \in Scenarios /\ faults \in Nat
  /\ beat \in [Ranks -> BOOLEAN] /\ shouldDump \in [Ranks -> BOOLEAN]
  /\ terminate \in [Ranks -> BOOLEAN] /\ stopped \in [Ranks -> BOOLEAN]
  /\ notified \in [Ranks -> BOOLEAN] /\ fresh \in [Ranks -> BOOLEAN]
  /\ hungDump \in [Ranks -> BOOLEAN] /\ hooked \in [Ranks -> BOOLEAN]
  /\ dumped \in [Ranks -> {"no", "yes", "given_up"}]

\* shutdown is about to retire the monitor of a watchdog that has ended.
Retiring(r) == main[r] = "joining_watchdog" \/ (main[r] = "joining_hook" /\ ~scenario.hook)

\* A watchdog that is well has not been without a heartbeat for longer than it may
\* sleep; main leaves the joins of threads that have ended in the same tick.
BeatsInTime(r) ==
  Alive(r) /\ ~beat[r] =>
    /\ watchdog[r].at \in {"running", "reading"} => monitor[r].checked = 0
    /\ watchdog[r].at = "sleeping" => monitor[r].checked + watchdog[r].timer <= 4 * DumpTimeout
    /\ watchdog[r].at = "done" /\ Retiring(r) => monitor[r].checked = 0

\* The monitor dumps and sleeps for a reason; while it waits it has none.
ReasonKnown(r) ==
  /\ monitor[r].at \in {"dumping", "tracing", "dumped", "sleeping"} => monitor[r].reason # NULL
  /\ monitor[r].at = "waiting" => monitor[r].reason = NULL /\ monitor[r].tries = 0

\* What main has done so far tells the flags it has set.
MainProgress(r) ==
  /\ main[r] \in {"aborted", "destructor"} => stopped[r]
  /\ watchdog[r].at = "done" => terminate[r]
  /\ terminate[r] => main[r] # "running"
  /\ watchdog[r].at = "done" /\ monitor[r].reason = "hang" /\ Alive(r)
       => ~Retiring(r)
  /\ hooked[r] => scenario.hook

\* With dumps on, the monitor polls the store once a tick, unless the program keeps
\* the work list changing, and dumps before it sleeps.
PollsInTime(q) ==
  scenario.dump =>
    /\ q \notin scenario.busy => ~fresh[q]
    /\ monitor[q].at = "waiting" =>
         monitor[q].timer <= 1 /\ (monitor[q].timer = 0 => monitor[q].polled = 1)
    /\ monitor[q].at = "dumping" => monitor[q].timer <= DumpTimeout
    /\ monitor[q].at \in {"tracing", "dumped", "sleeping"} => dumped[q] # "no"
    /\ monitor[q].at \in {"leaving", "done"} => dumped[q] # "no" \/ stopped[q]

\* While the watchdog of r, which has signalled, sleeps, the monitor of q goes
\* through a poll and the attempts to dump, as far as the sleep is over.
DumpsInTime(r, q) ==
  /\ scenario.dump /\ StoreUp
  /\ Alive(r) /\ watchdog[r].at = "sleeping" /\ store.dump = r
  /\ Alive(q) /\ q \notin scenario.busy /\ ~stopped[q] /\ dumped[q] = "no"
  => LET left == watchdog[r].timer IN
     /\ monitor[q].at = "waiting" => left + 1 >= 4 * DumpTimeout + monitor[q].timer
     /\ monitor[q].at = "dumping" /\ monitor[q].tries = 0 =>
          left + 1 >= 3 * DumpTimeout + monitor[q].timer
     /\ monitor[q].at = "dumping" /\ monitor[q].tries = 1 =>
          left + 1 >= 2 * DumpTimeout + monitor[q].timer

IInv ==
  /\ TypeOK /\ FlagsOK
  /\ NoFalseHang /\ KilledForCause /\ DumpedBeforeThrow
  /\ \A r \in Ranks : BeatsInTime(r) /\ ReasonKnown(r) /\ MainProgress(r) /\ PollsInTime(r)
  /\ \A r, q \in Ranks : DumpsInTime(r, q)
=============================================================================

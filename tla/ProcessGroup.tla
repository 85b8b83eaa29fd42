---------------------------- MODULE ProcessGroup ----------------------------
(***************************************************************************)
(* One rank's ProcessGroupMCCL: the life of a Work between the thread that *)
(* issues it, the watchdog, the thread that runs completion hooks, a       *)
(* thread that calls abort(), and the GPU.                                 *)
(*                                                                         *)
(* The Work returned to the program and the Work in workMetaList_ are two  *)
(* objects (workEnqueue copies it) which share the tensor shelf, the       *)
(* events and futureWorkResult_, but not exception_: exU is the exception  *)
(* of the program's object, exW that of the copy.                          *)
(*                                                                         *)
(* Time is abstract: a work expires once its timeout has elapsed, whether  *)
(* or not its kernel has completed.  A kernel may never complete, when a   *)
(* peer does not take part in the collective.                              *)
(***************************************************************************)
EXTENDS Integers, FiniteSets, SequencesExt

CONSTANTS
  Works,        \* the works the program issues
  NoWork,       \* the work of a thread that is in no call
  Configs,      \* the settings of the process, and which works it issues
  HookErrors    \* how often the hook throws, at most

ASSUME ProcessGroupConstants ==
  /\ NoWork \notin Works
  /\ Configs \subseteq
       [mode : {"NoHandling", "TearDown", "CleanUpOnly", "SkipCleanUp"},
        blocking : BOOLEAN, hook : BOOLEAN, abort : BOOLEAN, works : SUBSET Works,
        kinds : SUBSET {"async", "sync", "coalesced"},
        ephemeral : Nat, timed : SUBSET BOOLEAN]
  /\ HookErrors \in Nat

VARIABLES
  config,   \* TORCH_MCCL_ASYNC_ERROR_HANDLING, TORCH_MCCL_BLOCKING_WAIT, whether
            \* a hook is registered, whether another thread calls abort(), the
            \* works of the program, how it issues them, the number of ephemeral
            \* timeouts it adds, and whether it waits with a timeout
  work,     \* the works, both objects of each
  comm,     \* the MCCLComm all works use
  meta,     \* workMetaList_
  completed, \* completedWorkList_
  shelves,  \* shelvesToUnstash_: the works whose shelf is on it
  pg,       \* terminateProcessGroup_, error_, shouldDump_, ephemeral timeouts
  main,     \* the thread of the program
  wd,       \* the watchdog
  hook,     \* the hook thread
  aborter,  \* the thread that calls abort()
  alive     \* FALSE once an exception has taken the process down

vars == <<config, work, comm, meta, completed, shelves, pg, main, wd, hook,
          aborter, alive>>

Results == {"SUCCESS", "TIMEOUT", "COMM_ERROR"}

NewWork ==
  [kind |-> "none", gpu |-> "idle", stage |-> "none", expired |-> FALSE,
   shelf |-> FALSE, ordered |-> FALSE, exU |-> "none", exW |-> "none",
   result |-> "none", owned |-> 0, hooked |-> 0]

Idle == [pc |-> "idle", w |-> NoWork, mark |-> "none", timed |-> FALSE]

Init ==
  /\ config \in Configs
  /\ work = [w \in Works |-> NewWork]
  /\ comm = [aborted |-> FALSE, destroyed |-> FALSE, err |-> FALSE, reason |-> FALSE]
  /\ meta = <<>> /\ completed = <<>> /\ shelves = {}
  /\ pg = [terminate |-> FALSE, error |-> "SUCCESS", shouldDump |-> FALSE,
           active |-> 0, inflight |-> 0, added |-> 0, throws |-> 0]
  /\ main = Idle
  /\ wd = [pc |-> "loop", pos |-> 1, done |-> FALSE, mark |-> "none", next |-> "none"]
  /\ hook = [pc |-> IF config.hook THEN "loop" ELSE "none", done |-> FALSE]
  /\ aborter = "idle"
  /\ alive = TRUE

SHOULD_CLEAN_UP == config.mode \notin {"NoHandling", "SkipCleanUp"}
SHOULD_TEAR_DOWN == config.mode \notin {"NoHandling", "CleanUpOnly"}

----------------------------------------------------------------------------
(* The communicator and the GPU *)

\* checkForMCCLErrorsInternal: an exception if the communicator has a failure
\* reason, or an asynchronous error.
CommFailed == comm.reason \/ comm.err

\* MCCLComm::abort: running kernels end, and later checks find an error.  The
\* failure reason is overwritten, also by no reason.
abortComm(reason) ==
  /\ comm' = [comm EXCEPT !.aborted = TRUE, !.err = TRUE, !.reason = reason]
  /\ work' = [w \in Works |->
                IF work[w].gpu = "running" THEN [work[w] EXCEPT !.gpu = "killed"]
                                           ELSE work[w]]

finishedGPUExecution(w) == work[w].gpu \in {"done", "killed"}

\* Until shutdown or the destructor has returned.
Running == alive /\ main.pc # "finished"

\* The kernel of a work completes.
Finish(w) ==
  /\ Running /\ work[w].gpu = "running"
  /\ work' = [work EXCEPT ![w].gpu = "done"]
  /\ UNCHANGED <<config, comm, meta, completed, shelves, pg, main, wd, hook, aborter, alive>>

\* The timeout of a work elapses; nobody looks at that of a retired work.
Expire(w) ==
  /\ Running /\ ~work[w].expired
  /\ work[w].stage \in {"made", "listed"} \/ (config.blocking /\ work[w].stage = "dropped")
  /\ work' = [work EXCEPT ![w].expired = TRUE]
  /\ UNCHANGED <<config, comm, meta, completed, shelves, pg, main, wd, hook, aborter, alive>>

\* The network or a peer fails: mcclCommGetAsyncError reports it from now on.
AsyncError ==
  /\ Running /\ ~comm.err
  /\ comm' = [comm EXCEPT !.err = TRUE]
  /\ UNCHANGED <<config, work, meta, completed, shelves, pg, main, wd, hook, aborter, alive>>

----------------------------------------------------------------------------
(* The thread of the program: issuing a collective *)

AtMain(pc) == alive /\ main.pc = pc
MainTo(pc) == main' = IF pc = "idle" THEN Idle ELSE [main EXCEPT !.pc = pc]

\* assignTimeoutToWork: a work owns the ephemeral timeouts no other work owns.
\* Within a coalesced group that is the Work of the operation, which is dropped;
\* the group's Work is assigned its timeout afterwards.
OwnedTimeout(kind) == IF kind = "coalesced" THEN 0 ELSE pg.active - pg.inflight

\* collective(), or startCoalescing .. endCoalescing around it, up to workEnqueue.
Collective(w, kind) ==
  /\ AtMain("idle") /\ work[w].stage = "none" /\ ~comm.aborted
  /\ work' = [work EXCEPT ![w] =
       [@ EXCEPT !.kind = kind, !.gpu = "running", !.stage = "made",
                 !.shelf = kind # "sync", !.owned = OwnedTimeout(kind)]]
  /\ pg' = [pg EXCEPT !.inflight = pg.active]
  /\ main' = [main EXCEPT !.pc = "enqueue", !.w = w]
  /\ UNCHANGED <<config, comm, meta, completed, shelves, wd, hook, aborter, alive>>

\* workEnqueue: the shelves of completed works are emptied here, in the thread
\* of the program.
UnstashShelves ==
  /\ AtMain("enqueue")
  /\ LET enqueue == ~pg.terminate /\ ~config.blocking IN
     /\ work' = [w \in Works |->
          [work[w] EXCEPT !.shelf = @ /\ w \notin shelves,
                          !.stage = IF w = main.w /\ ~enqueue THEN "dropped" ELSE @]]
     /\ MainTo(IF enqueue THEN "lock" ELSE "idle")
  /\ shelves' = {}
  /\ UNCHANGED <<config, comm, meta, completed, pg, wd, hook, aborter, alive>>

\* The watchdog holds workMetaListMutex_ during a pass over the list.
InPass == wd.pc \notin {"loop", "waiting", "exited"}

\* workEnqueue: the copy goes onto the list, with the exception so far.
WorkEnqueue ==
  /\ AtMain("lock") /\ ~InPass
  /\ meta' = Append(meta, main.w)
  /\ work' = [work EXCEPT ![main.w].stage = "listed", ![main.w].exW = work[main.w].exU]
  /\ MainTo("idle")
  /\ UNCHANGED <<config, comm, completed, shelves, pg, wd, hook, aborter, alive>>

\* addEphemeralTimeout.
AddEphemeralTimeout ==
  /\ AtMain("idle") /\ pg.added < config.ephemeral
  /\ pg' = [pg EXCEPT !.active = @ + 1, !.added = @ + 1]
  /\ UNCHANGED <<config, work, comm, meta, completed, shelves, main, wd, hook, aborter, alive>>

----------------------------------------------------------------------------
(* The thread of the program: waiting for a work *)

\* A variant for mutation: the tensors are given up before the stream waits.
Wait_UnstashFirst(w, timed) ==
  /\ AtMain("idle") /\ work[w].stage # "none" /\ work[w].kind # "sync"
  /\ work' = [work EXCEPT ![w].shelf = FALSE]
  /\ main' = [main EXCEPT !.pc = "unstash", !.w = w, !.timed = timed]
  /\ UNCHANGED <<config, comm, meta, completed, shelves, pg, wd, hook, aborter, alive>>

\* wait(timeout), synchronizeStream: the current stream waits for the end event.
Wait(w, timed) ==
  /\ AtMain("idle") /\ work[w].stage # "none" /\ work[w].kind # "sync"
  /\ work' = [work EXCEPT ![w].ordered = TRUE]
  /\ main' = [main EXCEPT !.pc = "unstash", !.w = w, !.timed = timed]
  /\ UNCHANGED <<config, comm, meta, completed, shelves, pg, wd, hook, aborter, alive>>

\* synchronizeStream: only then are the tensors given up.
Unstash ==
  /\ AtMain("unstash")
  /\ work' = [work EXCEPT ![main.w].shelf = FALSE]
  /\ MainTo(IF main.timed \/ config.blocking THEN "poll" ELSE "rethrow")
  /\ UNCHANGED <<config, comm, meta, completed, shelves, pg, wd, hook, aborter, alive>>

\* The exception object of the program's work is set, and futureWorkResult_
\* marked if it is seen not to be completed: the mark is a step of its own.
SetExceptionU(ex) ==
  /\ work' = [work EXCEPT ![main.w].exU = ex]
  /\ main' = IF work[main.w].result = "none"
             THEN [main EXCEPT !.pc = "mark", !.mark = ex]
             ELSE [main EXCEPT !.pc = "rethrow"]

\* wait: isCompleted finds an error of the communicator.
PollError ==
  /\ AtMain("poll") /\ work[main.w].exU = "none" /\ ~comm.aborted /\ CommFailed
  /\ SetExceptionU("COMM_ERROR")
  /\ UNCHANGED <<config, comm, meta, completed, shelves, pg, wd, hook, aborter, alive>>

\* wait: isCompleted is true.
PollCompleted ==
  /\ AtMain("poll") /\ ~(~comm.aborted /\ CommFailed /\ work[main.w].exU = "none")
  /\ work[main.w].exU # "none" \/ finishedGPUExecution(main.w)
  /\ MainTo("rethrow")
  /\ UNCHANGED <<config, work, comm, meta, completed, shelves, pg, wd, hook, aborter, alive>>

\* wait: checkTimeout, with the timeout of the caller, or that of the work.
PollTimeout ==
  /\ AtMain("poll") /\ work[main.w].exU = "none"
  /\ ~finishedGPUExecution(main.w) /\ (comm.aborted \/ ~CommFailed)
  /\ main.timed \/ work[main.w].expired
  /\ SetExceptionU("TIMEOUT")
  /\ UNCHANGED <<config, comm, meta, completed, shelves, pg, wd, hook, aborter, alive>>

\* futureWorkResult_->markCompleted throws if the future is completed already.
MainMark ==
  /\ AtMain("mark")
  /\ IF work[main.w].result = "none"
       THEN /\ work' = [work EXCEPT ![main.w].result = main.mark]
            /\ MainTo("rethrow")
       ELSE MainTo("idle") /\ UNCHANGED work
  /\ UNCHANGED <<config, comm, meta, completed, shelves, pg, wd, hook, aborter, alive>>

\* wait: with an exception the communicator is aborted, and the program gets it.
Rethrow ==
  /\ AtMain("rethrow")
  /\ MainTo("idle")
  /\ IF work[main.w].exU = "none" THEN UNCHANGED <<work, comm>> ELSE abortComm(FALSE)
  /\ UNCHANGED <<config, meta, completed, shelves, pg, wd, hook, aborter, alive>>

\* waitForPendingWorks returns: both lists are empty while both mutexes are held.
WaitForPendingWorks ==
  /\ AtMain("idle")
  /\ MainTo("pending")
  /\ UNCHANGED <<config, work, comm, meta, completed, shelves, pg, wd, hook, aborter, alive>>

\* A variant for mutation: only workMetaList_ is looked at.
PendingWorksDone_OneList ==
  /\ AtMain("pending") /\ ~InPass /\ meta = <<>>
  /\ MainTo("idle")
  /\ UNCHANGED <<config, work, comm, meta, completed, shelves, pg, wd, hook, aborter, alive>>

PendingWorksDone ==
  /\ AtMain("pending") /\ ~InPass /\ meta = <<>> /\ completed = <<>>
  /\ MainTo("idle")
  /\ UNCHANGED <<config, work, comm, meta, completed, shelves, pg, wd, hook, aborter, alive>>

----------------------------------------------------------------------------
(* The thread of the program: shutdown() and the destructor *)

\* shutdown: the kernels are flushed, then the threads are told to stop.
Shutdown ==
  /\ AtMain("idle")
  /\ pg' = [pg EXCEPT !.terminate = TRUE]
  /\ MainTo("join")
  /\ UNCHANGED <<config, work, comm, meta, completed, shelves, wd, hook, aborter, alive>>

\* shutdown: watchdog and hook thread are joined; then the communicator is
\* destroyed, unless it was aborted.
Destroy ==
  /\ AtMain("join") /\ wd.pc = "exited" /\ hook.pc \in {"none", "exited"}
  /\ comm' = IF comm.aborted THEN comm
             ELSE [comm EXCEPT !.aborted = TRUE, !.destroyed = TRUE]
  /\ MainTo("finished")
  /\ UNCHANGED <<config, work, meta, completed, shelves, pg, wd, hook, aborter, alive>>

\* ~ProcessGroupMCCL: abort() when neither abort nor shutdown was called, then
\* the threads are joined.
Destructor ==
  /\ AtMain("idle")
  /\ MainTo(IF pg.terminate THEN "joinall" ELSE "abort")
  /\ pg' = [pg EXCEPT !.terminate = TRUE]
  /\ UNCHANGED <<config, work, comm, meta, completed, shelves, wd, hook, aborter, alive>>

DestructorAborts ==
  /\ AtMain("abort")
  /\ abortComm(FALSE)
  /\ MainTo("joinall")
  /\ UNCHANGED <<config, meta, completed, shelves, pg, wd, hook, aborter, alive>>

JoinAll ==
  /\ AtMain("joinall") /\ wd.pc = "exited" /\ hook.pc \in {"none", "exited"}
  /\ MainTo("finished")
  /\ UNCHANGED <<config, work, comm, meta, completed, shelves, pg, wd, hook, aborter, alive>>

----------------------------------------------------------------------------
(* abort() in another thread *)

Abort ==
  /\ Running /\ config.abort /\ aborter = "idle"
  /\ pg' = [pg EXCEPT !.terminate = TRUE]
  /\ aborter' = "comms"
  /\ UNCHANGED <<config, work, comm, meta, completed, shelves, main, wd, hook, alive>>

\* abortComms, in a thread of its own that abort() waits for.
AbortComms ==
  /\ alive /\ aborter = "comms"
  /\ abortComm(FALSE)
  /\ aborter' = "returned"
  /\ UNCHANGED <<config, meta, completed, shelves, pg, main, wd, hook, alive>>

----------------------------------------------------------------------------
(* The watchdog *)

AtWd(pc) == alive /\ wd.pc = pc
WdTo(pc) == wd' = [wd EXCEPT !.pc = pc]
Current == meta[wd.pos]

\* The condition of the loop in Watchdog::runLoop.
WdLoop ==
  /\ AtWd("loop")
  /\ WdTo(IF wd.done /\ pg.terminate THEN "exited" ELSE "waiting")
  /\ UNCHANGED <<config, work, comm, meta, completed, shelves, pg, main, hook, aborter, alive>>

\* wait_for ends: a pass over the list begins, with workMetaListMutex_ held.
WdPass ==
  /\ AtWd("waiting")
  /\ wd' = [wd EXCEPT !.pc = "check", !.pos = 1]
  /\ UNCHANGED <<config, work, comm, meta, completed, shelves, pg, main, hook, aborter, alive>>

WdEndOfPass ==
  /\ AtWd("check") /\ wd.pos > Len(meta)
  /\ wd' = [wd EXCEPT !.pc = "loop", !.pos = 1, !.done = meta = <<>>]
  /\ UNCHANGED <<config, work, comm, meta, completed, shelves, pg, main, hook, aborter, alive>>

\* A variant for mutation: the exception is set, but the result not marked.
SetExceptionW_Unmarked(ex, next) ==
  /\ work' = [work EXCEPT ![Current].exW = ex]
  /\ wd' = [wd EXCEPT !.pc = next]

\* The copy's exception is set; the result is marked, in a step of its own, if
\* it is seen not to be there.
SetExceptionW(ex, next) ==
  /\ work' = [work EXCEPT ![Current].exW = ex]
  /\ wd' = IF work[Current].result = "none"
           THEN [wd EXCEPT !.pc = "mark", !.mark = ex, !.next = next]
           ELSE [wd EXCEPT !.pc = next]

WdMark ==
  /\ AtWd("mark")
  /\ IF work[Current].result = "none"
       THEN /\ work' = [work EXCEPT ![Current].result = wd.mark]
            /\ wd' = [wd EXCEPT !.pc = wd.next, !.mark = "none", !.next = "none"]
            /\ UNCHANGED alive
       ELSE alive' = FALSE /\ UNCHANGED <<work, wd>>
  /\ UNCHANGED <<config, comm, meta, completed, shelves, pg, main, hook, aborter>>

\* checkAndSetException, unless the group is being terminated.
WdCheckError ==
  /\ AtWd("check") /\ wd.pos <= Len(meta)
  /\ IF ~pg.terminate /\ CommFailed /\ work[Current].exW = "none"
       THEN SetExceptionW("COMM_ERROR", "failed")
       ELSE /\ WdTo(IF work[Current].exW = "none" THEN "timeout" ELSE "failed")
            /\ UNCHANGED work
  /\ UNCHANGED <<config, comm, meta, completed, shelves, pg, main, hook, aborter, alive>>

\* A variant for mutation: no timeout is checked once shutdown has begun.
WdCheckTimeout_Terminated ==
  /\ AtWd("timeout")
  /\ IF work[Current].expired /\ ~pg.terminate
       THEN SetExceptionW("TIMEOUT", "failed")
       ELSE WdTo("complete") /\ UNCHANGED work
  /\ UNCHANGED <<config, comm, meta, completed, shelves, pg, main, hook, aborter, alive>>

\* checkTimeout: it does not ask whether the kernel has completed.
WdCheckTimeout ==
  /\ AtWd("timeout")
  /\ IF work[Current].expired THEN SetExceptionW("TIMEOUT", "failed")
                              ELSE WdTo("complete") /\ UNCHANGED work
  /\ UNCHANGED <<config, comm, meta, completed, shelves, pg, main, hook, aborter, alive>>

\* error_ is the first error; the other ranks are told, and told to dump.
WdFailed ==
  /\ AtWd("failed")
  /\ pg' = [pg EXCEPT !.error = IF @ = "SUCCESS" THEN work[Current].exW ELSE @,
                      !.shouldDump = TRUE]
  /\ WdTo(IF SHOULD_CLEAN_UP THEN "cleanup" ELSE "handle")
  /\ UNCHANGED <<config, work, comm, meta, completed, shelves, main, hook, aborter, alive>>

\* work.abort() and abortComms().
WdCleanUp ==
  /\ AtWd("cleanup")
  /\ abortComm(FALSE)
  /\ WdTo("handle")
  /\ UNCHANGED <<config, meta, completed, shelves, pg, main, hook, aborter, alive>>

\* handleException: the exception leaves the thread and ends the process.
WdHandleException ==
  /\ AtWd("handle")
  /\ WdTo("complete")
  /\ alive' = ~SHOULD_TEAR_DOWN
  /\ UNCHANGED <<config, work, comm, meta, completed, shelves, pg, main, hook, aborter>>

\* isCompleted: it asks the communicator once more.
WdIsCompleted ==
  /\ AtWd("complete")
  /\ IF ~comm.aborted /\ CommFailed /\ work[Current].exW = "none"
       THEN SetExceptionW("COMM_ERROR", "shelve")
       ELSE /\ wd' = IF work[Current].exW # "none" \/ finishedGPUExecution(Current)
                     THEN [wd EXCEPT !.pc = "shelve"]
                     ELSE [wd EXCEPT !.pc = "check", !.pos = @ + 1]
            /\ UNCHANGED work
  /\ UNCHANGED <<config, comm, meta, completed, shelves, pg, main, hook, aborter, alive>>

\* The shelf is handed over; the result is SUCCESS if the end event has
\* completed and no other result is there.
WdShelve ==
  /\ AtWd("shelve")
  /\ shelves' = IF work[Current].shelf THEN shelves \union {Current} ELSE shelves
  /\ wd' = IF finishedGPUExecution(Current) /\ work[Current].result = "none"
           THEN [wd EXCEPT !.pc = "mark", !.mark = "SUCCESS", !.next = "retire"]
           ELSE [wd EXCEPT !.pc = "retire"]
  /\ UNCHANGED <<config, work, comm, meta, completed, pg, main, hook, aborter, alive>>

\* A variant for mutation: the timeouts in flight are not reduced.
WdRetire_InflightKept ==
  /\ AtWd("retire")
  /\ pg' = [pg EXCEPT !.active = @ - work[Current].owned]
  /\ work' = [work EXCEPT ![Current].stage = "retired", ![Current].owned = 0]
  /\ meta' = RemoveAt(meta, wd.pos)
  /\ completed' = IF config.hook THEN Append(completed, Current) ELSE completed
  /\ WdTo("check")
  /\ UNCHANGED <<config, comm, shelves, main, hook, aborter, alive>>

\* The ephemeral timeouts end with the work, which moves to completedWorkList_
\* if there is a hook.
WdRetire ==
  /\ AtWd("retire")
  /\ pg' = [pg EXCEPT !.active = @ - work[Current].owned,
                      !.inflight = @ - work[Current].owned]
  /\ work' = [work EXCEPT ![Current].stage = "retired", ![Current].owned = 0]
  /\ meta' = RemoveAt(meta, wd.pos)
  /\ completed' = IF config.hook THEN Append(completed, Current) ELSE completed
  /\ WdTo("check")
  /\ UNCHANGED <<config, comm, shelves, main, hook, aborter, alive>>

----------------------------------------------------------------------------
(* The hook thread *)

AtHook(pc) == alive /\ hook.pc = pc

HookLoop ==
  /\ AtHook("loop")
  /\ hook' = [hook EXCEPT !.pc = IF hook.done /\ pg.terminate THEN "exited" ELSE "next"]
  /\ UNCHANGED <<config, work, comm, meta, completed, shelves, pg, main, wd, aborter, alive>>

\* The next completed work, with the mutex released while the hook runs.
HookNext ==
  /\ AtHook("next")
  /\ hook' = IF completed = <<>> THEN [hook EXCEPT !.pc = "loop", !.done = TRUE]
                                 ELSE [hook EXCEPT !.pc = "calling"]
  /\ UNCHANGED <<config, work, comm, meta, completed, shelves, pg, main, wd, aborter, alive>>

HookReturns ==
  /\ AtHook("calling")
  /\ work' = [work EXCEPT ![Head(completed)].hooked = @ + 1]
  /\ completed' = Tail(completed)
  /\ hook' = [hook EXCEPT !.pc = "next"]
  /\ UNCHANGED <<config, comm, meta, shelves, pg, main, wd, aborter, alive>>

\* The hook throws: the communicators are aborted with a reason, and the work
\* stays on the list.
HookThrows ==
  /\ AtHook("calling") /\ pg.throws < HookErrors
  /\ pg' = [pg EXCEPT !.throws = @ + 1]
  /\ abortComm(TRUE)
  /\ hook' = [hook EXCEPT !.pc = "loop", !.done = FALSE]
  /\ UNCHANGED <<config, meta, completed, shelves, main, wd, aborter, alive>>

----------------------------------------------------------------------------
MainStep ==
  \/ UnstashShelves \/ WorkEnqueue \/ Unstash \/ PollError \/ PollCompleted
  \/ PollTimeout \/ MainMark \/ Rethrow \/ PendingWorksDone
  \/ Destroy \/ DestructorAborts \/ JoinAll

Program ==
  \/ \E w \in config.works, kind \in config.kinds : Collective(w, kind)
  \/ \E w \in config.works, timed \in config.timed : Wait(w, timed)
  \/ AddEphemeralTimeout \/ WaitForPendingWorks \/ Shutdown \/ Destructor

Watchdog ==
  \/ WdLoop \/ WdPass \/ WdEndOfPass \/ WdMark \/ WdCheckError \/ WdCheckTimeout
  \/ WdFailed \/ WdCleanUp \/ WdHandleException \/ WdIsCompleted \/ WdShelve \/ WdRetire

HookThread == HookLoop \/ HookNext \/ HookReturns \/ HookThrows

Next ==
  \/ MainStep \/ Program \/ Watchdog \/ HookThread \/ Abort \/ AbortComms
  \/ AsyncError \/ \E w \in Works : Finish(w) \/ Expire(w)

Spec == Init /\ [][Next]_vars

\* Threads inside the library run, and time passes.  Nothing is assumed of the
\* program, or of kernels, which may hang.
FairSpec ==
  /\ Spec
  /\ WF_vars(MainStep) /\ WF_vars(Watchdog) /\ WF_vars(HookThread) /\ WF_vars(AbortComms)
  /\ \A w \in Works : WF_vars(Expire(w))

----------------------------------------------------------------------------
(* Properties *)

WorkTypes ==
  [kind : config.kinds \union {"none"}, gpu : {"idle", "running", "done", "killed"},
   stage : {"none", "made", "dropped", "listed", "retired"}, expired : BOOLEAN,
   shelf : BOOLEAN, ordered : BOOLEAN,
   exU : {"none", "TIMEOUT", "COMM_ERROR"}, exW : {"none", "TIMEOUT", "COMM_ERROR"},
   result : Results \union {"none"}, owned : 0 .. config.ephemeral, hooked : 0 .. 1]

\* Types; in particular a work is on one of the two lists exactly while its
\* stage says so, and the hook is called once for it to return.
TypeOK ==
  /\ work \in [Works -> WorkTypes]
  /\ meta \in Seq(Works) /\ completed \in Seq(Works)
  /\ Range(meta) = {w \in Works : work[w].stage = "listed"}
  /\ pg.active \in 0 .. config.ephemeral /\ pg.inflight \in 0 .. config.ephemeral
  /\ pg.error \in {"SUCCESS", "TIMEOUT", "COMM_ERROR"}

\* The input and output tensors of an asynchronous collective are kept (stash),
\* or the program's stream waits for it, as long as its kernel runs: the
\* allocator recycles no tensor that MCCL reads or writes.  A work in which the
\* watchdog has found an error is retired before its kernel ends, and its tensors
\* may go before it: then the data is lost anyway.
TensorsKept ==
  \A w \in Works :
    work[w].gpu = "running" /\ work[w].kind # "sync" /\ work[w].exW = "none" =>
      work[w].shelf \/ work[w].ordered

\* waitForPendingWorks returns only when every work the program has put on the
\* list has been retired, and the hook has returned for it.
PendingMeansHooked ==
  [][main.pc = "pending" /\ main'.pc = "idle" =>
       \A w \in Works : work[w].stage \in {"listed", "retired"} =>
         /\ work[w].stage = "retired"
         /\ config.hook => work[w].hooked = 1]_vars

OwnedBy(w, flying, owner) == {i \in flying : owner[i] = w}

\* The timeouts in flight and those that wait for the next work, and who owns them.
Assigned(flying, waiting, owner) ==
  /\ flying \intersect waiting = {}
  /\ pg.inflight = Cardinality(flying) /\ pg.active = Cardinality(flying \union waiting)
  /\ \A w \in Works :
       /\ work[w].owned = Cardinality(OwnedBy(w, flying, owner))
       /\ work[w].stage = "retired" => work[w].owned = 0
  /\ "coalesced" \notin config.kinds => \A i \in flying : owner[i] # NoWork

\* Every ephemeral timeout in flight belongs to one work (ownedEphermeralTimeout_),
\* which has not been retired; the others that are active wait for the next work.
\* One that a coalesced operation took belongs to no work any more.
EphemeralOwned ==
  \E flying \in SUBSET (1 .. pg.added) : \E waiting \in SUBSET (1 .. pg.added) :
    \E owner \in [flying -> Works \union {NoWork}] : Assigned(flying, waiting, owner)

\* A retired work has a result, and a work that a thread found expired or failed
\* does not count as a success to the program that waits for the result.
RetiredHasResult ==
  \A w \in Works : work[w].stage = "retired" =>
    /\ work[w].result # "none"
    /\ work[w].result = "SUCCESS" => work[w].exW = "none"

\* shutdown and the destructor return, or the process is taken down, although
\* kernels may hang: hung works time out.
ShutdownReturns == main.pc \in {"join", "abort", "joinall"} ~> main.pc = "finished" \/ ~alive

\* Every work on the list gets a result, or the process is taken down.
ResultDelivered ==
  \A w \in Works :
    work[w].stage = "listed" ~> work[w].result # "none" \/ ~alive \/ wd.pc = "exited"

\* The lists and counters the threads share agree with the works: workMetaList_
\* holds the works that are not retired, and the ephemeral timeouts in flight are
\* those the works own.
Bookkeeping == TypeOK /\ EphemeralOwned
----------------------------------------------------------------------------
(* The inductive invariant *)

Errors == {"TIMEOUT", "COMM_ERROR"}
Busy == {"mark", "timeout", "failed", "cleanup", "handle", "complete", "shelve", "retire"}

RecordsOK ==
  /\ config \in Configs /\ shelves \subseteq Works
  /\ comm \in [aborted : BOOLEAN, destroyed : BOOLEAN, err : BOOLEAN, reason : BOOLEAN]
  /\ pg \in [terminate : BOOLEAN, error : Errors \union {"SUCCESS"}, shouldDump : BOOLEAN,
             active : Nat, inflight : Nat, added : 0 .. config.ephemeral, throws : Nat]
  /\ main \in [pc : {"idle", "enqueue", "lock", "unstash", "poll", "mark", "rethrow",
                     "pending", "join", "abort", "joinall", "finished"},
               w : Works \union {NoWork}, mark : Errors \union {"none"}, timed : BOOLEAN]
  /\ wd \in [pc : {"loop", "waiting", "exited", "check"} \union Busy, pos : Nat \ {0},
             done : BOOLEAN, mark : Results \union {"none"},
             next : {"none", "failed", "shelve", "retire"}]
  /\ hook \in [pc : {"none", "loop", "next", "calling", "exited"}, done : BOOLEAN]
  /\ aborter \in {"idle", "comms", "returned"} /\ alive \in BOOLEAN

\* No work is on a list twice, and the hook is called while there is one.
ListsOK ==
  /\ IsInjective(meta) /\ IsInjective(completed)
  /\ hook.pc = "calling" => completed # <<>>

\* The work the program's thread is at.
MainOK ==
  /\ main.pc \in {"enqueue", "lock"} => main.w \in Works /\ work[main.w].stage = "made"
  /\ main.pc \in {"unstash", "poll", "mark", "rethrow"} =>
       main.w \in Works /\ work[main.w].stage \notin {"none", "made"}
  /\ main.pc = "unstash" => work[main.w].ordered
  /\ main.pc = "mark" => main.mark \in Errors

\* The work the watchdog is at: with an error it has a result from the moment the
\* watchdog reports it, and it is retired with an error or with its kernel ended.
WatchdogOK ==
  wd.pc \in Busy =>
    /\ wd.pos \in 1 .. Len(meta)
    /\ wd.pc = "mark" =>
         \/ wd.mark = "SUCCESS" /\ wd.next = "retire" /\ work[Current].exW = "none"
         \/ wd.mark \in Errors /\ wd.next \in {"failed", "shelve"} /\ work[Current].exW # "none"
    /\ wd.pc \in {"failed", "cleanup", "handle"} => work[Current].exW # "none"
    /\ wd.pc \notin {"mark", "timeout"} /\ work[Current].exW # "none" => work[Current].result # "none"
    /\ wd.pc = "shelve" => work[Current].exW # "none" \/ finishedGPUExecution(Current)
    /\ wd.pc = "retire" =>
         /\ work[Current].result # "none"
         /\ work[Current].result = "SUCCESS" => work[Current].exW = "none"

\* The life of a work: its exceptions and results are set after it was listed or
\* dropped, an error in the list is known to the watchdog only while it handles
\* it, and the work passes through completedWorkList_ once.
WorkOK(w) ==
  /\ work[w].stage = "none" => work[w].gpu = "idle"
  /\ work[w].stage = "made" => main.pc \in {"enqueue", "lock"} /\ main.w = w
  /\ work[w].stage \in {"none", "made"} =>
       work[w].exU = "none" /\ work[w].exW = "none" /\ work[w].result = "none"
  /\ work[w].stage = "none" => work[w].owned = 0
  /\ work[w].stage = "listed" /\ work[w].exW # "none" =>
       wd.pc \in Busy \ {"timeout"} /\ Current = w
  /\ work[w].stage = "listed" /\ work[w].result = "SUCCESS" => wd.pc = "retire" /\ Current = w
  /\ w \in shelves => /\ work[w].stage \in {"listed", "retired"}
                      /\ work[w].exW # "none" \/ finishedGPUExecution(w)
  /\ w \in Range(completed) => work[w].stage = "retired"
  /\ w \in Range(completed) \/ work[w].stage # "retired" => work[w].hooked = 0
  /\ work[w].stage = "retired" /\ config.hook => w \in Range(completed) \/ work[w].hooked = 1

IInv ==
  /\ TypeOK /\ RecordsOK /\ EphemeralOwned /\ ListsOK /\ MainOK /\ WatchdogOK
  /\ \A w \in Works : WorkOK(w)
  /\ TensorsKept /\ RetiredHasResult
=============================================================================

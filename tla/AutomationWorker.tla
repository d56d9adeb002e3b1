--------------------------- MODULE AutomationWorker ---------------------------
(***************************************************************************)
(* The continuous automation worker (src/src/ash/automation/worker.py):    *)
(* AutomationWorkerService.run_forever and the asyncio tasks it owns, as   *)
(* clients of the database of AutomationStore.                             *)
(*                                                                         *)
(* A claimed run is executed by a task (execute) that starts two others,   *)
(* the operation (the model turn in a subprocess) and the monitor that     *)
(* renews the lease.  An operation may ignore its cancellation: after half *)
(* a second it is unsettled, and its cleanup is deferred.  Steps between   *)
(* two awaits are one action; the waits with a timeout may end at any      *)
(* moment.  Workers are processes: any of them may be killed.              *)
(*                                                                         *)
(* A run is executed by the one worker that claimed it, so the tasks of a  *)
(* run are one row of turn.                                                *)
(***************************************************************************)
EXTENDS AutomationStore

CONSTANT MaxRuns  \* max_concurrent_runs

\* A job has one run at a time: a larger max_concurrent_runs is never reached.
ASSUME WorkerAssumption ==
  /\ IsFiniteSet(Job)
  /\ MaxRuns \in 1..Cardinality(Job)

VARIABLES
  loop,  \* where run_forever of each worker is
  turn   \* the tasks of each run

workerVars == <<now, jobs, runs, born, outbox, calls, loop, turn>>

\* Where the execute task is: not begun, waiting for the operation or the
\* monitor, waiting for a cancelled operation (after a timeout, a
\* cancellation or a failure), in its finally block, or done.
Waits == {"timeout", "cancelling", "failing"}
Ends  == {"returning", "raising", "unwinding"}
Done  == {"returned", "raised", "cancelled"}
Place == {"none", "start", "racing"} \cup Waits \cup Ends \cup Done

\* The operation: asked is running with a cancellation it may ignore.
Live == {"live", "asked"}
Operation == {"none", "ok", "bad", "cancelled"} \cup Live

Turn == [by : Worker \cup {NoToken},
         at : Place,
         op : Operation,
         watch : {"off", "on", "lost"},       \* _monitor_lease; lost: it raised
         hit : BOOLEAN,                       \* cancelled again while it waits
         slot : {"none", "tasks", "detached", "out"},
         cleanup : BOOLEAN]                   \* in _deferred_cleanup_tasks
NoTurn == [by |-> NoToken, at |-> "none", op |-> "none", watch |-> "off",
           hit |-> FALSE, slot |-> "none", cleanup |-> FALSE]

Stopping == {"pausing", "closing"}            \* in _stop_active_runs, waiting
Reaping  == {"pause_reap", "close_reap"}      \* and after the wait
Loop == {"off", "top", "claim", "stopped", "crashed"} \cup Stopping \cup Reaping

\* Types, and the shape of a row: an operation exists once execute has begun,
\* and execute waits only for operations it has cancelled.
WorkerTypeOK ==
  /\ loop \in [Worker -> Loop]
  /\ turn \in [RunId -> Turn]
  /\ \A r \in RunId :
       /\ turn[r].at = "start" => turn[r].op = "none"
       /\ turn[r].at = "racing" => turn[r].op # "none"
       /\ turn[r].at \in Waits => turn[r].op \notin {"none", "live"}

WorkerInit ==
  /\ Init
  /\ loop = [w \in Worker |-> "off"]
  /\ turn = [r \in RunId |-> NoTurn]

Tasks(w) == {r \in RunId : turn[r].by = w /\ turn[r].slot = "tasks"}

\* Variant: a detached task is forgotten.
OutstandingAttached(w) == {r \in RunId : turn[r].by = w /\ turn[r].cleanup}

\* _active_cleanup_tasks
Outstanding(w) ==
  {r \in RunId : /\ turn[r].by = w
                 /\ \/ turn[r].cleanup
                    \/ turn[r].slot = "detached" /\ turn[r].at \notin Done}

(***************************************************************************)
(* Recording an outcome.  A call that raises AutomationError changes       *)
(* nothing, and the task that made it raises.                              *)
(***************************************************************************)
\* Variant: the status is written whoever holds the lease.
RecordUnfenced(w, r, status) ==
  /\ CloseRun(r, status)
  /\ UNCHANGED <<now, born, calls>>

Record(w, r, status) ==
  IF OwnsRun(w, r) THEN FinishRun(w, r, status) ELSE UNCHANGED vars

Interruptible(w, r) == runs[r].status = "running" /\ runs[r].token = w

RecordInterrupted(w, r) ==
  IF Interruptible(w, r) THEN InterruptRun(w, r) ELSE UNCHANGED vars

After(accepted) == IF accepted THEN "returning" ELSE "raising"

\* The operation once its task is cancelled.
Asked(op) == IF op = "live" THEN "asked" ELSE op

Moved(r, at) == turn' = [turn EXCEPT ![r] = [@ EXCEPT !.at = at, !.hit = FALSE]]

(***************************************************************************)
(* execute                                                                 *)
(***************************************************************************)
\* The task found a cleanup outstanding, or a retired client that could not
\* be closed, which may be at any time.
RefuseTurn(w, r) ==
  /\ turn[r].by = w /\ turn[r].at = "start"
  /\ Record(w, r, "failed")
  /\ Moved(r, IF OwnsRun(w, r) THEN "returned" ELSE "raised")
  /\ UNCHANGED loop

StartTurn(w, r) ==
  /\ turn[r].by = w /\ turn[r].at = "start"
  /\ Outstanding(w) = {}
  /\ turn' = [turn EXCEPT ![r] =
       [@ EXCEPT !.at = "racing", !.op = "live", !.watch = "on"]]
  /\ UNCHANGED <<vars, loop>>

OperationEnds(r, outcome) ==
  /\ turn[r].op \in Live
  /\ outcome = "cancelled" => turn[r].op = "asked"
  /\ turn' = [turn EXCEPT ![r] = [@ EXCEPT !.op = outcome]]
  /\ UNCHANGED <<vars, loop>>

\* Variant: only an exception of the operation is looked at.
TurnResultUnchecked(w, r) ==
  /\ turn[r].by = w /\ turn[r].at = "racing" /\ turn[r].op \notin Live
  /\ Record(w, r, IF turn[r].op = "bad" THEN "failed" ELSE "succeeded")
  /\ Moved(r, After(OwnsRun(w, r)))
  /\ UNCHANGED loop

\* asyncio.wait returned: the monitor's error comes first, then the result.
TurnResult(w, r) ==
  LET status == IF turn[r].watch = "lost" THEN "failed"
                ELSE CASE turn[r].op = "ok" -> "succeeded"
                       [] turn[r].op = "bad" -> "failed"
                       [] turn[r].op = "cancelled" -> "cancelled"
  IN /\ turn[r].by = w /\ turn[r].at = "racing" /\ turn[r].op \notin Live
     /\ Record(w, r, status)
     /\ Moved(r, After(OwnsRun(w, r)))
     /\ UNCHANGED loop

\* Variant: the wait begins without cancelling the operation.
CancelTurnSilently(r, at) ==
  turn' = [turn EXCEPT ![r] = [@ EXCEPT !.at = at, !.hit = FALSE]]

\* The monitor ended first, or the wall-clock timeout fired.
CancelTurn(r, at) ==
  turn' = [turn EXCEPT ![r] = [@ EXCEPT !.at = at, !.op = "asked", !.hit = FALSE]]

MonitorEnded(r) ==
  /\ turn[r].at = "racing" /\ turn[r].op \in Live /\ turn[r].watch # "on"
  /\ CancelTurn(r, IF turn[r].watch = "lost" THEN "failing" ELSE "cancelling")
  /\ UNCHANGED <<vars, loop>>

TurnTimeout(r) ==
  /\ turn[r].at = "racing" /\ turn[r].op \in Live
  /\ CancelTurn(r, "timeout")
  /\ UNCHANGED <<vars, loop>>

(***************************************************************************)
(* The end of cancel_operation: the operation settled, or half a second    *)
(* passed and it is still running.                                         *)
(***************************************************************************)
OpSettled(r) == turn[r].op \notin Live

Deferred(r, at) ==
  turn' = [turn EXCEPT ![r] = [@ EXCEPT !.at = at, !.hit = FALSE,
                                        !.cleanup = ~ OpSettled(r)]]

\* Variant: an operation that ignores its cancellation is waited for.
TimeoutHandledLate(w, r) ==
  /\ turn[r].by = w /\ turn[r].at = "timeout"
  /\ OpSettled(r)
  /\ Record(w, r, "failed")
  /\ Moved(r, After(OwnsRun(w, r)))
  /\ UNCHANGED loop

TimeoutHandled(w, r) ==
  /\ turn[r].by = w /\ turn[r].at = "timeout"
  /\ IF turn[r].hit
     THEN /\ Deferred(r, "cancelling")
          /\ UNCHANGED vars
     ELSE /\ Record(w, r, "failed")
          /\ Deferred(r, After(OwnsRun(w, r)))
  /\ UNCHANGED loop

CancellationHandled(w, r) ==
  /\ turn[r].by = w /\ turn[r].at = "cancelling"
  /\ IF OpSettled(r)
     THEN /\ Record(w, r, "cancelled")
          /\ Moved(r, After(OwnsRun(w, r)))
     ELSE /\ RecordInterrupted(w, r)
          /\ Deferred(r, After(Interruptible(w, r)))
  /\ UNCHANGED loop

\* A cancellation during the wait leaves before the cleanup is deferred.
FailureHandled(w, r) ==
  /\ turn[r].by = w /\ turn[r].at = "failing"
  /\ CASE turn[r].hit ->
            /\ Moved(r, "unwinding")
            /\ UNCHANGED vars
       [] ~ turn[r].hit /\ OpSettled(r) ->
            /\ Record(w, r, "failed")
            /\ Moved(r, After(OwnsRun(w, r)))
       [] OTHER ->
            /\ RecordInterrupted(w, r)
            /\ Deferred(r, After(Interruptible(w, r)))
  /\ UNCHANGED loop

Settles(at) == CASE at = "returning" -> "returned"
                 [] at = "raising"   -> "raised"
                 [] at = "unwinding" -> "cancelled"

Left(t, late) ==
  [t EXCEPT !.at = Settles(@), !.watch = "off", !.cleanup = @ \/ late]

\* The finally block stops the monitor, then closes the client of an
\* operation that is done; late: the client is not closed within two
\* seconds, and is handed to a cleanup task.
EndTurn(r) ==
  /\ turn[r].at \in Ends
  /\ \E late \in BOOLEAN :
       /\ late => OpSettled(r)
       /\ turn' = [turn EXCEPT ![r] = Left(@, late)]
  /\ UNCHANGED <<vars, loop>>

\* A deferred cleanup task ends once the operation has.
CleanupEnds(r) ==
  /\ turn[r].cleanup /\ OpSettled(r)
  /\ turn' = [turn EXCEPT ![r] = [@ EXCEPT !.cleanup = FALSE]]
  /\ UNCHANGED <<vars, loop>>

(***************************************************************************)
(* _monitor_lease, while the operation runs                                *)
(***************************************************************************)
Watching(w, r) == /\ turn[r].by = w /\ turn[r].watch = "on" /\ turn[r].op \in Live
                  /\ turn[r].at \in {"racing"} \cup Waits

MonitorCancels(w, r) ==
  /\ Watching(w, r)
  /\ OwnsRun(w, r) /\ runs[r].cancel
  /\ turn' = [turn EXCEPT ![r] = [@ EXCEPT !.watch = "off", !.op = "asked"]]
  /\ UNCHANGED <<vars, loop>>

MonitorRenews(w, r) ==
  /\ Watching(w, r)
  /\ ~ runs[r].cancel
  /\ RenewLease(w, r)
  /\ UNCHANGED <<loop, turn>>

\* The lease is lost, or the database could not be used.
MonitorFails(w, r) ==
  /\ Watching(w, r)
  /\ turn' = [turn EXCEPT ![r] = [@ EXCEPT !.watch = "lost", !.op = "asked"]]
  /\ UNCHANGED <<vars, loop>>

(***************************************************************************)
(* run_forever                                                             *)
(***************************************************************************)
\* Variant: a task that has not begun is not cancelled.
CancelledBegun(t) ==
  CASE t.at = "racing" -> [t EXCEPT !.at = "cancelling", !.op = Asked(@),
                                    !.hit = FALSE]
    [] t.at \in Waits  -> [t EXCEPT !.hit = TRUE]
    [] t.at \in {"returning", "raising"} -> [t EXCEPT !.at = "unwinding"]
    [] OTHER -> t

\* task.cancel() on an execute task.
Cancelled(t) ==
  CASE t.at = "start"  -> [t EXCEPT !.at = "cancelled"]
    [] t.at = "racing" -> [t EXCEPT !.at = "cancelling", !.op = Asked(@),
                                    !.hit = FALSE]
    [] t.at \in Waits  -> [t EXCEPT !.hit = TRUE]
    [] t.at \in {"returning", "raising"} -> [t EXCEPT !.at = "unwinding"]
    [] OTHER -> t

Goto(w, l) == loop' = [loop EXCEPT ![w] = l]

StartWorker(w) ==
  /\ loop[w] = "off"
  /\ Goto(w, "top")
  /\ UNCHANGED <<vars, turn>>

\* _collect_finished, for one task that is done.
Collect(w, r) ==
  /\ loop[w] \in {"top"} \cup Reaping
  /\ r \in Tasks(w) /\ turn[r].at \in Done
  /\ CASE turn[r].at = "cancelled" -> Record(w, r, "cancelled")
       [] turn[r].at = "raised"    -> RecordInterrupted(w, r)
       [] turn[r].at = "returned"  -> UNCHANGED vars
  /\ turn' = [turn EXCEPT ![r] = [@ EXCEPT !.at = "none", !.slot = "out"]]
  /\ UNCHANGED loop

Collected(w) == \A r \in Tasks(w) : turn[r].at \notin Done

\* The workspace is valid: on to the deliveries, maintenance and claims.
Proceed(w) ==
  /\ loop[w] = "top" /\ Collected(w)
  /\ Goto(w, "claim")
  /\ UNCHANGED <<vars, turn>>

\* _stop_active_runs: cancel every task, then wait for them.
StopRuns(w, l) ==
  /\ turn' = [r \in RunId |-> IF r \in Tasks(w) THEN Cancelled(turn[r]) ELSE turn[r]]
  /\ Goto(w, l)
  /\ UNCHANGED vars

\* The workspace is not valid (or automation is disabled).
Pause(w) ==
  /\ loop[w] = "top" /\ Collected(w)
  /\ Tasks(w) # {}
  /\ StopRuns(w, "pausing")

\* A stop was requested, or run_forever was cancelled or failed.
Exit(w) ==
  \/ loop[w] \in {"top", "claim"} /\ StopRuns(w, "closing")
  \/ loop[w] = "pausing" /\ Goto(w, "closing") /\ UNCHANGED <<vars, turn>>

\* All tasks are done, or four seconds have passed.
Reap(w) ==
  /\ loop[w] \in Stopping
  /\ Goto(w, IF loop[w] = "pausing" THEN "pause_reap" ELSE "close_reap")
  /\ UNCHANGED <<vars, turn>>

\* Variant: the run is left to its lease.
AbandonSilently(w, r) ==
  /\ loop[w] \in Reaping
  /\ r \in Tasks(w) /\ turn[r].at \notin Done
  /\ turn' = [turn EXCEPT ![r] = [@ EXCEPT !.slot = "detached"]]
  /\ UNCHANGED <<vars, loop>>

\* A task that outlived the wait: its run is recorded, the task detached.
Abandon(w, r) ==
  /\ loop[w] \in Reaping
  /\ r \in Tasks(w) /\ turn[r].at \notin Done
  /\ Record(w, r, "cancelled")
  /\ turn' = [turn EXCEPT ![r] = [@ EXCEPT !.slot = "detached"]]
  /\ UNCHANGED loop

Reaped(w) ==
  /\ loop[w] \in Reaping /\ Tasks(w) = {}
  /\ Goto(w, IF loop[w] = "pause_reap" THEN "top" ELSE "stopped")
  /\ UNCHANGED <<vars, turn>>

Capacity(w) == IF Outstanding(w) # {} THEN 0 ELSE MaxRuns - Cardinality(Tasks(w))

\* The lease given here fits the bound on the clock; once it cannot, only
\* the sweep of the claim is left.
Claim(w) ==
  /\ loop[w] = "claim"
  /\ CASE Capacity(w) \notin 1..MaxRuns -> UNCHANGED vars
       [] Capacity(w) \in 1..MaxRuns /\ LeaseFits -> ClaimDueBatch(w, Capacity(w))
       [] OTHER -> Sweep /\ UNCHANGED <<now, born, calls>>
  /\ turn' = [r \in RunId |->
       IF runs[r].status = "absent" /\ runs'[r].status = "running"
       THEN [NoTurn EXCEPT !.by = w, !.at = "start", !.slot = "tasks"]
       ELSE turn[r]]
  /\ Goto(w, "top")

\* The process is killed: its tasks go, and so does the process group of
\* each operation.
Crash(w) ==
  /\ loop[w] \notin {"off", "stopped", "crashed"}
  /\ turn' = [r \in RunId |-> IF turn[r].by = w THEN NoTurn ELSE turn[r]]
  /\ Goto(w, "crashed")
  /\ UNCHANGED vars

(***************************************************************************)
(* The workers, and the users who create jobs and cancel runs              *)
(***************************************************************************)
ExecuteStep(w, r) ==
  \/ RefuseTurn(w, r) \/ StartTurn(w, r) \/ TurnResult(w, r)
  \/ TimeoutHandled(w, r) \/ CancellationHandled(w, r) \/ FailureHandled(w, r)

LoopStep(w) ==
  \/ Proceed(w) \/ Reap(w) \/ Reaped(w) \/ Claim(w)
  \/ \E r \in RunId : Collect(w, r) \/ Abandon(w, r)

Users ==
  /\ \/ \E j \in Job : CreateJob(j, TRUE)
     \/ \E r \in RunId : runs[r].status = "running" /\ BeginCall(CancelCall(r))
     \/ \E c \in calls : FailCall(c)
     \/ \E r \in RunId : RequestCancel(r)
     \/ Tick
  /\ UNCHANGED <<loop, turn>>

WorkerNext ==
  \/ \E w \in Worker : StartWorker(w) \/ LoopStep(w) \/ Pause(w) \/ Exit(w) \/ Crash(w)
  \/ \E w \in Worker, r \in RunId :
       \/ ExecuteStep(w, r)
       \/ MonitorCancels(w, r) \/ MonitorRenews(w, r) \/ MonitorFails(w, r)
  \/ \E r \in RunId :
       \/ MonitorEnded(r) \/ TurnTimeout(r) \/ EndTurn(r) \/ CleanupEnds(r)
       \/ \E outcome \in {"ok", "bad", "cancelled"} : OperationEnds(r, outcome)
  \/ Users

WorkerSpec == WorkerInit /\ [][WorkerNext]_workerVars

\* The event loop of a live worker runs the tasks that are ready, and its
\* timeouts fire.  Nothing is assumed of the operation: it may never end.
WorkerFairness ==
  /\ \A w \in Worker : WF_workerVars(LoopStep(w))
  /\ \A w \in Worker, r \in RunId : WF_workerVars(ExecuteStep(w, r))
  /\ \A r \in RunId : WF_workerVars(MonitorEnded(r) \/ TurnTimeout(r) \/ EndTurn(r))

FairWorkerSpec == WorkerSpec /\ WorkerFairness

(***************************************************************************)
(* Properties                                                              *)
(***************************************************************************)

\* While a worker lives, every run whose lease it holds is one of its tasks:
\* no path out of execute, of the collection of finished tasks or of a stop
\* forgets a run without recording it, so a worker that stopped holds none.
HeldRunIsTracked ==
  \A r \in RunId :
    /\ runs[r].status = "running" /\ runs[r].lease > now
    /\ loop[runs[r].token] # "crashed"
    => r \in Tasks(runs[r].token)

\* A worker that has stopped left no operation running that was not asked
\* to stop, be it collected, detached or deferred.
StopAsksEveryTurn ==
  \A r \in RunId :
    turn[r].op = "live" => loop[turn[r].by] # "stopped"

Operating(w) == {r \in RunId : turn[r].by = w /\ turn[r].op \in Live}

\* The operations of which the worker kept the task, begun or detached, or
\* the deferred cleanup.
Owned(w) ==
  {r \in Operating(w) :
     \/ turn[r].cleanup
     \/ /\ turn[r].slot \in {"tasks", "detached"}
        /\ turn[r].at \notin Done}

\* The operations a worker knows to be running never exceed
\* max_concurrent_runs, whatever was paused, timed out or cancelled before.
OwnedConcurrency == \A w \in Worker : Cardinality(Owned(w)) <= MaxRuns

\* DURABLE_AUTOMATION.md: "Different jobs can run concurrently up to
\* automation_max_concurrent_runs per worker."
ConcurrencyBound ==
  \A w \in Worker : Cardinality(Operating(w)) <= MaxRuns

\* A run is recorded as succeeded only if its operation completed.
SuccessIsReal ==
  \A r \in RunId :
    runs[r].status = "succeeded" /\ turn[r].by # NoToken => turn[r].op = "ok"

\* The workers drive the database only as its clients may.
WorkerImplementsStore == Spec

\* Every task ends, though the operation may ignore its cancellation
\* for ever, and the worker stops tracking the run.
TurnEnds ==
  \A r \in RunId : turn[r].slot = "tasks" ~> turn[r].slot # "tasks"
==============================================================================

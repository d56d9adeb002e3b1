------------------------ MODULE AutomationWorkerProofs ------------------------
(***************************************************************************)
(* Proofs about the automation worker: its types, that the workers drive   *)
(* the database only as its clients may, that a live worker tracks every   *)
(* run whose lease it holds, and that its operations are asked to stop     *)
(* before it does, bounded, and completed where a success is recorded.     *)
(***************************************************************************)
EXTENDS AutomationWorker, AutomationStoreProofs, FiniteSetTheorems

USE StoreAssumption DEF Time, NoTime

-----------------------------------------------------------------------------
(***************************************************************************)
(* Every step of a worker is a step of the database.                       *)
(***************************************************************************)
LEMMA RecordSteps ==
  ASSUME NEW w \in Worker, NEW r \in RunId,
         NEW s \in {"succeeded", "failed", "cancelled"}, Record(w, r, s)
  PROVE  [Next]_vars
<1>1. CASE OwnsRun(w, r)
  <2>1. FinishRun(w, r, s)
    BY <1>1 DEF Record
  <2>2. UseRuns
    BY <2>1 DEF UseRuns
  <2> QED BY <2>2 DEF Next
<1>2. CASE ~ OwnsRun(w, r)
  BY <1>2 DEF Record
<1> QED BY <1>1, <1>2

LEMMA RecordInterruptedSteps ==
  ASSUME NEW w \in Worker, NEW r \in RunId, RecordInterrupted(w, r)
  PROVE  [Next]_vars
<1>1. CASE Interruptible(w, r)
  <2>1. InterruptRun(w, r)
    BY <1>1 DEF RecordInterrupted
  <2>2. UseRuns
    BY <2>1 DEF UseRuns
  <2> QED BY <2>2 DEF Next
<1>2. CASE ~ Interruptible(w, r)
  BY <1>2 DEF RecordInterrupted
<1> QED BY <1>1, <1>2

\* The claim of a worker with a capacity is a claim of the database, and the
\* sweep alone is one too, or changes nothing.
LEMMA ClaimSteps ==
  ASSUME TypeOK, NEW w \in Worker, Claim(w)
  PROVE  [Next]_vars
<1>1. CASE Capacity(w) \notin 1..MaxRuns
  BY <1>1 DEF Claim
<1>2. CASE Capacity(w) \in 1..MaxRuns /\ LeaseFits
  <2>1. ClaimDueBatch(w, Capacity(w))
    BY <1>2 DEF Claim
  <2>2. Capacity(w) \in 1..Cardinality(Job)
    BY <1>2, WorkerAssumption, FS_CardinalityType
  <2>3. UseRuns
    BY <2>1, <2>2 DEF UseRuns
  <2> QED BY <2>3 DEF Next
<1>3. CASE Capacity(w) \in 1..MaxRuns /\ ~ LeaseFits
  <2>1. Sweep /\ UNCHANGED <<now, born, calls>>
    BY <1>3 DEF Claim
  <2>2. CASE ExpiredRuns # {}
    BY <2>1, <2>2 DEF RecoverExpired, UseRuns, Next
  <2>3. CASE ExpiredRuns = {}
    <3>1. RecoveredRuns = runs
      BY <2>3 DEF RecoveredRuns, TypeOK
    <3>2. RecoveredJobs = jobs
      BY <2>3 DEF RecoveredJobs, TypeOK
    <3>3. Enqueued(outbox, ExpiredRuns) = outbox
      BY <2>3 DEF Enqueued, TypeOK
    <3> QED BY <2>1, <3>1, <3>2, <3>3 DEF Sweep, vars
  <2> QED BY <2>2, <2>3
<1> QED BY <1>1, <1>2, <1>3

LEMMA ExecuteSteps ==
  ASSUME WorkerTypeOK, NEW w \in Worker, NEW r \in RunId, ExecuteStep(w, r)
  PROVE  [Next]_vars
<1>1. CASE RefuseTurn(w, r)
  BY <1>1, RecordSteps DEF RefuseTurn
<1>2. CASE StartTurn(w, r)
  BY <1>2 DEF StartTurn
<1>3. CASE TurnResult(w, r)
  <2>1. turn[r].op \in {"ok", "bad", "cancelled"}
    BY <1>3 DEF TurnResult, WorkerTypeOK, Turn, Operation, Live
  <2>2. \E s \in {"succeeded", "failed", "cancelled"} : Record(w, r, s)
    BY <1>3, <2>1 DEF TurnResult
  <2> QED BY <2>2, RecordSteps
<1>4. CASE TimeoutHandled(w, r)
  <2>1. UNCHANGED vars \/ Record(w, r, "failed")
    BY <1>4 DEF TimeoutHandled
  <2> QED BY <2>1, RecordSteps
<1>5. CASE CancellationHandled(w, r)
  <2>1. Record(w, r, "cancelled") \/ RecordInterrupted(w, r)
    BY <1>5 DEF CancellationHandled
  <2> QED BY <2>1, RecordSteps, RecordInterruptedSteps
<1>6. CASE FailureHandled(w, r)
  <2>1. UNCHANGED vars \/ Record(w, r, "failed") \/ RecordInterrupted(w, r)
    BY <1>6 DEF FailureHandled
  <2> QED BY <2>1, RecordSteps, RecordInterruptedSteps
<1> QED BY <1>1, <1>2, <1>3, <1>4, <1>5, <1>6 DEF ExecuteStep

LEMMA LoopSteps ==
  ASSUME TypeOK, NEW w \in Worker, LoopStep(w)
  PROVE  [Next]_vars
<1>1. CASE Claim(w)
  BY <1>1, ClaimSteps
<1>2. ASSUME NEW r \in RunId, Collect(w, r)
      PROVE  [Next]_vars
  <2>1. \/ UNCHANGED vars
        \/ Record(w, r, "cancelled")
        \/ RecordInterrupted(w, r)
    BY <1>2 DEF Collect, Done
  <2> QED BY <2>1, RecordSteps, RecordInterruptedSteps
<1>3. ASSUME NEW r \in RunId, Abandon(w, r)
      PROVE  [Next]_vars
  BY <1>3, RecordSteps DEF Abandon
<1>4. CASE Proceed(w) \/ Reap(w) \/ Reaped(w)
  BY <1>4 DEF Proceed, Reap, Reaped
<1> QED BY <1>1, <1>2, <1>3, <1>4 DEF LoopStep

LEMMA UserSteps ==
  ASSUME Users
  PROVE  [Next]_vars
<1>1. CASE \/ \E j \in Job : CreateJob(j, TRUE)
           \/ \E r \in RunId : runs[r].status = "running" /\ BeginCall(CancelCall(r))
           \/ \E c \in calls : FailCall(c)
           \/ \E r \in RunId : RequestCancel(r)
  <2>1. Administer
    BY <1>1 DEF Administer
  <2> QED BY <2>1 DEF Next
<1>2. CASE Tick
  BY <1>2 DEF Next
<1> QED BY <1>1, <1>2 DEF Users

LEMMA WorkerSteps ==
  ASSUME TypeOK, WorkerTypeOK, [WorkerNext]_workerVars
  PROVE  [Next]_vars
<1>1. ASSUME NEW w \in Worker,
             StartWorker(w) \/ LoopStep(w) \/ Pause(w) \/ Exit(w) \/ Crash(w)
      PROVE  [Next]_vars
  BY <1>1, LoopSteps DEF StartWorker, Pause, Exit, Crash, StopRuns
<1>2. ASSUME NEW w \in Worker, NEW r \in RunId, MonitorRenews(w, r)
      PROVE  [Next]_vars
  <2>1. UseRuns
    BY <1>2 DEF MonitorRenews, UseRuns
  <2> QED BY <2>1 DEF Next
<1>3. ASSUME NEW w \in Worker, NEW r \in RunId,
             ExecuteStep(w, r) \/ MonitorCancels(w, r) \/ MonitorFails(w, r)
      PROVE  [Next]_vars
  BY <1>3, ExecuteSteps DEF MonitorCancels, MonitorFails
<1>4. ASSUME NEW r \in RunId,
             \/ MonitorEnded(r) \/ TurnTimeout(r) \/ EndTurn(r) \/ CleanupEnds(r)
             \/ \E outcome \in {"ok", "bad", "cancelled"} : OperationEnds(r, outcome)
      PROVE  [Next]_vars
  BY <1>4 DEF MonitorEnded, TurnTimeout, EndTurn, CleanupEnds, OperationEnds
<1>5. CASE Users
  BY <1>5, UserSteps
<1>6. CASE UNCHANGED workerVars
  BY <1>6 DEF workerVars, vars
<1> QED BY <1>1, <1>2, <1>3, <1>4, <1>5, <1>6 DEF WorkerNext

-----------------------------------------------------------------------------
(***************************************************************************)
(* Types and shapes of the rows of turn                                    *)
(***************************************************************************)
Shape(t) ==
  /\ t \in Turn
  /\ t.at = "start" => t.op = "none"
  /\ t.at = "racing" => t.op # "none"
  /\ t.at \in Waits => t.op \notin {"none", "live"}

LEMMA OneRowShape ==
  ASSUME WorkerTypeOK, loop' \in [Worker -> Loop], NEW r \in RunId,
         NEW t, Shape(t), turn' = [turn EXCEPT ![r] = t]
  PROVE  WorkerTypeOK'
BY DEF WorkerTypeOK, Shape

\* What the steps of a task make of its row.
LEMMA MovedShape ==
  ASSUME NEW t, Shape(t)
  PROVE  /\ \A at \in Ends \cup Done :
              Shape([t EXCEPT !.at = at, !.hit = FALSE])
         /\ \A at \in Ends \cup {"cancelling"}, c \in BOOLEAN :
              (at = "cancelling" => t.at \in Waits)
              => Shape([t EXCEPT !.at = at, !.hit = FALSE, !.cleanup = c])
         /\ \A at \in Waits :
              Shape([t EXCEPT !.at = at, !.op = "asked", !.hit = FALSE])
<1> USE DEF Shape, Turn, Place, Waits, Ends, Done, Operation, Live
<1>1. ASSUME NEW at \in Ends \cup Done
      PROVE  Shape([t EXCEPT !.at = at, !.hit = FALSE])
  OBVIOUS
<1>2. ASSUME NEW at \in Ends \cup {"cancelling"}, NEW c \in BOOLEAN,
             at = "cancelling" => t.at \in Waits
      PROVE  Shape([t EXCEPT !.at = at, !.hit = FALSE, !.cleanup = c])
  BY <1>2
<1>3. ASSUME NEW at \in Waits
      PROVE  Shape([t EXCEPT !.at = at, !.op = "asked", !.hit = FALSE])
  OBVIOUS
<1> QED BY <1>1, <1>2, <1>3

LEMMA CancelledShape ==
  ASSUME NEW t, Shape(t)
  PROVE  Shape(Cancelled(t))
<1> USE DEF Shape, Turn, Place, Waits, Ends, Done, Operation, Live
<1>1. CASE t.at = "start"
  BY <1>1 DEF Cancelled
<1>2. CASE t.at = "racing"
  BY <1>2 DEF Cancelled, Asked
<1>3. CASE t.at \in Waits
  BY <1>3 DEF Cancelled
<1>4. CASE t.at \in {"returning", "raising"}
  BY <1>4 DEF Cancelled
<1>5. CASE t.at \notin {"start", "racing", "returning", "raising"} \cup Waits
  BY <1>5 DEF Cancelled
<1> QED BY <1>1, <1>2, <1>3, <1>4, <1>5

LEMMA ExecuteTypes ==
  ASSUME WorkerTypeOK, NEW w \in Worker, NEW r \in RunId, ExecuteStep(w, r)
  PROVE  WorkerTypeOK'
<1>1. Shape(turn[r]) /\ turn[r] \in Turn
  BY DEF WorkerTypeOK, Shape
<1>2. loop' \in [Worker -> Loop]
  BY DEF ExecuteStep, RefuseTurn, StartTurn, TurnResult, TimeoutHandled,
         CancellationHandled, FailureHandled, WorkerTypeOK
<1>3. \A accepted \in BOOLEAN : After(accepted) \in Ends
  BY DEF After, Ends
<1>4. OpSettled(r) \in BOOLEAN /\ OwnsRun(w, r) \in BOOLEAN
        /\ Interruptible(w, r) \in BOOLEAN
  BY DEF OpSettled, OwnsRun, Interruptible
<1>5. ASSUME NEW at \in Ends \cup Done, Moved(r, at)
      PROVE  WorkerTypeOK'
  BY <1>1, <1>2, <1>5, MovedShape, OneRowShape DEF Moved
<1>6. ASSUME NEW at \in Ends \cup {"cancelling"},
             at = "cancelling" => turn[r].at \in Waits, Deferred(r, at)
      PROVE  WorkerTypeOK'
  BY <1>1, <1>2, <1>4, <1>6, MovedShape, OneRowShape DEF Deferred
<1>7. CASE RefuseTurn(w, r)
  BY <1>5, <1>7 DEF RefuseTurn, Done
<1>8. CASE StartTurn(w, r)
  <2>1. Shape([turn[r] EXCEPT !.at = "racing", !.op = "live", !.watch = "on"])
    BY <1>1 DEF Shape, Turn, Place, Operation, Live, Waits
  <2> QED BY <1>2, <1>8, <2>1, OneRowShape DEF StartTurn
<1>9. CASE TurnResult(w, r)
  BY <1>3, <1>4, <1>5, <1>9 DEF TurnResult
<1>10. CASE TimeoutHandled(w, r)
  BY <1>3, <1>4, <1>6, <1>10 DEF TimeoutHandled, Waits, Ends
<1>11. CASE CancellationHandled(w, r)
  BY <1>3, <1>4, <1>5, <1>6, <1>11 DEF CancellationHandled, Waits, Ends
<1>12. CASE FailureHandled(w, r)
  BY <1>3, <1>4, <1>5, <1>6, <1>12 DEF FailureHandled, Waits, Ends
<1> QED BY <1>7, <1>8, <1>9, <1>10, <1>11, <1>12 DEF ExecuteStep

LEMMA LoopTypes ==
  ASSUME WorkerTypeOK, NEW w \in Worker,
         StartWorker(w) \/ LoopStep(w) \/ Pause(w) \/ Exit(w) \/ Crash(w)
  PROVE  WorkerTypeOK'
<1>1. ASSUME NEW l \in Loop, Goto(w, l)
      PROVE  loop' \in [Worker -> Loop]
  BY <1>1 DEF Goto, WorkerTypeOK
<1>2. Shape(NoTurn)
  BY DEF Shape, NoTurn, Turn, Place, Operation, Waits, Ends, Done
<1>3. ASSUME NEW l \in Loop, Goto(w, l), UNCHANGED turn
      PROVE  WorkerTypeOK'
  BY <1>1, <1>3 DEF WorkerTypeOK
<1>4. ASSUME NEW l \in Loop, StopRuns(w, l)
      PROVE  WorkerTypeOK'
  <2>1. \A r \in RunId : Shape(turn[r]) /\ Shape(Cancelled(turn[r]))
    BY CancelledShape DEF WorkerTypeOK, Shape
  <2> QED BY <1>1, <1>4, <2>1 DEF StopRuns, WorkerTypeOK, Shape
<1>5. CASE StartWorker(w) \/ Proceed(w) \/ Reap(w) \/ Reaped(w)
  BY <1>3, <1>5 DEF StartWorker, Proceed, Reap, Reaped, Loop, Reaping
<1>6. CASE Pause(w) \/ Exit(w)
  BY <1>3, <1>4, <1>6 DEF Pause, Exit, Loop, Stopping
<1>7. CASE Crash(w)
  <2>1. \A r \in RunId : Shape(turn'[r])
    BY <1>2, <1>7 DEF Crash, WorkerTypeOK, Shape
  <2>2. turn' \in [RunId -> Turn]
    BY <1>2, <1>7 DEF Crash, WorkerTypeOK, Shape
  <2> QED BY <1>1, <1>7, <2>1, <2>2 DEF Crash, WorkerTypeOK, Shape, Loop
<1>8. CASE Claim(w)
  <2>1. Shape([NoTurn EXCEPT !.by = w, !.at = "start", !.slot = "tasks"])
    BY DEF Shape, NoTurn, Turn, Place, Operation, Waits, Ends, Done
  <2>2. \A r \in RunId : Shape(turn'[r])
    BY <1>8, <2>1 DEF Claim, WorkerTypeOK, Shape
  <2>3. turn' \in [RunId -> Turn]
    BY <1>8, <2>1 DEF Claim, WorkerTypeOK, Shape
  <2> QED BY <1>1, <1>8, <2>2, <2>3 DEF Claim, WorkerTypeOK, Shape, Loop
<1>9. ASSUME NEW r \in RunId, Collect(w, r) \/ Abandon(w, r)
      PROVE  WorkerTypeOK'
  <2>1. Shape(turn[r])
    BY DEF WorkerTypeOK, Shape
  <2>2. Shape([turn[r] EXCEPT !.at = "none", !.slot = "out"])
    BY <2>1 DEF Shape, Turn, Place, Waits
  <2>3. Shape([turn[r] EXCEPT !.slot = "detached"])
    BY <2>1 DEF Shape, Turn
  <2>4. UNCHANGED loop
    BY <1>9 DEF Collect, Abandon
  <2> QED BY <1>9, <2>2, <2>3, <2>4, OneRowShape DEF Collect, Abandon, WorkerTypeOK
<1> QED BY <1>5, <1>6, <1>7, <1>8, <1>9 DEF LoopStep

LEMMA TaskTypes ==
  ASSUME WorkerTypeOK, NEW r \in RunId,
         \/ MonitorEnded(r) \/ TurnTimeout(r) \/ EndTurn(r) \/ CleanupEnds(r)
         \/ \E outcome \in {"ok", "bad", "cancelled"} : OperationEnds(r, outcome)
         \/ \E w \in Worker : MonitorCancels(w, r) \/ MonitorFails(w, r)
  PROVE  WorkerTypeOK'
<1>1. Shape(turn[r]) /\ loop \in [Worker -> Loop]
  BY DEF WorkerTypeOK, Shape
<1>2. CASE MonitorEnded(r) \/ TurnTimeout(r)
  BY <1>1, <1>2, MovedShape, OneRowShape
  DEF MonitorEnded, TurnTimeout, CancelTurn, Waits
<1>3. CASE EndTurn(r)
  <2>1. PICK late \in BOOLEAN : turn' = [turn EXCEPT ![r] = Left(@, late)]
    BY <1>3 DEF EndTurn
  <2>2. Settles(turn[r].at) \in Done
    BY <1>3 DEF EndTurn, Settles, Ends, Done
  <2>3. (turn[r].cleanup \/ late) \in BOOLEAN
    BY <1>1 DEF Shape, Turn
  <2>4. Shape(Left(turn[r], late))
    BY <1>1, <2>2, <2>3 DEF Left, Shape, Turn, Place, Done, Waits
  <2>5. UNCHANGED loop
    BY <1>3 DEF EndTurn
  <2> QED BY <1>1, <2>1, <2>4, <2>5, OneRowShape
<1>4. CASE CleanupEnds(r)
  <2>1. Shape([turn[r] EXCEPT !.cleanup = FALSE])
    BY <1>1 DEF Shape, Turn
  <2> QED BY <1>1, <1>4, <2>1, OneRowShape DEF CleanupEnds
<1>5. ASSUME NEW outcome \in {"ok", "bad", "cancelled"}, OperationEnds(r, outcome)
      PROVE  WorkerTypeOK'
  <2>1. Shape([turn[r] EXCEPT !.op = outcome])
    BY <1>1, <1>5 DEF Shape, Turn, Operation, OperationEnds, Live
  <2> QED BY <1>1, <1>5, <2>1, OneRowShape DEF OperationEnds
<1>6. ASSUME NEW w \in Worker, MonitorCancels(w, r) \/ MonitorFails(w, r)
      PROVE  WorkerTypeOK'
  <2>1. \A v \in {"off", "lost"} :
          Shape([turn[r] EXCEPT !.watch = v, !.op = "asked"])
    BY <1>1, <1>6 DEF Shape, Turn, Operation, Live, Waits,
                     MonitorCancels, MonitorFails, Watching
  <2> QED BY <1>1, <1>6, <2>1, OneRowShape DEF MonitorCancels, MonitorFails
<1> QED BY <1>2, <1>3, <1>4, <1>5, <1>6

LEMMA WorkerTypeStep ==
  ASSUME TypeOK, WorkerTypeOK, [WorkerNext]_workerVars
  PROVE  TypeOK' /\ WorkerTypeOK'
<1>1. TypeOK'
  BY WorkerSteps, TypeStep
<1>2. ASSUME NEW w \in Worker,
             StartWorker(w) \/ LoopStep(w) \/ Pause(w) \/ Exit(w) \/ Crash(w)
      PROVE  WorkerTypeOK'
  BY <1>2, LoopTypes
<1>3. ASSUME NEW w \in Worker, NEW r \in RunId,
             \/ ExecuteStep(w, r)
             \/ MonitorCancels(w, r) \/ MonitorRenews(w, r) \/ MonitorFails(w, r)
      PROVE  WorkerTypeOK'
  <2>1. CASE ExecuteStep(w, r)
    BY <2>1, ExecuteTypes
  <2>2. CASE MonitorCancels(w, r) \/ MonitorFails(w, r)
    BY <2>2, TaskTypes
  <2>3. CASE MonitorRenews(w, r)
    BY <2>3 DEF MonitorRenews, WorkerTypeOK
  <2> QED BY <1>3, <2>1, <2>2, <2>3
<1>4. ASSUME NEW r \in RunId,
             \/ MonitorEnded(r) \/ TurnTimeout(r) \/ EndTurn(r) \/ CleanupEnds(r)
             \/ \E outcome \in {"ok", "bad", "cancelled"} : OperationEnds(r, outcome)
      PROVE  WorkerTypeOK'
  BY <1>4, TaskTypes
<1>5. ASSUME Users \/ UNCHANGED workerVars
      PROVE  WorkerTypeOK'
  <2>1. UNCHANGED <<loop, turn>>
    BY <1>5 DEF Users, workerVars
  <2> QED BY <2>1 DEF WorkerTypeOK
<1> QED BY <1>1, <1>2, <1>3, <1>4, <1>5 DEF WorkerNext

LEMMA WorkerStart ==
  ASSUME WorkerInit
  PROVE  WorkerTypeOK
<1>1. NoTurn \in Turn
  BY DEF NoTurn, Turn, Place, Operation
<1>2. NoTurn.at = "none"
  BY DEF NoTurn
<1> QED BY <1>1, <1>2 DEF WorkerInit, WorkerTypeOK, Loop, Waits

\* The types of the worker, and the shape of its rows: execute waits only
\* for operations it has cancelled.
THEOREM WorkerTypeCorrect == WorkerSpec => [](TypeOK /\ WorkerTypeOK)
<1>1. WorkerInit => TypeOK /\ WorkerTypeOK
  BY WorkerStart, InitTypes DEF WorkerInit
<1>2. TypeOK /\ WorkerTypeOK /\ [WorkerNext]_workerVars
        => TypeOK' /\ WorkerTypeOK'
  BY WorkerTypeStep
<1> QED BY <1>1, <1>2, PTL DEF WorkerSpec

\* Whatever the tasks of run_forever and execute do, and however they are
\* cancelled or killed, they drive the database only through steps its
\* clients may take: all that is proved of AutomationStore holds under it.
THEOREM WorkerRefinesStore == WorkerSpec => WorkerImplementsStore
<1>1. WorkerInit => Init
  BY DEF WorkerInit
<1>2. TypeOK /\ WorkerTypeOK /\ [WorkerNext]_workerVars => [Next]_vars
  BY WorkerSteps
<1> QED BY <1>1, <1>2, WorkerTypeCorrect, PTL
        DEF WorkerSpec, WorkerImplementsStore, Spec

\* So the exclusion of runs proved of the database holds under the workers.
THEOREM WorkerExclusion == WorkerSpec => []OneActiveRun
<1>1. Exclusion => OneActiveRun
  BY DEF Exclusion
<1> QED BY <1>1, WorkerRefinesStore, ExclusionHolds, PTL
        DEF WorkerImplementsStore
-----------------------------------------------------------------------------
(***************************************************************************)
(* A worker that lives tracks the runs it holds                            *)
(***************************************************************************)
\* A run whose lease a living worker holds.
Held(r) == /\ runs[r].status = "running" /\ runs[r].lease > now
           /\ loop[runs[r].token] # "crashed"

\* Its task is tracked, and has not returned: a task that will return has
\* recorded its run.
Tracked(r) == /\ turn[r].by = runs[r].token
              /\ turn[r].slot = "tasks"
              /\ turn[r].at \notin {"returning", "returned"}

HeldAreTracked == \A r \in RunId : Held(r) => Tracked(r)

\* A step of the database that gives no new lease.
NothingClaimed ==
  \A r \in RunId :
    runs'[r].status = "running" /\ runs'[r].lease > now'
    => /\ runs[r].status = "running" /\ runs[r].lease > now
       /\ runs'[r].token = runs[r].token

LEMMA ClosingClaimsNothing ==
  ASSUME TypeOK, NEW r \in RunId, runs[r].status = "running",
         NEW status \in Terminal, CloseRun(r, status), UNCHANGED now
  PROVE  NothingClaimed /\ runs'[r].status # "running"
<1>1. /\ runs'[r].status = status
      /\ \A s \in RunId \ {r} : runs'[s] = runs[s]
  BY DEF CloseRun, Closed, TypeOK
<1>2. status # "running"
  BY DEF Terminal
<1> QED BY <1>1, <1>2 DEF NothingClaimed

LEMMA StillClaimsNothing ==
  ASSUME UNCHANGED vars
  PROVE  NothingClaimed
BY DEF NothingClaimed, vars

LEMMA RecordClaimsNothing ==
  ASSUME TypeOK, NEW w \in Worker, NEW r \in RunId,
         NEW s \in {"succeeded", "failed", "cancelled"}, Record(w, r, s)
  PROVE  /\ NothingClaimed
         /\ OwnsRun(w, r) => runs'[r].status # "running"
         /\ ~ OwnsRun(w, r) => UNCHANGED vars
<1>1. CASE OwnsRun(w, r)
  <2>1. FinishRun(w, r, s)
    BY <1>1 DEF Record
  <2> DEFINE status == IF runs[r].cancel THEN "cancelled" ELSE s
  <2>2. status \in Terminal
    BY DEF Terminal
  <2>3. CloseRun(r, status) /\ UNCHANGED now /\ runs[r].status = "running"
    BY <2>1 DEF FinishRun, OwnsRun
  <2> HIDE DEF status
  <2> QED BY <1>1, <2>2, <2>3, ClosingClaimsNothing
<1>2. CASE ~ OwnsRun(w, r)
  BY <1>2, StillClaimsNothing DEF Record
<1> QED BY <1>1, <1>2

LEMMA InterruptedClaimsNothing ==
  ASSUME TypeOK, NEW w \in Worker, NEW r \in RunId, RecordInterrupted(w, r)
  PROVE  /\ NothingClaimed
         /\ Interruptible(w, r) => runs'[r].status # "running"
         /\ ~ Interruptible(w, r) => UNCHANGED vars
<1>1. CASE Interruptible(w, r)
  <2>1. CloseRun(r, "interrupted") /\ UNCHANGED now /\ runs[r].status = "running"
    BY <1>1 DEF RecordInterrupted, InterruptRun
  <2> QED BY <1>1, <2>1, ClosingClaimsNothing DEF Terminal
<1>2. CASE ~ Interruptible(w, r)
  BY <1>2, StillClaimsNothing DEF RecordInterrupted
<1> QED BY <1>1, <1>2

LEMMA SweepClaimsNothing ==
  ASSUME TypeOK, Sweep, UNCHANGED now
  PROVE  NothingClaimed
<1>1. \A r \in RunId : runs'[r] = RecoveredRuns[r]
  BY DEF Sweep
<1>2. \A r \in RunId : r \in ExpiredRuns => RecoveredRuns[r].status # "running"
  BY DEF RecoveredRuns, Closed, ExpiredRuns, TypeOK, Running
<1>3. \A r \in RunId : r \notin ExpiredRuns => RecoveredRuns[r] = runs[r]
  BY DEF RecoveredRuns
<1> QED BY <1>1, <1>2, <1>3 DEF NothingClaimed

LEMMA UsersClaimNothing ==
  ASSUME TypeOK, Users
  PROVE  NothingClaimed
<1>1. CASE (\E j \in Job : CreateJob(j, TRUE)) \/ (\E c \in calls : FailCall(c))
  BY <1>1 DEF CreateJob, FailCall, NothingClaimed
<1>2. ASSUME NEW r \in RunId, BeginCall(CancelCall(r))
      PROVE  NothingClaimed
  BY <1>2, SweepClaimsNothing DEF BeginCall
<1>3. ASSUME NEW r \in RunId, RequestCancel(r)
      PROVE  NothingClaimed
  <2>1. \A q \in RunId : /\ runs'[q].status = runs[q].status
                         /\ runs'[q].lease = runs[q].lease
                         /\ runs'[q].token = runs[q].token
    BY <1>3 DEF RequestCancel, TypeOK, Running, Ended, NoRun
  <2> QED BY <1>3, <2>1 DEF RequestCancel, NothingClaimed
<1>4. CASE Tick
  <2>1. /\ now \in Int /\ now' = now + 1 /\ UNCHANGED runs
    BY <1>4 DEF Tick, TypeOK
  <2>2. \A r \in RunId : runs[r].status = "running" => runs[r].lease \in Int
    BY DEF TypeOK, Running, Ended, NoRun, Terminal
  <2> QED BY <2>1, <2>2 DEF NothingClaimed
<1> QED BY <1>1, <1>2, <1>3, <1>4 DEF Users

LEMMA RenewingClaimsNothing ==
  ASSUME TypeOK, NEW w \in Worker, NEW r \in RunId, RenewLease(w, r)
  PROVE  NothingClaimed
<1>1. runs' = [runs EXCEPT ![r].lease = now + Lease] /\ UNCHANGED now
  BY DEF RenewLease
<1>2. runs[r].status = "running" /\ runs[r].lease > now
  BY DEF RenewLease, OwnsRun
<1>3. \A q \in RunId : runs[q].status = "running" => runs[q] \in Running
  BY DEF TypeOK, Ended, NoRun, Terminal
<1>4. runs'[r].token = runs[r].token
  BY <1>1, <1>2, <1>3 DEF TypeOK, Running
<1>5. \A q \in RunId \ {r} : runs'[q] = runs[q]
  BY <1>1 DEF TypeOK
<1> QED BY <1>1, <1>2, <1>4, <1>5 DEF NothingClaimed

\* A row that moved keeps its worker and its place among the tasks, and its
\* task has not recorded its run.
Moves(r) == /\ turn'[r].by = turn[r].by
            /\ turn'[r].slot = turn[r].slot
            /\ turn'[r].at \notin {"returning", "returned"}

Forward == \A w \in Worker : loop[w] = "crashed" => loop'[w] = "crashed"

\* The step that tells how a held run stays tracked: nothing was claimed, and
\* each row moved, stayed, or is of a run that is not held any more.
LEMMA StaysTracked ==
  ASSUME TypeOK, HeldAreTracked, NothingClaimed, Forward,
         \A r \in RunId : \/ turn'[r] = turn[r]
                          \/ Moves(r)
                          \/ ~ Held(r)
                          \/ runs'[r].status # "running"
                          \/ loop'[runs[r].token] = "crashed"
  PROVE  HeldAreTracked'
<1> SUFFICES ASSUME NEW r \in RunId, Held(r)'
             PROVE  Tracked(r)'
  BY DEF HeldAreTracked
<1>1. /\ runs'[r].status = "running" /\ runs'[r].lease > now'
      /\ loop'[runs'[r].token] # "crashed"
  BY DEF Held
<1>2. /\ runs[r].status = "running" /\ runs[r].lease > now
      /\ runs'[r].token = runs[r].token
  BY <1>1 DEF NothingClaimed
<1>3. runs[r].token \in Worker
  BY <1>2 DEF TypeOK, Running, Ended, NoRun, Terminal
<1>4. Held(r)
  BY <1>1, <1>2, <1>3 DEF Held, Forward
<1>5. Tracked(r)
  BY <1>4 DEF HeldAreTracked
<1>6. turn'[r] = turn[r] \/ Moves(r)
  BY <1>1, <1>2, <1>4
<1> QED BY <1>2, <1>5, <1>6 DEF Tracked, Moves

\* A step that moves one row.
LEMMA OneRowTracked ==
  ASSUME TypeOK, WorkerTypeOK, HeldAreTracked, NothingClaimed, UNCHANGED loop,
         NEW r \in RunId, NEW t, turn' = [turn EXCEPT ![r] = t],
         \/ /\ t.by = turn[r].by /\ t.slot = turn[r].slot
            /\ t.at \notin {"returning", "returned"}
         \/ ~ Held(r)
         \/ runs'[r].status # "running"
  PROVE  HeldAreTracked'
<1>1. turn'[r] = t /\ \A q \in RunId \ {r} : turn'[q] = turn[q]
  BY DEF WorkerTypeOK
<1>2. Forward
  BY DEF Forward
<1>3. \A q \in RunId : \/ turn'[q] = turn[q]
                       \/ Moves(q)
                       \/ ~ Held(q)
                       \/ runs'[q].status # "running"
  BY <1>1 DEF Moves
<1> QED BY <1>2, <1>3, StaysTracked

LEMMA ExecuteTracks ==
  ASSUME TypeOK, WorkerTypeOK, HeldAreTracked,
         NEW w \in Worker, NEW r \in RunId, ExecuteStep(w, r)
  PROVE  HeldAreTracked'
<1> DEFINE Closes == runs'[r].status # "running"
<1>1. UNCHANGED loop
  BY DEF ExecuteStep, RefuseTurn, StartTurn, TurnResult, TimeoutHandled,
         CancellationHandled, FailureHandled
<1>2. turn[r] \in Turn
  BY DEF WorkerTypeOK
<1>3. ASSUME NEW at, Moved(r, at), NothingClaimed,
             at \in {"returning", "returned"} => Closes
      PROVE  HeldAreTracked'
  <2> DEFINE t == [turn[r] EXCEPT !.at = at, !.hit = FALSE]
  <2>1. t.by = turn[r].by /\ t.slot = turn[r].slot /\ t.at = at
    BY <1>2 DEF Turn
  <2>2. turn' = [turn EXCEPT ![r] = t]
    BY <1>3 DEF Moved
  <2> HIDE DEF t
  <2> QED BY <1>1, <1>3, <2>1, <2>2, OneRowTracked
<1>4. ASSUME NEW at, Deferred(r, at), NothingClaimed,
             at \in {"returning", "returned"} => Closes
      PROVE  HeldAreTracked'
  <2> DEFINE c == ~ OpSettled(r)
             t == [turn[r] EXCEPT !.at = at, !.hit = FALSE, !.cleanup = c]
  <2>1. turn' = [turn EXCEPT ![r] = t]
    BY <1>4 DEF Deferred
  <2> HIDE DEF c
  <2>2. t.by = turn[r].by /\ t.slot = turn[r].slot /\ t.at = at
    BY <1>2 DEF Turn
  <2> HIDE DEF t
  <2> QED BY <1>1, <1>4, <2>1, <2>2, OneRowTracked
<1>5. ASSUME NEW s \in {"succeeded", "failed", "cancelled"}, Record(w, r, s)
      PROVE  NothingClaimed /\ (After(OwnsRun(w, r)) = "returning" => Closes)
  BY <1>5, RecordClaimsNothing DEF After
<1>6. ASSUME RecordInterrupted(w, r)
      PROVE  /\ NothingClaimed
             /\ After(Interruptible(w, r)) = "returning" => Closes
  BY <1>6, InterruptedClaimsNothing DEF After
<1>7. \A b : After(b) # "returned"
  BY DEF After
<1> HIDE DEF Closes
<1>8. CASE RefuseTurn(w, r)
  <2>1. Record(w, r, "failed")
    BY <1>8 DEF RefuseTurn
  <2>2. NothingClaimed /\ (OwnsRun(w, r) => Closes)
    BY <2>1, RecordClaimsNothing DEF Closes
  <2> QED BY <1>3, <1>8, <2>2 DEF RefuseTurn
<1>9. CASE StartTurn(w, r)
  <2>1. turn' = [turn EXCEPT ![r] =
          [turn[r] EXCEPT !.at = "racing", !.op = "live", !.watch = "on"]]
    BY <1>9 DEF StartTurn
  <2>2. NothingClaimed
    BY <1>9, StillClaimsNothing DEF StartTurn
  <2> QED BY <1>1, <1>2, <2>1, <2>2, OneRowTracked DEF Turn
<1>10. CASE TurnResult(w, r)
  <2>1. turn[r].op \in {"ok", "bad", "cancelled"}
    BY <1>10 DEF TurnResult, WorkerTypeOK, Turn, Operation, Live
  <2>2. \E s \in {"succeeded", "failed", "cancelled"} : Record(w, r, s)
    BY <1>10, <2>1 DEF TurnResult
  <2>3. Moved(r, After(OwnsRun(w, r)))
    BY <1>10 DEF TurnResult
  <2> QED BY <1>3, <1>5, <1>7, <2>2, <2>3
<1>11. CASE TimeoutHandled(w, r)
  <2>1. \/ Deferred(r, "cancelling") /\ UNCHANGED vars
        \/ Record(w, r, "failed") /\ Deferred(r, After(OwnsRun(w, r)))
    BY <1>11 DEF TimeoutHandled
  <2> QED BY <1>4, <1>5, <1>7, <2>1, StillClaimsNothing
<1>12. CASE CancellationHandled(w, r)
  <2>1. \/ Record(w, r, "cancelled") /\ Moved(r, After(OwnsRun(w, r)))
        \/ RecordInterrupted(w, r) /\ Deferred(r, After(Interruptible(w, r)))
    BY <1>12 DEF CancellationHandled
  <2> QED BY <1>3, <1>4, <1>5, <1>6, <1>7, <2>1
<1>13. CASE FailureHandled(w, r)
  <2>1. \/ Moved(r, "unwinding") /\ UNCHANGED vars
        \/ Record(w, r, "failed") /\ Moved(r, After(OwnsRun(w, r)))
        \/ RecordInterrupted(w, r) /\ Deferred(r, After(Interruptible(w, r)))
    BY <1>13 DEF FailureHandled
  <2> QED BY <1>3, <1>4, <1>5, <1>6, <1>7, <2>1, StillClaimsNothing
<1> QED BY <1>8, <1>9, <1>10, <1>11, <1>12, <1>13 DEF ExecuteStep

\* A batch of claims gives leases only for rows it inserts, and only to w.
LEMMA BatchClaims ==
  ASSUME TypeOK, NEW w \in Worker, NEW limit \in Nat, ClaimDueBatch(w, limit)
  PROVE  /\ UNCHANGED now
         /\ \A r \in RunId :
              runs'[r].status = "running"
              => \/ runs[r].status = "absent" /\ runs'[r].token = w
                 \/ runs[r].status = "running" /\ runs'[r] = runs[r]
<1>1. UNCHANGED now
  BY DEF ClaimDueBatch
<1>2. PICK claim \in SUBSET DueJobs, skip \in SUBSET DueJobs :
        BatchStep(w, claim, skip)
  BY BatchSteps
<1>3. Claimed(w).token = w /\ Skipped.status = "skipped"
  BY DEF Claimed, Skipped, NoRun
<1>4. \A r \in RunId : RecoveredRuns[r].status = "running"
        => RecoveredRuns[r] = runs[r]
  BY DEF RecoveredRuns, Closed, ExpiredRuns, TypeOK, Running
<1>5. ASSUME NEW r \in RunId, runs'[r].status = "running"
      PROVE  \/ runs[r].status = "absent" /\ runs'[r].token = w
             \/ runs[r].status = "running" /\ runs'[r] = runs[r]
  <2>1. CASE r.job \in claim /\ IsDueRun(r)
    BY <1>2, <1>3, <2>1 DEF BatchStep
  <2>2. CASE r.job \in skip /\ IsDueRun(r) /\ runs[r].status = "absent"
    BY <1>2, <1>3, <1>5, <2>2 DEF BatchStep
  <2>3. CASE ~ (IsDueRun(r) /\ r.job \in claim \cup skip
                             /\ runs[r].status = "absent")
    BY <1>2, <1>4, <1>5, <2>3 DEF BatchStep
  <2> QED BY <2>1, <2>2, <2>3
<1> QED BY <1>1, <1>5

LEMMA ClaimTracks ==
  ASSUME TypeOK, WorkerTypeOK, HeldAreTracked, NEW w \in Worker, Claim(w)
  PROVE  HeldAreTracked'
<1>1. Forward
  BY DEF Claim, Goto, Forward, WorkerTypeOK
<1>2. \A r \in RunId : turn'[r] =
        IF runs[r].status = "absent" /\ runs'[r].status = "running"
        THEN [NoTurn EXCEPT !.by = w, !.at = "start", !.slot = "tasks"]
        ELSE turn[r]
  BY DEF Claim
<1>3. CASE \/ Capacity(w) \notin 1..MaxRuns
           \/ Capacity(w) \in 1..MaxRuns /\ ~ LeaseFits
  <2>1. UNCHANGED vars \/ (Sweep /\ UNCHANGED now)
    BY <1>3 DEF Claim
  <2>2. NothingClaimed
    BY <2>1, StillClaimsNothing, SweepClaimsNothing
  <2>3. \A r \in RunId : runs[r].status = "absent" => ~ Held(r)
    BY DEF Held
  <2> QED BY <1>1, <1>2, <2>2, <2>3, StaysTracked
<1>4. CASE Capacity(w) \in 1..MaxRuns /\ LeaseFits
  <2>1. ClaimDueBatch(w, Capacity(w)) /\ Capacity(w) \in Nat
    BY <1>4, WorkerAssumption, FS_CardinalityType DEF Claim
  <2>2. /\ UNCHANGED now
        /\ \A r \in RunId :
             runs'[r].status = "running"
             => \/ runs[r].status = "absent" /\ runs'[r].token = w
                \/ runs[r].status = "running" /\ runs'[r] = runs[r]
    BY <2>1, BatchClaims
  <2> SUFFICES ASSUME NEW r \in RunId, Held(r)'
               PROVE  Tracked(r)'
    BY DEF HeldAreTracked
  <2>3. runs'[r].status = "running" /\ runs'[r].lease > now'
          /\ loop'[runs'[r].token] # "crashed"
    BY DEF Held
  <2>4. CASE runs[r].status = "absent" /\ runs'[r].token = w
    BY <1>2, <2>3, <2>4 DEF Tracked, NoTurn
  <2>5. CASE runs[r].status = "running" /\ runs'[r] = runs[r]
    <3>1. runs[r].token \in Worker
      BY <2>5 DEF TypeOK, Running, Ended, NoRun, Terminal
    <3>2. Held(r)
      BY <1>1, <2>2, <2>3, <2>5, <3>1 DEF Held, Forward
    <3>3. turn'[r] = turn[r]
      BY <1>2, <2>5
    <3> QED BY <2>5, <3>2, <3>3 DEF HeldAreTracked, Tracked
  <2> QED BY <2>2, <2>3, <2>4, <2>5
<1> QED BY <1>3, <1>4

LEMMA CancelledMoves ==
  ASSUME NEW t \in Turn
  PROVE  /\ Cancelled(t).by = t.by /\ Cancelled(t).slot = t.slot
         /\ \/ Cancelled(t) = t
            \/ Cancelled(t).at \notin {"returning", "returned"}
<1>1. CASE t.at = "start"
  BY <1>1 DEF Cancelled, Turn
<1>2. CASE t.at = "racing"
  BY <1>2 DEF Cancelled, Turn
<1>3. CASE t.at \in Waits
  BY <1>3 DEF Cancelled, Turn, Waits
<1>4. CASE t.at \in {"returning", "raising"}
  BY <1>4 DEF Cancelled, Turn, Waits
<1>5. CASE t.at \notin {"start", "racing", "returning", "raising"} \cup Waits
  BY <1>5 DEF Cancelled
<1> QED BY <1>1, <1>2, <1>3, <1>4, <1>5

LEMMA LoopTracks ==
  ASSUME TypeOK, WorkerTypeOK, HeldAreTracked, NEW w \in Worker,
         StartWorker(w) \/ LoopStep(w) \/ Pause(w) \/ Exit(w) \/ Crash(w)
  PROVE  HeldAreTracked'
<1>1. ASSUME NEW l, loop[w] # "crashed", Goto(w, l)
      PROVE  Forward
  BY <1>1 DEF Goto, Forward, WorkerTypeOK
<1>2. ASSUME NEW l, loop[w] # "crashed", Goto(w, l), UNCHANGED <<vars, turn>>
      PROVE  HeldAreTracked'
  BY <1>1, <1>2, StillClaimsNothing, StaysTracked
<1>3. ASSUME NEW l, loop[w] # "crashed", StopRuns(w, l)
      PROVE  HeldAreTracked'
  <2>1. \A r \in RunId : turn[r] \in Turn
    BY DEF WorkerTypeOK
  <2>2. \A r \in RunId : turn'[r] = turn[r] \/ turn'[r] = Cancelled(turn[r])
    BY <1>3 DEF StopRuns
  <2>3. \A r \in RunId : turn'[r] = turn[r] \/ Moves(r)
    BY <2>1, <2>2, CancelledMoves DEF Moves
  <2>4. Forward /\ NothingClaimed
    BY <1>1, <1>3, StillClaimsNothing DEF StopRuns
  <2> QED BY <2>3, <2>4, StaysTracked
<1>4. CASE StartWorker(w) \/ Proceed(w) \/ Reap(w) \/ Reaped(w)
  BY <1>2, <1>4 DEF StartWorker, Proceed, Reap, Reaped, Reaping, Stopping
<1>5. CASE Pause(w) \/ Exit(w)
  BY <1>2, <1>3, <1>5 DEF Pause, Exit
<1>6. CASE Crash(w)
  <2>1. Forward
    BY <1>1, <1>6 DEF Crash
  <2>2. loop'[w] = "crashed"
    BY <1>6 DEF Crash, Goto, WorkerTypeOK
  <2>3. \A r \in RunId : turn'[r] = turn[r] \/ turn[r].by = w
    BY <1>6 DEF Crash
  <2>4. \A r \in RunId : Held(r) /\ turn[r].by = w => runs[r].token = w
    BY DEF HeldAreTracked, Tracked
  <2>5. NothingClaimed
    BY <1>6, StillClaimsNothing DEF Crash
  <2> QED BY <2>1, <2>2, <2>3, <2>4, <2>5, StaysTracked
<1>7. ASSUME NEW r \in RunId, Collect(w, r)
      PROVE  HeldAreTracked'
  <2>1. UNCHANGED loop /\ turn[r].by = w
          /\ turn' = [turn EXCEPT ![r] =
               [turn[r] EXCEPT !.at = "none", !.slot = "out"]]
    BY <1>7 DEF Collect, Tasks
  <2>2. Held(r) => /\ runs[r].token = w /\ turn[r].at # "returned"
                   /\ OwnsRun(w, r) /\ Interruptible(w, r)
    BY <2>1 DEF HeldAreTracked, Tracked, Held, OwnsRun, Interruptible
  <2>3. \/ turn[r].at = "cancelled" /\ Record(w, r, "cancelled")
        \/ turn[r].at = "raised" /\ RecordInterrupted(w, r)
        \/ turn[r].at = "returned" /\ UNCHANGED vars
    BY <1>7 DEF Collect, Done
  <2>4. NothingClaimed /\ (~ Held(r) \/ runs'[r].status # "running")
    BY <2>2, <2>3, RecordClaimsNothing, InterruptedClaimsNothing,
       StillClaimsNothing
  <2> QED BY <2>1, <2>4, OneRowTracked
<1>8. ASSUME NEW r \in RunId, Abandon(w, r)
      PROVE  HeldAreTracked'
  <2>1. UNCHANGED loop /\ turn[r].by = w
          /\ turn' = [turn EXCEPT ![r] = [turn[r] EXCEPT !.slot = "detached"]]
    BY <1>8 DEF Abandon, Tasks
  <2>2. Held(r) => OwnsRun(w, r)
    BY <2>1 DEF HeldAreTracked, Tracked, Held, OwnsRun
  <2>3. NothingClaimed /\ (~ Held(r) \/ runs'[r].status # "running")
    BY <1>8, <2>2, RecordClaimsNothing DEF Abandon
  <2> QED BY <2>1, <2>3, OneRowTracked
<1>9. CASE Claim(w)
  BY <1>9, ClaimTracks
<1> QED BY <1>4, <1>5, <1>6, <1>7, <1>8, <1>9 DEF LoopStep

LEMMA TaskTracks ==
  ASSUME TypeOK, WorkerTypeOK, HeldAreTracked, NEW r \in RunId,
         \/ MonitorEnded(r) \/ TurnTimeout(r) \/ EndTurn(r) \/ CleanupEnds(r)
         \/ \E outcome \in {"ok", "bad", "cancelled"} : OperationEnds(r, outcome)
         \/ \E w \in Worker : \/ MonitorCancels(w, r) \/ MonitorRenews(w, r)
                             \/ MonitorFails(w, r)
  PROVE  HeldAreTracked'
<1>1. turn[r] \in Turn
  BY DEF WorkerTypeOK
<1>2. ASSUME NEW t, turn' = [turn EXCEPT ![r] = t], UNCHANGED <<vars, loop>>,
             t.by = turn[r].by, t.slot = turn[r].slot,
             t.at \notin {"returning", "returned"} \/ ~ Held(r)
      PROVE  HeldAreTracked'
  BY <1>2, StillClaimsNothing, OneRowTracked
<1>3. turn[r].at \in {"returning", "returned"} => ~ Held(r)
  BY DEF HeldAreTracked, Tracked
<1>4. CASE MonitorEnded(r) \/ TurnTimeout(r)
  BY <1>1, <1>2, <1>4 DEF MonitorEnded, TurnTimeout, CancelTurn, Turn
<1>5. CASE EndTurn(r)
  <2>1. PICK late \in BOOLEAN : turn' = [turn EXCEPT ![r] = Left(@, late)]
    BY <1>5 DEF EndTurn
  <2>2. /\ Left(turn[r], late).by = turn[r].by
        /\ Left(turn[r], late).slot = turn[r].slot
        /\ Left(turn[r], late).at = Settles(turn[r].at)
    BY <1>1 DEF Left, Turn
  <2>3. Settles(turn[r].at) \notin {"returning", "returned"} \/ ~ Held(r)
    BY <1>3, <1>5 DEF EndTurn, Settles, Ends
  <2>4. UNCHANGED <<vars, loop>>
    BY <1>5 DEF EndTurn
  <2> QED BY <1>2, <2>1, <2>2, <2>3, <2>4
<1>6. CASE CleanupEnds(r)
  BY <1>1, <1>2, <1>3, <1>6 DEF CleanupEnds, Turn
<1>7. ASSUME NEW outcome \in {"ok", "bad", "cancelled"}, OperationEnds(r, outcome)
      PROVE  HeldAreTracked'
  BY <1>1, <1>2, <1>3, <1>7 DEF OperationEnds, Turn
<1>8. ASSUME NEW w \in Worker, MonitorCancels(w, r) \/ MonitorFails(w, r)
      PROVE  HeldAreTracked'
  BY <1>1, <1>2, <1>3, <1>8 DEF MonitorCancels, MonitorFails, Turn
<1>9. ASSUME NEW w \in Worker, MonitorRenews(w, r)
      PROVE  HeldAreTracked'
  <2>1. NothingClaimed
    BY <1>9, RenewingClaimsNothing DEF MonitorRenews
  <2>2. Forward
    BY <1>9 DEF MonitorRenews, Forward
  <2> QED BY <1>9, <2>1, <2>2, StaysTracked DEF MonitorRenews
<1> QED BY <1>4, <1>5, <1>6, <1>7, <1>8, <1>9

LEMMA TrackedStep ==
  ASSUME TypeOK, WorkerTypeOK, HeldAreTracked, [WorkerNext]_workerVars
  PROVE  HeldAreTracked'
<1>1. CASE Users
  <2>1. NothingClaimed /\ UNCHANGED <<loop, turn>>
    BY <1>1, UsersClaimNothing DEF Users
  <2> QED BY <2>1, StaysTracked DEF Forward
<1>2. CASE UNCHANGED workerVars
  <2>1. UNCHANGED <<vars, loop, turn>>
    BY <1>2 DEF workerVars, vars
  <2> QED BY <2>1, StillClaimsNothing, StaysTracked DEF Forward
<1>3. ASSUME NEW w \in Worker,
             StartWorker(w) \/ LoopStep(w) \/ Pause(w) \/ Exit(w) \/ Crash(w)
      PROVE  HeldAreTracked'
  BY <1>3, LoopTracks
<1>4. ASSUME NEW w \in Worker, NEW r \in RunId,
             \/ ExecuteStep(w, r)
             \/ MonitorCancels(w, r) \/ MonitorRenews(w, r) \/ MonitorFails(w, r)
      PROVE  HeldAreTracked'
  BY <1>4, ExecuteTracks, TaskTracks
<1>5. ASSUME NEW r \in RunId,
             \/ MonitorEnded(r) \/ TurnTimeout(r) \/ EndTurn(r) \/ CleanupEnds(r)
             \/ \E outcome \in {"ok", "bad", "cancelled"} : OperationEnds(r, outcome)
      PROVE  HeldAreTracked'
  BY <1>5, TaskTracks
<1> QED BY <1>1, <1>2, <1>3, <1>4, <1>5 DEF WorkerNext

\* A run whose lease a living worker holds is one of its tasks: no path out of
\* execute, _collect_finished or _stop_active_runs forgets a run without
\* recording it, for any number of jobs, runs and workers.
THEOREM HeldRunsAreTracked == WorkerSpec => []HeldRunIsTracked
<1>1. WorkerInit => HeldAreTracked
  BY DEF WorkerInit, Init, NoRun, HeldAreTracked, Held
<1>2. TypeOK /\ WorkerTypeOK /\ HeldAreTracked /\ [WorkerNext]_workerVars
        => HeldAreTracked'
  BY TrackedStep
<1>3. HeldAreTracked => HeldRunIsTracked
  BY DEF HeldAreTracked, HeldRunIsTracked, Held, Tracked, Tasks
<1> QED BY <1>1, <1>2, <1>3, WorkerTypeCorrect, PTL DEF WorkerSpec

-----------------------------------------------------------------------------
(***************************************************************************)
(* Operations: asked before their worker stops, no more than it may run,   *)
(* and successful where their run is recorded so                           *)
(***************************************************************************)
Begun == {"start", "racing"}

\* A row that its worker keeps: a task it has not collected, a detached task
\* that is not done, or a deferred cleanup.
KeptRow(t) == \/ t.slot = "tasks"
              \/ t.cleanup
              \/ t.slot = "detached" /\ t.at \notin Done

\* Only an operation that execute waits for has not been asked to stop; and
\* what a task still begins, its worker has among its tasks.
SoundRow(t) ==
  /\ Shape(t)
  /\ t.op = "live" => t.at = "racing"
  /\ t.at \in Begun => t.by \in Worker /\ t.slot = "tasks"
  /\ t.slot \notin {"tasks", "detached"} => t.at = "none"

Kept(w) == {r \in RunId : turn[r].by = w /\ KeptRow(turn[r])}

\* The inductive invariant.  A worker has cancelled every task before it leaves
\* its loop, so nothing begins or races in a worker that is stopping; what it
\* keeps, more than what operates, never outgrows its capacity; and an operation
\* that completed stays completed.
OperationsSound ==
  /\ \A r \in RunId :
       /\ SoundRow(turn[r])
       /\ turn[r].at \in Begun => loop[turn[r].by] \in {"top", "claim"}
       /\ runs[r].status = "succeeded" /\ turn[r].by # NoToken => turn[r].op = "ok"
  /\ \A w \in Worker : IsFiniteSet(Kept(w)) /\ Cardinality(Kept(w)) <= MaxRuns

\* What a step may make of the row t, short of a new claim: the row u.
RowStep(t, u) ==
  /\ SoundRow(u) /\ u.by = t.by
  /\ u.at \in Begun => t.at \in Begun
  /\ KeptRow(u) => KeptRow(t)
  /\ t.op = "ok" => u.op = "ok"

\* A run newly recorded as succeeded is one whose operation completed.
Succeeds(r) ==
  runs'[r].status = "succeeded" => runs[r].status = "succeeded" \/ turn[r].op = "ok"

LEMMA SameRowStep ==
  ASSUME NEW t, SoundRow(t)
  PROVE  RowStep(t, t)
BY DEF RowStep

LEMMA NoTurnSound ==
  SoundRow(NoTurn) /\ NoTurn.by = NoToken /\ NoTurn.at = "none" /\ ~ KeptRow(NoTurn)
BY DEF SoundRow, Shape, NoTurn, KeptRow, Turn, Place, Operation, Waits, Ends, Done, Begun

\* Rows that step so, in loops that turn away only once nothing begins.
LEMMA SoundStep ==
  ASSUME OperationsSound,
         \A r \in RunId : turn'[r] = NoTurn \/ RowStep(turn[r], turn'[r]),
         \A r \in RunId : turn'[r].at \in Begun /\ turn[r].at \in Begun
                            /\ loop[turn[r].by] \in {"top", "claim"}
                            => loop'[turn[r].by] \in {"top", "claim"},
         \A r \in RunId : Succeeds(r)
  PROVE  OperationsSound'
<1>1. ASSUME NEW r \in RunId
      PROVE  /\ SoundRow(turn'[r])
             /\ turn'[r].at \in Begun => loop'[turn'[r].by] \in {"top", "claim"}
             /\ runs'[r].status = "succeeded" /\ turn'[r].by # NoToken => turn'[r].op = "ok"
  <2>1. CASE turn'[r] = NoTurn
    BY <2>1, NoTurnSound DEF Begun
  <2>2. CASE RowStep(turn[r], turn'[r])
    BY <2>2 DEF OperationsSound, RowStep, Succeeds
  <2> QED BY <2>1, <2>2
<1>2. ASSUME NEW w \in Worker
      PROVE  IsFiniteSet(Kept(w))' /\ (Cardinality(Kept(w)) <= MaxRuns)'
  <2>1. Kept(w)' \subseteq Kept(w)
    BY NoTurnSound DEF Kept, RowStep
  <2>2. IsFiniteSet(Kept(w)) /\ Cardinality(Kept(w)) <= MaxRuns
    BY DEF OperationsSound
  <2>3. /\ IsFiniteSet(Kept(w)') /\ Cardinality(Kept(w)') <= Cardinality(Kept(w))
        /\ Cardinality(Kept(w)') \in Nat /\ Cardinality(Kept(w)) \in Nat
    BY <2>1, <2>2, FS_Subset, FS_CardinalityType
  <2>4. MaxRuns \in Int
    BY WorkerAssumption
  <2> QED BY <2>2, <2>3, <2>4
<1> QED BY <1>1, <1>2 DEF OperationsSound

\* No step of the database records a success but the result of a turn.
NothingSucceeds ==
  \A r \in RunId : runs'[r].status = "succeeded" => runs[r].status = "succeeded"

LEMMA StillNothingSucceeds ==
  ASSUME UNCHANGED runs
  PROVE  NothingSucceeds
BY DEF NothingSucceeds

LEMMA ClosingSucceeds ==
  ASSUME TypeOK, NEW r \in RunId, NEW status, CloseRun(r, status)
  PROVE  \A q \in RunId : runs'[q].status = "succeeded"
           => runs[q].status = "succeeded" \/ (q = r /\ status = "succeeded")
<1>1. /\ runs'[r] = Closed(runs[r], status)
      /\ \A q \in RunId \ {r} : runs'[q] = runs[q]
  BY DEF CloseRun, TypeOK
<1>2. Closed(runs[r], status).status = status
  BY DEF Closed, TypeOK, Running, Ended, NoRun
<1> QED BY <1>1, <1>2

LEMMA RecordSucceeds ==
  ASSUME TypeOK, NEW w \in Worker, NEW r \in RunId, NEW s, Record(w, r, s)
  PROVE  \A q \in RunId : runs'[q].status = "succeeded"
           => runs[q].status = "succeeded" \/ (q = r /\ s = "succeeded")
<1>1. CASE OwnsRun(w, r)
  <2> DEFINE status == IF runs[r].cancel THEN "cancelled" ELSE s
  <2>1. CloseRun(r, status) /\ (status = "succeeded" => s = "succeeded")
    BY <1>1 DEF Record, FinishRun
  <2> HIDE DEF status
  <2> QED BY <2>1, ClosingSucceeds
<1>2. CASE ~ OwnsRun(w, r)
  BY <1>2 DEF Record, vars
<1> QED BY <1>1, <1>2

LEMMA InterruptedSucceeds ==
  ASSUME TypeOK, NEW w \in Worker, NEW r \in RunId, RecordInterrupted(w, r)
  PROVE  NothingSucceeds
<1>1. CASE Interruptible(w, r)
  <2>1. CloseRun(r, "interrupted")
    BY <1>1 DEF RecordInterrupted, InterruptRun
  <2> QED BY <2>1, ClosingSucceeds DEF NothingSucceeds
<1>2. CASE ~ Interruptible(w, r)
  BY <1>2, StillNothingSucceeds DEF RecordInterrupted, vars
<1> QED BY <1>1, <1>2

LEMMA SweepSucceeds ==
  ASSUME TypeOK
  PROVE  \A r \in RunId : RecoveredRuns[r].status = "succeeded" => runs[r].status = "succeeded"
BY DEF RecoveredRuns, Closed, ExpiredRuns, TypeOK, Running, Ended, NoRun

LEMMA UsersSucceed ==
  ASSUME TypeOK, Users
  PROVE  NothingSucceeds
<1>1. CASE \/ \E j \in Job : CreateJob(j, TRUE)
           \/ \E c \in calls : FailCall(c)
           \/ Tick
  BY <1>1, StillNothingSucceeds DEF CreateJob, FailCall, Tick
<1>2. ASSUME NEW r \in RunId, BeginCall(CancelCall(r))
      PROVE  NothingSucceeds
  BY <1>2, SweepSucceeds DEF BeginCall, Sweep, NothingSucceeds
<1>3. ASSUME NEW r \in RunId, RequestCancel(r)
      PROVE  NothingSucceeds
  BY <1>3 DEF RequestCancel, TypeOK, Running, Ended, NoRun, NothingSucceeds
<1> QED BY <1>1, <1>2, <1>3 DEF Users

LEMMA RenewingSucceeds ==
  ASSUME TypeOK, NEW w \in Worker, NEW r \in RunId, RenewLease(w, r)
  PROVE  NothingSucceeds
<1>1. runs' = [runs EXCEPT ![r].lease = now + Lease] /\ runs[r].status = "running"
  BY DEF RenewLease, OwnsRun
<1>2. runs[r] \in Running
  BY <1>1 DEF TypeOK, Ended, NoRun, Terminal
<1> QED BY <1>1, <1>2 DEF TypeOK, Running, NothingSucceeds

\* A batch starts runs that were absent, no more than its limit, and none of
\* them succeeded.
LEMMA BatchStarts ==
  ASSUME TypeOK, NEW w \in Worker, NEW limit \in Nat, ClaimDueBatch(w, limit)
  PROVE  /\ NothingSucceeds
         /\ LET started == {r \in RunId : runs[r].status = "absent"
                                          /\ runs'[r].status = "running"}
            IN  IsFiniteSet(started) /\ Cardinality(started) <= limit
<1> DEFINE started == {r \in RunId : runs[r].status = "absent" /\ runs'[r].status = "running"}
<1>1. PICK claim \in SUBSET DueJobs, skip \in SUBSET DueJobs :
        BatchStep(w, claim, skip) /\ Visited(claim, skip, limit)
  BY BatchSteps
<1>2. Claimed(w).status = "running" /\ Skipped.status = "skipped"
  BY DEF Claimed, Skipped, NoRun
<1>3. NothingSucceeds
  <2>1. ASSUME NEW r \in RunId, runs'[r].status = "succeeded"
        PROVE  runs[r].status = "succeeded"
    <3>1. runs'[r] = RecoveredRuns[r]
      BY <1>1, <1>2, <2>1 DEF BatchStep
    <3> QED BY <2>1, <3>1, SweepSucceeds
  <2> QED BY <2>1 DEF NothingSucceeds
<1>4. IsFiniteSet(claim) /\ Cardinality(claim) <= limit
  <2> DEFINE ready == {j \in DueJobs : ~ Misfired(j) /\ runs[DueRun(j)].status = "absent"}
  <2>1. IsFiniteSet(ready) /\ claim \subseteq ready
    <3>1. IsFiniteSet(ready)
      BY WorkerAssumption, FS_Subset DEF DueJobs
    <3>2. claim \subseteq ready
      BY <1>1 DEF Visited
    <3> QED BY <3>1, <3>2
  <2>2. IsFiniteSet(claim) /\ Cardinality(claim) \in Nat /\ Cardinality(ready) \in Nat
    BY <2>1, FS_Subset, FS_CardinalityType
  <2>3. CASE Cardinality(ready) < limit
    <3>1. claim = ready
      BY <1>1, <2>3 DEF Visited
    <3> QED BY <2>2, <2>3, <3>1
  <2>4. CASE ~ (Cardinality(ready) < limit)
    <3>1. Cardinality(claim) = limit
      BY <1>1, <2>4 DEF Visited
    <3> QED BY <2>2, <3>1
  <2> QED BY <2>3, <2>4
<1>5. ASSUME NEW r \in started
      PROVE  r.job \in claim /\ IsDueRun(r)
  <2>1. RecoveredRuns[r] = runs[r]
    BY DEF RecoveredRuns, ExpiredRuns
  <2>2. runs'[r] # RecoveredRuns[r] /\ runs'[r] # Skipped
    BY <1>2, <2>1
  <2> QED BY <1>1, <2>2 DEF BatchStep
<1>6. started \subseteq {DueRun(j) : j \in claim}
  <2>1. ASSUME NEW r \in started
        PROVE  r = DueRun(r.job)
    <3>1. r.job \in DueJobs /\ IsDueRun(r) /\ r \in RunId
      BY <1>1, <1>5
    <3>2. /\ DueRun(r.job) \in RunId /\ DueRun(r.job).job = r.job
          /\ DueRun(r.job).trigger = "scheduled" /\ DueRun(r.job).key = jobs[r.job].next
      BY <3>1, DueJob
    <3> QED BY <3>1, <3>2, RunIdFields DEF IsDueRun
  <2> QED BY <1>5, <2>1
<1>7. /\ IsFiniteSet({DueRun(j) : j \in claim})
      /\ Cardinality({DueRun(j) : j \in claim}) <= Cardinality(claim)
  <2> DEFINE T == {DueRun(j) : j \in claim}
             f == [j \in claim |-> DueRun(j)]
  <2>1. f \in Surjection(claim, T)
    BY DEF Surjection
  <2> HIDE DEF f, T
  <2>2. IsFiniteSet(T) /\ Cardinality(T) <= Cardinality(claim)
    BY <1>4, <2>1, FS_Surjection
  <2> QED BY <2>2 DEF T
<1>8. IsFiniteSet(started) /\ Cardinality(started) <= limit
  <2> DEFINE T == {DueRun(j) : j \in claim}
  <2> HIDE DEF T, started
  <2>1. /\ started \subseteq T /\ IsFiniteSet(T)
        /\ Cardinality(T) <= Cardinality(claim) /\ Cardinality(claim) <= limit
    BY <1>4, <1>6, <1>7 DEF T
  <2>2. /\ IsFiniteSet(started) /\ Cardinality(started) <= Cardinality(T)
        /\ Cardinality(started) \in Nat /\ Cardinality(T) \in Nat
        /\ Cardinality(claim) \in Nat
    BY <1>4, <2>1, FS_Subset, FS_CardinalityType
  <2> QED BY <2>1, <2>2
<1> QED BY <1>3, <1>8

\* One row steps, and no loop turns away.
LEMMA OneRowSound ==
  ASSUME WorkerTypeOK, OperationsSound, NEW r \in RunId, NEW t, RowStep(turn[r], t),
         turn' = [turn EXCEPT ![r] = t], UNCHANGED loop, \A q \in RunId : Succeeds(q)
  PROVE  OperationsSound'
<1>1. turn'[r] = t /\ \A q \in RunId \ {r} : turn'[q] = turn[q]
  BY DEF WorkerTypeOK
<1>2. \A q \in RunId : RowStep(turn[q], turn'[q])
  BY <1>1, SameRowStep DEF OperationsSound
<1> QED BY <1>2, SoundStep

\* The rows that the steps of execute make.
LEMMA MovedRow ==
  ASSUME NEW t, SoundRow(t), t.at \notin {"none"} \cup Done, t.at \in Begun => t.op # "live",
         NEW at \in Ends \cup Done
  PROVE  RowStep(t, [t EXCEPT !.at = at, !.hit = FALSE])
<1> DEFINE u == [t EXCEPT !.at = at, !.hit = FALSE]
<1>1. /\ u.at = at /\ u.by = t.by /\ u.op = t.op /\ u.slot = t.slot /\ u.cleanup = t.cleanup
      /\ at \notin Begun /\ at \notin Waits
  BY DEF SoundRow, Shape, Turn, Ends, Done, Begun, Waits
<1>2. Shape(u)
  BY MovedShape DEF SoundRow
<1>3. t.slot \in {"tasks", "detached"}
  BY DEF SoundRow
<1>4. t.op # "live"
  BY DEF SoundRow, Begun
<1> HIDE DEF u
<1>5. SoundRow(u) /\ (KeptRow(u) => KeptRow(t))
  BY <1>1, <1>2, <1>3, <1>4 DEF SoundRow, KeptRow
<1>6. RowStep(t, u)
  BY <1>1, <1>5 DEF RowStep
<1> QED BY <1>6 DEF u

LEMMA DeferredRow ==
  ASSUME NEW t, SoundRow(t), t.at \in Waits, NEW at \in Ends \cup {"cancelling"},
         NEW c \in BOOLEAN
  PROVE  RowStep(t, [t EXCEPT !.at = at, !.hit = FALSE, !.cleanup = c])
<1> DEFINE u == [t EXCEPT !.at = at, !.hit = FALSE, !.cleanup = c]
<1>1. /\ u.at = at /\ u.by = t.by /\ u.op = t.op /\ u.slot = t.slot
      /\ at \notin Begun /\ t.at \notin {"none"} \cup Done
  BY DEF SoundRow, Shape, Turn, Ends, Done, Begun, Waits
<1>2. Shape(u)
  BY MovedShape DEF SoundRow
<1>3. t.slot \in {"tasks", "detached"} /\ t.op # "live"
  BY <1>1 DEF SoundRow, Waits
<1> HIDE DEF u
<1>4. SoundRow(u) /\ KeptRow(t)
  BY <1>1, <1>2, <1>3 DEF SoundRow, KeptRow
<1>5. RowStep(t, u)
  BY <1>1, <1>4 DEF RowStep
<1> QED BY <1>5 DEF u

LEMMA ExecuteSound ==
  ASSUME TypeOK, WorkerTypeOK, OperationsSound,
         NEW w \in Worker, NEW r \in RunId, ExecuteStep(w, r)
  PROVE  OperationsSound'
<1>1. UNCHANGED loop
  BY DEF ExecuteStep, RefuseTurn, StartTurn, TurnResult, TimeoutHandled,
         CancellationHandled, FailureHandled
<1>2. SoundRow(turn[r]) /\ Shape(turn[r]) /\ turn[r] \in Turn
  BY DEF OperationsSound, SoundRow, Shape
<1>3. ASSUME NEW s, Record(w, r, s), s # "succeeded" PROVE \A q \in RunId : Succeeds(q)
  BY <1>3, RecordSucceeds DEF Succeeds
<1>4. ASSUME RecordInterrupted(w, r) PROVE \A q \in RunId : Succeeds(q)
  BY <1>4, InterruptedSucceeds DEF NothingSucceeds, Succeeds
<1>5. ASSUME UNCHANGED vars PROVE \A q \in RunId : Succeeds(q)
  BY <1>5 DEF vars, Succeeds
<1>6. ASSUME NEW at \in Ends \cup Done, Moved(r, at), \A q \in RunId : Succeeds(q),
             turn[r].at \in {"start", "racing"} \cup Waits, turn[r].op # "live"
      PROVE  OperationsSound'
  <2> DEFINE t == [turn[r] EXCEPT !.at = at, !.hit = FALSE]
  <2>1. RowStep(turn[r], t)
    BY <1>2, <1>6, MovedRow DEF Waits, Done
  <2>2. turn' = [turn EXCEPT ![r] = t]
    BY <1>6 DEF Moved
  <2> HIDE DEF t
  <2> QED BY <1>1, <1>6, <2>1, <2>2, OneRowSound
<1>7. ASSUME NEW at \in Ends \cup {"cancelling"}, Deferred(r, at),
             \A q \in RunId : Succeeds(q), turn[r].at \in Waits
      PROVE  OperationsSound'
  <2> DEFINE c == ~ OpSettled(r)
             t == [turn[r] EXCEPT !.at = at, !.hit = FALSE, !.cleanup = c]
  <2>1. c \in BOOLEAN
    BY DEF OpSettled
  <2>2. turn' = [turn EXCEPT ![r] = t]
    BY <1>7 DEF Deferred
  <2> HIDE DEF c
  <2>3. RowStep(turn[r], t)
    BY <1>2, <1>7, <2>1, DeferredRow
  <2> HIDE DEF t
  <2> QED BY <1>1, <1>7, <2>2, <2>3, OneRowSound
<1>8. \A b : After(b) \in Ends
  BY DEF After, Ends
<1>9. \A at \in Waits : turn[r].at = at => turn[r].op # "live"
  BY <1>2 DEF Shape
<1>10. CASE RefuseTurn(w, r)
  <2>1. Record(w, r, "failed") /\ turn[r].at = "start" /\ turn[r].op # "live"
    BY <1>2, <1>10 DEF RefuseTurn, Shape
  <2>2. \A q \in RunId : Succeeds(q)
    BY <1>3, <2>1
  <2>3. Moved(r, "returned") \/ Moved(r, "raised")
    BY <1>10 DEF RefuseTurn
  <2> QED BY <1>6, <2>1, <2>2, <2>3 DEF Done
<1>11. CASE StartTurn(w, r)
  <2> DEFINE t == [turn[r] EXCEPT !.at = "racing", !.op = "live", !.watch = "on"]
  <2>1. turn[r].at = "start" /\ turn' = [turn EXCEPT ![r] = t] /\ turn[r].op = "none"
    BY <1>2, <1>11 DEF StartTurn, Shape
  <2>2. /\ t.at = "racing" /\ t.op = "live" /\ t.by = turn[r].by /\ t.slot = turn[r].slot
        /\ t.cleanup = turn[r].cleanup
    BY <1>2 DEF Turn
  <2>3. Shape(t)
    BY <1>2, <2>1 DEF Shape, Turn, Place, Operation, Live, Waits
  <2> HIDE DEF t
  <2>4. RowStep(turn[r], t)
    BY <1>2, <2>1, <2>2, <2>3 DEF RowStep, SoundRow, KeptRow, Begun
  <2> QED BY <1>1, <1>5, <1>11, <2>1, <2>4, OneRowSound DEF StartTurn
<1>12. CASE TurnResult(w, r)
  <2>1. /\ turn[r].op \in {"ok", "bad", "cancelled"} /\ turn[r].at = "racing"
        /\ Moved(r, After(OwnsRun(w, r)))
    BY <1>2, <1>12 DEF TurnResult, Turn, Operation, Live, Shape
  <2>2. \E s : Record(w, r, s) /\ (s = "succeeded" => turn[r].op = "ok")
    BY <1>12, <2>1 DEF TurnResult
  <2>3. \A q \in RunId : Succeeds(q)
    BY <2>2, RecordSucceeds DEF Succeeds
  <2> QED BY <1>6, <1>8, <2>1, <2>3
<1>13. CASE TimeoutHandled(w, r)
  <2>1. turn[r].at \in Waits
    BY <1>13 DEF TimeoutHandled, Waits
  <2>2. \/ Deferred(r, "cancelling") /\ UNCHANGED vars
        \/ Record(w, r, "failed") /\ Deferred(r, After(OwnsRun(w, r)))
    BY <1>13 DEF TimeoutHandled
  <2> QED BY <1>3, <1>5, <1>7, <1>8, <2>1, <2>2
<1>14. CASE CancellationHandled(w, r)
  <2>1. turn[r].at \in Waits
    BY <1>14 DEF CancellationHandled, Waits
  <2>2. \/ Record(w, r, "cancelled") /\ Moved(r, After(OwnsRun(w, r)))
        \/ RecordInterrupted(w, r) /\ Deferred(r, After(Interruptible(w, r)))
    BY <1>14 DEF CancellationHandled
  <2> QED BY <1>3, <1>4, <1>6, <1>7, <1>8, <1>9, <2>1, <2>2
<1>15. CASE FailureHandled(w, r)
  <2>1. turn[r].at \in Waits /\ "unwinding" \in Ends
    BY <1>15 DEF FailureHandled, Waits, Ends
  <2>2. \/ Moved(r, "unwinding") /\ UNCHANGED vars
        \/ Record(w, r, "failed") /\ Moved(r, After(OwnsRun(w, r)))
        \/ RecordInterrupted(w, r) /\ Deferred(r, After(Interruptible(w, r)))
    BY <1>15 DEF FailureHandled
  <2> QED BY <1>3, <1>4, <1>5, <1>6, <1>7, <1>8, <1>9, <2>1, <2>2
<1> QED BY <1>10, <1>11, <1>12, <1>13, <1>14, <1>15 DEF ExecuteStep

LEMMA TaskSound ==
  ASSUME TypeOK, WorkerTypeOK, OperationsSound, NEW r \in RunId,
         \/ MonitorEnded(r) \/ TurnTimeout(r) \/ EndTurn(r) \/ CleanupEnds(r)
         \/ \E outcome \in {"ok", "bad", "cancelled"} : OperationEnds(r, outcome)
         \/ \E w \in Worker : \/ MonitorCancels(w, r) \/ MonitorRenews(w, r)
                             \/ MonitorFails(w, r)
  PROVE  OperationsSound'
<1>1. SoundRow(turn[r]) /\ Shape(turn[r]) /\ turn[r] \in Turn
  BY DEF OperationsSound, SoundRow, Shape
<1>2. ASSUME NEW t, turn' = [turn EXCEPT ![r] = t], UNCHANGED <<vars, loop>>,
             RowStep(turn[r], t)
      PROVE  OperationsSound'
  <2>1. \A q \in RunId : Succeeds(q)
    BY <1>2 DEF vars, Succeeds
  <2> QED BY <1>2, <2>1, OneRowSound
<1>3. CASE MonitorEnded(r) \/ TurnTimeout(r)
  <2>1. PICK at \in Waits : CancelTurn(r, at) /\ UNCHANGED <<vars, loop>>
    BY <1>3 DEF MonitorEnded, TurnTimeout, Waits
  <2>2. turn[r].at = "racing" /\ turn[r].op \in Live
    BY <1>3 DEF MonitorEnded, TurnTimeout
  <2> DEFINE t == [turn[r] EXCEPT !.at = at, !.op = "asked", !.hit = FALSE]
  <2>3. /\ t.at = at /\ t.op = "asked" /\ t.by = turn[r].by /\ t.slot = turn[r].slot
        /\ t.cleanup = turn[r].cleanup
    BY <1>1 DEF Turn
  <2>4. Shape(t)
    BY <1>1, MovedShape
  <2>5. turn' = [turn EXCEPT ![r] = t]
    BY <2>1 DEF CancelTurn
  <2> HIDE DEF t
  <2>6. RowStep(turn[r], t)
    BY <1>1, <2>2, <2>3, <2>4 DEF RowStep, SoundRow, KeptRow, Begun, Waits, Live, Done
  <2> QED BY <1>2, <2>1, <2>5, <2>6
<1>4. CASE EndTurn(r)
  <2>1. PICK late \in BOOLEAN : turn' = [turn EXCEPT ![r] = Left(turn[r], late)]
    BY <1>4 DEF EndTurn
  <2> DEFINE t == Left(turn[r], late)
  <2>2. /\ turn[r].at \in Ends /\ Settles(turn[r].at) \in Done /\ UNCHANGED <<vars, loop>>
    BY <1>4 DEF EndTurn, Settles, Ends, Done
  <2>3. /\ t.at = Settles(turn[r].at) /\ t.op = turn[r].op /\ t.by = turn[r].by
        /\ t.slot = turn[r].slot
    BY <1>1 DEF Left, Turn
  <2>4. Shape(t)
    <3>1. (turn[r].cleanup \/ late) \in BOOLEAN
      BY <1>1 DEF Turn
    <3> QED BY <1>1, <2>2, <3>1 DEF Left, Shape, Turn, Place, Done, Waits
  <2> HIDE DEF t
  <2>5. turn[r].slot \in {"tasks", "detached"} /\ turn[r].op # "live"
    BY <1>1, <2>2 DEF SoundRow, Ends
  <2>6. SoundRow(t) /\ KeptRow(turn[r])
    BY <2>2, <2>3, <2>4, <2>5 DEF SoundRow, KeptRow, Ends, Done, Begun
  <2>7. RowStep(turn[r], t)
    BY <2>2, <2>3, <2>6 DEF RowStep, Done, Begun
  <2> QED BY <1>2, <2>1, <2>2, <2>7 DEF t
<1>5. CASE CleanupEnds(r)
  <2> DEFINE t == [turn[r] EXCEPT !.cleanup = FALSE]
  <2>1. /\ t.at = turn[r].at /\ t.op = turn[r].op /\ t.by = turn[r].by
        /\ t.slot = turn[r].slot /\ t.cleanup = FALSE /\ Shape(t)
    BY <1>1 DEF Turn, Shape
  <2>2. turn' = [turn EXCEPT ![r] = t] /\ UNCHANGED <<vars, loop>>
    BY <1>5 DEF CleanupEnds
  <2> HIDE DEF t
  <2>3. RowStep(turn[r], t)
    BY <1>1, <2>1 DEF RowStep, SoundRow, KeptRow
  <2> QED BY <1>2, <2>2, <2>3
<1>6. ASSUME NEW outcome \in {"ok", "bad", "cancelled"}, OperationEnds(r, outcome)
      PROVE  OperationsSound'
  <2> DEFINE t == [turn[r] EXCEPT !.op = outcome]
  <2>1. turn[r].op \in Live
    BY <1>6 DEF OperationEnds
  <2>2. /\ t.at = turn[r].at /\ t.op = outcome /\ t.by = turn[r].by
        /\ t.slot = turn[r].slot /\ t.cleanup = turn[r].cleanup
    BY <1>1 DEF Turn
  <2>3. Shape(t)
    BY <1>1, <2>1 DEF Shape, Turn, Operation, Live
  <2>4. turn' = [turn EXCEPT ![r] = t] /\ UNCHANGED <<vars, loop>>
    BY <1>6 DEF OperationEnds
  <2> HIDE DEF t
  <2>5. RowStep(turn[r], t)
    BY <1>1, <2>1, <2>2, <2>3 DEF RowStep, SoundRow, KeptRow, Live
  <2> QED BY <1>2, <2>4, <2>5
<1>7. ASSUME NEW w \in Worker, MonitorCancels(w, r) \/ MonitorFails(w, r)
      PROVE  OperationsSound'
  <2>1. PICK v \in {"off", "lost"} :
          turn' = [turn EXCEPT ![r] = [turn[r] EXCEPT !.watch = v, !.op = "asked"]]
    BY <1>7 DEF MonitorCancels, MonitorFails
  <2> DEFINE t == [turn[r] EXCEPT !.watch = v, !.op = "asked"]
  <2>2. turn[r].op \in Live /\ turn[r].at \in {"racing"} \cup Waits /\ UNCHANGED <<vars, loop>>
    BY <1>7 DEF MonitorCancels, MonitorFails, Watching
  <2>3. /\ t.at = turn[r].at /\ t.op = "asked" /\ t.by = turn[r].by
        /\ t.slot = turn[r].slot /\ t.cleanup = turn[r].cleanup
    BY <1>1 DEF Turn
  <2>4. Shape(t)
    BY <1>1, <2>2 DEF Shape, Turn, Operation, Live, Waits
  <2> HIDE DEF t
  <2>5. RowStep(turn[r], t)
    BY <1>1, <2>2, <2>3, <2>4 DEF RowStep, SoundRow, KeptRow, Live, Waits
  <2> QED BY <1>2, <2>1, <2>2, <2>5 DEF t
<1>8. ASSUME NEW w \in Worker, MonitorRenews(w, r)
      PROVE  OperationsSound'
  <2>1. UNCHANGED <<loop, turn>> /\ NothingSucceeds
    BY <1>8, RenewingSucceeds DEF MonitorRenews
  <2> QED BY <2>1, SameRowStep, SoundStep DEF OperationsSound, NothingSucceeds, Succeeds
<1> QED BY <1>3, <1>4, <1>5, <1>6, <1>7, <1>8

LEMMA CancelledRow ==
  ASSUME NEW t, SoundRow(t), t.slot = "tasks"
  PROVE  RowStep(t, Cancelled(t)) /\ Cancelled(t).at \notin Begun
<1> DEFINE u == Cancelled(t)
<1>1. Shape(u) /\ t \in Turn /\ Shape(t)
  BY CancelledShape DEF SoundRow, Shape
<1>2. u.by = t.by /\ u.slot = "tasks"
  BY <1>1, CancelledMoves
<1>3. u.at \notin Begun /\ u.op # "live" /\ (t.op = "ok" => u.op = "ok")
  <2>1. CASE t.at = "start"
    BY <1>1, <2>1 DEF Cancelled, Turn, Shape, Begun
  <2>2. CASE t.at = "racing"
    <3>1. u = [t EXCEPT !.at = "cancelling", !.op = Asked(t.op), !.hit = FALSE]
      BY <2>2 DEF Cancelled, Waits
    <3>2. u.at = "cancelling" /\ u.op = Asked(t.op)
      BY <1>1, <3>1 DEF Turn
    <3> QED BY <3>2 DEF Asked, Begun
  <2>3. CASE t.at \in Waits
    BY <1>1, <2>3 DEF Cancelled, Turn, Shape, Waits, Begun
  <2>4. CASE t.at \in {"returning", "raising"}
    BY <1>1, <2>4 DEF Cancelled, Turn, Waits, Begun, SoundRow
  <2>5. CASE t.at \notin {"start", "racing", "returning", "raising"} \cup Waits
    BY <1>1, <2>5 DEF Cancelled, Begun, SoundRow
  <2> QED BY <2>1, <2>2, <2>3, <2>4, <2>5
<1> HIDE DEF u
<1>4. RowStep(t, u) /\ u.at \notin Begun
  BY <1>1, <1>2, <1>3 DEF RowStep, SoundRow, KeptRow
<1> QED BY <1>4 DEF u

\* A row as a claim inserts it.
FreshRow(w) == [NoTurn EXCEPT !.by = w, !.at = "start", !.slot = "tasks"]

LEMMA FreshRowSound ==
  ASSUME NEW w \in Worker
  PROVE  /\ SoundRow(FreshRow(w)) /\ FreshRow(w).by = w
         /\ FreshRow(w).at = "start"
BY DEF FreshRow, NoTurn, SoundRow, Shape, Turn, Place, Operation, Waits, Ends, Done, Begun

\* A claim gives a worker with nothing outstanding no more than what is left of
\* max_concurrent_runs beside the tasks it has.
LEMMA ClaimSound ==
  ASSUME TypeOK, WorkerTypeOK, OperationsSound, NEW w \in Worker, Claim(w)
  PROVE  OperationsSound'
<1>1. \A r \in RunId : turn'[r] =
        IF runs[r].status = "absent" /\ runs'[r].status = "running"
        THEN FreshRow(w) ELSE turn[r]
  BY DEF Claim, FreshRow
<1>2. loop'[w] = "top" /\ \A v \in Worker \ {w} : loop'[v] = loop[v]
  BY DEF Claim, Goto, WorkerTypeOK
<1>3. CASE \/ Capacity(w) \notin 1..MaxRuns
           \/ Capacity(w) \in 1..MaxRuns /\ ~ LeaseFits
  <2>1. UNCHANGED vars \/ Sweep
    BY <1>3 DEF Claim
  <2>2. \A r \in RunId : RecoveredRuns[r].status = "running" => runs[r].status = "running"
    BY DEF RecoveredRuns, Closed, ExpiredRuns, TypeOK, Running
  <2>3. \A r \in RunId : Succeeds(r) /\ turn'[r] = turn[r]
    BY <1>1, <2>1, <2>2, SweepSucceeds DEF Sweep, vars, Succeeds
  <2>4. \A r \in RunId : RowStep(turn[r], turn'[r])
    BY <2>3, SameRowStep DEF OperationsSound
  <2>5. \A r \in RunId : turn[r].at \in Begun => turn[r].by \in Worker
    BY DEF OperationsSound, SoundRow
  <2> QED BY <1>2, <2>3, <2>4, <2>5, SoundStep
<1>4. CASE Capacity(w) \in 1..MaxRuns /\ LeaseFits
  <2> DEFINE started == {r \in RunId : runs[r].status = "absent"
                                       /\ runs'[r].status = "running"}
  <2>1. ClaimDueBatch(w, Capacity(w)) /\ Capacity(w) \in Nat
    BY <1>4, WorkerAssumption DEF Claim
  <2>2. NothingSucceeds /\ IsFiniteSet(started) /\ Cardinality(started) <= Capacity(w)
    BY <2>1, BatchStarts
  <2>3. Outstanding(w) = {} /\ Capacity(w) = MaxRuns - Cardinality(Tasks(w))
    BY <1>4, WorkerAssumption DEF Capacity
  <2>4. Kept(w) = Tasks(w)
    BY <2>3 DEF Kept, KeptRow, Outstanding, Tasks
  <2>5. /\ \A r \in started : turn'[r] = FreshRow(w)
        /\ \A r \in RunId \ started : turn'[r] = turn[r]
    BY <1>1
  <2>6. \A r \in started : runs'[r].status # "succeeded"
    OBVIOUS
  <2> HIDE DEF started
  <2>7. ASSUME NEW r \in RunId
        PROVE  /\ SoundRow(turn'[r])
               /\ turn'[r].at \in Begun => loop'[turn'[r].by] \in {"top", "claim"}
               /\ runs'[r].status = "succeeded" /\ turn'[r].by # NoToken
                    => turn'[r].op = "ok"
    <3>1. CASE r \in started
      BY <1>2, <2>5, <2>6, <3>1, FreshRowSound
    <3>2. CASE r \notin started
      <4>1. turn'[r] = turn[r]
        BY <2>5, <3>2
      <4>2. SoundRow(turn[r]) /\ (turn[r].at \in Begun => turn[r].by \in Worker)
        BY DEF OperationsSound, SoundRow
      <4>3. /\ turn[r].at \in Begun => loop[turn[r].by] \in {"top", "claim"}
            /\ runs[r].status = "succeeded" /\ turn[r].by # NoToken => turn[r].op = "ok"
        BY DEF OperationsSound
      <4>4. turn[r].at \in Begun => loop'[turn[r].by] \in {"top", "claim"}
        BY <1>2, <4>2, <4>3
      <4> QED BY <2>2, <4>1, <4>2, <4>3, <4>4 DEF NothingSucceeds
    <3> QED BY <3>1, <3>2
  <2>8. ASSUME NEW v \in Worker
        PROVE  IsFiniteSet(Kept(v))' /\ (Cardinality(Kept(v)) <= MaxRuns)'
    <3>1. IsFiniteSet(Kept(v)) /\ Cardinality(Kept(v)) <= MaxRuns
          /\ Cardinality(Kept(v)) \in Nat
      BY FS_CardinalityType DEF OperationsSound
    <3>2. CASE v # w
      <4>1. Kept(v)' \subseteq Kept(v)
        BY <2>5, <3>2, FreshRowSound DEF Kept
      <4>2. IsFiniteSet(Kept(v)') /\ Cardinality(Kept(v)') <= Cardinality(Kept(v))
            /\ Cardinality(Kept(v)') \in Nat
        BY <3>1, <4>1, FS_Subset, FS_CardinalityType
      <4> QED BY <3>1, <4>2, WorkerAssumption
    <3>3. CASE v = w
      <4>1. Kept(w)' \subseteq Tasks(w) \cup started
        BY <2>4, <2>5 DEF Kept
      <4>2. IsFiniteSet(Tasks(w)) /\ Cardinality(Tasks(w)) \in Nat
        BY <2>4, <3>1, <3>3
      <4>3. /\ IsFiniteSet(Tasks(w) \cup started)
            /\ Cardinality(Tasks(w) \cup started) <= Cardinality(Tasks(w)) + Cardinality(started)
        <5>1. IsFiniteSet(Tasks(w) \cap started) /\ Cardinality(Tasks(w) \cap started) \in Nat
              /\ Cardinality(started) \in Nat
          BY <2>2, <4>2, FS_Intersection, FS_CardinalityType
        <5>2. Cardinality(Tasks(w) \cup started)
                = Cardinality(Tasks(w)) + Cardinality(started) - Cardinality(Tasks(w) \cap started)
          BY <2>2, <4>2, FS_Union
        <5>3. IsFiniteSet(Tasks(w) \cup started)
          BY <2>2, <4>2, FS_Union
        <5> QED BY <4>2, <5>1, <5>2, <5>3
      <4>4. /\ IsFiniteSet(Kept(w)')
            /\ Cardinality(Kept(w)') <= Cardinality(Tasks(w) \cup started)
            /\ Cardinality(Kept(w)') \in Nat
        BY <4>1, <4>3, FS_Subset, FS_CardinalityType
      <4>5. Cardinality(started) \in Nat /\ Cardinality(Tasks(w) \cup started) \in Nat
        BY <2>2, <4>3, FS_CardinalityType
      <4> QED BY <2>2, <2>3, <3>3, <4>2, <4>3, <4>4, <4>5, WorkerAssumption
    <3> QED BY <3>2, <3>3
  <2> QED BY <2>7, <2>8 DEF OperationsSound
<1> QED BY <1>3, <1>4

LEMMA LoopSound ==
  ASSUME TypeOK, WorkerTypeOK, OperationsSound, NEW w \in Worker,
         StartWorker(w) \/ LoopStep(w) \/ Pause(w) \/ Exit(w) \/ Crash(w)
  PROVE  OperationsSound'
<1>1. \A r \in RunId : /\ SoundRow(turn[r]) /\ turn[r] \in Turn
                       /\ turn[r].at \in Begun => turn[r].by \in Worker
                                                   /\ turn[r].slot = "tasks"
                       /\ turn[r].at \in Begun => loop[turn[r].by] \in {"top", "claim"}
  BY DEF OperationsSound, SoundRow, Shape
<1>2. ASSUME UNCHANGED vars PROVE \A r \in RunId : Succeeds(r)
  BY <1>2 DEF vars, Succeeds
<1>3. ASSUME NEW l, Goto(w, l)
      PROVE  \A v \in Worker \ {w} : loop'[v] = loop[v]
  BY <1>3 DEF Goto, WorkerTypeOK
<1>4. ASSUME NEW l, Goto(w, l), l \in {"top", "claim"} \/ loop[w] \notin {"top", "claim"},
             UNCHANGED <<vars, turn>>
      PROVE  OperationsSound'
  <2>1. \A r \in RunId : RowStep(turn[r], turn'[r])
    BY <1>1, <1>4, SameRowStep
  <2>2. loop'[w] = l
    BY <1>4 DEF Goto, WorkerTypeOK
  <2>3. \A r \in RunId : turn[r].at \in Begun => loop'[turn[r].by] \in {"top", "claim"}
    BY <1>1, <1>3, <1>4, <2>2
  <2> QED BY <1>2, <1>4, <2>1, <2>3, SoundStep
<1>5. CASE StartWorker(w) \/ Proceed(w) \/ Reap(w) \/ Reaped(w)
  BY <1>4, <1>5 DEF StartWorker, Proceed, Reap, Reaped, Stopping, Reaping
<1>6. ASSUME NEW l, StopRuns(w, l)
      PROVE  OperationsSound'
  <2>1. /\ \A r \in Tasks(w) : turn'[r] = Cancelled(turn[r])
        /\ \A r \in RunId \ Tasks(w) : turn'[r] = turn[r]
    BY <1>6 DEF StopRuns, Tasks
  <2>2. \A r \in Tasks(w) : RowStep(turn[r], turn'[r]) /\ turn'[r].at \notin Begun
    BY <1>1, <2>1, CancelledRow DEF Tasks
  <2>3. \A r \in RunId \ Tasks(w) : RowStep(turn[r], turn'[r])
    BY <1>1, <2>1, SameRowStep
  <2>4. \A r \in RunId : RowStep(turn[r], turn'[r])
    BY <2>2, <2>3
  <2>5. \A r \in RunId : turn'[r].at \in Begun => turn'[r] = turn[r] /\ turn[r].by # w
    BY <1>1, <2>1, <2>2 DEF Tasks
  <2>6. \A r \in RunId : turn'[r].at \in Begun => loop'[turn[r].by] \in {"top", "claim"}
    BY <1>1, <1>3, <1>6, <2>5 DEF StopRuns
  <2>7. \A r \in RunId : Succeeds(r)
    BY <1>2, <1>6 DEF StopRuns
  <2> QED BY <2>4, <2>6, <2>7, SoundStep
<1>7. CASE Pause(w) \/ Exit(w)
  BY <1>4, <1>6, <1>7 DEF Pause, Exit
<1>8. CASE Crash(w)
  <2>1. \A r \in RunId : turn'[r] = IF turn[r].by = w THEN NoTurn ELSE turn[r]
    BY <1>8 DEF Crash
  <2>2. \A r \in RunId : turn'[r] = NoTurn \/ RowStep(turn[r], turn'[r])
    BY <1>1, <2>1, SameRowStep
  <2>3. \A r \in RunId : turn'[r].at \in Begun => turn[r].by # w
    BY <2>1, NoTurnSound DEF Begun
  <2>4. \A r \in RunId : turn'[r].at \in Begun /\ turn[r].at \in Begun
          => loop'[turn[r].by] \in {"top", "claim"}
    BY <1>1, <1>3, <1>8, <2>3 DEF Crash
  <2>5. \A r \in RunId : Succeeds(r)
    BY <1>2, <1>8 DEF Crash
  <2> QED BY <2>2, <2>4, <2>5, SoundStep
<1>9. ASSUME NEW r \in RunId, Collect(w, r)
      PROVE  OperationsSound'
  <2> DEFINE t == [turn[r] EXCEPT !.at = "none", !.slot = "out"]
  <2>1. /\ UNCHANGED loop /\ turn[r].at \in Done /\ turn[r].slot = "tasks"
        /\ turn' = [turn EXCEPT ![r] = t]
    BY <1>9 DEF Collect, Tasks
  <2>2. \/ Record(w, r, "cancelled")
        \/ RecordInterrupted(w, r)
        \/ UNCHANGED vars
    BY <1>9 DEF Collect, Done
  <2>3. \A q \in RunId : Succeeds(q)
    BY <1>2, <2>2, RecordSucceeds, InterruptedSucceeds DEF NothingSucceeds, Succeeds
  <2>4. /\ t.at = "none" /\ t.slot = "out" /\ t.op = turn[r].op /\ t.by = turn[r].by
        /\ t.cleanup = turn[r].cleanup
    BY <1>1 DEF Turn
  <2>5. Shape(t)
    BY <1>1 DEF Shape, Turn, Place, Waits
  <2> HIDE DEF t
  <2>6. RowStep(turn[r], t)
    BY <1>1, <2>1, <2>4, <2>5 DEF RowStep, SoundRow, KeptRow, Begun, Done
  <2> QED BY <2>1, <2>3, <2>6, OneRowSound
<1>10. ASSUME NEW r \in RunId, Abandon(w, r)
       PROVE  OperationsSound'
  <2> DEFINE t == [turn[r] EXCEPT !.slot = "detached"]
  <2>1. /\ UNCHANGED loop /\ loop[w] \in Reaping /\ turn[r].by = w
        /\ turn[r].slot = "tasks" /\ turn' = [turn EXCEPT ![r] = t]
    BY <1>10 DEF Abandon, Tasks
  <2>2. \A q \in RunId : Succeeds(q)
    BY <1>10, RecordSucceeds DEF Abandon, Succeeds
  <2>3. turn[r].at \notin Begun
    BY <1>1, <2>1 DEF Reaping
  <2>4. /\ t.at = turn[r].at /\ t.slot = "detached" /\ t.op = turn[r].op
        /\ t.by = turn[r].by /\ t.cleanup = turn[r].cleanup
    BY <1>1 DEF Turn
  <2>5. Shape(t)
    BY <1>1 DEF SoundRow, Shape, Turn
  <2> HIDE DEF t
  <2>6. RowStep(turn[r], t)
    BY <1>1, <2>1, <2>3, <2>4, <2>5 DEF RowStep, SoundRow, KeptRow
  <2> QED BY <2>1, <2>2, <2>6, OneRowSound
<1>11. CASE Claim(w)
  BY <1>11, ClaimSound
<1> QED BY <1>5, <1>7, <1>8, <1>9, <1>10, <1>11 DEF LoopStep

LEMMA SoundNext ==
  ASSUME TypeOK, WorkerTypeOK, OperationsSound, [WorkerNext]_workerVars
  PROVE  OperationsSound'
<1>1. ASSUME UNCHANGED <<loop, turn>>, NothingSucceeds
      PROVE  OperationsSound'
  BY <1>1, SameRowStep, SoundStep DEF OperationsSound, NothingSucceeds, Succeeds
<1>2. CASE Users
  BY <1>1, <1>2, UsersSucceed DEF Users
<1>3. CASE UNCHANGED workerVars
  BY <1>1, <1>3, StillNothingSucceeds DEF workerVars
<1>4. ASSUME NEW w \in Worker,
             StartWorker(w) \/ LoopStep(w) \/ Pause(w) \/ Exit(w) \/ Crash(w)
      PROVE  OperationsSound'
  BY <1>4, LoopSound
<1>5. ASSUME NEW w \in Worker, NEW r \in RunId,
             \/ ExecuteStep(w, r)
             \/ MonitorCancels(w, r) \/ MonitorRenews(w, r) \/ MonitorFails(w, r)
      PROVE  OperationsSound'
  BY <1>5, ExecuteSound, TaskSound
<1>6. ASSUME NEW r \in RunId,
             \/ MonitorEnded(r) \/ TurnTimeout(r) \/ EndTurn(r) \/ CleanupEnds(r)
             \/ \E outcome \in {"ok", "bad", "cancelled"} : OperationEnds(r, outcome)
      PROVE  OperationsSound'
  BY <1>6, TaskSound
<1> QED BY <1>2, <1>3, <1>4, <1>5, <1>6 DEF WorkerNext

LEMMA SoundInit ==
  ASSUME WorkerInit
  PROVE  OperationsSound
<1>1. \A r \in RunId : turn[r] = NoTurn
  BY DEF WorkerInit
<1>2. ASSUME NEW w \in Worker
      PROVE  Kept(w) = {}
  BY <1>1, NoTurnSound DEF Kept, NoTurn, KeptRow
<1>3. IsFiniteSet({}) /\ Cardinality({}) <= MaxRuns
  BY FS_EmptySet, WorkerAssumption
<1> QED BY <1>1, <1>2, <1>3, NoTurnSound DEF OperationsSound, Begun

LEMMA OperationsAreSound == WorkerSpec => [](WorkerTypeOK /\ OperationsSound)
BY SoundInit, SoundNext, WorkerTypeCorrect, PTL DEF WorkerSpec

\* A worker that has left run_forever has asked every operation it ever started
\* to stop: those whose task it collected, those it detached in
\* _stop_active_runs and those whose cleanup was deferred.
THEOREM EveryTurnIsAsked == WorkerSpec => []StopAsksEveryTurn
<1>1. OperationsSound => StopAsksEveryTurn
  BY DEF OperationsSound, SoundRow, StopAsksEveryTurn, Begun
<1> QED BY <1>1, OperationsAreSound, PTL

\* The operations a worker knows of, in its tasks, its detached tasks or its
\* deferred cleanups, are never more than max_concurrent_runs.
THEOREM OwnedRunsAreBounded == WorkerSpec => []OwnedConcurrency
<1>1. ASSUME OperationsSound, NEW w \in Worker
      PROVE  Cardinality(Owned(w)) <= MaxRuns
  <2>1. Owned(w) \subseteq Kept(w)
    BY DEF Owned, Operating, Kept, KeptRow
  <2>2. IsFiniteSet(Kept(w)) /\ Cardinality(Kept(w)) <= MaxRuns
    BY <1>1 DEF OperationsSound
  <2>3. /\ Cardinality(Owned(w)) <= Cardinality(Kept(w))
        /\ Cardinality(Owned(w)) \in Nat /\ Cardinality(Kept(w)) \in Nat
    BY <2>1, <2>2, FS_Subset, FS_CardinalityType
  <2> QED BY <2>2, <2>3, WorkerAssumption
<1>2. OperationsSound => OwnedConcurrency
  BY <1>1 DEF OwnedConcurrency
<1> QED BY <1>2, OperationsAreSound, PTL

\* A run is recorded as succeeded only by the task whose operation completed,
\* whatever timeout, lost lease or cancellation raced the answer.
THEOREM SuccessesAreReal == WorkerSpec => []SuccessIsReal
<1>1. OperationsSound => SuccessIsReal
  BY DEF OperationsSound, SuccessIsReal
<1> QED BY <1>1, OperationsAreSound, PTL
==============================================================================

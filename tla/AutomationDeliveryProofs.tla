----------------------- MODULE AutomationDeliveryProofs -----------------------
(***************************************************************************)
(* A notification is posted at most once and its recorded outcome is true, *)
(* for any number of runs and workers, however they stall, restart or race *)
(* for the deliveries.                                                     *)
(***************************************************************************)
EXTENDS AutomationDelivery, AutomationStoreProofs

USE StoreAssumption DEF Time, NoTime

-----------------------------------------------------------------------------
(***************************************************************************)
(* The inductive invariant: what the tasks of the workers, the rows of the *)
(* outbox and the receiver know of each other                              *)
(***************************************************************************)

\* The run's row was pruned, and with it its delivery.
Forgotten(r) == runs[r].status = "absent" /\ born[r] # NoTime

\* A task that passed the dispatch fence.
Sender(w, r) == sending[w][r].at \in {"post", "answered", "refused", "lost"}

\* The row's lease is the one the task was given.
Holds(w, r) == /\ outbox[r].status = "delivering"
               /\ outbox[r].token = w
               /\ outbox[r].attempt = sending[w][r].attempt

\* The attempts of a row count up, so a later lease is never an earlier one.
AttemptsSpent ==
  \A w \in Worker, r \in RunId :
    sending[w][r].at # "idle"
      => \/ Forgotten(r)
         \/ /\ outbox[r].status # "absent"
            /\ sending[w][r].attempt <= outbox[r].attempt

\* The task that has not passed the fence of its lease finds it up.
FenceUpBefore ==
  \A w \in Worker, r \in RunId :
    sending[w][r].at = "prepare" /\ Holds(w, r) => outbox[r].safe

\* The task that passed it still holds its lease, with the fence down, or the
\* delivery was given up as ambiguous.
FenceDownAfter ==
  \A w \in Worker, r \in RunId :
    Sender(w, r) => \/ Forgotten(r)
                    \/ outbox[r].status = "ambiguous"
                    \/ Holds(w, r) /\ ~ outbox[r].safe

OneSender ==
  \A v, w \in Worker, r \in RunId : Sender(v, r) /\ Sender(w, r) => v = w

\* What a task knows of the receiver is true.
AnswerKnown ==
  \A w \in Worker, r \in RunId :
    /\ sending[w][r].at = "post" => received[r] = <<>>
    /\ sending[w][r].at = "answered" => received[r] = <<"accepted">>
    /\ sending[w][r].at = "refused" => received[r] = <<"refused">>

\* The receiver has got nothing while the fence is up.
SilentUntilFenced ==
  \A r \in RunId :
    received[r] # <<>> => \/ Forgotten(r)
                          \/ outbox[r].status \in Settled
                          \/ outbox[r].status = "delivering" /\ ~ outbox[r].safe

DeliveryInvariant ==
  /\ AttemptsSpent
  /\ FenceUpBefore
  /\ FenceDownAfter
  /\ OneSender
  /\ AnswerKnown
  /\ SilentUntilFenced
  /\ AtMostOnePost
  /\ OutcomeProvable

-----------------------------------------------------------------------------
(***************************************************************************)
(* The deliveries drive the database only by its own steps                 *)
(***************************************************************************)
LEMMA StoreSteps ==
  ASSUME TypeOK, [DeliveryNext]_deliveryVars
  PROVE  TypeOK' /\ StepKind
<1>1. CASE [Next]_vars
  BY <1>1, TypeStep, Steps
<1>2. ASSUME NEW w \in Worker, NEW limit, ClaimDueBatch(w, limit)
      PROVE  TypeOK' /\ StepKind
  BY <1>2, ClaimDueBatchTypes, BatchSteps DEF ClaimDueBatch, ClaimStep, StepKind
<1>3. ASSUME NEW w \in Worker, NEW r \in RunId,
             NEW status \in {"delivered", "failed", "ambiguous"}, Conclude(w, r, status)
      PROVE  [Next]_vars
  <2>1. CASE UNCHANGED vars
    BY <2>1
  <2>2. CASE /\ OwnsDelivery(w, r, sending[w][r].attempt)
             /\ FinishDelivery(w, r, sending[w][r].attempt, status)
    <3>1. outbox[r].attempt = sending[w][r].attempt
      BY <2>2 DEF OwnsDelivery
    <3> QED
      BY <2>2, <3>1 DEF Next, UseOutbox
  <2> QED
    BY <1>3, <2>1, <2>2 DEF Conclude
<1>4. ASSUME NEW w \in Worker, NEW r \in RunId, Dispatch(w, r)
      PROVE  [Next]_vars
  <2>1. CASE UNCHANGED vars
    BY <2>1
  <2>2. CASE /\ OwnsDelivery(w, r, sending[w][r].attempt)
             /\ MarkDispatchStarted(w, r, sending[w][r].attempt)
    <3>1. outbox[r].attempt = sending[w][r].attempt
      BY <2>2 DEF OwnsDelivery
    <3> QED
      BY <2>2, <3>1 DEF Next, UseOutbox
  <2> QED
    BY <1>4, <2>1, <2>2 DEF Dispatch
<1>5. ASSUME NEW w \in Worker, NEW r \in RunId,
             \/ DeliverRun(w, r) \/ PrepareFails(w, r)
             \/ Post(w, r) \/ RecordAnswer(w, r)
      PROVE  [Next]_vars
  <2>1. CASE DeliverRun(w, r)
    BY <2>1 DEF DeliverRun, Next, UseOutbox
  <2>2. CASE PrepareFails(w, r)
    BY <2>2, <1>3 DEF PrepareFails
  <2>3. CASE Post(w, r)
    BY <2>3 DEF Post
  <2>4. CASE RecordAnswer(w, r)
    <3>1. OutcomeOf(sending[w][r].at) \in {"delivered", "failed", "ambiguous"}
      BY <2>4 DEF RecordAnswer, OutcomeOf
    <3> QED
      BY <2>4, <3>1, <1>3 DEF RecordAnswer
  <2> QED
    BY <1>5, <2>1, <2>2, <2>3, <2>4
<1>6. ASSUME NEW w \in Worker, NEW limit \in 1..Cardinality(Job), DeliverPending(w, limit)
      PROVE  [Next]_vars
  BY <1>6 DEF DeliverPending, Next, UseOutbox
<1>7. CASE RunsHappen
  BY <1>7, <1>1, <1>2 DEF RunsHappen, Next, Administer, UseRuns
<1>8. CASE \/ SweepDeliveries \/ TimePasses \/ UNCHANGED deliveryVars
           \/ \E w \in Worker : Restart(w)
  BY <1>8, <1>1
     DEF SweepDeliveries, TimePasses, Restart, deliveryVars, vars, Next, UseOutbox
<1> QED
  BY <1>1, <1>4, <1>5, <1>6, <1>7, <1>8 DEF DeliveryNext

\* What the database guarantees holds whatever the deliveries do.
LEMMA StoreKept ==
  ASSUME LedgerInvariant, [DeliveryNext]_deliveryVars
  PROVE  LedgerInvariant' /\ StepKind
BY StoreSteps, ExclusionStep, PunctualStep, BoxInvariantStep
   DEF LedgerInvariant, Exclusion

LEMMA StoreInit == DeliveryInit => LedgerInvariant
<1> HAVE DeliveryInit
<1>1. TypeOK
  BY InitTypes DEF DeliveryInit
<1>2. \A r \in RunId : /\ runs[r] = NoRun /\ born[r] = NoTime
                       /\ outbox[r] = NoDelivery
  BY DEF DeliveryInit, Init
<1>3. \A r \in RunId : runs[r].status \notin Terminal \cup {"running"}
  BY <1>2 DEF NoRun, Terminal
<1>4. Exclusion
  BY <1>3 DEF Exclusion, OneActiveRun, NoRunOfRemovedJob, Active
<1>5. Punctual
  BY <1>2, RunIdFields
     DEF DeliveryInit, Init, Punctual, RowsBorn, NextAhead, NoBackfill, NoRun
<1>6. BoxInvariant
  BY <1>2, <1>3 DEF BoxInvariant, OutboxComplete, FencedDelivery, NoDelivery
<1> QED
  BY <1>1, <1>4, <1>5, <1>6 DEF LedgerInvariant

LEMMA StoreAlways == DeliverySpec => []LedgerInvariant
<1>1. LedgerInvariant /\ [DeliveryNext]_deliveryVars => LedgerInvariant'
  BY StoreKept
<1> QED
  BY <1>1, StoreInit, PTL DEF DeliverySpec

\* Every step of the composition is a step of the ledger: what the database
\* promises about runs and notifications holds while workers deliver them.
THEOREM DeliveryKeepsLedger == DeliverySpec => ImplementsLedger
<1>1. DeliveryInit => Ledger!Init
  BY LedgerInit DEF DeliveryInit
<1>2. LedgerInvariant /\ [DeliveryNext]_deliveryVars
        => [Ledger!Next]_<<Phase, Notice>>
  BY StoreKept, LedgerStep
<1> QED
  BY <1>1, <1>2, StoreAlways, PTL DEF DeliverySpec, ImplementsLedger, Ledger!Spec

-----------------------------------------------------------------------------
(***************************************************************************)
(* How the row of a delivery moves                                         *)
(***************************************************************************)

\* By the end of its run, by retention or by a sweep.
RowQuiet(r) ==
  /\ Forgotten(r) => Forgotten(r)'
  /\ \/ outbox'[r] = outbox[r]
     \/ /\ outbox[r].status = "absent"
        /\ \/ outbox'[r].status = "absent"
           \/ outbox'[r].status = "pending" /\ ~ Forgotten(r)
     \/ outbox[r].status \in Settled /\ outbox'[r].status = "absent" /\ Forgotten(r)'
     \/ /\ outbox[r].status = "delivering"
        /\ outbox'[r].attempt = outbox[r].attempt
        /\ outbox'[r].status = IF outbox[r].safe THEN "pending" ELSE "ambiguous"

\* By a claim, which gives it a new attempt.
RowLeased(r, w) ==
  /\ outbox[r].status \in {"pending", "delivering"} /\ outbox[r].safe
  /\ outbox'[r].status = "delivering" /\ outbox'[r].safe
  /\ outbox'[r].token = w
  /\ outbox'[r].attempt = outbox[r].attempt + 1

\* The sweep looks at the fence and keeps the attempt.
LEMMA SweptBox ==
  ASSUME LedgerInvariant, NEW r \in RunId
  PROVE  /\ \/ RecoveredOutbox[r] = outbox[r]
            \/ /\ outbox[r].status = "delivering"
               /\ RecoveredOutbox[r].attempt = outbox[r].attempt
               /\ RecoveredOutbox[r].status =
                    IF outbox[r].safe THEN "pending" ELSE "ambiguous"
         /\ RecoveredOutbox[r].status = "pending"
              => /\ outbox[r].status \in {"pending", "delivering"} /\ outbox[r].safe
                 /\ RecoveredOutbox[r].attempt = outbox[r].attempt
<1>1. RecoveredOutbox[r] =
        IF r \in ExpiredDeliveries THEN RecoveredDelivery(outbox[r]) ELSE outbox[r]
  BY DEF RecoveredOutbox
<1>2. r \in ExpiredDeliveries =>
        /\ outbox[r].status = "delivering"
        /\ RecoveredDelivery(outbox[r]).attempt = outbox[r].attempt
        /\ RecoveredDelivery(outbox[r]).status =
             IF outbox[r].safe THEN "pending" ELSE "ambiguous"
  BY OutboxRows DEF ExpiredDeliveries, RecoveredDelivery, Delivering, LedgerInvariant
<1>3. outbox[r].status = "pending" => outbox[r].safe
  BY DEF LedgerInvariant, BoxInvariant, FencedDelivery
<1> QED
  BY <1>1, <1>2, <1>3

LEMMA SweptQuietly ==
  ASSUME LedgerInvariant, NEW r \in RunId, UNCHANGED <<runs, born>>,
         outbox'[r] = RecoveredOutbox[r]
  PROVE  RowQuiet(r)
BY SweptBox DEF RowQuiet, Forgotten

\* A step that ends runs queues a first notification for rows that have none.
LEMMA QueuedQuietly ==
  ASSUME LedgerInvariant, LedgerInvariant', StepKind, NEW S,
         outbox' = Enqueued(outbox, S), NEW r \in RunId
  PROVE  RowQuiet(r)
<1> USE DEF LedgerInvariant
<1>1. \/ outbox'[r] = outbox[r]
      \/ outbox[r].status = "absent" /\ outbox'[r].status = "pending"
  BY EnqueuedBox DEF TypeOK, BoxRow, NoDelivery
<1>2. Forgotten(r) => Forgotten(r)'
  <2>1. RunMove(r) /\ "absent" \notin Terminal
    BY RunMoves DEF Terminal
  <2> QED
    BY <2>1 DEF RunMove, Forgotten
<1>3. outbox'[r].status = "pending" => ~ Forgotten(r)'
  BY DEF BoxInvariant, OutboxComplete, Forgotten, Terminal
<1> QED
  BY <1>1, <1>2, <1>3 DEF RowQuiet

LEMMA RunsQuietly ==
  ASSUME LedgerInvariant, [DeliveryNext]_deliveryVars, RunsHappen, NEW r \in RunId
  PROVE  RowQuiet(r)
<1>1. LedgerInvariant' /\ StepKind
  BY StoreKept
<1>2. CASE \E j \in Job : CreateJob(j, TRUE)
  BY <1>2 DEF CreateJob, RowQuiet, Forgotten
<1>3. ASSUME NEW w \in Worker, ClaimDueBatch(w, Cardinality(Job))
      PROVE  RowQuiet(r)
  <2>1. \E S : outbox' = Enqueued(outbox, S)
    BY <1>3 DEF ClaimDueBatch
  <2> QED
    BY <1>1, <2>1, QueuedQuietly
<1>4. ASSUME NEW w \in Worker, NEW s \in RunId, FinishRun(w, s, "succeeded")
      PROVE  RowQuiet(r)
  BY <1>1, <1>4, QueuedQuietly DEF FinishRun, CloseRun
<1>5. CASE PruneRuns
  <2>1. CASE r \in Prunable
    <3>1. runs[r].status \in Terminal /\ outbox[r].status \notin Unsettled
      BY <2>1 DEF Prunable
    <3>2. outbox'[r].status = "absent" /\ runs'[r].status = "absent" /\ born' = born
      BY <1>5, <2>1 DEF PruneRuns, NoDelivery, NoRun
    <3>3. born[r] # NoTime
      BY <3>1 DEF LedgerInvariant, Punctual, RowsBorn, Terminal
    <3>4. outbox[r].status = "absent" \/ outbox[r].status \in Settled
      BY <3>1 DEF LedgerInvariant, TypeOK, Delivering, Waiting, Unsettled
    <3> QED
      BY <3>2, <3>3, <3>4 DEF RowQuiet, Forgotten
  <2>2. CASE r \notin Prunable
    BY <1>5, <2>2 DEF PruneRuns, RowQuiet, Forgotten
  <2> QED
    BY <2>1, <2>2
<1> QED
  BY <1>2, <1>3, <1>4, <1>5 DEF RunsHappen

\* The rows after a claim: swept, or leased to its worker.
LEMMA ClaimedRows ==
  ASSUME LedgerInvariant, NEW w \in Worker, UNCHANGED <<runs, born>>,
         NEW claim \in SUBSET Pending, NEW r \in RunId,
         outbox'[r] = IF r \in claim THEN Leased(RecoveredOutbox[r], w)
                                     ELSE RecoveredOutbox[r]
  PROVE  IF r \in claim THEN RowLeased(r, w) ELSE RowQuiet(r)
<1>1. CASE r \in claim
  <2>1. RecoveredOutbox[r].status = "pending"
    BY <1>1 DEF Pending
  <2>2. /\ outbox[r].status \in {"pending", "delivering"} /\ outbox[r].safe
        /\ RecoveredOutbox[r].attempt = outbox[r].attempt
    BY <2>1, SweptBox
  <2> QED
    BY <1>1, <2>2 DEF Leased, RowLeased
<1>2. CASE r \notin claim
  BY <1>2, SweptQuietly
<1> QED
  BY <1>1, <1>2

-----------------------------------------------------------------------------
(***************************************************************************)
(* What a step does to the tasks and the rows together                     *)
(***************************************************************************)

\* A task is kept or over, or begins with a lease that was just given to it.
TaskMove(w, r) ==
  \/ sending'[w][r] \in {sending[w][r], Idle}
  \/ /\ RowLeased(r, w)
     /\ sending'[w][r] = [at |-> "prepare", attempt |-> outbox'[r].attempt]

\* No request is sent or answered, and no fence is put down.
Aside ==
  /\ UNCHANGED received
  /\ \A r \in RunId : RowQuiet(r) \/ \E w \in Worker : RowLeased(r, w)
  /\ \A w \in Worker, r \in RunId : TaskMove(w, r)

\* The task of w for r moves on, and with it the row, whose lease it holds.
Advances(w, r, task, status, safe) ==
  /\ Holds(w, r)
  /\ UNCHANGED <<runs, born>>
  /\ sending'[w][r] = task
  /\ \A v \in Worker, s \in RunId : v # w \/ s # r => sending'[v][s] = sending[v][s]
  /\ outbox'[r].status = status /\ outbox'[r].safe = safe
  /\ outbox'[r].attempt = outbox[r].attempt
  /\ status = "delivering" => outbox'[r].token = w
  /\ \A s \in RunId \ {r} : outbox'[s] = outbox[s]

FenceLowered(w, r) ==
  /\ sending[w][r].at = "prepare"
  /\ Advances(w, r, [at |-> "post", attempt |-> sending[w][r].attempt], "delivering", FALSE)
  /\ UNCHANGED received

OutcomeRecorded(w, r) ==
  /\ \/ sending[w][r].at = "prepare" /\ Advances(w, r, Idle, "failed", outbox[r].safe)
     \/ /\ sending[w][r].at \in {"answered", "refused", "lost"}
        /\ Advances(w, r, Idle, OutcomeOf(sending[w][r].at), outbox[r].safe)
  /\ UNCHANGED received

Posted(w, r) ==
  /\ sending[w][r].at = "post"
  /\ UNCHANGED <<runs, born, outbox>>
  /\ \A s \in RunId \ {r} : received'[s] = received[s]
  /\ \A v \in Worker, s \in RunId : v # w \/ s # r => sending'[v][s] = sending[v][s]
  /\ sending'[w][r].attempt = sending[w][r].attempt
  /\ \/ received'[r] = received[r] /\ sending'[w][r].at = "lost"
     \/ /\ received'[r] = Append(received[r], "accepted")
        /\ sending'[w][r].at \in {"answered", "lost"}
     \/ /\ received'[r] = Append(received[r], "refused")
        /\ sending'[w][r].at \in {"refused", "lost"}

LEMMA OwnedRow ==
  ASSUME TypeOK, DeliveryTypeOK, NEW w \in Worker, NEW r \in RunId,
         OwnsDelivery(w, r, sending[w][r].attempt)
  PROVE  Holds(w, r) /\ outbox[r] \in Delivering
BY OutboxRows DEF OwnsDelivery, Holds

\* Ending one task leaves the others.
LEMMA OneOver ==
  ASSUME DeliveryTypeOK, NEW w \in Worker, NEW r \in RunId, Over(w, r)
  PROVE  /\ sending'[w][r] = Idle
         /\ \A v \in Worker, s \in RunId :
              v # w \/ s # r => sending'[v][s] = sending[v][s]
BY DEF DeliveryTypeOK, Over

LEMMA ConcludeSteps ==
  ASSUME LedgerInvariant, DeliveryTypeOK, NEW w \in Worker, NEW r \in RunId,
         NEW status \in {"delivered", "failed", "ambiguous"}, Conclude(w, r, status)
  PROVE  Aside \/ Advances(w, r, Idle, status, outbox[r].safe)
<1>1. /\ sending'[w][r] = Idle
      /\ \A v \in Worker, s \in RunId : v # w \/ s # r => sending'[v][s] = sending[v][s]
  BY OneOver DEF Conclude
<1>2. CASE UNCHANGED vars
  BY <1>1, <1>2 DEF Conclude, Aside, TaskMove, RowQuiet, Forgotten, vars
<1>3. CASE /\ OwnsDelivery(w, r, sending[w][r].attempt)
           /\ FinishDelivery(w, r, sending[w][r].attempt, status)
  <2>1. Holds(w, r) /\ outbox[r] \in Delivering
    BY <1>3, OwnedRow DEF LedgerInvariant
  <2>2. outbox' = [outbox EXCEPT ![r] =
          [outbox[r] EXCEPT !.status = status, !.token = NoToken, !.lease = NoTime]]
    BY <1>3 DEF FinishDelivery
  <2>3. /\ outbox'[r].status = status /\ outbox'[r].safe = outbox[r].safe
        /\ outbox'[r].attempt = outbox[r].attempt
        /\ \A s \in RunId \ {r} : outbox'[s] = outbox[s]
    BY <2>1, <2>2 DEF LedgerInvariant, TypeOK, Delivering
  <2> QED
    BY <1>1, <1>3, <2>1, <2>3 DEF FinishDelivery, Advances
<1> QED
  BY <1>2, <1>3 DEF Conclude

\* The claims give each of their leases to a task of the claiming worker.
LEMMA TakenTasks ==
  ASSUME LedgerInvariant, DeliveryTypeOK, NEW w \in Worker, Taken(w),
         UNCHANGED <<runs, born, received>>, NEW claim \in SUBSET Pending,
         \A r \in RunId : outbox'[r] = IF r \in claim
                                       THEN Leased(RecoveredOutbox[r], w)
                                       ELSE RecoveredOutbox[r]
  PROVE  Aside
<1>1. \A r \in RunId : IF r \in claim THEN RowLeased(r, w) ELSE RowQuiet(r)
  BY ClaimedRows
<1>2. \A v \in Worker, r \in RunId :
        sending'[v][r] =
          IF /\ v = w /\ outbox'[r].status = "delivering"
             /\ outbox'[r].attempt > outbox[r].attempt
          THEN [at |-> "prepare", attempt |-> outbox'[r].attempt]
          ELSE sending[v][r]
  BY DEF Taken, DeliveryTypeOK
<1>3. ASSUME NEW r \in RunId, RowQuiet(r)
      PROVE  ~ (outbox'[r].status = "delivering" /\ outbox'[r].attempt > outbox[r].attempt)
  <2>1. outbox[r].attempt \in Nat
    BY DEF LedgerInvariant, TypeOK, Delivering, Waiting
  <2> QED
    BY <1>3, <2>1 DEF RowQuiet
<1>4. \A v \in Worker, r \in RunId : TaskMove(v, r)
  BY <1>1, <1>2, <1>3 DEF TaskMove
<1> QED
  BY <1>1, <1>4 DEF Aside

\* The kinds of steps of the composition.
DeliveryKind ==
  \/ Aside
  \/ \E w \in Worker, r \in RunId :
       FenceLowered(w, r) \/ OutcomeRecorded(w, r) \/ Posted(w, r)

LEMMA DeliverySteps ==
  ASSUME LedgerInvariant, DeliveryTypeOK, [DeliveryNext]_deliveryVars
  PROVE  DeliveryKind
<1>1. ASSUME NEW w \in Worker, NEW limit, DeliverPending(w, limit)
      PROVE  Aside
  <2>1. PICK claim \in SUBSET Pending :
          outbox' = [r \in RunId |-> IF r \in claim
                                     THEN Leased(RecoveredOutbox[r], w)
                                     ELSE RecoveredOutbox[r]]
    BY <1>1 DEF DeliverPending, ClaimDeliveries
  <2> QED
    BY <1>1, <2>1, TakenTasks DEF DeliverPending, ClaimDeliveries
<1>2. ASSUME NEW w \in Worker, NEW r \in RunId, DeliverRun(w, r)
      PROVE  Aside
  <2>1. outbox' = [RecoveredOutbox EXCEPT ![r] =
          IF r \in Pending THEN Leased(RecoveredOutbox[r], w) ELSE RecoveredOutbox[r]]
    BY <1>2 DEF DeliverRun, ClaimDeliveryForRun
  <2> DEFINE claim == Pending \cap {r}
  <2>2. \A s \in RunId : outbox'[s] = IF s \in claim
                                      THEN Leased(RecoveredOutbox[s], w)
                                      ELSE RecoveredOutbox[s]
    BY <2>1, OutboxRows DEF LedgerInvariant
  <2>3. claim \in SUBSET Pending
    OBVIOUS
  <2> HIDE DEF claim
  <2> QED
    BY <1>2, <2>2, <2>3, TakenTasks DEF DeliverRun, ClaimDeliveryForRun
<1>3. ASSUME NEW w \in Worker, NEW r \in RunId, PrepareFails(w, r)
      PROVE  DeliveryKind
  BY <1>3, ConcludeSteps
     DEF PrepareFails, Stands, Conclude, DeliveryKind, OutcomeRecorded
<1>4. ASSUME NEW w \in Worker, NEW r \in RunId, RecordAnswer(w, r)
      PROVE  DeliveryKind
  <2>1. OutcomeOf(sending[w][r].at) \in {"delivered", "failed", "ambiguous"}
    BY <1>4 DEF RecordAnswer, OutcomeOf
  <2> QED
    BY <1>4, <2>1, ConcludeSteps DEF RecordAnswer, Conclude, DeliveryKind, OutcomeRecorded
<1>5. ASSUME NEW w \in Worker, NEW r \in RunId, Dispatch(w, r)
      PROVE  DeliveryKind
  <2>1. CASE UNCHANGED vars /\ Over(w, r)
    <3>1. /\ sending'[w][r] = Idle
          /\ \A v \in Worker, s \in RunId :
               v # w \/ s # r => sending'[v][s] = sending[v][s]
      BY <2>1, OneOver
    <3> QED
      BY <1>5, <2>1, <3>1
         DEF Dispatch, DeliveryKind, Aside, TaskMove, RowQuiet, Forgotten, vars
  <2>2. CASE /\ OwnsDelivery(w, r, sending[w][r].attempt)
             /\ MarkDispatchStarted(w, r, sending[w][r].attempt)
             /\ Becomes(w, r, "post")
    <3> DEFINE task == [sending[w][r] EXCEPT !.at = "post"]
    <3>1. /\ sending'[w][r] = task
          /\ \A v \in Worker, s \in RunId :
               v # w \/ s # r => sending'[v][s] = sending[v][s]
      <4>1. sending' = [sending EXCEPT ![w][r] = task]
        BY <2>2 DEF Becomes
      <4> HIDE DEF task
      <4> QED
        BY <4>1 DEF DeliveryTypeOK
    <3>2. task = [at |-> "post", attempt |-> sending[w][r].attempt]
      BY DEF DeliveryTypeOK
    <3>3. Holds(w, r) /\ outbox[r] \in Delivering
      BY <2>2, OwnedRow DEF LedgerInvariant
    <3>4. /\ outbox'[r].status = "delivering" /\ outbox'[r].safe = FALSE
          /\ outbox'[r].attempt = outbox[r].attempt /\ outbox'[r].token = w
          /\ \A s \in RunId \ {r} : outbox'[s] = outbox[s]
      BY <2>2, <3>3
         DEF MarkDispatchStarted, OwnsDelivery, LedgerInvariant, TypeOK, Delivering
    <3> HIDE DEF task
    <3>5. Advances(w, r, task, "delivering", FALSE)
      BY <2>2, <3>1, <3>3, <3>4 DEF MarkDispatchStarted, Advances
    <3>6. FenceLowered(w, r)
      BY <1>5, <3>2, <3>5 DEF Dispatch, Stands, FenceLowered
    <3> QED
      BY <3>6 DEF DeliveryKind
  <2> QED
    BY <1>5, <2>1, <2>2 DEF Dispatch
<1>6. ASSUME NEW w \in Worker, NEW r \in RunId, Post(w, r)
      PROVE  Posted(w, r)
  <2>1. ASSUME NEW stage, Becomes(w, r, stage)
        PROVE  /\ \A v \in Worker, s \in RunId :
                    v # w \/ s # r => sending'[v][s] = sending[v][s]
               /\ sending'[w][r].at = stage
               /\ sending'[w][r].attempt = sending[w][r].attempt
    BY <2>1 DEF Becomes, DeliveryTypeOK
  <2>2. PICK stage \in Stage :
          /\ Becomes(w, r, stage)
          /\ \/ UNCHANGED received /\ stage = "lost"
             \/ /\ received' = [received EXCEPT ![r] = Append(@, "accepted")]
                /\ stage \in {"answered", "lost"}
             \/ /\ received' = [received EXCEPT ![r] = Append(@, "refused")]
                /\ stage \in {"refused", "lost"}
    BY <1>6 DEF Post, Stage
  <2> QED
    BY <1>6, <2>1, <2>2 DEF Post, Stands, Posted, vars, DeliveryTypeOK
<1>7. ASSUME NEW w \in Worker, Restart(w)
      PROVE  Aside
  BY <1>7 DEF Restart, Aside, TaskMove, RowQuiet, Forgotten, vars, DeliveryTypeOK
<1>8. CASE RunsHappen
  <2>1. UNCHANGED <<sending, received>> /\ \A r \in RunId : RowQuiet(r)
    BY <1>8, RunsQuietly DEF RunsHappen
  <2> QED
    BY <2>1 DEF DeliveryKind, Aside, TaskMove
<1>9. CASE SweepDeliveries
  <2>1. \A r \in RunId : RowQuiet(r)
    BY <1>9, SweptQuietly DEF SweepDeliveries, RecoverExpiredDeliveries
  <2> QED
    BY <1>9, <2>1 DEF SweepDeliveries, DeliveryKind, Aside, TaskMove
<1>10. CASE TimePasses \/ UNCHANGED deliveryVars
  BY <1>10 DEF TimePasses, Tick, deliveryVars, DeliveryKind, Aside, TaskMove,
               RowQuiet, Forgotten
<1> QED
  BY <1>1, <1>2, <1>3, <1>4, <1>5, <1>6, <1>7, <1>8, <1>9, <1>10
     DEF DeliveryNext, DeliveryKind

-----------------------------------------------------------------------------
(***************************************************************************)
(* Each kind of step keeps the invariant                                   *)
(***************************************************************************)
Facts == LedgerInvariant /\ DeliveryTypeOK /\ DeliveryInvariant

\* A row that has a lease or waits for one is that of a run that is kept.
LEMMA RowKept ==
  ASSUME LedgerInvariant, NEW r \in RunId, outbox[r].status # "absent"
  PROVE  ~ Forgotten(r)
BY DEF LedgerInvariant, BoxInvariant, OutboxComplete, Forgotten, Terminal

LEMMA RowTypes ==
  ASSUME TypeOK, NEW r \in RunId
  PROVE  /\ outbox[r].attempt \in Nat
         /\ outbox[r].status \in {"absent", "pending", "delivering"} \cup Settled
         /\ outbox[r].safe \in BOOLEAN
BY DEF TypeOK, Delivering, Waiting

\* The tasks and what the receiver got keep their types and shapes.
LEMMA DeliveryTypes ==
  ASSUME LedgerInvariant, LedgerInvariant', DeliveryTypeOK, [DeliveryNext]_deliveryVars
  PROVE  DeliveryTypeOK'
<1> USE DEF DeliveryTypeOK
<1>1. ASSUME NEW w \in Worker, NEW r \in RunId, Over(w, r)
      PROVE  /\ sending' \in [Worker -> [RunId -> [at : {"idle"} \cup Stage, attempt : Nat]]]
             /\ \A v \in Worker, s \in RunId :
                  sending'[v][s].attempt = 0 <=> sending'[v][s].at = "idle"
  BY <1>1 DEF Over, Idle
<1>2. ASSUME NEW w \in Worker, NEW r \in RunId, NEW stage \in Stage,
             Becomes(w, r, stage), ~ Stands(w, r, "idle")
      PROVE  /\ sending' \in [Worker -> [RunId -> [at : {"idle"} \cup Stage, attempt : Nat]]]
             /\ \A v \in Worker, s \in RunId :
                  sending'[v][s].attempt = 0 <=> sending'[v][s].at = "idle"
  <2> DEFINE task == [sending[w][r] EXCEPT !.at = stage]
  <2>1. /\ task \in [at : {"idle"} \cup Stage, attempt : Nat]
        /\ task.attempt # 0 /\ task.at # "idle"
    BY <1>2 DEF Stands, Stage
  <2>2. sending' = [sending EXCEPT ![w][r] = task]
    BY <1>2 DEF Becomes
  <2> HIDE DEF task
  <2> QED
    BY <2>1, <2>2
<1>3. ASSUME NEW w \in Worker, Taken(w), UNCHANGED received
      PROVE  DeliveryTypeOK'
  <2>1. \A r \in RunId : outbox[r].attempt \in Nat /\ outbox'[r].attempt \in Nat
    BY DEF LedgerInvariant, TypeOK, Delivering, Waiting
  <2>2. \A r \in RunId : outbox'[r].attempt > outbox[r].attempt => outbox'[r].attempt # 0
    BY <2>1
  <2> DEFINE Task(r) == IF /\ outbox'[r].status = "delivering"
                           /\ outbox'[r].attempt > outbox[r].attempt
                        THEN [at |-> "prepare", attempt |-> outbox'[r].attempt]
                        ELSE sending[w][r]
  <2>3. \A r \in RunId : /\ Task(r) \in [at : {"idle"} \cup Stage, attempt : Nat]
                         /\ Task(r).attempt = 0 <=> Task(r).at = "idle"
    BY <2>1, <2>2 DEF Stage
  <2>4. sending' = [sending EXCEPT ![w] = [r \in RunId |-> Task(r)]]
    BY <1>3 DEF Taken
  <2> HIDE DEF Task
  <2> QED
    BY <1>3, <2>3, <2>4
<1>4. ASSUME NEW w \in Worker, NEW limit, DeliverPending(w, limit) PROVE DeliveryTypeOK'
  BY <1>3, <1>4 DEF DeliverPending
<1>5. ASSUME NEW w \in Worker, NEW r \in RunId, DeliverRun(w, r) PROVE DeliveryTypeOK'
  BY <1>3, <1>5 DEF DeliverRun
<1>6. ASSUME NEW w \in Worker, NEW r \in RunId, PrepareFails(w, r) PROVE DeliveryTypeOK'
  BY <1>1, <1>6 DEF PrepareFails, Conclude
<1>7. ASSUME NEW w \in Worker, NEW r \in RunId, Dispatch(w, r) PROVE DeliveryTypeOK'
  <2>1. ~ Stands(w, r, "idle") /\ "post" \in Stage
    BY <1>7 DEF Dispatch, Stands, Stage
  <2> QED
    BY <1>1, <1>2, <1>7, <2>1 DEF Dispatch
<1>8. ASSUME NEW w \in Worker, NEW r \in RunId, Post(w, r) PROVE DeliveryTypeOK'
  <2>1. ~ Stands(w, r, "idle") /\ {"answered", "refused", "lost"} \subseteq Stage
    BY <1>8 DEF Post, Stands, Stage
  <2>2. \E stage \in Stage : Becomes(w, r, stage)
    BY <1>8, <2>1 DEF Post
  <2>3. received' \in [RunId -> Seq({"accepted", "refused"})]
    <3>1. ASSUME NEW answer \in {"accepted", "refused"}
          PROVE  [received EXCEPT ![r] = Append(@, answer)]
                   \in [RunId -> Seq({"accepted", "refused"})]
      <4>1. Append(received[r], answer) \in Seq({"accepted", "refused"})
        OBVIOUS
      <4> QED
        BY <4>1
    <3> QED
      BY <1>8, <3>1 DEF Post
  <2> QED
    BY <1>2, <2>1, <2>2, <2>3
<1>9. ASSUME NEW w \in Worker, NEW r \in RunId, RecordAnswer(w, r) PROVE DeliveryTypeOK'
  BY <1>1, <1>9 DEF RecordAnswer, Conclude
<1>10. ASSUME NEW w \in Worker, Restart(w) PROVE DeliveryTypeOK'
  BY <1>10 DEF Restart, Idle
<1>11. CASE RunsHappen \/ SweepDeliveries \/ TimePasses \/ UNCHANGED deliveryVars
  BY <1>11 DEF RunsHappen, SweepDeliveries, TimePasses, deliveryVars
<1> QED
  BY <1>4, <1>5, <1>6, <1>7, <1>8, <1>9, <1>10, <1>11 DEF DeliveryNext

LEMMA AsideKeeps ==
  ASSUME Facts, LedgerInvariant', DeliveryTypeOK', Aside
  PROVE  DeliveryInvariant'
<1> USE DEF Facts
<1>a. ASSUME NEW w \in Worker, NEW r \in RunId, sending'[w][r].at # "idle"
      PROVE  \/ sending'[w][r] = sending[w][r]
             \/ /\ RowLeased(r, w) /\ sending'[w][r].at = "prepare"
                /\ sending'[w][r].attempt = outbox'[r].attempt
  <2>1. TaskMove(w, r)
    BY DEF Aside
  <2>2. CASE sending'[w][r] = Idle
    BY <1>a, <2>2 DEF Idle
  <2>3. CASE /\ RowLeased(r, w)
             /\ sending'[w][r] = [at |-> "prepare", attempt |-> outbox'[r].attempt]
    BY <2>3
  <2> QED
    BY <2>1, <2>2, <2>3 DEF TaskMove
<1>b. \A w \in Worker, r \in RunId :
        Sender(w, r)' => Sender(w, r) /\ sending'[w][r] = sending[w][r]
  BY <1>a DEF Sender
<1>c. ASSUME NEW r \in RunId
      PROVE  RowQuiet(r) \/ \E w \in Worker : RowLeased(r, w)
  BY DEF Aside
<1>d. \A r \in RunId : Forgotten(r) => Forgotten(r)'
  <2>1. ASSUME NEW r \in RunId, NEW w \in Worker, RowLeased(r, w) PROVE ~ Forgotten(r)
    BY <2>1, RowKept DEF RowLeased
  <2> QED
    BY <2>1, <1>c DEF RowQuiet
<1>e. ASSUME NEW r \in RunId
      PROVE  /\ outbox[r].attempt \in Nat
             /\ outbox[r].status \in {"absent", "pending", "delivering"} \cup Settled
             /\ outbox[r].safe \in BOOLEAN
  BY RowTypes DEF LedgerInvariant
<1>1. AttemptsSpent'
  <2> SUFFICES ASSUME NEW w \in Worker, NEW r \in RunId, sending'[w][r].at # "idle",
                      ~ Forgotten(r)'
               PROVE  /\ outbox'[r].status # "absent"
                      /\ sending'[w][r].attempt <= outbox'[r].attempt
    BY DEF AttemptsSpent
  <2>1. sending[w][r].attempt \in Nat /\ outbox[r].attempt \in Nat
    BY <1>e DEF DeliveryTypeOK
  <2>2. CASE RowLeased(r, w) /\ sending'[w][r].attempt = outbox'[r].attempt
    BY <2>1, <2>2 DEF RowLeased
  <2>3. CASE sending'[w][r] = sending[w][r]
    <3>1. outbox[r].status # "absent" /\ sending[w][r].attempt <= outbox[r].attempt
      BY <2>3, <1>d DEF DeliveryInvariant, AttemptsSpent
    <3>2. CASE RowQuiet(r)
      BY <2>1, <2>3, <3>1, <3>2 DEF RowQuiet
    <3>3. ASSUME NEW v \in Worker, RowLeased(r, v)
          PROVE  /\ outbox'[r].status # "absent"
                 /\ sending'[w][r].attempt <= outbox'[r].attempt
      BY <2>1, <2>3, <3>1, <3>3 DEF RowLeased
    <3> QED
      BY <3>2, <3>3, <1>c
  <2> QED
    BY <1>a, <2>2, <2>3
<1>2. FenceUpBefore'
  <2> SUFFICES ASSUME NEW w \in Worker, NEW r \in RunId, sending'[w][r].at = "prepare",
                      Holds(w, r)'
               PROVE  outbox'[r].safe
    BY DEF FenceUpBefore
  <2>1. CASE RowQuiet(r)
    <3>1. outbox'[r] = outbox[r]
      BY <2>1 DEF RowQuiet, Holds
    <3>2. ~ RowLeased(r, w)
      BY <3>1, <1>e DEF RowLeased
    <3>3. sending'[w][r] = sending[w][r]
      BY <1>a, <3>2
    <3> QED
      BY <3>1, <3>3 DEF Holds, DeliveryInvariant, FenceUpBefore
  <2>2. CASE \E v \in Worker : RowLeased(r, v)
    BY <2>2 DEF RowLeased
  <2> QED
    BY <2>1, <2>2, <1>c
<1>3. ASSUME NEW w \in Worker, NEW r \in RunId, Sender(w, r), ~ Forgotten(r)'
      PROVE  /\ RowQuiet(r)
             /\ \/ outbox'[r] = outbox[r]
                \/ outbox'[r].status = "ambiguous"
  <2>1. \/ outbox[r].status = "ambiguous"
        \/ outbox[r].status = "delivering" /\ ~ outbox[r].safe
    BY <1>3, <1>d DEF DeliveryInvariant, FenceDownAfter, Holds
  <2>2. RowQuiet(r)
    BY <1>c, <2>1 DEF RowLeased
  <2> QED
    BY <1>3, <2>1, <2>2 DEF RowQuiet, Settled
<1>4. FenceDownAfter'
  BY <1>b, <1>3, <1>d DEF FenceDownAfter, DeliveryInvariant, Holds
<1>5. OneSender'
  BY <1>b DEF OneSender, DeliveryInvariant
<1>6. AnswerKnown'
  BY <1>a DEF AnswerKnown, DeliveryInvariant, Aside
<1>7. SilentUntilFenced'
  <2> SUFFICES ASSUME NEW r \in RunId, received[r] # <<>>, ~ Forgotten(r)'
               PROVE  \/ outbox'[r].status \in Settled
                      \/ outbox'[r].status = "delivering" /\ ~ outbox'[r].safe
    BY DEF SilentUntilFenced, Aside
  <2>1. \/ outbox[r].status \in Settled
        \/ outbox[r].status = "delivering" /\ ~ outbox[r].safe
    BY <1>d DEF DeliveryInvariant, SilentUntilFenced
  <2>2. RowQuiet(r)
    BY <1>c, <2>1 DEF RowLeased, Settled
  <2> QED
    BY <2>1, <2>2 DEF RowQuiet, Settled
<1>8. AtMostOnePost'
  BY DEF AtMostOnePost, DeliveryInvariant, Aside
<1>9. OutcomeProvable'
  <2> SUFFICES ASSUME NEW r \in RunId
               PROVE  /\ outbox'[r].status = "delivered" => received[r] = <<"accepted">>
                      /\ outbox'[r].status = "failed" => received[r] \in {<<>>, <<"refused">>}
                      /\ outbox'[r].status = "pending" => received[r] = <<>>
    BY DEF OutcomeProvable, Aside
  <2>1. CASE outbox'[r] = outbox[r]
    BY <2>1 DEF DeliveryInvariant, OutcomeProvable
  <2>2. CASE outbox'[r].status \in {"absent", "ambiguous", "delivering"}
    BY <2>2
  <2>3. CASE outbox'[r].status = "pending" /\ outbox'[r] # outbox[r]
    <3>1. RowQuiet(r)
      BY <1>c, <2>3 DEF RowLeased
    <3>2. ~ Forgotten(r) /\ (outbox[r].status = "absent"
                               \/ (outbox[r].status = "delivering" /\ outbox[r].safe))
      BY <2>3, <3>1, RowKept DEF RowQuiet
    <3>3. received[r] = <<>>
      BY <3>2 DEF DeliveryInvariant, SilentUntilFenced, Settled
    <3> QED
      BY <2>3, <3>3
  <2>4. \/ outbox'[r] = outbox[r]
        \/ outbox'[r].status \in {"absent", "ambiguous", "delivering"}
        \/ outbox'[r].status = "pending" /\ outbox'[r] # outbox[r]
    BY <1>c DEF RowQuiet, RowLeased
  <2> QED
    BY <2>1, <2>2, <2>3, <2>4
<1> QED
  BY <1>1, <1>2, <1>4, <1>5, <1>6, <1>7, <1>8, <1>9 DEF DeliveryInvariant

\* While the fence of a row is up, nobody sends for it and nothing was sent.
LEMMA NoneSent ==
  ASSUME Facts, NEW r \in RunId, outbox[r].status = "delivering", outbox[r].safe
  PROVE  received[r] = <<>> /\ \A v \in Worker : ~ Sender(v, r)
<1>1. ~ Forgotten(r)
  BY RowKept DEF Facts
<1> QED
  BY <1>1 DEF Facts, DeliveryInvariant, FenceDownAfter, SilentUntilFenced, Holds, Settled

\* A step of one task and its row keeps what is known of the others.
LEMMA OthersKept ==
  ASSUME Facts, NEW w \in Worker, NEW r \in RunId, NEW task, NEW status, NEW safe,
         Advances(w, r, task, status, safe), UNCHANGED received,
         \* and this task and this row stay right
         task.at # "idle" => task.attempt = sending[w][r].attempt,
         task.at \in {"idle", "post"}, status # "absent",
         \A v \in Worker \ {w} : ~ Sender(v, r),
         task.at = "post" => status = "delivering" /\ ~ safe /\ received[r] = <<>>,
         task.at = "idle" => status \in Settled,
         status = "delivered" => received[r] = <<"accepted">>,
         status = "failed" => received[r] \in {<<>>, <<"refused">>},
         status # "pending",
         \A v \in Worker \ {w} : sending[v][r].at = "prepare" => ~ Holds(v, r)
  PROVE  DeliveryInvariant'
<1> USE DEF Facts, Advances
<1>1. \A s \in RunId : Forgotten(s)' = Forgotten(s)
  BY DEF Forgotten
<1>2. \A v \in Worker, s \in RunId :
        v # w \/ s # r => /\ sending'[v][s] = sending[v][s]
                          /\ Sender(v, s)' = Sender(v, s)
  BY DEF Sender
<1>3. \A v \in Worker, s \in RunId : s # r => Holds(v, s)' = Holds(v, s)
  BY <1>2 DEF Holds
<1>4. AttemptsSpent'
  <2> SUFFICES ASSUME NEW v \in Worker, NEW s \in RunId, sending'[v][s].at # "idle",
                      ~ Forgotten(s)
               PROVE  /\ outbox'[s].status # "absent"
                      /\ sending'[v][s].attempt <= outbox'[s].attempt
    BY <1>1 DEF AttemptsSpent
  <2>1. CASE v = w /\ s = r
    <3>1. outbox[r].attempt \in Nat /\ sending[w][r].attempt = outbox[r].attempt
      BY RowTypes DEF LedgerInvariant, Holds
    <3> QED
      BY <2>1, <3>1
  <2>2. CASE v # w \/ s # r
    <3>1. outbox[s].status # "absent" /\ sending[v][s].attempt <= outbox[s].attempt
      BY <2>2, <1>2 DEF AttemptsSpent, DeliveryInvariant
    <3>2. outbox'[s].status # "absent" /\ outbox'[s].attempt = outbox[s].attempt
      BY <3>1
    <3> QED
      BY <2>2, <3>1, <3>2, <1>2
  <2> QED
    BY <2>1, <2>2
<1>5. FenceUpBefore'
  <2> SUFFICES ASSUME NEW v \in Worker, NEW s \in RunId, sending'[v][s].at = "prepare",
                      Holds(v, s)'
               PROVE  outbox'[s].safe
    BY DEF FenceUpBefore
  <2>1. s # r
    <3>1. CASE s = r /\ v = w
      BY <3>1
    <3>2. CASE s = r /\ v # w
      BY <3>2, <1>2 DEF Holds, Settled
    <3> QED
      BY <3>1, <3>2
  <2> QED
    BY <2>1, <1>2, <1>3 DEF FenceUpBefore, DeliveryInvariant
<1>6. FenceDownAfter'
  <2> SUFFICES ASSUME NEW v \in Worker, NEW s \in RunId, Sender(v, s)', ~ Forgotten(s)
               PROVE  outbox'[s].status = "ambiguous" \/ (Holds(v, s)' /\ ~ outbox'[s].safe)
    BY <1>1 DEF FenceDownAfter
  <2>1. CASE s = r
    <3>1. v = w
      BY <2>1, <1>2
    <3> QED
      BY <2>1, <3>1 DEF Sender, Holds
  <2>2. CASE s # r
    BY <2>2, <1>2, <1>3 DEF FenceDownAfter, DeliveryInvariant
  <2> QED
    BY <2>1, <2>2
<1>7. OneSender'
  BY <1>2 DEF OneSender, DeliveryInvariant
<1>8. AnswerKnown'
  BY <1>2 DEF AnswerKnown, DeliveryInvariant
<1>9. SilentUntilFenced'
  <2> SUFFICES ASSUME NEW s \in RunId, received[s] # <<>>, ~ Forgotten(s)
               PROVE  \/ outbox'[s].status \in Settled
                      \/ outbox'[s].status = "delivering" /\ ~ outbox'[s].safe
    BY <1>1 DEF SilentUntilFenced
  <2> QED
    BY DEF SilentUntilFenced, DeliveryInvariant
<1>10. AtMostOnePost'
  BY DEF AtMostOnePost, DeliveryInvariant
<1>11. OutcomeProvable'
  <2> SUFFICES ASSUME NEW s \in RunId
               PROVE  /\ outbox'[s].status = "delivered" => received[s] = <<"accepted">>
                      /\ outbox'[s].status = "failed" => received[s] \in {<<>>, <<"refused">>}
                      /\ outbox'[s].status = "pending" => received[s] = <<>>
    BY DEF OutcomeProvable
  <2> QED
    BY DEF OutcomeProvable, DeliveryInvariant
<1> QED
  BY <1>4, <1>5, <1>6, <1>7, <1>8, <1>9, <1>10, <1>11 DEF DeliveryInvariant

LEMMA FenceLoweredKeeps ==
  ASSUME Facts, NEW w \in Worker, NEW r \in RunId, FenceLowered(w, r)
  PROVE  DeliveryInvariant'
<1>1. outbox[r].status = "delivering" /\ outbox[r].safe
  BY DEF FenceLowered, Advances, Facts, DeliveryInvariant, FenceUpBefore, Holds
<1>2. received[r] = <<>> /\ \A v \in Worker : ~ Sender(v, r)
  BY <1>1, NoneSent
<1>3. \A v \in Worker \ {w} : ~ Holds(v, r)
  BY DEF FenceLowered, Advances, Holds
<1> DEFINE task == [at |-> "post", attempt |-> sending[w][r].attempt]
<1>4. task.at = "post" /\ task.attempt = sending[w][r].attempt
  OBVIOUS
<1>5. Advances(w, r, task, "delivering", FALSE) /\ UNCHANGED received
  BY DEF FenceLowered
<1> HIDE DEF task
<1> QED
  BY <1>2, <1>3, <1>4, <1>5, OthersKept

LEMMA OutcomeRecordedKeeps ==
  ASSUME Facts, NEW w \in Worker, NEW r \in RunId, OutcomeRecorded(w, r)
  PROVE  DeliveryInvariant'
<1>1. Holds(w, r) /\ UNCHANGED received /\ Idle.at = "idle"
  BY DEF OutcomeRecorded, Advances, Idle
<1>2. \A v \in Worker \ {w} : ~ Holds(v, r)
  BY <1>1 DEF Holds
<1>3. CASE sending[w][r].at = "prepare" /\ Advances(w, r, Idle, "failed", outbox[r].safe)
  <2>1. outbox[r].status = "delivering" /\ outbox[r].safe
    BY <1>1, <1>3 DEF Facts, DeliveryInvariant, FenceUpBefore, Holds
  <2>2. received[r] = <<>> /\ \A v \in Worker : ~ Sender(v, r)
    BY <2>1, NoneSent
  <2> QED
    BY <1>1, <1>2, <1>3, <2>2, OthersKept DEF Settled
<1>4. CASE /\ sending[w][r].at \in {"answered", "refused", "lost"}
           /\ Advances(w, r, Idle, OutcomeOf(sending[w][r].at), outbox[r].safe)
  <2>1. \A v \in Worker \ {w} : ~ Sender(v, r)
    BY <1>4 DEF Facts, DeliveryInvariant, OneSender, Sender
  <2>2. /\ sending[w][r].at = "answered" => received[r] = <<"accepted">>
        /\ sending[w][r].at = "refused" => received[r] = <<"refused">>
    BY DEF Facts, DeliveryInvariant, AnswerKnown
  <2> DEFINE status == OutcomeOf(sending[w][r].at)
  <2>3. /\ status \in Settled
        /\ status = "delivered" => received[r] = <<"accepted">>
        /\ status = "failed" => received[r] = <<"refused">>
    BY <1>4, <2>2 DEF OutcomeOf, Settled
  <2>4. Advances(w, r, Idle, status, outbox[r].safe)
    BY <1>4
  <2> HIDE DEF status
  <2> QED
    BY <1>1, <1>2, <2>1, <2>3, <2>4, OthersKept DEF Settled
<1> QED
  BY <1>3, <1>4 DEF OutcomeRecorded

LEMMA PostedKeeps ==
  ASSUME Facts, NEW w \in Worker, NEW r \in RunId, Posted(w, r)
  PROVE  DeliveryInvariant'
<1> USE DEF Facts, Posted
<1>1. received[r] = <<>> /\ Sender(w, r)
  BY DEF DeliveryInvariant, AnswerKnown, Sender
<1>2. Append(<<>>, "accepted") = <<"accepted">> /\ Append(<<>>, "refused") = <<"refused">>
  OBVIOUS
<1>3. received'[r] \in {<<>>, <<"accepted">>, <<"refused">>}
  BY <1>1, <1>2
<1>4. /\ sending'[w][r].at = "answered" => received'[r] = <<"accepted">>
      /\ sending'[w][r].at = "refused" => received'[r] = <<"refused">>
      /\ sending'[w][r].at \in {"answered", "refused", "lost"}
  BY <1>1, <1>2
<1>5. \A v \in Worker, s \in RunId : /\ Sender(v, s)' => Sender(v, s)
                                     /\ Holds(v, s)' = Holds(v, s)
  BY <1>1 DEF Sender, Holds
<1>6. \A s \in RunId : Forgotten(s)' = Forgotten(s)
  BY DEF Forgotten
<1>7. Forgotten(r) \/ outbox[r].status = "ambiguous"
        \/ (outbox[r].status = "delivering" /\ ~ outbox[r].safe)
  BY <1>1 DEF DeliveryInvariant, FenceDownAfter, Holds
<1>8. AttemptsSpent'
  BY <1>1, <1>6 DEF AttemptsSpent, DeliveryInvariant, Sender
<1>9. FenceUpBefore' /\ FenceDownAfter' /\ OneSender'
  BY <1>4, <1>5, <1>6 DEF FenceUpBefore, FenceDownAfter, OneSender, DeliveryInvariant
<1>10. AnswerKnown'
  <2> SUFFICES ASSUME NEW v \in Worker, NEW s \in RunId
               PROVE  /\ sending'[v][s].at = "post" => received'[s] = <<>>
                      /\ sending'[v][s].at = "answered" => received'[s] = <<"accepted">>
                      /\ sending'[v][s].at = "refused" => received'[s] = <<"refused">>
    BY DEF AnswerKnown
  <2>1. CASE s # r
    BY <2>1 DEF DeliveryInvariant, AnswerKnown
  <2>2. CASE s = r /\ v # w
    <3>1. ~ Sender(v, r)
      BY <1>1, <2>2 DEF DeliveryInvariant, OneSender
    <3> QED
      BY <2>2, <3>1 DEF Sender
  <2>3. CASE s = r /\ v = w
    BY <2>3, <1>4
  <2> QED
    BY <2>1, <2>2, <2>3
<1>11. SilentUntilFenced'
  BY <1>6, <1>7 DEF SilentUntilFenced, DeliveryInvariant, Settled
<1>12. AtMostOnePost'
  <2>1. Len(<<>>) = 0 /\ Len(<<"accepted">>) = 1 /\ Len(<<"refused">>) = 1
    OBVIOUS
  <2> QED
    BY <1>3, <2>1 DEF AtMostOnePost, DeliveryInvariant
<1>13. OutcomeProvable'
  <2> SUFFICES ASSUME NEW s \in RunId
               PROVE  /\ outbox[s].status = "delivered" => received'[s] = <<"accepted">>
                      /\ outbox[s].status = "failed" => received'[s] \in {<<>>, <<"refused">>}
                      /\ outbox[s].status = "pending" => received'[s] = <<>>
    BY DEF OutcomeProvable
  <2>1. CASE s # r
    BY <2>1 DEF DeliveryInvariant, OutcomeProvable
  <2>2. CASE s = r
    <3>1. Forgotten(r) => outbox[r].status = "absent"
      BY RowKept
    <3> QED
      BY <2>2, <3>1, <1>7
  <2> QED
    BY <2>1, <2>2
<1> QED
  BY <1>8, <1>9, <1>10, <1>11, <1>12, <1>13 DEF DeliveryInvariant

LEMMA FactsStep ==
  ASSUME Facts, [DeliveryNext]_deliveryVars
  PROVE  Facts'
<1>1. LedgerInvariant'
  BY StoreKept DEF Facts
<1>2. DeliveryTypeOK'
  BY <1>1, DeliveryTypes DEF Facts
<1>3. DeliveryKind
  BY DeliverySteps DEF Facts
<1>4. DeliveryInvariant'
  BY <1>1, <1>2, <1>3, AsideKeeps, FenceLoweredKeeps, OutcomeRecordedKeeps, PostedKeeps
     DEF DeliveryKind
<1> QED
  BY <1>1, <1>2, <1>4 DEF Facts

LEMMA FactsInit == DeliveryInit => Facts
<1> HAVE DeliveryInit
<1>1. LedgerInvariant
  BY StoreInit
<1>2. /\ \A w \in Worker, r \in RunId : sending[w][r] = Idle
      /\ \A r \in RunId : received[r] = <<>> /\ outbox[r] = NoDelivery
  BY DEF DeliveryInit, Init
<1>3. DeliveryTypeOK
  BY <1>2 DEF DeliveryInit, DeliveryTypeOK, Idle
<1>4. Idle.at = "idle" /\ NoDelivery.status = "absent" /\ Len(<<>>) = 0
  BY DEF Idle, NoDelivery
<1>5. DeliveryInvariant
  BY <1>2, <1>4
     DEF DeliveryInvariant, AttemptsSpent, FenceUpBefore, FenceDownAfter, OneSender,
         Sender, AnswerKnown, SilentUntilFenced, AtMostOnePost, OutcomeProvable
<1> QED
  BY <1>1, <1>3, <1>5 DEF Facts

LEMMA FactsAlways == DeliverySpec => []Facts
BY FactsInit, FactsStep, PTL DEF DeliverySpec

-----------------------------------------------------------------------------
(***************************************************************************)
(* The theorems                                                            *)
(***************************************************************************)

\* A delivery task has a lease, of attempt 1 or later, exactly while it works.
THEOREM DeliveryTypeCorrect == DeliverySpec => []DeliveryTypeOK
BY FactsAlways, PTL DEF Facts

\* A notification is never replayed: the receiver gets at most one request
\* for a run, whichever workers stall, are restarted or race for it.
THEOREM PostedOnce == DeliverySpec => []AtMostOnePost
BY FactsAlways, PTL DEF Facts, DeliveryInvariant

\* What the outbox records of a delivery is what the receiver did with it.
THEOREM OutcomesAreTrue == DeliverySpec => []OutcomeProvable
BY FactsAlways, PTL DEF Facts, DeliveryInvariant
==============================================================================

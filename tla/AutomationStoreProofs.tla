------------------------ MODULE AutomationStoreProofs ------------------------
(***************************************************************************)
(* Proofs about the automation database for any set of jobs and workers,   *)
(* any schedules, leases and bounds: schedules, types, the exclusion of    *)
(* runs, missed occurrences, job summaries, then the outbox and that the   *)
(* database implements the ledger of AutomationLedger.                     *)
(***************************************************************************)
EXTENDS AutomationStore, TLAPS

-----------------------------------------------------------------------------
(***************************************************************************)
(* Schedules: the next fire time is the first one strictly after now, the  *)
(* fact on which "an occurrence is claimed once" rests.                    *)
(***************************************************************************)

\* Integer division as _next_interval uses it (math.floor of a quotient).
LEMMA Quotient ==
  ASSUME NEW a \in Nat, NEW s \in Nat \ {0}
  PROVE  /\ a \div s \in Nat
         /\ (a \div s) * s <= a
         /\ a < (a \div s) * s + s
OBVIOUS

LEMMA OneMore ==
  ASSUME NEW q \in Nat, NEW s \in Nat
  PROVE  (q + 1) * s = q * s + s /\ q * s \in Nat
OBVIOUS

\* The next fire of an interval is strictly after now, is a whole number of
\* intervals after the anchor, and none is skipped: the one before it is not
\* after now, unless the interval has not started.
THEOREM IntervalFires ==
  ASSUME NEW anchor \in Nat, NEW seconds \in Nat \ {0}, NEW clock \in Nat,
         NEW next, next = NextInterval(anchor, seconds, clock)
  PROVE  /\ next \in Nat
         /\ next > clock
         /\ next - seconds <= clock \/ next = anchor + seconds
         /\ \E k \in Nat \ {0} : next = anchor + k * seconds
<1> DEFINE elapsed == IF clock > anchor THEN clock - anchor ELSE 0
           q       == elapsed \div seconds
<1>1. elapsed \in Nat /\ (clock > anchor => anchor + elapsed = clock)
                      /\ (clock <= anchor => elapsed = 0)
  OBVIOUS
<1>2. /\ q \in Nat
      /\ q * seconds <= elapsed
      /\ elapsed < q * seconds + seconds
  BY <1>1, Quotient
<1>3. q + 1 \in Nat \ {0} /\ (q + 1) * seconds = q * seconds + seconds
      /\ q * seconds \in Nat
  <2> q \in Nat
    BY <1>2
  <2> HIDE DEF q
  <2> QED
    BY OneMore
<1>4. next = anchor + (q + 1) * seconds
  BY DEF NextInterval
<1> HIDE DEF q, elapsed
<1>5. elapsed = 0 => q * seconds = 0
  BY <1>2, <1>3
<1> QED
  BY <1>1, <1>2, <1>3, <1>4, <1>5

\* The next fire of a cron expression is one of its instants, and the first
\* of them after the base.
THEOREM CronFires ==
  ASSUME NEW spec \in Cron, NEW after \in Nat, FiresAfter(spec, after)
  PROVE  IsFirstAfter(spec.fires, after, NextCron(spec.fires, after))
<1>1. \E u \in spec.fires : IsFirstAfter(spec.fires, after, u)
  BY DEF FiresAfter, Cron
<1> QED
  BY <1>1 DEF NextCron

\* A schedule never fires at or before now, and a recurring one always fires
\* again: what _claim_job_locked and _record_skipped_locked write to
\* next_run_at is NULL for a one-shot and lies in the future otherwise.
THEOREM NextFireIsLater ==
  ASSUME NEW spec \in ScheduleSpec, NEW clock \in Nat, NEW previous \in Nat,
         previous <= clock, FiresAfter(spec, clock)
  PROVE  LET next == NextFireTime(spec, previous, clock)
         IN IF spec.kind = "at" THEN next = NoTime ELSE next \in Nat /\ next > clock
<1>1. CASE spec \in At
  BY <1>1 DEF At, NextFireTime
<1>2. CASE spec \in Every
  <2>1. spec.anchor \in Nat /\ spec.seconds \in Nat \ {0} /\ spec.kind = "every"
    BY <1>2 DEF Every
  <2> QED
    BY <2>1, IntervalFires DEF NextFireTime
<1>3. CASE spec \in Cron
  <2>1. spec.kind = "cron" /\ spec.fires \subseteq Nat
    BY <1>3 DEF Cron
  <2>2. NextFireTime(spec, previous, clock) = NextCron(spec.fires, clock)
    BY <2>1 DEF NextFireTime
  <2> QED
    BY <1>3, <2>1, <2>2, CronFires DEF IsFirstAfter
<1> QED
  BY <1>1, <1>2, <1>3 DEF ScheduleSpec

\* The first fire time of a recurring schedule also lies in the future.
THEOREM FirstFireIsLater ==
  ASSUME NEW spec \in ScheduleSpec, NEW clock \in Nat, FiresAfter(spec, clock)
  PROVE  /\ FirstFireTime(spec, clock) \in Nat
         /\ spec.kind # "at" => FirstFireTime(spec, clock) > clock
<1>1. CASE spec \in At
  BY <1>1 DEF At, FirstFireTime
<1>2. CASE spec \in Every
  <2>1. spec.anchor \in Nat /\ spec.seconds \in Nat \ {0} /\ spec.kind = "every"
    BY <1>2 DEF Every
  <2> QED
    BY <2>1, IntervalFires DEF FirstFireTime
<1>3. CASE spec \in Cron
  <2>1. spec.kind = "cron" /\ spec.fires \subseteq Nat
    BY <1>3 DEF Cron
  <2>2. FirstFireTime(spec, clock) = NextCron(spec.fires, clock)
    BY <2>1 DEF FirstFireTime
  <2> QED
    BY <1>3, <2>1, <2>2, CronFires DEF IsFirstAfter
<1> QED
  BY <1>1, <1>2, <1>3 DEF ScheduleSpec

-----------------------------------------------------------------------------
USE StoreAssumption DEF Time, NoTime

-----------------------------------------------------------------------------
(***************************************************************************)
(* Rows                                                                    *)
(***************************************************************************)

\* A run id has the fields of its row's key, and is determined by them.
LEMMA RunIdFields ==
  /\ \A r \in RunId : /\ r.job \in Job
                      /\ r.trigger \in {"scheduled", "manual"}
                      /\ r.key \in Nat
                      /\ r.trigger = "scheduled" => r.key \in Time
  /\ \A r, s \in RunId :
       r.job = s.job /\ r.trigger = s.trigger /\ r.key = s.key => r = s
BY DEF RunId

LEMMA OccurrenceId ==
  ASSUME NEW j \in Job, NEW t \in Time
  PROVE  /\ Occurrence(j, t) \in RunId
         /\ Occurrence(j, t).job = j
         /\ Occurrence(j, t).trigger = "scheduled"
         /\ Occurrence(j, t).key = t
BY DEF Occurrence, RunId

LEMMA ManualId ==
  ASSUME NEW j \in Job, NEW k \in 1..MaxManual
  PROVE  /\ ManualRun(j, k) \in RunId
         /\ ManualRun(j, k).job = j
         /\ ManualRun(j, k).trigger = "manual"
BY DEF ManualRun, RunId

RunRow == Running \cup Ended \cup {NoRun}
BoxRow == Delivering \cup Waiting

\* A running row that is closed becomes a row without a lease.
LEMMA ClosedRow ==
  ASSUME now \in Time, NEW row \in Running, NEW status \in Terminal
  PROVE  /\ Closed(row, status) \in Ended
         /\ Closed(row, status).status = status
         /\ Closed(row, status).cancel = row.cancel
BY DEF Closed, Running, Ended

\* Which rows a status belongs to.
LEMMA RowOfStatus ==
  ASSUME NEW row \in RunRow
  PROVE  /\ row.status = "running" <=> row \in Running
         /\ row.status \in Terminal <=> row \in Ended
         /\ row.status = "absent" <=> row = NoRun
         /\ row.status \in RunStatus
BY DEF RunRow, Running, Ended, NoRun, Terminal, RunStatus

\* Queueing notifications adds pending rows and changes no other row.
LEMMA EnqueuedBox ==
  ASSUME NEW box \in [RunId -> BoxRow], NEW S
  PROVE  /\ Enqueued(box, S) \in [RunId -> BoxRow]
         /\ \A r \in RunId :
              Enqueued(box, S)[r] =
                IF r \in S /\ r.job \in Webhook /\ box[r].status = "absent"
                THEN [NoDelivery EXCEPT !.status = "pending"] ELSE box[r]
<1>1. [NoDelivery EXCEPT !.status = "pending"] \in Waiting
  BY DEF NoDelivery, Waiting, Settled
<1> QED
  BY <1>1 DEF Enqueued, BoxRow

\* The sweep closes the expired runs and changes no other.
LEMMA RecoveredTables ==
  ASSUME TypeOK
  PROVE  /\ RecoveredRuns \in [RunId -> RunRow]
         /\ RecoveredJobs \in [Job -> JobRow]
         /\ \A r \in ExpiredRuns : runs[r] \in Running
         /\ \A r \in ExpiredRuns : RecoveredRuns[r].status = "interrupted"
         /\ \A r \in RunId \ ExpiredRuns : RecoveredRuns[r] = runs[r]
<1>1. \A r \in ExpiredRuns : r \in RunId /\ runs[r] \in Running
  BY RowOfStatus DEF ExpiredRuns, TypeOK, RunRow
<1>2. "interrupted" \in Terminal /\ "interrupted" \in RunStatus
  BY DEF Terminal, RunStatus
<1>3. \A r \in ExpiredRuns : /\ Closed(runs[r], "interrupted") \in Ended
                             /\ Closed(runs[r], "interrupted").status = "interrupted"
  BY <1>1, <1>2, ClosedRow DEF TypeOK
<1>4. \A j \in Job : [jobs[j] EXCEPT !.last = "interrupted"] \in JobRow
  BY <1>2 DEF TypeOK, JobRow
<1> QED
  BY <1>1, <1>3, <1>4 DEF RecoveredRuns, RecoveredJobs, TypeOK, RunRow

\* A job whose due occurrence was claimed or skipped keeps a well-typed row,
\* enabled exactly when the schedule has another fire, which is in the future.
LEMMA AdvancedRow ==
  ASSUME now \in Time, NEW j \in Job, NEW row \in JobRow,
         row.next \in Nat, row.next <= now, NEW status \in RunStatus
  PROVE  /\ Advanced(row, j, status) \in JobRow
         /\ Advanced(row, j, status).state = row.state
         /\ Advanced(row, j, status).last = status
         /\ Advanced(row, j, status).enabled <=> Advanced(row, j, status).next # NoTime
         /\ Advanced(row, j, status).next = NoTime \/ Advanced(row, j, status).next > now
<1> DEFINE next == NextFireTime(Schedule[j], row.next, now)
<1>1. next = NoTime \/ (next \in Nat /\ next > now)
  <2>1. Schedule[j] \in ScheduleSpec /\ FiresAfter(Schedule[j], now) /\ now \in Nat
    OBVIOUS
  <2> QED
    BY <2>1, NextFireIsLater
<1> HIDE DEF next
<1>2. Advanced(row, j, status) =
        [row EXCEPT !.next = next, !.enabled = next # NoTime, !.last = status]
  BY DEF Advanced, next
<1> QED
  BY <1>1, <1>2 DEF JobRow

-----------------------------------------------------------------------------
(***************************************************************************)
(* Type correctness                                                        *)
(***************************************************************************)

LEMMA LeaseEnd ==
  ASSUME now \in Time, LeaseFits
  PROVE  now + Lease \in Time
BY DEF LeaseFits

LEMMA ClaimedRow ==
  ASSUME now \in Time, LeaseFits, NEW w \in Worker
  PROVE  Claimed(w) \in Running
<1>1. now + Lease \in Time
  BY LeaseEnd
<1> HIDE DEF Time
<1> QED
  BY <1>1 DEF Claimed, NoRun, Running

LEMMA SkippedRow ==
  ASSUME now \in Time
  PROVE  Skipped \in Ended
BY DEF Skipped, NoRun, Ended, Terminal

\* The sweep of expired leases keeps the tables well-typed.
LEMMA SweepTypes ==
  ASSUME TypeOK, Sweep
  PROVE  /\ runs' \in [RunId -> RunRow]
         /\ jobs' \in [Job -> JobRow]
         /\ outbox' \in [RunId -> BoxRow]
BY RecoveredTables, EnqueuedBox DEF Sweep, TypeOK, BoxRow

\* Closing one running run keeps the tables well-typed.
LEMMA CloseRunTypes ==
  ASSUME TypeOK, NEW r \in RunId, runs[r].status = "running",
         NEW status \in Terminal, CloseRun(r, status)
  PROVE  /\ runs' \in [RunId -> RunRow]
         /\ jobs' \in [Job -> JobRow]
         /\ outbox' \in [RunId -> BoxRow]
<1>1. runs[r] \in Running
  BY RowOfStatus DEF TypeOK, RunRow
<1>2. Closed(runs[r], status) \in Ended
  BY <1>1, ClosedRow DEF TypeOK
<1>3. r.job \in Job /\ status \in RunStatus
  BY RunIdFields DEF RunStatus
<1>4. runs' \in [RunId -> RunRow]
  BY <1>2 DEF CloseRun, TypeOK, RunRow
<1>5. jobs' \in [Job -> JobRow]
  BY <1>3 DEF CloseRun, TypeOK, JobRow
<1>6. outbox' \in [RunId -> BoxRow]
  BY EnqueuedBox DEF CloseRun, TypeOK, BoxRow
<1> QED
  BY <1>4, <1>5, <1>6

\* The claim and skip sets of a batch are due jobs, with a due time.
LEMMA DueJob ==
  ASSUME TypeOK, NEW j \in DueJobs
  PROVE  /\ j \in Job
         /\ RecoveredJobs[j] \in JobRow
         /\ RecoveredJobs[j].next = jobs[j].next
         /\ RecoveredJobs[j].state = jobs[j].state
         /\ jobs[j].next \in Time /\ jobs[j].next <= now
         /\ DueRun(j) \in RunId /\ DueRun(j).job = j
         /\ DueRun(j).trigger = "scheduled" /\ DueRun(j).key = jobs[j].next
<1>1. j \in Job /\ jobs[j].next # NoTime /\ jobs[j].next <= now
  BY DEF DueJobs
<1>2. jobs[j].next \in Time
  BY <1>1 DEF TypeOK, JobRow
<1> QED
  BY <1>1, <1>2, OccurrenceId, RecoveredTables
     DEF DueRun, RecoveredJobs, TypeOK, JobRow

\* A batch of claims keeps the tables well-typed.
LEMMA ClaimDueBatchTypes ==
  ASSUME TypeOK, NEW w \in Worker, NEW limit, ClaimDueBatch(w, limit)
  PROVE  TypeOK'
<1>1. PICK claim \in SUBSET DueJobs, skip \in SUBSET DueJobs :
        LET started == {DueRun(j) : j \in claim}
            missed  == {r \in {DueRun(j) : j \in skip} : runs[r].status = "absent"}
        IN /\ runs' = [r \in RunId |-> CASE r \in started -> Claimed(w)
                                         [] r \in missed  -> Skipped
                                         [] OTHER -> RecoveredRuns[r]]
           /\ born' = [r \in RunId |->
                         IF r \in started \cup missed THEN now ELSE born[r]]
           /\ jobs' = [j \in Job |->
                         CASE j \in claim -> Advanced(RecoveredJobs[j], j, "running")
                           [] j \in skip  -> Advanced(RecoveredJobs[j], j, "skipped")
                           [] OTHER -> RecoveredJobs[j]]
           /\ outbox' = Enqueued(outbox, ExpiredRuns \cup missed)
  BY DEF ClaimDueBatch
<1>2. runs' \in [RunId -> RunRow]
  <2>1. Claimed(w) \in RunRow /\ Skipped \in RunRow
    BY ClaimedRow, SkippedRow DEF ClaimDueBatch, TypeOK, RunRow
  <2>2. \A r \in RunId : RecoveredRuns[r] \in RunRow
    BY RecoveredTables
  <2> QED
    BY <1>1, <2>1, <2>2
<1>3. jobs' \in [Job -> JobRow]
  <2>1. \A j \in DueJobs : /\ Advanced(RecoveredJobs[j], j, "running") \in JobRow
                           /\ Advanced(RecoveredJobs[j], j, "skipped") \in JobRow
    <3> "running" \in RunStatus /\ "skipped" \in RunStatus
      BY DEF RunStatus, Terminal
    <3> QED
      BY DueJob, AdvancedRow DEF TypeOK
  <2>2. \A j \in Job : RecoveredJobs[j] \in JobRow
    BY RecoveredTables
  <2> QED
    BY <1>1, <2>1, <2>2
<1>4. born' \in [RunId -> Time \cup {NoTime}]
  BY <1>1 DEF TypeOK
<1>5. outbox' \in [RunId -> BoxRow]
  BY <1>1, EnqueuedBox DEF TypeOK, BoxRow
<1> QED
  BY <1>2, <1>3, <1>4, <1>5 DEF ClaimDueBatch, TypeOK, RunRow, BoxRow

\* Claiming deliveries keeps the outbox well-typed.
LEMMA OutboxRows ==
  ASSUME TypeOK
  PROVE  /\ RecoveredOutbox \in [RunId -> BoxRow]
         /\ \A w \in Worker, r \in RunId :
              LeaseFits => Leased(RecoveredOutbox[r], w) \in BoxRow
         /\ \A r \in RunId : outbox[r].status = "delivering" => outbox[r] \in Delivering
<1>1. \A r \in RunId : outbox[r].status = "delivering" => outbox[r] \in Delivering
  BY DEF TypeOK, Delivering, Waiting, Settled
<1>2. \A r \in ExpiredDeliveries : RecoveredDelivery(outbox[r]) \in Waiting
  BY <1>1 DEF ExpiredDeliveries, RecoveredDelivery, Delivering, Waiting, Settled
<1>3. RecoveredOutbox \in [RunId -> BoxRow]
  BY <1>2 DEF RecoveredOutbox, TypeOK, BoxRow
<1>4. ASSUME NEW w \in Worker, NEW d \in BoxRow, LeaseFits
      PROVE  Leased(d, w) \in Delivering
  <2>1. now + Lease \in Time
    BY <1>4, LeaseEnd DEF TypeOK
  <2>2. d.attempt + 1 \in Nat
    BY <1>4 DEF BoxRow, Delivering, Waiting, Settled
  <2> QED
    BY <2>1, <2>2 DEF Leased, Delivering
<1> QED
  BY <1>1, <1>3, <1>4 DEF BoxRow

\* One step per action: every transaction keeps every table well-typed.
\* The row of a new job, whenever the clock was read.
LEMMA Created ==
  ASSUME TypeOK, NEW j \in Job, NEW e \in BOOLEAN, CreateJob(j, e)
  PROVE  \E next \in Nat \cup {NoTime} :
           /\ e <=> next # NoTime
           /\ jobs' = [jobs EXCEPT ![j] =
                [state |-> "live", enabled |-> e, last |-> "absent", next |-> next]]
<1>1. PICK read \in 0..now :
        jobs' = [jobs EXCEPT ![j] =
          [state |-> "live", enabled |-> e, last |-> "absent",
           next |-> IF e THEN FirstFireTime(Schedule[j], read) ELSE NoTime]]
  BY DEF CreateJob
<1> DEFINE next == IF e THEN FirstFireTime(Schedule[j], read) ELSE NoTime
<1>2. read \in Time
  BY DEF TypeOK
<1>3. FirstFireTime(Schedule[j], read) \in Nat
  BY <1>2, FirstFireIsLater
<1>4. next \in Nat \cup {NoTime} /\ (e <=> next # NoTime)
  BY <1>3
<1>5. jobs' = [jobs EXCEPT ![j] =
        [state |-> "live", enabled |-> e, last |-> "absent", next |-> next]]
  BY <1>1
<1> HIDE DEF next
<1> QED BY <1>4, <1>5

LEMMA TypeStep ==
  ASSUME TypeOK, [Next]_vars
  PROVE  TypeOK'
<1> USE DEF RunRow, BoxRow
<1>1. ASSUME NEW j \in Job, NEW e \in BOOLEAN, CreateJob(j, e)
      PROVE  TypeOK'
  <2>1. PICK next \in Nat \cup {NoTime} :
          jobs' = [jobs EXCEPT ![j] =
            [state |-> "live", enabled |-> e, last |-> "absent", next |-> next]]
    BY <1>1, Created
  <2>2. [state |-> "live", enabled |-> e, last |-> "absent", next |-> next] \in JobRow
    BY DEF JobRow, RunStatus
  <2> QED
    BY <1>1, <2>1, <2>2 DEF CreateJob, TypeOK
<1>2. ASSUME NEW j \in Job, NEW e \in BOOLEAN, SetEnabled(j, e)
      PROVE  TypeOK'
  <2>1. FirstFire(j) \in Nat
    BY FirstFireIsLater DEF FirstFire, TypeOK
  <2> DEFINE next == IF e THEN FirstFire(j) ELSE NoTime
  <2>2. next \in Nat \cup {NoTime}
    BY <2>1
  <2> HIDE DEF next
  <2>3. [jobs[j] EXCEPT !.enabled = e, !.next = next] \in JobRow
    BY <2>2 DEF TypeOK, JobRow
  <2>4. jobs' = [jobs EXCEPT ![j] = [jobs[j] EXCEPT !.enabled = e, !.next = next]]
    BY <1>2 DEF SetEnabled, next
  <2> QED
    BY <1>2, <2>3, <2>4 DEF SetEnabled, TypeOK
<1>3. ASSUME NEW c \in Call, BeginCall(c)
      PROVE  TypeOK'
  BY <1>3, SweepTypes DEF BeginCall, TypeOK
<1>4. ASSUME NEW c \in calls, FailCall(c)
      PROVE  TypeOK'
  BY <1>4 DEF FailCall, TypeOK
<1>5. ASSUME NEW j \in Job, RemoveJob(j)
      PROVE  TypeOK'
  BY <1>5 DEF RemoveJob, TypeOK, JobRow
<1>6. ASSUME NEW r \in RunId, RequestCancel(r)
      PROVE  TypeOK'
  <2>1. runs[r] \in Running
    BY <1>6, RowOfStatus DEF RequestCancel, TypeOK
  <2> QED
    BY <1>6, <2>1 DEF RequestCancel, TypeOK, Running
<1>7. CASE PruneRuns
  <2>1. NoDelivery \in Waiting
    BY DEF NoDelivery, Waiting, Settled
  <2> QED
    BY <1>7, <2>1 DEF PruneRuns, TypeOK
<1>8. CASE RecoverExpired
  BY <1>8, SweepTypes DEF RecoverExpired, TypeOK
<1>9. ASSUME NEW w \in Worker, NEW j \in Job, ClaimManual(w, j)
      PROVE  TypeOK'
  BY <1>9, ClaimedRow, ManualId DEF ClaimManual, TypeOK
<1>10. ASSUME NEW w \in Worker, NEW limit, ClaimDueBatch(w, limit)
       PROVE  TypeOK'
  BY <1>10, ClaimDueBatchTypes
<1>11. ASSUME NEW w \in Worker, NEW r \in RunId, RenewLease(w, r)
       PROVE  TypeOK'
  <2>1. runs[r] \in Running
    BY <1>11, RowOfStatus DEF RenewLease, OwnsRun, TypeOK
  <2>2. now + Lease \in Time
    BY <1>11, LeaseEnd DEF RenewLease, TypeOK
  <2> HIDE DEF Time
  <2> QED
    BY <1>11, <2>1, <2>2 DEF RenewLease, TypeOK, Running
<1>12. ASSUME NEW w \in Worker, NEW r \in RunId,
              NEW s \in {"succeeded", "failed", "cancelled"}, FinishRun(w, r, s)
       PROVE  TypeOK'
  <2>1. (IF runs[r].cancel THEN "cancelled" ELSE s) \in Terminal
    BY DEF Terminal
  <2> QED
    BY <1>12, <2>1, CloseRunTypes DEF FinishRun, OwnsRun, TypeOK
<1>13. ASSUME NEW w \in Worker, NEW r \in RunId, InterruptRun(w, r)
       PROVE  TypeOK'
  <2>1. "interrupted" \in Terminal
    BY DEF Terminal
  <2> QED
    BY <1>13, <2>1, CloseRunTypes DEF InterruptRun, TypeOK
<1>14. CASE RecoverExpiredDeliveries
  BY <1>14, OutboxRows DEF RecoverExpiredDeliveries, TypeOK
<1>15. ASSUME NEW w \in Worker, NEW limit \in Nat, ClaimDeliveries(w, limit)
       PROVE  TypeOK'
  BY <1>15, OutboxRows DEF ClaimDeliveries, TypeOK
<1>16. ASSUME NEW w \in Worker, NEW r \in RunId, ClaimDeliveryForRun(w, r)
       PROVE  TypeOK'
  BY <1>16, OutboxRows DEF ClaimDeliveryForRun, TypeOK
<1>17. ASSUME NEW w \in Worker, NEW r \in RunId,
              MarkDispatchStarted(w, r, outbox[r].attempt)
       PROVE  TypeOK'
  BY <1>17, OutboxRows DEF MarkDispatchStarted, OwnsDelivery, TypeOK, Delivering
<1>18. ASSUME NEW w \in Worker, NEW r \in RunId,
              NEW s \in {"delivered", "failed", "ambiguous"},
              FinishDelivery(w, r, outbox[r].attempt, s)
       PROVE  TypeOK'
  <2>1. outbox[r] \in Delivering
    BY <1>18, OutboxRows DEF FinishDelivery, OwnsDelivery
  <2>2. [outbox[r] EXCEPT !.status = s, !.token = NoToken, !.lease = NoTime]
          \in Waiting
    BY <2>1 DEF Delivering, Waiting, Settled
  <2> QED
    BY <1>18, <2>2 DEF FinishDelivery, TypeOK
<1>19. CASE Tick
  BY <1>19 DEF Tick, TypeOK
<1>20. CASE UNCHANGED vars
  BY <1>20 DEF vars, TypeOK
<1>21. \A limit \in 1..Cardinality(Job) : limit \in Nat
  OBVIOUS
<1>22. /\ \A j \in Job : RemoveCall(j) \in Call
       /\ \A w \in Worker, j \in Job : ManualCall(w, j) \in Call
       /\ \A r \in RunId : CancelCall(r) \in Call
  BY DEF Call, RemoveCall, ManualCall, CancelCall
<1>23. CASE Administer
  BY <1>23, <1>1, <1>2, <1>3, <1>4, <1>5, <1>6, <1>7, <1>22 DEF Administer
<1>24. CASE UseRuns
  BY <1>24, <1>8, <1>9, <1>10, <1>11, <1>12, <1>13, <1>21 DEF UseRuns
<1>25. CASE UseOutbox
  BY <1>25, <1>14, <1>15, <1>16, <1>17, <1>18, <1>21 DEF UseOutbox
<1> QED
  BY <1>19, <1>20, <1>23, <1>24, <1>25 DEF Next

LEMMA InitTypes ==
  ASSUME Init
  PROVE  TypeOK
<1>1. NoDelivery \in Waiting
  BY DEF NoDelivery, Waiting, Settled
<1>2. "absent" \in RunStatus
  BY DEF RunStatus
<1> QED
  BY <1>1, <1>2 DEF Init, TypeOK, JobRow

\* Every reachable state of the database is well-typed: in particular a run
\* or a delivery holds a lease exactly while it is running or delivering.
THEOREM TypeCorrect == Spec => []TypeOK
<1>1. Init => TypeOK
  BY InitTypes
<1>2. TypeOK /\ [Next]_vars => TypeOK'
  BY TypeStep
<1> QED
  BY <1>1, <1>2, PTL DEF Spec

-----------------------------------------------------------------------------
(***************************************************************************)
(* What a batch of claims does to each row                                 *)
(***************************************************************************)

\* The run of a job's due occurrence.
IsDueRun(r) == r.trigger = "scheduled" /\ r.key = jobs[r.job].next

\* A batch of claims inserts a running row for the due occurrence of each
\* claimed job, a skipped row for that of each job that misfired, and sweeps
\* every other row.
BatchStep(w, claim, skip) ==
  /\ claim \subseteq DueJobs /\ skip \subseteq DueJobs /\ claim \cap skip = {}
  /\ \A r \in RunId : r.job \in claim /\ IsDueRun(r)
       => runs[r].status = "absent" /\ runs'[r] = Claimed(w) /\ born'[r] = now
  /\ \A r \in RunId : r.job \in skip /\ IsDueRun(r) /\ runs[r].status = "absent"
       => runs'[r] = Skipped /\ born'[r] = now
  /\ \A r \in RunId :
       ~ (IsDueRun(r) /\ r.job \in claim \cup skip /\ runs[r].status = "absent")
         => runs'[r] = RecoveredRuns[r] /\ born'[r] = born[r]
  /\ \A j \in claim : jobs'[j] = Advanced(RecoveredJobs[j], j, "running")
  /\ \A j \in skip : jobs'[j] = Advanced(RecoveredJobs[j], j, "skipped")
  /\ \A j \in Job \ (claim \cup skip) : jobs'[j] = RecoveredJobs[j]
  /\ outbox' = Enqueued(outbox, ExpiredRuns \cup
                 {r \in RunId : r.job \in skip /\ IsDueRun(r) /\ runs[r].status = "absent"})

LEMMA BatchSteps ==
  ASSUME TypeOK, NEW w \in Worker, NEW limit, ClaimDueBatch(w, limit)
  PROVE  \E claim, skip \in SUBSET DueJobs :
           BatchStep(w, claim, skip) /\ Visited(claim, skip, limit)
<1>1. PICK claim \in SUBSET DueJobs, skip \in SUBSET DueJobs :
        LET started == {DueRun(j) : j \in claim}
            missed  == {r \in {DueRun(j) : j \in skip} : runs[r].status = "absent"}
        IN /\ Visited(claim, skip, limit)
           /\ runs' = [r \in RunId |-> CASE r \in started -> Claimed(w)
                                         [] r \in missed  -> Skipped
                                         [] OTHER -> RecoveredRuns[r]]
           /\ born' = [r \in RunId |->
                         IF r \in started \cup missed THEN now ELSE born[r]]
           /\ jobs' = [j \in Job |->
                         CASE j \in claim -> Advanced(RecoveredJobs[j], j, "running")
                           [] j \in skip  -> Advanced(RecoveredJobs[j], j, "skipped")
                           [] OTHER -> RecoveredJobs[j]]
           /\ outbox' = Enqueued(outbox, ExpiredRuns \cup missed)
  BY DEF ClaimDueBatch
<1> DEFINE started == {DueRun(j) : j \in claim}
           missed  == {r \in {DueRun(j) : j \in skip} : runs[r].status = "absent"}
<1>2. \A j \in claim : j \in DueJobs /\ ~ Misfired(j) /\ runs[DueRun(j)].status = "absent"
  BY <1>1 DEF Visited
<1>3. \A j \in skip : j \in DueJobs /\ Misfired(j)
  BY <1>1 DEF Visited
<1>4. ASSUME NEW D \in SUBSET DueJobs, NEW r \in RunId
      PROVE  r \in {DueRun(j) : j \in D} <=> r.job \in D /\ IsDueRun(r)
  BY DueJob, RunIdFields DEF IsDueRun
<1>5. \A r \in RunId : r \in started <=> r.job \in claim /\ IsDueRun(r)
  BY <1>4
<1>6. \A r \in RunId :
        r \in missed <=> r.job \in skip /\ IsDueRun(r) /\ runs[r].status = "absent"
  BY <1>4
<1>7. \A r \in started : r \in RunId /\ runs[r].status = "absent"
  BY <1>2, DueJob
<1>8. missed = {r \in RunId : r.job \in skip /\ IsDueRun(r) /\ runs[r].status = "absent"}
  BY <1>6, DueJob
<1>9. claim \cap skip = {}
  BY <1>2, <1>3
<1>10. \A j \in Job : /\ j \in claim => jobs'[j] = Advanced(RecoveredJobs[j], j, "running")
                      /\ j \in skip => jobs'[j] = Advanced(RecoveredJobs[j], j, "skipped")
                      /\ j \notin claim \cup skip => jobs'[j] = RecoveredJobs[j]
  BY <1>1, <1>9
<1>11. /\ runs' = [r \in RunId |-> CASE r \in started -> Claimed(w)
                                     [] r \in missed  -> Skipped
                                     [] OTHER -> RecoveredRuns[r]]
       /\ born' = [r \in RunId |-> IF r \in started \cup missed THEN now ELSE born[r]]
       /\ outbox' = Enqueued(outbox, ExpiredRuns \cup missed)
  BY <1>1
<1> HIDE DEF started, missed
<1>12. \A r \in RunId :
         /\ r \in started => runs'[r] = Claimed(w)
         /\ r \in missed => r \notin started /\ runs'[r] = Skipped
         /\ r \in started \cup missed => born'[r] = now
         /\ r \notin started \cup missed => runs'[r] = RecoveredRuns[r] /\ born'[r] = born[r]
  <2>1. \A r \in RunId : ~ (r \in started /\ r \in missed)
    BY <1>5, <1>6, <1>9
  <2> QED
    BY <1>11, <2>1
<1>13. claim \subseteq Job /\ skip \subseteq Job
  BY DEF DueJobs
<1>14. BatchStep(w, claim, skip)
  <2>1. \A r \in RunId : r.job \in claim /\ IsDueRun(r)
          => runs[r].status = "absent" /\ runs'[r] = Claimed(w) /\ born'[r] = now
    BY <1>5, <1>7, <1>12
  <2>2. \A r \in RunId : r.job \in skip /\ IsDueRun(r) /\ runs[r].status = "absent"
          => runs'[r] = Skipped /\ born'[r] = now
    BY <1>5, <1>6, <1>9, <1>12
  <2>3. \A r \in RunId :
          ~ (IsDueRun(r) /\ r.job \in claim \cup skip /\ runs[r].status = "absent")
            => runs'[r] = RecoveredRuns[r] /\ born'[r] = born[r]
    BY <1>5, <1>6, <1>7, <1>12
  <2> QED
    BY <2>1, <2>2, <2>3, <1>8, <1>9, <1>10, <1>11, <1>13 DEF BatchStep
<1> QED
  BY <1>1, <1>14

-----------------------------------------------------------------------------
(***************************************************************************)
(* The kinds of steps: what each group of actions does to the rows.  The   *)
(* safety proofs split on these instead of on the twenty actions.          *)
(***************************************************************************)

SweepStep == Sweep /\ UNCHANGED <<now, born>>

\* A worker ends the run it owns.
CloseStep ==
  \E r \in RunId, status \in Terminal \ {"skipped"} :
    /\ runs[r].status = "running"
    /\ status \in {"succeeded", "failed"} => ~ runs[r].cancel
    /\ CloseRun(r, status)
    /\ UNCHANGED <<now, born>>

\* A lease is renewed or a cancellation is accepted.
TouchStep ==
  \E r \in RunId, row \in Running :
    /\ runs[r] \in Running
    /\ runs' = [runs EXCEPT ![r] = row]
    /\ UNCHANGED <<now, jobs, born, outbox>>

CreateStep == \E j \in Job, e \in BOOLEAN : CreateJob(j, e)
EnableStep == \E j \in Job, e \in BOOLEAN : SetEnabled(j, e)
RemoveStep == \E j \in Job : RemoveJob(j)
ManualStep == \E w \in Worker, j \in Job : ClaimManual(w, j)
ClaimStep ==
  \E w \in Worker, claim, skip \in SUBSET DueJobs :
    LeaseFits /\ BatchStep(w, claim, skip) /\ UNCHANGED now

\* How the row of a delivery moves.
DeliveryMove(d, e) ==
  \/ e = d
  \/ d.status = "pending" /\ e.status = "delivering" /\ e.safe
  \/ d.status = "delivering" /\ d.safe /\ e.status = "pending" /\ e.safe
  \/ d.status = "delivering" /\ d.safe /\ e.status = "delivering"
  \/ d.status = "delivering" /\ ~ d.safe /\ e.status = "delivering" /\ ~ e.safe
  \/ d.status = "delivering" /\ ~ d.safe /\ ~ e.safe
       /\ e.status \in {"delivered", "ambiguous"}
  \/ d.status = "delivering" /\ e.status = "failed"

OutboxStep ==
  /\ \A r \in RunId : DeliveryMove(outbox[r], outbox'[r])
  /\ UNCHANGED <<now, jobs, runs, born>>

IdleStep == now' \in Nat /\ now <= now' /\ UNCHANGED <<jobs, runs, born, outbox>>

StepKind ==
  \/ SweepStep \/ CloseStep \/ TouchStep \/ PruneRuns
  \/ CreateStep \/ EnableStep \/ RemoveStep
  \/ ManualStep \/ ClaimStep \/ OutboxStep \/ IdleStep

LEMMA OutboxSteps ==
  ASSUME TypeOK, UseOutbox
  PROVE  OutboxStep
<1>1. \A r \in RunId : DeliveryMove(outbox[r], RecoveredOutbox[r])
  <2>1. \A r \in RunId : RecoveredOutbox[r] =
          IF r \in ExpiredDeliveries THEN RecoveredDelivery(outbox[r]) ELSE outbox[r]
    BY DEF RecoveredOutbox
  <2>2. \A r \in ExpiredDeliveries :
          /\ outbox[r] \in Delivering
          /\ RecoveredDelivery(outbox[r]).safe = outbox[r].safe
          /\ RecoveredDelivery(outbox[r]).status =
               IF outbox[r].safe THEN "pending" ELSE "ambiguous"
    BY OutboxRows DEF ExpiredDeliveries, RecoveredDelivery, Delivering
  <2> QED
    BY <2>1, <2>2 DEF DeliveryMove, ExpiredDeliveries
<1>2. \A r \in RunId, w \in Worker :
        r \in Pending => DeliveryMove(outbox[r], Leased(RecoveredOutbox[r], w))
  <2> SUFFICES ASSUME NEW r \in Pending, NEW w \in Worker
               PROVE  DeliveryMove(outbox[r], Leased(RecoveredOutbox[r], w))
    OBVIOUS
  <2>1. /\ Leased(RecoveredOutbox[r], w).status = "delivering"
        /\ Leased(RecoveredOutbox[r], w).safe
    BY DEF Leased
  <2>2. RecoveredOutbox[r].status = "pending" /\ DeliveryMove(outbox[r], RecoveredOutbox[r])
    BY <1>1 DEF Pending
  <2> QED
    BY <2>1, <2>2 DEF DeliveryMove
<1>3. CASE RecoverExpiredDeliveries
  BY <1>3, <1>1 DEF RecoverExpiredDeliveries, OutboxStep
<1>4. ASSUME NEW w \in Worker, NEW limit, ClaimDeliveries(w, limit)
      PROVE  OutboxStep
  BY <1>4, <1>1, <1>2 DEF ClaimDeliveries, OutboxStep
<1>5. ASSUME NEW w \in Worker, NEW r \in RunId, ClaimDeliveryForRun(w, r)
      PROVE  OutboxStep
  <2>1. outbox' = [RecoveredOutbox EXCEPT ![r] =
          IF r \in Pending THEN Leased(RecoveredOutbox[r], w) ELSE RecoveredOutbox[r]]
    BY <1>5 DEF ClaimDeliveryForRun
  <2> QED
    BY <1>5, <1>1, <1>2, <2>1, OutboxRows DEF ClaimDeliveryForRun, OutboxStep
<1>6. ASSUME NEW w \in Worker, NEW r \in RunId,
             MarkDispatchStarted(w, r, outbox[r].attempt)
      PROVE  OutboxStep
  <2>1. outbox[r] \in Delivering
    BY <1>6, OutboxRows DEF MarkDispatchStarted, OwnsDelivery
  <2>2. DeliveryMove(outbox[r], [outbox[r] EXCEPT !.safe = FALSE])
    BY <2>1 DEF DeliveryMove, Delivering
  <2> QED
    BY <1>6, <2>2 DEF MarkDispatchStarted, OutboxStep, DeliveryMove, TypeOK
<1>7. ASSUME NEW w \in Worker, NEW r \in RunId,
             NEW s \in {"delivered", "failed", "ambiguous"},
             FinishDelivery(w, r, outbox[r].attempt, s)
      PROVE  OutboxStep
  <2>1. outbox[r] \in Delivering
    BY <1>7, OutboxRows DEF FinishDelivery, OwnsDelivery
  <2>2. DeliveryMove(outbox[r],
          [outbox[r] EXCEPT !.status = s, !.token = NoToken, !.lease = NoTime])
    BY <1>7, <2>1 DEF FinishDelivery, DeliveryMove, Delivering
  <2> QED
    BY <1>7, <2>2 DEF FinishDelivery, OutboxStep, DeliveryMove, TypeOK
<1> QED
  BY <1>3, <1>4, <1>5, <1>6, <1>7 DEF UseOutbox

\* Every action is a step of one of these kinds.
LEMMA Steps ==
  ASSUME TypeOK, [Next]_vars
  PROVE  StepKind
<1>1. CASE Administer
  <2>1. ASSUME NEW c, BeginCall(c) PROVE SweepStep
    BY <2>1 DEF BeginCall, SweepStep
  <2>2. ASSUME NEW c \in calls, FailCall(c) PROVE IdleStep
    BY <2>2 DEF FailCall, IdleStep, TypeOK
  <2>3. ASSUME NEW r \in RunId, RequestCancel(r) PROVE TouchStep
    <3>1. runs[r] \in Running
      BY <2>3, RowOfStatus DEF RequestCancel, TypeOK, RunRow
    <3>2. [runs[r] EXCEPT !.cancel = TRUE] \in Running
      BY <3>1 DEF Running
    <3> QED
      BY <2>3, <3>1, <3>2 DEF RequestCancel, TouchStep
  <2> QED
    BY <1>1, <2>1, <2>2, <2>3
       DEF Administer, StepKind, CreateStep, EnableStep, RemoveStep
<1>2. CASE UseRuns
  <2>1. CASE RecoverExpired
    BY <2>1 DEF RecoverExpired, SweepStep, StepKind
  <2>2. ASSUME NEW w \in Worker, NEW limit, ClaimDueBatch(w, limit)
        PROVE  ClaimStep
    BY <2>2, BatchSteps DEF ClaimStep, ClaimDueBatch
  <2>3. ASSUME NEW w \in Worker, NEW r \in RunId, RenewLease(w, r) PROVE TouchStep
    <3>1. runs[r] \in Running
      BY <2>3, RowOfStatus DEF RenewLease, OwnsRun, TypeOK, RunRow
    <3>2. now + Lease \in Time
      BY <2>3, LeaseEnd DEF RenewLease, TypeOK
    <3> DEFINE end == now + Lease
    <3>3. runs' = [runs EXCEPT ![r] = [runs[r] EXCEPT !.lease = end]]
      BY <2>3 DEF RenewLease
    <3> HIDE DEF end
    <3>4. end \in Time
      BY <3>2 DEF end
    <3>5. [runs[r] EXCEPT !.lease = end] \in Running
      BY <3>1, <3>4 DEF Running
    <3> QED
      BY <2>3, <3>1, <3>3, <3>5 DEF RenewLease, TouchStep
  <2>4. ASSUME NEW w \in Worker, NEW r \in RunId,
               NEW s \in {"succeeded", "failed", "cancelled"}, FinishRun(w, r, s)
        PROVE  CloseStep
    <3> DEFINE status == IF runs[r].cancel THEN "cancelled" ELSE s
    <3>1. /\ status \in Terminal \ {"skipped"}
          /\ status \in {"succeeded", "failed"} => ~ runs[r].cancel
      BY DEF Terminal
    <3>2. CloseRun(r, status) /\ runs[r].status = "running" /\ UNCHANGED <<now, born>>
      BY <2>4 DEF FinishRun, OwnsRun
    <3> HIDE DEF status
    <3> QED
      BY <3>1, <3>2 DEF CloseStep
  <2>5. ASSUME NEW w \in Worker, NEW r \in RunId, InterruptRun(w, r)
        PROVE  CloseStep
    BY <2>5 DEF InterruptRun, CloseStep, Terminal
  <2>6. \A limit \in 1..Cardinality(Job) : limit \in Nat
    OBVIOUS
  <2> QED
    BY <1>2, <2>1, <2>2, <2>3, <2>4, <2>5, <2>6 DEF UseRuns, StepKind, ManualStep
<1>3. CASE UseOutbox
  BY <1>3, OutboxSteps DEF StepKind
<1>4. CASE Tick
  BY <1>4 DEF Tick, IdleStep, TypeOK, StepKind
<1>5. CASE UNCHANGED vars
  BY <1>5 DEF vars, IdleStep, TypeOK, StepKind
<1> QED
  BY <1>1, <1>2, <1>3, <1>4, <1>5 DEF Next

-----------------------------------------------------------------------------
(***************************************************************************)
(* What the kinds of steps do to the status of each run                    *)
(***************************************************************************)

\* The sweep interrupts the expired runs and keeps every other row.
LEMMA SweptRows ==
  ASSUME TypeOK
  PROVE  /\ \A r \in RunId :
              IF r \in ExpiredRuns
              THEN /\ runs[r].status = "running"
                   /\ RecoveredRuns[r].status = "interrupted"
              ELSE RecoveredRuns[r] = runs[r]
         /\ \A j \in Job :
              /\ RecoveredJobs[j].state = jobs[j].state
              /\ RecoveredJobs[j].enabled = jobs[j].enabled
              /\ RecoveredJobs[j].next = jobs[j].next
              /\ IF \E r \in ExpiredRuns : r.job = j
                 THEN RecoveredJobs[j].last = "interrupted"
                 ELSE RecoveredJobs[j].last = jobs[j].last
<1>1. \A r \in ExpiredRuns : r \in RunId /\ runs[r].status = "running"
  BY DEF ExpiredRuns
<1>2. \A j \in Job : RecoveredJobs[j] =
        IF \E r \in ExpiredRuns : r.job = j
        THEN [jobs[j] EXCEPT !.last = "interrupted"] ELSE jobs[j]
  BY DEF RecoveredJobs
<1>3. \A j \in Job : jobs[j] \in JobRow
  BY DEF TypeOK
<1> QED
  BY <1>1, <1>2, <1>3, RecoveredTables DEF JobRow

\* A claimed row runs, a skipped one does not; neither has been cancelled.
LEMMA NewRows ==
  ASSUME now \in Time, NEW w \in Worker
  PROVE  /\ Claimed(w).status = "running" /\ ~ Claimed(w).cancel
         /\ Skipped.status = "skipped" /\ ~ Skipped.cancel
BY DEF Claimed, Skipped, NoRun

\* Closing a run changes that run and its job's summary.
LEMMA ClosedTables ==
  ASSUME TypeOK, NEW r \in RunId, runs[r].status = "running",
         NEW status \in Terminal, CloseRun(r, status)
  PROVE  /\ runs'[r].status = status /\ runs'[r].cancel = runs[r].cancel
         /\ \A s \in RunId : s # r => runs'[s] = runs[s]
         /\ \A j \in Job : /\ jobs'[j].state = jobs[j].state
                            /\ jobs'[j].enabled = jobs[j].enabled
                            /\ jobs'[j].next = jobs[j].next
                            /\ jobs'[j].last = IF j = r.job THEN status ELSE jobs[j].last
<1>1. runs[r] \in Running
  BY RowOfStatus DEF TypeOK, RunRow
<1>2. /\ Closed(runs[r], status).status = status
      /\ Closed(runs[r], status).cancel = runs[r].cancel
  BY <1>1, ClosedRow DEF TypeOK
<1>3. \A s \in RunId : runs'[s] = IF s = r THEN Closed(runs[r], status) ELSE runs[s]
  BY DEF CloseRun, TypeOK
<1>4. \A j \in Job : jobs'[j] =
        IF j = r.job THEN [jobs[j] EXCEPT !.last = status] ELSE jobs[j]
  BY RunIdFields DEF CloseRun, TypeOK
<1>5. \A j \in Job : jobs[j] \in JobRow
  BY DEF TypeOK
<1> QED
  BY <1>2, <1>3, <1>4, <1>5 DEF JobRow

-----------------------------------------------------------------------------
(***************************************************************************)
(* One running run per job                                                 *)
(***************************************************************************)
Exclusion == OneActiveRun /\ NoRunOfRemovedJob

\* A step that starts no run and removes no job keeps the exclusion.
LEMMA NoneStarted ==
  ASSUME Exclusion,
         \A r \in RunId : runs'[r].status = "running" => runs[r].status = "running",
         \A j \in Job : jobs[j].state = "live" => jobs'[j].state = "live"
  PROVE  Exclusion'
BY RunIdFields DEF Exclusion, OneActiveRun, NoRunOfRemovedJob, Active

LEMMA ExclusionStep ==
  ASSUME TypeOK, Exclusion, StepKind
  PROVE  Exclusion'
<1>1. CASE SweepStep
  BY <1>1, SweptRows, NoneStarted DEF SweepStep, Sweep
<1>2. CASE CloseStep
  <2>1. PICK r \in RunId, status \in Terminal \ {"skipped"} :
          runs[r].status = "running" /\ CloseRun(r, status)
    BY <1>2 DEF CloseStep
  <2>2. status # "running"
    BY DEF Terminal
  <2> QED
    BY <2>1, <2>2, ClosedTables, NoneStarted
<1>3. CASE TouchStep
  <2>1. PICK r \in RunId, row \in Running :
          runs[r] \in Running /\ runs' = [runs EXCEPT ![r] = row] /\ UNCHANGED jobs
    BY <1>3 DEF TouchStep
  <2>2. runs[r].status = "running" /\ row.status = "running"
    BY <2>1 DEF Running
  <2> QED
    BY <2>1, <2>2, NoneStarted DEF TypeOK
<1>4. CASE PruneRuns
  BY <1>4, NoneStarted DEF PruneRuns, NoRun
<1>5. CASE CreateStep
  <2>1. PICK j \in Job, e \in BOOLEAN : CreateJob(j, e)
    BY <1>5 DEF CreateStep
  <2> QED
    BY <2>1, NoneStarted DEF CreateJob, TypeOK
<1>6. CASE EnableStep
  <2>1. PICK j \in Job, e \in BOOLEAN : SetEnabled(j, e)
    BY <1>6 DEF EnableStep
  <2>2. jobs[j] \in JobRow /\ \A i \in Job : i # j => jobs'[i] = jobs[i]
    BY <2>1 DEF SetEnabled, TypeOK
  <2>3. jobs'[j].state = jobs[j].state
    BY <2>1, <2>2 DEF SetEnabled, JobRow, TypeOK
  <2> QED
    BY <2>1, <2>2, <2>3, NoneStarted DEF SetEnabled
<1>7. CASE RemoveStep
  <2>1. PICK j \in Job : RemoveJob(j)
    BY <1>7 DEF RemoveStep
  <2>2. \A i \in Job : i # j => jobs'[i] = jobs[i]
    BY <2>1 DEF RemoveJob, TypeOK
  <2> QED
    BY <2>1, <2>2 DEF RemoveJob, Exclusion, OneActiveRun, NoRunOfRemovedJob, Active
<1>8. CASE ManualStep
  <2>1. PICK w \in Worker, j \in Job : ClaimManual(w, j)
    BY <1>8 DEF ManualStep
  <2>2. PICK k \in 1..MaxManual : runs' = [runs EXCEPT ![ManualRun(j, k)] = Claimed(w)]
    BY <2>1 DEF ClaimManual
  <2>3. ManualRun(j, k) \in RunId /\ ManualRun(j, k).job = j
    BY ManualId
  <2>4. \A r \in RunId : r # ManualRun(j, k) => runs'[r] = runs[r]
    BY <2>2 DEF TypeOK
  <2>5. UNCHANGED jobs /\ jobs[j].state = "live" /\ ~ Active(runs, j)
    BY <2>1 DEF ClaimManual
  <2> QED
    BY <2>3, <2>4, <2>5 DEF Exclusion, OneActiveRun, NoRunOfRemovedJob, Active
<1>9. CASE ClaimStep
  <2>1. PICK w \in Worker, claim \in SUBSET DueJobs, skip \in SUBSET DueJobs :
          BatchStep(w, claim, skip)
    BY <1>9 DEF ClaimStep
  <2>2. \A j \in claim \cup skip : j \in DueJobs
    OBVIOUS
  <2>3. \A r \in RunId :
          runs'[r].status = "running"
            => \/ runs[r].status = "running" /\ RecoveredRuns[r].status = "running"
               \/ r.job \in claim /\ IsDueRun(r)
    <3>1. ASSUME NEW r \in RunId, runs'[r].status = "running",
                 IsDueRun(r), r.job \in claim \cup skip, runs[r].status = "absent"
          PROVE  r.job \in claim
      BY <2>1, <3>1, NewRows DEF BatchStep, TypeOK
    <3>2. ASSUME NEW r \in RunId, runs'[r].status = "running",
                 runs'[r] = RecoveredRuns[r]
          PROVE  runs[r].status = "running" /\ RecoveredRuns[r].status = "running"
      BY <3>2, SweptRows
    <3> QED
      BY <2>1, <3>1, <3>2 DEF BatchStep
  <2>4. \A j \in claim : ~ Active(RecoveredRuns, j) /\ jobs[j].state = "live"
    BY <2>2 DEF DueJobs
  <2>5. \A r, s \in RunId : IsDueRun(r) /\ IsDueRun(s) /\ r.job = s.job => r = s
    BY RunIdFields DEF IsDueRun
  <2>6. OneActiveRun'
    BY <2>3, <2>4, <2>5 DEF Exclusion, OneActiveRun, Active
  <2>7. \A j \in Job : jobs'[j].state = jobs[j].state
    <3>1. \A j \in claim \cup skip :
            /\ Advanced(RecoveredJobs[j], j, "running").state = jobs[j].state
            /\ Advanced(RecoveredJobs[j], j, "skipped").state = jobs[j].state
      <4> "running" \in RunStatus /\ "skipped" \in RunStatus
        BY DEF RunStatus, Terminal
      <4> QED
        BY <2>2, DueJob, AdvancedRow DEF TypeOK
    <3> QED
      BY <2>1, <3>1, SweptRows DEF BatchStep
  <2>8. NoRunOfRemovedJob'
    BY <2>3, <2>4, <2>7 DEF Exclusion, NoRunOfRemovedJob, Active
  <2> QED
    BY <2>6, <2>8 DEF Exclusion
<1>10. CASE OutboxStep
  BY <1>10, NoneStarted DEF OutboxStep
<1>11. CASE IdleStep
  BY <1>11, NoneStarted DEF IdleStep
<1> QED
  BY <1>1, <1>2, <1>3, <1>4, <1>5, <1>6, <1>7, <1>8, <1>9, <1>10, <1>11 DEF StepKind

\* However workers, users and recoveries interleave, a job never has two
\* running runs, and a removed job has none.
THEOREM ExclusionHolds == Spec => []Exclusion
<1>1. Init => Exclusion
  <2> HAVE Init
  <2>1. \A r \in RunId : runs[r].status # "running"
    BY DEF Init, NoRun
  <2> QED
    BY <2>1 DEF Exclusion, OneActiveRun, NoRunOfRemovedJob, Active
<1>2. TypeOK /\ Exclusion /\ [Next]_vars => Exclusion'
  BY Steps, ExclusionStep
<1> QED
  BY <1>1, <1>2, TypeCorrect, PTL DEF Spec

-----------------------------------------------------------------------------
(***************************************************************************)
(* Occurrences are claimed once, and missed ones are not replayed          *)
(***************************************************************************)
Punctual == RowsBorn /\ NextAhead /\ NoBackfill

\* A step that inserts no row, lets time pass and moves no schedule.
LEMMA NoneBorn ==
  ASSUME TypeOK, Punctual, UNCHANGED born, now' \in Nat, now <= now',
         \A r \in RunId : runs[r].status = "absent" => runs'[r].status = "absent",
         \A j \in Job : /\ jobs'[j].next = jobs[j].next
                        /\ jobs'[j].enabled = jobs[j].enabled
                        /\ jobs'[j].state = jobs[j].state
  PROVE  Punctual'
<1>1. RowsBorn'
  BY RunIdFields DEF Punctual, RowsBorn, TypeOK
<1>2. NextAhead'
  BY RunIdFields DEF Punctual, NextAhead
<1>3. NoBackfill'
  BY DEF Punctual, NoBackfill
<1> QED
  BY <1>1, <1>2, <1>3 DEF Punctual

\* A step that changes one job, to a schedule that only fires in the future
\* of every row of that job.
LEMMA OneRescheduled ==
  ASSUME TypeOK, TypeOK', Punctual, UNCHANGED <<now, runs, born>>, NEW j \in Job,
         \A i \in Job \ {j} : jobs'[i] = jobs[i],
         jobs'[j].enabled <=> jobs'[j].next # NoTime,
         jobs'[j].state \in {"live", "deleted"},
         jobs'[j].enabled => jobs'[j].state = "live",
         jobs'[j].enabled =>
           \A r \in RunId : r.job = j /\ born[r] # NoTime => jobs'[j].next > now
  PROVE  Punctual'
<1>1. RowsBorn'
  BY RunIdFields DEF Punctual, RowsBorn
<1>2. NextAhead'
  <2>1. ASSUME NEW r \in RunId, r.trigger = "scheduled", born[r] # NoTime,
               jobs'[r.job].enabled
        PROVE  born[r] < jobs'[r.job].next
    <3>1. CASE r.job = j
      <4>1. born[r] <= now /\ jobs'[j].next > now /\ born[r] \in Int /\ now \in Int
        BY <2>1, <3>1 DEF Punctual, RowsBorn, TypeOK
      <4>2. jobs'[j].next \in Int
        BY DEF TypeOK, JobRow
      <4> QED
        BY <3>1, <4>1, <4>2
    <3>2. CASE r.job # j
      BY <2>1, <3>2, RunIdFields DEF Punctual, NextAhead
    <3> QED
      BY <3>1, <3>2
  <2> QED
    BY <2>1 DEF Punctual, NextAhead
<1>3. NoBackfill'
  BY DEF Punctual, NoBackfill
<1> QED
  BY <1>1, <1>2, <1>3 DEF Punctual

LEMMA PunctualStep ==
  ASSUME TypeOK, TypeOK', Punctual, NoRunOfRemovedJob, StepKind
  PROVE  Punctual'
<1> USE DEF TypeOK
<1>1. CASE SweepStep
  BY <1>1, SweptRows, NoneBorn DEF SweepStep, Sweep
<1>2. CASE CloseStep
  <2>1. PICK r \in RunId, status \in Terminal \ {"skipped"} :
          /\ runs[r].status = "running" /\ CloseRun(r, status)
          /\ UNCHANGED <<now, born>>
    BY <1>2 DEF CloseStep
  <2> QED
    BY <2>1, ClosedTables, NoneBorn
<1>3. CASE TouchStep
  <2>1. PICK r \in RunId, row \in Running :
          /\ runs[r] \in Running /\ runs' = [runs EXCEPT ![r] = row]
          /\ UNCHANGED <<now, jobs, born>>
    BY <1>3 DEF TouchStep
  <2>2. runs[r].status = "running" /\ row.status = "running"
    BY <2>1 DEF Running
  <2> QED
    BY <2>1, <2>2, NoneBorn
<1>4. CASE PruneRuns
  BY <1>4, NoneBorn DEF PruneRuns, NoRun
<1>5. CASE CreateStep
  <2>1. PICK j \in Job, e \in BOOLEAN : CreateJob(j, e)
    BY <1>5 DEF CreateStep
  <2>2. \A r \in RunId : r.job = j => born[r] = NoTime
    BY <2>1 DEF CreateJob, Punctual, RowsBorn
  <2>3. PICK next \in Nat \cup {NoTime} :
          /\ e <=> next # NoTime
          /\ jobs' = [jobs EXCEPT ![j] =
               [state |-> "live", enabled |-> e, last |-> "absent", next |-> next]]
    BY <2>1, Created
  <2>4. /\ jobs'[j].state = "live" /\ jobs'[j].enabled = e
        /\ jobs'[j].next = next
    BY <2>3
  <2> QED
    BY <2>1, <2>2, <2>3, <2>4, OneRescheduled DEF CreateJob
<1>6. CASE EnableStep
  <2>1. PICK j \in Job, e \in BOOLEAN : SetEnabled(j, e)
    BY <1>6 DEF EnableStep
  <2>2. FirstFire(j) \in Nat /\ (e => FirstFire(j) > now)
    BY <2>1, FirstFireIsLater DEF FirstFire, SetEnabled
  <2>3. /\ jobs'[j].state = "live" /\ jobs'[j].enabled = e
        /\ jobs'[j].next = IF e THEN FirstFire(j) ELSE NoTime
    BY <2>1 DEF SetEnabled, JobRow
  <2> QED
    BY <2>1, <2>2, <2>3, OneRescheduled DEF SetEnabled
<1>7. CASE RemoveStep
  <2>1. PICK j \in Job : RemoveJob(j)
    BY <1>7 DEF RemoveStep
  <2>2. jobs'[j].state = "deleted" /\ ~ jobs'[j].enabled /\ jobs'[j].next = NoTime
    BY <2>1 DEF RemoveJob, JobRow
  <2> QED
    BY <2>1, <2>2, OneRescheduled DEF RemoveJob
<1>8. CASE ManualStep
  <2>1. PICK w \in Worker, j \in Job : ClaimManual(w, j)
    BY <1>8 DEF ManualStep
  <2>2. PICK k \in 1..MaxManual :
          /\ runs' = [runs EXCEPT ![ManualRun(j, k)] = Claimed(w)]
          /\ born' = [born EXCEPT ![ManualRun(j, k)] = now]
    BY <2>1 DEF ClaimManual
  <2> DEFINE m == ManualRun(j, k)
  <2>3. m \in RunId /\ m.job = j /\ m.trigger = "manual"
    BY ManualId
  <2>4. \A r \in RunId : r # m => runs'[r] = runs[r] /\ born'[r] = born[r]
    BY <2>2
  <2>5. UNCHANGED <<now, jobs>> /\ jobs[j].state = "live" /\ born'[m] = now
    BY <2>1, <2>2, <2>3 DEF ClaimManual
  <2> HIDE DEF m
  <2>6. RowsBorn'
    BY <2>3, <2>4, <2>5 DEF Punctual, RowsBorn
  <2>7. NextAhead'
    BY <2>3, <2>4, <2>5 DEF Punctual, NextAhead
  <2>8. NoBackfill'
    BY <2>3, <2>4 DEF Punctual, NoBackfill
  <2> QED
    BY <2>6, <2>7, <2>8 DEF Punctual
<1>9. CASE ClaimStep
  <2>1. PICK w \in Worker, claim \in SUBSET DueJobs, skip \in SUBSET DueJobs :
          BatchStep(w, claim, skip) /\ UNCHANGED now
    BY <1>9 DEF ClaimStep
  <2> DEFINE fresh == {r \in RunId : /\ r.job \in claim \cup skip /\ IsDueRun(r)
                                    /\ runs[r].status = "absent"}
  <2>2. /\ \A r \in fresh : born'[r] = now
        /\ \A r \in RunId \ fresh : born'[r] = born[r] /\ runs'[r] = RecoveredRuns[r]
    BY <2>1 DEF BatchStep
  <2>3. \A r \in fresh : /\ r \in RunId /\ r.trigger = "scheduled"
                         /\ r.key = jobs[r.job].next /\ r.key <= now
                         /\ jobs[r.job].enabled /\ r.job \in claim \cup skip
                         /\ jobs[r.job].state = "live"
    BY RunIdFields DEF IsDueRun, DueJobs
  <2>4. \A j \in claim \cup skip :
          /\ jobs'[j].state = jobs[j].state
          /\ jobs'[j].enabled <=> jobs'[j].next # NoTime
          /\ jobs'[j].next = NoTime \/ jobs'[j].next > now
    <3>1. "running" \in RunStatus /\ "skipped" \in RunStatus
      BY DEF RunStatus, Terminal
    <3> QED
      BY <2>1, <3>1, DueJob, AdvancedRow DEF BatchStep
  <2>5. \A j \in Job \ (claim \cup skip) :
          /\ jobs'[j].state = jobs[j].state /\ jobs'[j].enabled = jobs[j].enabled
          /\ jobs'[j].next = jobs[j].next
    BY <2>1, SweptRows DEF BatchStep
  <2> HIDE DEF fresh
  <2>6. \A r \in RunId \ fresh : runs[r].status = "absent" => runs'[r].status = "absent"
    BY <2>2, SweptRows
  <2>7. RowsBorn'
    BY <2>1, <2>2, <2>3, <2>4, <2>5, <2>6, RunIdFields DEF Punctual, RowsBorn
  <2>8. NextAhead'
    <3>1. \A j \in Job : jobs'[j].enabled <=> jobs'[j].next # NoTime
      BY <2>4, <2>5 DEF Punctual, NextAhead
    <3>2. \A j \in Job : jobs'[j].state # "live" => ~ jobs'[j].enabled
      <4>1. \A j \in claim \cup skip : jobs[j].state = "live"
        BY DEF DueJobs
      <4> QED
        BY <4>1, <2>4, <2>5 DEF Punctual, NextAhead
    <3>3. ASSUME NEW r \in RunId, r.trigger = "scheduled", born'[r] # NoTime,
                 jobs'[r.job].enabled
          PROVE  born'[r] < jobs'[r.job].next
      <4>1. CASE r.job \in claim \cup skip
        <5>1. jobs'[r.job].next > now
          BY <3>1, <3>3, <4>1, <2>4, RunIdFields
        <5>2. born'[r] <= now
          BY <2>2, <3>3 DEF Punctual, RowsBorn
        <5>3. jobs'[r.job].next \in Int /\ born'[r] \in Int /\ now \in Int
          BY RunIdFields DEF JobRow
        <5> QED
          BY <5>1, <5>2, <5>3
      <4>2. CASE r.job \notin claim \cup skip
        BY <3>3, <4>2, <2>2, <2>3, <2>5, RunIdFields DEF Punctual, NextAhead
      <4> QED
        BY <4>1, <4>2
    <3> QED
      BY <3>1, <3>2, <3>3 DEF NextAhead
  <2>9. NoBackfill'
    <3>1. ASSUME NEW r \in RunId, NEW s \in RunId,
                 r.trigger = "scheduled", s.trigger = "scheduled", r.job = s.job,
                 born'[r] # NoTime, born'[s] # NoTime, r.key < s.key
          PROVE  born'[r] < s.key
      <4>1. CASE s \in fresh
        <5>1. r \notin fresh
          BY <3>1, <4>1, <2>3, RunIdFields
        <5> QED
          BY <3>1, <4>1, <5>1, <2>2, <2>3 DEF Punctual, NextAhead
      <4>2. CASE s \notin fresh
        <5>1. s.key <= born[s] /\ born[s] # NoTime
          BY <3>1, <4>2, <2>2 DEF Punctual, RowsBorn
        <5>2. CASE r \in fresh
          <6>1. born[s] < r.key
            BY <3>1, <5>1, <5>2, <2>3 DEF Punctual, NextAhead
          <6> QED
            BY <3>1, <5>1, <6>1, RunIdFields
        <5>3. CASE r \notin fresh
          BY <3>1, <4>2, <5>3, <2>2 DEF Punctual, NoBackfill
        <5> QED
          BY <5>2, <5>3
      <4> QED
        BY <4>1, <4>2
    <3> QED
      BY <3>1 DEF NoBackfill
  <2> QED
    BY <2>7, <2>8, <2>9 DEF Punctual
<1>10. CASE OutboxStep
  BY <1>10, NoneBorn DEF OutboxStep
<1>11. CASE IdleStep
  BY <1>11, NoneBorn DEF IdleStep
<1> QED
  BY <1>1, <1>2, <1>3, <1>4, <1>5, <1>6, <1>7, <1>8, <1>9, <1>10, <1>11 DEF StepKind

\* An enabled job has a next occurrence that is later than every run row of
\* its schedule; the missed occurrences of a job give at most one run.
THEOREM PunctualHolds == Spec => []Punctual
<1>1. Init => Punctual
  BY RunIdFields DEF Init, Punctual, RowsBorn, NextAhead, NoBackfill, NoRun
<1>2. TypeOK /\ Exclusion /\ Punctual /\ [Next]_vars => Punctual'
  BY Steps, TypeStep, PunctualStep DEF Exclusion
<1> QED
  BY <1>1, <1>2, TypeCorrect, ExclusionHolds, PTL DEF Spec

\* Claiming is never stuck on a taken run id (EnabledJobCanFire).
THEOREM EnabledJobsFire == Spec => []EnabledJobCanFire
<1>1. TypeOK /\ Punctual => EnabledJobCanFire
  <2> SUFFICES ASSUME TypeOK, Punctual PROVE EnabledJobCanFire
    OBVIOUS
  <2>1. ASSUME NEW r \in RunId, r.trigger = "scheduled", born[r] # NoTime,
               jobs[r.job].enabled
        PROVE  r.key < jobs[r.job].next
    <3>1. r.key <= born[r] /\ born[r] < jobs[r.job].next
      BY <2>1 DEF Punctual, RowsBorn, NextAhead
    <3>2. r.key \in Int /\ born[r] \in Int /\ jobs[r.job].next \in Int
      BY RunIdFields DEF TypeOK, JobRow
    <3> QED
      BY <3>1, <3>2
  <2> QED
    BY <2>1 DEF EnabledJobCanFire, Punctual, NextAhead
<1> QED
  BY <1>1, TypeCorrect, PunctualHolds, PTL
\* However many users and workers claim, no job ever has two running runs.
THEOREM OneRunAtATime == Spec => []OneActiveRun
BY ExclusionHolds, PTL DEF Exclusion

\* However remove_job races with claims, a removed job has no running run.
THEOREM RemovedJobsAreIdle == Spec => []NoRunOfRemovedJob
BY ExclusionHolds, PTL DEF Exclusion

\* However long no worker ran, the missed occurrences of a job give at most
\* one run.
THEOREM MissedOnce == Spec => []NoBackfill
BY PunctualHolds, PTL DEF Punctual

-----------------------------------------------------------------------------
(***************************************************************************)
(* The summary in a job's row agrees with the runs table                   *)
(***************************************************************************)

\* A scheduled run of the job is running.
ScheduledRuns(j) ==
  \E r \in RunId : r.job = j /\ r.trigger = "scheduled" /\ runs[r].status = "running"

\* A step that keeps the summary of a job and the status of its runs, or
\* ends them and says so, keeps the summary honest.
LEMMA SummaryKept ==
  ASSUME JobSummaryHonest, NEW j \in Job,
         \/ /\ jobs'[j].last = jobs[j].last
            /\ \A r \in RunId : r.job = j =>
                 (runs'[r].status = "running" <=> runs[r].status = "running")
         \/ /\ jobs'[j].last # "running"
            /\ \A r \in RunId : r.job = j /\ r.trigger = "scheduled"
                 => runs'[r].status # "running"
  PROVE  jobs'[j].last = "running" <=> ScheduledRuns(j)'
BY DEF JobSummaryHonest, ScheduledRuns

\* The sweep interrupts the one running run of a job, and says so.
LEMMA SummarySwept ==
  ASSUME TypeOK, Exclusion, NEW j \in Job
  PROVE  \/ /\ RecoveredJobs[j].last = jobs[j].last
            /\ \A r \in RunId : r.job = j =>
                 (RecoveredRuns[r].status = "running" <=> runs[r].status = "running")
         \/ /\ RecoveredJobs[j].last # "running"
            /\ \A r \in RunId : r.job = j => RecoveredRuns[r].status # "running"
<1>1. CASE \E r \in ExpiredRuns : r.job = j
  <2>1. PICK r \in ExpiredRuns : r.job = j
    BY <1>1
  <2>2. r \in RunId /\ runs[r].status = "running" /\ RecoveredRuns[r].status = "interrupted"
    BY <2>1, SweptRows DEF ExpiredRuns
  <2>3. \A s \in RunId : s.job = j /\ s # r => runs[s].status # "running"
    BY <2>1, <2>2 DEF Exclusion, OneActiveRun
  <2>4. \A s \in RunId : s.job = j => RecoveredRuns[s].status # "running"
    BY <2>2, <2>3, SweptRows
  <2> QED
    BY <1>1, <2>4, SweptRows
<1>2. CASE ~ \E r \in ExpiredRuns : r.job = j
  BY <1>2, SweptRows
<1> QED
  BY <1>1, <1>2

LEMMA SummaryStep ==
  ASSUME TypeOK, TypeOK', Exclusion, Punctual, JobSummaryHonest, StepKind
  PROVE  JobSummaryHonest'
<1> SUFFICES ASSUME NEW j \in Job
             PROVE  jobs'[j].last = "running" <=> ScheduledRuns(j)'
  BY DEF JobSummaryHonest, ScheduledRuns
<1> USE DEF TypeOK
<1>1. CASE SweepStep
  BY <1>1, SummarySwept, SummaryKept DEF SweepStep, Sweep
<1>2. CASE CloseStep
  <2>1. PICK r \in RunId, status \in Terminal \ {"skipped"} :
          runs[r].status = "running" /\ CloseRun(r, status)
    BY <1>2 DEF CloseStep
  <2>2. status # "running"
    BY DEF Terminal
  <2>3. \A s \in RunId : s.job = r.job /\ s # r => runs[s].status # "running"
    BY <2>1 DEF Exclusion, OneActiveRun
  <2> QED
    BY <2>1, <2>2, <2>3, ClosedTables, SummaryKept
<1>3. CASE TouchStep
  <2>1. PICK r \in RunId, row \in Running :
          runs[r] \in Running /\ runs' = [runs EXCEPT ![r] = row] /\ UNCHANGED jobs
    BY <1>3 DEF TouchStep
  <2>2. runs[r].status = "running" /\ row.status = "running"
    BY <2>1 DEF Running
  <2> QED
    BY <2>1, <2>2, SummaryKept
<1>4. CASE PruneRuns
  <2>1. \A r \in Prunable : r \in RunId /\ runs[r].status # "running"
    BY DEF Prunable, Terminal
  <2> QED
    BY <1>4, <2>1, SummaryKept DEF PruneRuns, NoRun
<1>5. CASE CreateStep
  <2>1. PICK i \in Job, e \in BOOLEAN : CreateJob(i, e)
    BY <1>5 DEF CreateStep
  <2>2. PICK next \in Nat \cup {NoTime} :
          jobs' = [jobs EXCEPT ![i] =
            [state |-> "live", enabled |-> e, last |-> "absent", next |-> next]]
    BY <2>1, Created
  <2>3. jobs'[i].last = "absent" /\ \A k \in Job \ {i} : jobs'[k] = jobs[k]
    BY <2>2
  <2>4. \A r \in RunId : r.job = i => runs[r].status # "running"
    BY <2>1 DEF CreateJob, Exclusion, NoRunOfRemovedJob, Active
  <2> QED
    BY <2>1, <2>3, <2>4, SummaryKept DEF CreateJob
<1>6. CASE EnableStep
  <2>1. PICK i \in Job, e \in BOOLEAN : SetEnabled(i, e)
    BY <1>6 DEF EnableStep
  <2>2. \A k \in Job : jobs'[k].last = jobs[k].last
    BY <2>1 DEF SetEnabled, JobRow
  <2> QED
    BY <2>1, <2>2, SummaryKept DEF SetEnabled
<1>7. CASE RemoveStep
  <2>1. PICK i \in Job : RemoveJob(i)
    BY <1>7 DEF RemoveStep
  <2>2. \A k \in Job : jobs'[k].last = jobs[k].last
    BY <2>1 DEF RemoveJob, JobRow
  <2> QED
    BY <2>1, <2>2, SummaryKept DEF RemoveJob
<1>8. CASE ManualStep
  <2>1. PICK w \in Worker, i \in Job : ClaimManual(w, i)
    BY <1>8 DEF ManualStep
  <2>2. PICK k \in 1..MaxManual : runs' = [runs EXCEPT ![ManualRun(i, k)] = Claimed(w)]
    BY <2>1 DEF ClaimManual
  <2>3. \A r \in RunId : r.trigger = "scheduled" => runs'[r] = runs[r]
    BY <2>2, ManualId
  <2> QED
    BY <2>1, <2>3 DEF ClaimManual, JobSummaryHonest, ScheduledRuns
<1>9. CASE ClaimStep
  <2>1. PICK w \in Worker, claim \in SUBSET DueJobs, skip \in SUBSET DueJobs :
          BatchStep(w, claim, skip) /\ UNCHANGED now
    BY <1>9 DEF ClaimStep
  <2>2. "running" \in RunStatus /\ "skipped" \in RunStatus
    BY DEF RunStatus, Terminal
  <2>3. CASE j \in claim
    <3>1. jobs'[j].last = "running"
      BY <2>1, <2>2, <2>3, DueJob, AdvancedRow DEF BatchStep
    <3>2. /\ DueRun(j) \in RunId /\ DueRun(j).job = j
          /\ DueRun(j).trigger = "scheduled" /\ IsDueRun(DueRun(j))
      BY <2>3, DueJob DEF IsDueRun
    <3>3. runs'[DueRun(j)].status = "running"
      BY <2>1, <2>3, <3>2, NewRows DEF BatchStep
    <3> QED
      BY <3>1, <3>2, <3>3 DEF ScheduledRuns
  <2>4. CASE j \in skip
    <3>1. jobs'[j].last = "skipped"
      BY <2>1, <2>2, <2>4, DueJob, AdvancedRow DEF BatchStep
    <3>2. j \notin claim /\ ~ Active(RecoveredRuns, j)
      BY <2>1, <2>4 DEF BatchStep, DueJobs
    <3>3. \A r \in RunId : r.job = j => runs'[r].status # "running"
      BY <2>1, <2>4, <3>2, NewRows DEF BatchStep, Active
    <3> QED
      BY <3>1, <3>3, SummaryKept
  <2>5. CASE j \notin claim \cup skip
    <3>1. jobs'[j] = RecoveredJobs[j]
      BY <2>1, <2>5 DEF BatchStep
    <3>2. \A r \in RunId : r.job = j => runs'[r] = RecoveredRuns[r]
      BY <2>1, <2>5 DEF BatchStep
    <3> QED
      BY <3>1, <3>2, SummarySwept, SummaryKept
  <2> QED
    BY <2>3, <2>4, <2>5
<1>10. CASE OutboxStep
  BY <1>10, SummaryKept DEF OutboxStep
<1>11. CASE IdleStep
  BY <1>11, SummaryKept DEF IdleStep
<1> QED
  BY <1>1, <1>2, <1>3, <1>4, <1>5, <1>6, <1>7, <1>8, <1>9, <1>10, <1>11 DEF StepKind

\* What a user is shown of a job is what the runs table says: its row reads
\* "running" exactly while a scheduled run of it runs, whichever sweep,
\* claim or end of a run wrote it last.
THEOREM SummariesAgree == Spec => []JobSummaryHonest
<1>1. Init => JobSummaryHonest
  BY DEF Init, JobSummaryHonest, NoRun
<1>2. TypeOK /\ Exclusion /\ Punctual /\ JobSummaryHonest /\ [Next]_vars => JobSummaryHonest'
  BY Steps, TypeStep, SummaryStep
<1> QED
  BY <1>1, <1>2, TypeCorrect, ExclusionHolds, PunctualHolds, PTL DEF Spec

-----------------------------------------------------------------------------
(***************************************************************************)
(* How each run moves in any step                                          *)
(***************************************************************************)
RunMove(r) ==
  \/ /\ runs'[r].status = runs[r].status
     /\ runs[r].status \in Terminal => runs'[r].cancel = runs[r].cancel
     /\ born'[r] = born[r]
  \/ /\ runs[r].status = "absent" /\ born[r] = NoTime
     /\ runs'[r].status \in {"running", "skipped"} /\ ~ runs'[r].cancel
     /\ born'[r] # NoTime
  \/ /\ runs[r].status = "running"
     /\ runs'[r].status \in Terminal \ {"skipped"}
     /\ runs'[r].status \in {"succeeded", "failed"} => ~ runs'[r].cancel
     /\ born'[r] = born[r]
  \/ /\ runs[r].status \in Terminal
     /\ runs'[r].status = "absent" /\ born'[r] = born[r]
     /\ outbox[r].status \notin Unsettled

LEMMA RunMoves ==
  ASSUME TypeOK, TypeOK', Punctual, StepKind
  PROVE  \A r \in RunId : RunMove(r)
<1> USE DEF TypeOK
<1>1. CASE UNCHANGED <<runs, born>>
  BY <1>1 DEF RunMove
<1>2. CASE SweepStep
  <2>1. "interrupted" \in Terminal \ {"skipped"}
    BY DEF Terminal
  <2> QED
    BY <1>2, <2>1, SweptRows DEF SweepStep, Sweep, RunMove
<1>3. CASE CloseStep
  <2>1. PICK r \in RunId, status \in Terminal \ {"skipped"} :
          /\ runs[r].status = "running" /\ CloseRun(r, status)
          /\ status \in {"succeeded", "failed"} => ~ runs[r].cancel
          /\ UNCHANGED <<now, born>>
    BY <1>3 DEF CloseStep
  <2> QED
    BY <2>1, ClosedTables DEF RunMove
<1>4. CASE TouchStep
  <2>1. PICK r \in RunId, row \in Running :
          /\ runs[r] \in Running /\ runs' = [runs EXCEPT ![r] = row]
          /\ UNCHANGED <<now, jobs, born>>
    BY <1>4 DEF TouchStep
  <2>2. runs[r].status = "running" /\ row.status = "running" /\ "running" \notin Terminal
    BY <2>1 DEF Running, Terminal
  <2> QED
    BY <2>1, <2>2 DEF RunMove
<1>5. CASE PruneRuns
  BY <1>5 DEF PruneRuns, Prunable, NoRun, RunMove
<1>6. CASE ManualStep
  <2>1. PICK w \in Worker, j \in Job : ClaimManual(w, j)
    BY <1>6 DEF ManualStep
  <2>2. PICK k \in 1..MaxManual :
          /\ born[ManualRun(j, k)] = NoTime
          /\ runs' = [runs EXCEPT ![ManualRun(j, k)] = Claimed(w)]
          /\ born' = [born EXCEPT ![ManualRun(j, k)] = now]
    BY <2>1 DEF ClaimManual
  <2>3. runs[ManualRun(j, k)].status = "absent"
    BY <2>2, ManualId DEF Punctual, RowsBorn
  <2> QED
    BY <2>2, <2>3, NewRows, ManualId DEF RunMove
<1>7. CASE ClaimStep
  <2>1. PICK w \in Worker, claim \in SUBSET DueJobs, skip \in SUBSET DueJobs :
          BatchStep(w, claim, skip) /\ UNCHANGED now
    BY <1>7 DEF ClaimStep
  <2>2. ASSUME NEW r \in RunId, IsDueRun(r), r.job \in claim \cup skip,
               runs[r].status = "absent"
        PROVE  RunMove(r)
    <3>1. /\ runs'[r].status \in {"running", "skipped"} /\ ~ runs'[r].cancel
          /\ born'[r] = now
      BY <2>1, <2>2, NewRows DEF BatchStep
    <3>2. jobs[r.job].enabled /\ r.key <= now
      BY <2>2 DEF DueJobs, IsDueRun
    <3>3. born[r] = NoTime
      <4> SUFFICES ASSUME born[r] # NoTime PROVE FALSE
        OBVIOUS
      <4>1. r.key <= born[r] /\ born[r] < jobs[r.job].next
        BY <2>2, <3>2 DEF Punctual, RowsBorn, NextAhead, IsDueRun
      <4>2. r.key \in Int /\ born[r] \in Int
        BY RunIdFields
      <4> QED
        BY <2>2, <4>1, <4>2 DEF IsDueRun
    <3> QED
      BY <2>2, <3>1, <3>3 DEF RunMove
  <2>3. ASSUME NEW r \in RunId, runs'[r] = RecoveredRuns[r], born'[r] = born[r]
        PROVE  RunMove(r)
    <3>1. "interrupted" \in Terminal \ {"skipped"}
      BY DEF Terminal
    <3> QED
      BY <2>3, <3>1, SweptRows DEF RunMove
  <2> QED
    BY <2>1, <2>2, <2>3 DEF BatchStep
<1>8. CreateStep \/ EnableStep \/ RemoveStep \/ OutboxStep \/ IdleStep
        => UNCHANGED <<runs, born>>
  BY DEF CreateStep, EnableStep, RemoveStep, OutboxStep, IdleStep,
         CreateJob, SetEnabled, RemoveJob
<1> QED
  BY <1>1, <1>2, <1>3, <1>4, <1>5, <1>6, <1>7, <1>8 DEF StepKind

-----------------------------------------------------------------------------
(***************************************************************************)
(* An accepted cancellation wins                                           *)
(***************************************************************************)

\* A cancellation that was accepted is never followed by a run recorded as
\* succeeded or failed (finish_run reads the flag in its own transaction).
THEOREM CancelWinsHolds == Spec => []CancelWins
<1>1. Init => CancelWins
  BY DEF Init, CancelWins, NoRun
<1>2. TypeOK /\ Punctual /\ CancelWins /\ [Next]_vars => CancelWins'
  <2> SUFFICES ASSUME TypeOK, Punctual, CancelWins, [Next]_vars
               PROVE  CancelWins'
    OBVIOUS
  <2>1. \A r \in RunId : RunMove(r)
    BY Steps, TypeStep, RunMoves
  <2>2. {"succeeded", "failed"} \subseteq Terminal
    BY DEF Terminal
  <2> QED
    BY <2>1, <2>2 DEF CancelWins, RunMove
<1> QED
  BY <1>1, <1>2, TypeCorrect, PunctualHolds, PTL DEF Spec

-----------------------------------------------------------------------------
(***************************************************************************)
(* How each delivery moves in any step                                     *)
(***************************************************************************)
BoxInvariant == OutboxComplete /\ FencedDelivery

\* A delivery is queued with the end of its run, goes with its run, or moves
\* while its run stays.
BoxMove(r) ==
  IF runs[r].status \in Terminal
  THEN IF runs'[r].status = "absent"
       THEN outbox'[r].status = "absent" /\ outbox[r].status \notin Unsettled
       ELSE DeliveryMove(outbox[r], outbox'[r])
  ELSE IF runs'[r].status \in Terminal /\ r.job \in Webhook
       THEN outbox'[r].status = "pending" /\ outbox'[r].safe
       ELSE outbox'[r] = outbox[r] \/ outbox'[r].status = "absent"

\* The runs of S end and are queued, the other runs do not end.
Ending(S) ==
  /\ outbox' = Enqueued(outbox, S)
  /\ \A r \in S : runs[r].status \notin Terminal /\ runs'[r].status \in Terminal
  /\ \A r \in RunId \ S :
       \/ runs'[r].status = runs[r].status
       \/ runs'[r].status \notin Terminal /\ runs[r].status \notin Terminal

LEMMA QueuedBox ==
  ASSUME TypeOK, BoxInvariant, NEW S \in SUBSET RunId, Ending(S)
  PROVE  \A r \in RunId : BoxMove(r)
<1> USE DEF Ending
<1>1. \A r \in S : outbox[r].status = "absent"
  BY DEF BoxInvariant, OutboxComplete
<1>2. \A r \in RunId : outbox'[r] = IF r \in S /\ r.job \in Webhook
                                   THEN [NoDelivery EXCEPT !.status = "pending"]
                                   ELSE outbox[r]
  BY <1>1, EnqueuedBox DEF TypeOK, BoxRow
<1>3. [NoDelivery EXCEPT !.status = "pending"].status = "pending"
      /\ [NoDelivery EXCEPT !.status = "pending"].safe
  BY DEF NoDelivery
<1>4. "absent" \notin Terminal
  BY DEF Terminal
<1> QED
  BY <1>1, <1>2, <1>3, <1>4 DEF BoxMove, DeliveryMove

LEMMA BoxMoves ==
  ASSUME TypeOK, Punctual, BoxInvariant, StepKind
  PROVE  \A r \in RunId : BoxMove(r)
<1>a. "absent" \notin Terminal /\ "running" \notin Terminal /\ "interrupted" \in Terminal
      /\ "skipped" \in Terminal
  BY DEF Terminal
<1>1. CASE OutboxStep
  BY <1>1, <1>a DEF OutboxStep, BoxMove, BoxInvariant, OutboxComplete, DeliveryMove
<1>2. CASE SweepStep
  <2>1. outbox' = Enqueued(outbox, ExpiredRuns) /\ runs' = RecoveredRuns
    BY <1>2 DEF SweepStep, Sweep
  <2>2. ExpiredRuns \in SUBSET RunId
    BY DEF ExpiredRuns
  <2>3. \A r \in ExpiredRuns : runs[r].status \notin Terminal /\ runs'[r].status \in Terminal
    BY <2>1, <2>2, <1>a, SweptRows
  <2>4. \A r \in RunId \ ExpiredRuns : runs'[r].status = runs[r].status
    BY <2>1, SweptRows
  <2> QED
    <3> Ending(ExpiredRuns)
      BY <2>1, <2>3, <2>4 DEF Ending
    <3> QED
      BY <2>2, QueuedBox
<1>3. CASE CloseStep
  <2>1. PICK r \in RunId, status \in Terminal \ {"skipped"} :
          runs[r].status = "running" /\ CloseRun(r, status)
    BY <1>3 DEF CloseStep
  <2>2. outbox' = Enqueued(outbox, {r})
    BY <2>1 DEF CloseRun
  <2>3. \A s \in {r} : runs[s].status \notin Terminal /\ runs'[s].status \in Terminal
    BY <2>1, <1>a, ClosedTables
  <2>4. \A s \in RunId \ {r} : runs'[s].status = runs[s].status
    BY <2>1, ClosedTables
  <2>5. {r} \in SUBSET RunId
    OBVIOUS
  <2> QED
    <3> Ending({r})
      BY <2>2, <2>3, <2>4 DEF Ending
    <3> QED
      BY <2>5, QueuedBox
<1>4. CASE TouchStep
  <2>1. PICK r \in RunId, row \in Running :
          /\ runs[r] \in Running /\ runs' = [runs EXCEPT ![r] = row]
          /\ UNCHANGED outbox
    BY <1>4 DEF TouchStep
  <2>2. runs[r].status = "running" /\ row.status = "running"
    BY <2>1 DEF Running
  <2> QED
    BY <2>1, <2>2, <1>a DEF BoxMove, DeliveryMove, TypeOK
<1>5. CASE PruneRuns
  BY <1>5, <1>a DEF PruneRuns, Prunable, NoRun, NoDelivery, BoxMove, DeliveryMove
<1>6. CASE ManualStep
  <2>1. PICK w \in Worker, j \in Job : ClaimManual(w, j)
    BY <1>6 DEF ManualStep
  <2>2. PICK k \in 1..MaxManual :
          /\ born[ManualRun(j, k)] = NoTime
          /\ runs' = [runs EXCEPT ![ManualRun(j, k)] = Claimed(w)]
    BY <2>1 DEF ClaimManual
  <2>3. UNCHANGED outbox
    BY <2>1 DEF ClaimManual
  <2>4. Claimed(w).status \notin Terminal
    BY <1>a, NewRows DEF TypeOK
  <2>5. \A r \in RunId : runs'[r] = runs[r] \/ runs'[r].status \notin Terminal
    BY <2>2, <2>4, ManualId DEF TypeOK
  <2>6. \A r \in RunId : runs[r].status \in Terminal => runs'[r] = runs[r]
    <3>1. runs[ManualRun(j, k)].status = "absent"
      BY <2>2, ManualId DEF Punctual, RowsBorn
    <3> QED
      BY <2>2, <3>1, <1>a DEF TypeOK
  <2> QED
    BY <2>3, <2>5, <2>6, <1>a DEF BoxMove, DeliveryMove
<1>7. CASE ClaimStep
  <2>1. PICK w \in Worker, claim \in SUBSET DueJobs, skip \in SUBSET DueJobs :
          BatchStep(w, claim, skip) /\ UNCHANGED now
    BY <1>7 DEF ClaimStep
  <2> DEFINE missed == {r \in RunId : r.job \in skip /\ IsDueRun(r)
                                       /\ runs[r].status = "absent"}
             S == ExpiredRuns \cup missed
  <2>2. outbox' = Enqueued(outbox, S)
    BY <2>1 DEF BatchStep
  <2>3. S \in SUBSET RunId
    BY DEF ExpiredRuns
  <2>4. \A r \in missed : runs[r].status \notin Terminal /\ runs'[r].status \in Terminal
    BY <2>1, <1>a, NewRows DEF BatchStep, TypeOK
  <2>5. \A r \in ExpiredRuns : runs[r].status \notin Terminal /\ runs'[r].status \in Terminal
    BY <2>1, <1>a, SweptRows DEF BatchStep, ExpiredRuns
  <2>6. \A r \in RunId \ S :
          \/ runs'[r].status = runs[r].status
          \/ runs'[r].status \notin Terminal /\ runs[r].status \notin Terminal
    BY <2>1, <1>a, NewRows, SweptRows DEF BatchStep, TypeOK
  <2> HIDE DEF S, missed
  <2>7. \A r \in S : runs[r].status \notin Terminal /\ runs'[r].status \in Terminal
    BY <2>4, <2>5 DEF S
  <2> QED
    <3> Ending(S)
      BY <2>2, <2>6, <2>7 DEF Ending
    <3> QED
      BY <2>3, QueuedBox
<1>8. ASSUME UNCHANGED <<runs, outbox>> PROVE \A r \in RunId : BoxMove(r)
  BY <1>8, <1>a DEF BoxMove, DeliveryMove
<1>9. CreateStep \/ EnableStep \/ RemoveStep \/ IdleStep => UNCHANGED <<runs, outbox>>
  BY DEF CreateStep, EnableStep, RemoveStep, IdleStep, CreateJob, SetEnabled, RemoveJob
<1> QED
  BY <1>1, <1>2, <1>3, <1>4, <1>5, <1>6, <1>7, <1>8, <1>9 DEF StepKind

\* The outbox invariant is inductive, given how runs and deliveries move.
LEMMA BoxInvariantStep ==
  ASSUME TypeOK, TypeOK', Punctual, BoxInvariant, StepKind
  PROVE  BoxInvariant'
<1> SUFFICES ASSUME NEW r \in RunId
             PROVE  /\ outbox'[r].status # "absent"
                         <=> r.job \in Webhook /\ runs'[r].status \in Terminal
                    /\ outbox'[r].status = "pending" => outbox'[r].safe
                    /\ outbox'[r].status \in {"delivered", "ambiguous"}
                         => ~ outbox'[r].safe
  BY DEF BoxInvariant, OutboxComplete, FencedDelivery
<1>1. RunMove(r) /\ BoxMove(r)
  BY RunMoves, BoxMoves
<1>2. /\ outbox[r].status # "absent"
           <=> r.job \in Webhook /\ runs[r].status \in Terminal
      /\ outbox[r].status = "pending" => outbox[r].safe
      /\ outbox[r].status \in {"delivered", "ambiguous"} => ~ outbox[r].safe
  BY DEF BoxInvariant, OutboxComplete, FencedDelivery
<1>3. "absent" \notin Terminal /\ "running" \notin Terminal
  BY DEF Terminal
<1>4. CASE runs[r].status \in Terminal
  <2>1. CASE runs'[r].status = "absent"
    BY <1>1, <1>3, <1>4, <2>1 DEF BoxMove
  <2>2. CASE runs'[r].status # "absent"
    <3>1. runs'[r].status = runs[r].status
      BY <1>1, <1>3, <1>4, <2>2 DEF RunMove, Terminal
    <3>2. DeliveryMove(outbox[r], outbox'[r])
      BY <1>1, <1>4, <2>2 DEF BoxMove
    <3> QED
      BY <1>2, <3>1, <3>2 DEF DeliveryMove
  <2> QED
    BY <2>1, <2>2
<1>5. CASE runs[r].status \notin Terminal
  BY <1>1, <1>2, <1>5 DEF BoxMove
<1> QED
  BY <1>4, <1>5

\* Every terminal run of a job with a webhook, and no other run, has a
\* delivery; a delivery that may have been posted is never pending again.
THEOREM OutboxHolds == Spec => []BoxInvariant
<1>1. Init => BoxInvariant
  BY DEF Init, BoxInvariant, OutboxComplete, FencedDelivery, NoRun, NoDelivery, Terminal
<1>2. TypeOK /\ Punctual /\ BoxInvariant /\ [Next]_vars => BoxInvariant'
  BY Steps, TypeStep, BoxInvariantStep
<1> QED
  BY <1>1, <1>2, TypeCorrect, PunctualHolds, PTL DEF Spec

\* Every way a run can end queues its notification in the same transaction.
THEOREM OutboxAlwaysComplete == Spec => []OutboxComplete
BY OutboxHolds, PTL DEF BoxInvariant

\* A delivery whose fence is down is never pending again, and none is
\* recorded as made while its fence is up.
THEOREM FenceRespected == Spec => []FencedDelivery
BY OutboxHolds, PTL DEF BoxInvariant

-----------------------------------------------------------------------------
(***************************************************************************)
(* The ledger                                                              *)
(***************************************************************************)
LedgerInvariant == TypeOK /\ Exclusion /\ Punctual /\ BoxInvariant

LEMMA LedgerInit == Init => Ledger!Init
<1> HAVE Init
<1>1. Phase = [r \in RunId |-> "due"]
  BY DEF Init, Phase, NoRun
<1>2. Notice = [r \in RunId |-> "none"]
  BY DEF Init, Notice, NoDelivery
<1> QED
  BY <1>1, <1>2 DEF Ledger!Init

\* The phase of a run by its row.
LEMMA PhaseOf ==
  ASSUME TypeOK, RowsBorn, NEW r \in RunId
  PROVE  /\ runs[r].status # "absent" => Phase[r] = runs[r].status
         /\ runs[r].status = "absent" =>
              Phase[r] = IF born[r] = NoTime THEN "due" ELSE "forgotten"
         /\ Phase[r] = "running" <=> runs[r].status = "running"
         /\ Phase[r] \in Terminal <=> runs[r].status \in Terminal
BY DEF Phase, Terminal

LEMMA NoticeOf ==
  ASSUME TypeOK, NEW r \in RunId
  PROVE  /\ outbox[r].status = "absent" => Notice[r] = "none"
         /\ outbox[r].status = "pending" => Notice[r] = "owed"
         /\ outbox[r].status = "delivering" =>
              Notice[r] = IF outbox[r].safe THEN "held" ELSE "posting"
         /\ outbox[r].status \in {"delivered", "failed", "ambiguous"}
              => Notice[r] = "settled"
         /\ outbox[r].status \in {"absent", "pending", "delivering"} \cup Settled
<1>1. outbox[r].status \in
        {"absent", "pending", "delivering", "delivered", "failed", "ambiguous"}
  BY DEF TypeOK, Delivering, Waiting, Settled
<1>2. Notice[r] = CASE outbox[r].status = "absent"     -> "none"
                    [] outbox[r].status = "pending"    -> "owed"
                    [] outbox[r].status = "delivering" ->
                         IF outbox[r].safe THEN "held" ELSE "posting"
                    [] OTHER -> "settled"
  BY DEF Notice
<1> QED
  BY <1>1, <1>2 DEF Settled

LEMMA LedgerStep ==
  ASSUME LedgerInvariant, LedgerInvariant', StepKind
  PROVE  Ledger!Next
<1> USE DEF LedgerInvariant
<1>1. ASSUME NEW r \in RunId
      PROVE  Ledger!PhaseStep(Phase[r], Phase'[r])
  <2>1. RunMove(r)
    BY RunMoves
  <2>2. /\ runs[r].status # "absent" => Phase[r] = runs[r].status
        /\ runs[r].status = "absent" =>
              Phase[r] = IF born[r] = NoTime THEN "due" ELSE "forgotten"
    BY PhaseOf DEF Punctual
  <2>3. /\ runs'[r].status # "absent" => Phase'[r] = runs'[r].status
        /\ runs'[r].status = "absent" =>
              Phase'[r] = IF born'[r] = NoTime THEN "due" ELSE "forgotten"
    BY DEF Phase
  <2>4. runs[r].status # "absent" => born[r] # NoTime
    BY DEF Punctual, RowsBorn
  <2> QED
    BY <2>1, <2>2, <2>3, <2>4 DEF RunMove, Ledger!PhaseStep, Ledger!Outcome, Terminal
<1>2. ASSUME NEW r \in RunId
      PROVE  Ledger!NoticeStep(Notice[r], Notice'[r])
  <2>1. BoxMove(r)
    BY BoxMoves
  <2>2. /\ outbox[r].status = "absent" => Notice[r] = "none"
        /\ outbox[r].status = "pending" => Notice[r] = "owed"
        /\ outbox[r].status = "delivering" =>
             Notice[r] = IF outbox[r].safe THEN "held" ELSE "posting"
        /\ outbox[r].status \in {"delivered", "failed", "ambiguous"}
             => Notice[r] = "settled"
        /\ outbox[r].status \in {"absent", "pending", "delivering"} \cup Settled
    BY NoticeOf
  <2>3. /\ outbox'[r].status = "absent" => Notice'[r] = "none"
        /\ outbox'[r].status = "pending" => Notice'[r] = "owed"
        /\ outbox'[r].status = "delivering" =>
             Notice'[r] = IF outbox'[r].safe THEN "held" ELSE "posting"
        /\ outbox'[r].status \in {"delivered", "failed", "ambiguous"}
             => Notice'[r] = "settled"
    <3>1. Notice'[r] = CASE outbox'[r].status = "absent"     -> "none"
                         [] outbox'[r].status = "pending"    -> "owed"
                         [] outbox'[r].status = "delivering" ->
                              IF outbox'[r].safe THEN "held" ELSE "posting"
                         [] OTHER -> "settled"
      BY DEF Notice
    <3> QED
      BY <3>1
  <2>4. outbox'[r] = outbox[r] => Notice'[r] = Notice[r]
    BY DEF Notice
  <2>5. runs[r].status \notin Terminal => outbox[r].status = "absent"
    BY DEF BoxInvariant, OutboxComplete
  <2>6. CASE runs[r].status \in Terminal /\ runs'[r].status = "absent"
    BY <2>1, <2>2, <2>3, <2>6 DEF BoxMove, Ledger!NoticeStep, Settled, Unsettled
  <2>7. CASE runs[r].status \in Terminal /\ runs'[r].status # "absent"
    <3>1. DeliveryMove(outbox[r], outbox'[r])
      BY <2>1, <2>7 DEF BoxMove
    <3> QED
      BY <3>1, <2>2, <2>3, <2>4 DEF DeliveryMove, Ledger!NoticeStep
  <2>8. CASE runs[r].status \notin Terminal
    BY <2>1, <2>2, <2>3, <2>4, <2>5, <2>8 DEF BoxMove, Ledger!NoticeStep
  <2> QED
    BY <2>6, <2>7, <2>8
<1>3. Ledger!OneRunningPerJob(Phase')
  BY DEF Ledger!OneRunningPerJob, Phase, Exclusion, OneActiveRun, Terminal
<1>4. ASSUME NEW r \in RunId
      PROVE  (Notice'[r] # "none") <=> (Phase'[r] \in Ledger!Outcome /\ r.job \in Webhook)
  <2>1. outbox'[r].status # "absent"
          <=> r.job \in Webhook /\ runs'[r].status \in Terminal
    BY DEF BoxInvariant, OutboxComplete
  <2>2. Phase'[r] \in Terminal <=> runs'[r].status \in Terminal
    BY DEF Phase, Terminal
  <2>3. Notice'[r] # "none" <=> outbox'[r].status # "absent"
    BY DEF Notice
  <2> QED
    BY <2>1, <2>2, <2>3 DEF Ledger!Outcome, Terminal
<1>5. ASSUME NEW r \in Ledger!Owing(Phase, Notice)
      PROVE  Phase'[r] = Phase[r]
  <2>1. /\ r \in RunId /\ r.job \in Webhook /\ Notice[r] # "settled"
        /\ Phase[r] \in Terminal
    BY DEF Ledger!Owing, Ledger!Outcome, Terminal
  <2>2. runs[r].status \in Terminal /\ runs[r].status # "absent"
    BY <2>1, PhaseOf DEF Punctual, Terminal
  <2>3. outbox[r].status \in Unsettled
    BY <2>1, <2>2, NoticeOf DEF BoxInvariant, OutboxComplete, Settled, Unsettled
  <2>4. runs'[r].status # "absent"
    BY <2>1, <2>2, <2>3, BoxMoves DEF BoxMove
  <2>5. runs'[r].status = runs[r].status
    BY <2>1, <2>2, <2>4, RunMoves DEF RunMove, Terminal
  <2> QED
    BY <2>1, <2>2, <2>5 DEF Phase
<1>6. DOMAIN Phase' = RunId /\ DOMAIN Notice' = RunId
  BY DEF Phase, Notice
<1> QED
  BY <1>1, <1>2, <1>3, <1>4, <1>5, <1>6 DEF Ledger!Next

\* The database implements the ledger, whatever its clients do: an
\* occurrence is claimed once, even after its row was pruned, its outcome is
\* final, and its notification is owed from that step on and given to be
\* posted at most once.
THEOREM StoreImplementsLedger == Spec => ImplementsLedger
<1>1. Init => Ledger!Init
  BY LedgerInit
<1>2. LedgerInvariant /\ LedgerInvariant' /\ [Next]_vars => [Ledger!Next]_<<Phase, Notice>>
  BY Steps, LedgerStep DEF LedgerInvariant
<1>3. Spec => []LedgerInvariant
  BY TypeCorrect, ExclusionHolds, PunctualHolds, OutboxHolds, PTL DEF LedgerInvariant
<1> QED
  BY <1>1, <1>2, <1>3, PTL DEF Spec, ImplementsLedger, Ledger!Spec
==============================================================================

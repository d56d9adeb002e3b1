--------------------------- MODULE AutomationStore ---------------------------
(***************************************************************************)
(* The durable automation database (src/src/ash/automation/store.py): jobs,*)
(* runs and the webhook outbox of one workspace, shared by every worker    *)
(* and CLI process that opens automation.db.                               *)
(*                                                                         *)
(* Every public method runs one BEGIN IMMEDIATE transaction, and all but   *)
(* create_job read the clock in it, so an action here is one transaction.  *)
(* Methods that run two (a sweep of expired leases, then the operation)    *)
(* take two actions, with the pending operation kept in calls between.     *)
(*                                                                         *)
(* A lease token is a fresh secret of which the row stores the hash.  A    *)
(* run is claimed once, so its token is modelled by the worker that was    *)
(* given it; a delivery may be claimed again, so its token is the worker   *)
(* and the attempt.                                                        *)
(***************************************************************************)
EXTENDS AutomationSchedule, FiniteSets

CONSTANTS
  Job,        \* automations
  Worker,     \* processes that may claim runs and deliveries
  Schedule,   \* Schedule[j]: the job's schedule
  Grace,      \* Grace[j]: misfire_grace_seconds
  Webhook,    \* the jobs that have a webhook_url
  Lease,      \* lease_seconds
  Retention,  \* age after which a terminal run may be pruned
  Horizon,    \* bound on the clock
  MaxManual,  \* bound on manual runs per job
  MaxCalls,   \* bound on methods waiting for their second transaction
  NoToken     \* lease_token_hash IS NULL

Time == 0..Horizon

ASSUME StoreAssumption ==
  /\ Webhook \subseteq Job
  /\ NoToken \notin Worker
  /\ Horizon \in Nat
  /\ MaxManual \in Nat
  /\ MaxCalls \in Nat
  /\ Lease \in Nat \ {0}
  /\ Retention \in Nat
  /\ Grace \in [Job -> Nat]
  /\ DOMAIN Schedule = Job
  /\ \A j \in Job : /\ Schedule[j] \in ScheduleSpec
                    /\ \A t \in Time : FiresAfter(Schedule[j], t)

VARIABLES
  now,     \* time.time(), shared by all processes of the machine
  jobs,    \* automation_jobs
  runs,    \* automation_runs
  born,    \* history: when each run row was inserted, kept after pruning
  outbox,  \* automation_deliveries, one row per run at most
  calls    \* the methods between their two transactions

vars == <<now, jobs, runs, born, outbox, calls>>

(***************************************************************************)
(* Rows.  A scheduled run's id is a function of its job and its            *)
(* scheduled_for, a manual run's id is a fresh uuid.                       *)
(***************************************************************************)
Occurrence(j, t) == [job |-> j, trigger |-> "scheduled", key |-> t]
ManualRun(j, k)  == [job |-> j, trigger |-> "manual", key |-> k]

RunId == [job : Job, trigger : {"scheduled"}, key : Time]
           \cup [job : Job, trigger : {"manual"}, key : 1..MaxManual]

\* A run holds a lease exactly while it is running.
Terminal  == {"succeeded", "failed", "cancelled", "interrupted", "skipped"}
RunStatus == Terminal \cup {"absent", "running"}
Running == [status : {"running"}, token : Worker, lease : Time,
            cancel : BOOLEAN, finished : {NoTime}]
Ended   == [status : Terminal, token : {NoToken}, lease : {NoTime},
            cancel : BOOLEAN, finished : Time]
NoRun == [status |-> "absent", token |-> NoToken, lease |-> NoTime,
          cancel |-> FALSE, finished |-> NoTime]

JobRow == [state : {"absent", "live", "deleted"}, enabled : BOOLEAN,
           next : Nat \cup {NoTime}, last : RunStatus]

Unsettled  == {"pending", "delivering"}
Settled    == {"delivered", "failed", "ambiguous"}
Delivering == [status : {"delivering"}, token : Worker, attempt : Nat,
               lease : Time, safe : BOOLEAN]
Waiting    == [status : {"absent", "pending"} \cup Settled,
               token : {NoToken}, attempt : Nat, lease : {NoTime}, safe : BOOLEAN]
NoDelivery == [status |-> "absent", token |-> NoToken, attempt |-> 0,
               lease |-> NoTime, safe |-> TRUE]

RemoveCall(j)    == [op |-> "remove", job |-> j]
CancelCall(r)    == [op |-> "cancel", run |-> r]
ManualCall(w, j) == [op |-> "manual", worker |-> w, job |-> j]

Call == [op : {"remove"}, job : Job] \cup [op : {"cancel"}, run : RunId]
          \cup [op : {"manual"}, worker : Worker, job : Job]

TypeOK ==
  /\ now \in Time
  /\ jobs \in [Job -> JobRow]
  /\ runs \in [RunId -> Running \cup Ended \cup {NoRun}]
  /\ born \in [RunId -> Time \cup {NoTime}]
  /\ outbox \in [RunId -> Delivering \cup Waiting]
  /\ calls \subseteq Call

Init ==
  /\ now = 0
  /\ jobs = [j \in Job |-> [state |-> "absent", enabled |-> FALSE,
                            next |-> NoTime, last |-> "absent"]]
  /\ runs = [r \in RunId |-> NoRun]
  /\ born = [r \in RunId |-> NoTime]
  /\ outbox = [r \in RunId |-> NoDelivery]
  /\ calls = {}

(***************************************************************************)
(* Schedules                                                               *)
(***************************************************************************)
FirstFire(j) == FirstFireTime(Schedule[j], now)

\* A job's row once the occurrence it was due for is claimed or skipped.
Advanced(row, j, status) ==
  LET next == NextFireTime(Schedule[j], row.next, now)
  IN [row EXCEPT !.next = next, !.enabled = next # NoTime, !.last = status]

(***************************************************************************)
(* Closing runs and queueing their notification                            *)
(***************************************************************************)
\* Variant: the lease is not cleared.
ClosedWithLease(row, status) ==
  [row EXCEPT !.status = status, !.finished = now]

Closed(row, status) ==
  [row EXCEPT !.status = status, !.token = NoToken, !.lease = NoTime,
              !.finished = now]

\* The outbox after the runs of S became terminal: INSERT OR IGNORE one
\* pending delivery for each whose job has a webhook.
Enqueued(box, S) ==
  [r \in RunId |->
     IF r \in S /\ r.job \in Webhook /\ box[r].status = "absent"
     THEN [NoDelivery EXCEPT !.status = "pending"]
     ELSE box[r]]

\* A step that closes the run r with a status.
CloseRun(r, status) ==
  /\ runs' = [runs EXCEPT ![r] = Closed(@, status)]
  /\ jobs' = [jobs EXCEPT ![r.job].last = status]
  /\ outbox' = Enqueued(outbox, {r})

(***************************************************************************)
(* The sweep of expired run leases, run first by every claim               *)
(***************************************************************************)
ExpiredRuns == {r \in RunId : /\ runs[r].status = "running"
                              /\ runs[r].lease <= now}

RecoveredRuns ==
  [r \in RunId |->
     IF r \in ExpiredRuns THEN Closed(runs[r], "interrupted") ELSE runs[r]]

\* Variant: only the runs table is updated.
RecoveredRunsOnly == jobs

RecoveredJobs ==
  [j \in Job |->
     IF \E r \in ExpiredRuns : r.job = j
     THEN [jobs[j] EXCEPT !.last = "interrupted"]
     ELSE jobs[j]]

\* Variant: the notification of an interrupted run is not queued.
SilentSweep ==
  /\ runs' = RecoveredRuns
  /\ jobs' = RecoveredJobs
  /\ UNCHANGED outbox

Sweep ==
  /\ runs' = RecoveredRuns
  /\ jobs' = RecoveredJobs
  /\ outbox' = Enqueued(outbox, ExpiredRuns)

RecoverExpired ==
  /\ ExpiredRuns # {}
  /\ Sweep
  /\ UNCHANGED <<now, born, calls>>

Active(table, j) == \E r \in RunId : r.job = j /\ table[r].status = "running"

(***************************************************************************)
(* Job administration                                                      *)
(***************************************************************************)
\* The clock is read before the transaction, which may wait for another.
CreateJob(j, enabled) ==
  /\ jobs[j].state = "absent"
  /\ \E read \in 0..now :
       jobs' = [jobs EXCEPT ![j] =
         [state |-> "live", enabled |-> enabled, last |-> "absent",
          next |-> IF enabled THEN FirstFireTime(Schedule[j], read) ELSE NoTime]]
  /\ UNCHANGED <<now, runs, born, outbox, calls>>

SetEnabled(j, enabled) ==
  /\ jobs[j].state = "live"
  /\ jobs[j].enabled # enabled
  \* a completed or expired one-shot cannot be resumed
  /\ enabled /\ Schedule[j].kind = "at" => FirstFire(j) > now
  /\ jobs' = [jobs EXCEPT ![j] =
       [@ EXCEPT !.enabled = enabled,
                 !.next = IF enabled THEN FirstFire(j) ELSE NoTime]]
  /\ UNCHANGED <<now, runs, born, outbox, calls>>

\* remove_job, request_cancel and claim_manual commit a sweep before their
\* own transaction; BeginCall is that first transaction.
BeginCall(c) ==
  /\ Cardinality(calls) < MaxCalls
  /\ c \notin calls
  /\ Sweep
  /\ calls' = calls \cup {c}
  /\ UNCHANGED <<now, born>>

\* The second transaction found nothing to do and raised AutomationError.
FailCall(c) ==
  /\ c \in calls
  /\ IF c.op = "cancel"
     THEN runs[c.run].status # "running"
     ELSE jobs[c.job].state # "live" \/ Active(runs, c.job)
  /\ calls' = calls \ {c}
  /\ UNCHANGED <<now, jobs, runs, born, outbox>>

\* Variant: a run claimed since the sweep is not looked for.
RemoveJobUnchecked(j) ==
  /\ RemoveCall(j) \in calls
  /\ jobs[j].state = "live"
  /\ jobs' = [jobs EXCEPT ![j] =
       [@ EXCEPT !.state = "deleted", !.enabled = FALSE, !.next = NoTime]]
  /\ calls' = calls \ {RemoveCall(j)}
  /\ UNCHANGED <<now, runs, born, outbox>>

RemoveJob(j) ==
  /\ RemoveCall(j) \in calls
  /\ jobs[j].state = "live"
  /\ ~ Active(runs, j)
  /\ jobs' = [jobs EXCEPT ![j] =
       [@ EXCEPT !.state = "deleted", !.enabled = FALSE, !.next = NoTime]]
  /\ calls' = calls \ {RemoveCall(j)}
  /\ UNCHANGED <<now, runs, born, outbox>>

RequestCancel(r) ==
  /\ CancelCall(r) \in calls
  /\ runs[r].status = "running"
  /\ runs' = [runs EXCEPT ![r].cancel = TRUE]
  /\ calls' = calls \ {CancelCall(r)}
  /\ UNCHANGED <<now, jobs, born, outbox>>

(***************************************************************************)
(* Claiming runs.  LeaseFits is the bound on the clock: no lease is given  *)
(* that could not expire before Horizon.                                   *)
(***************************************************************************)
LeaseFits == now + Lease <= Horizon

Claimed(w) == [NoRun EXCEPT !.status = "running", !.token = w,
                            !.lease = now + Lease]
Skipped == [NoRun EXCEPT !.status = "skipped", !.finished = now]

ClaimManual(w, j) ==
  /\ ManualCall(w, j) \in calls
  /\ LeaseFits
  /\ jobs[j].state = "live"
  /\ ~ Active(runs, j)
  /\ \E k \in 1..MaxManual :
       LET r == ManualRun(j, k) IN
       /\ born[r] = NoTime
       /\ runs' = [runs EXCEPT ![r] = Claimed(w)]
       /\ born' = [born EXCEPT ![r] = now]
  /\ calls' = calls \ {ManualCall(w, j)}
  /\ UNCHANGED <<now, jobs, outbox>>

\* Variant: a running run does not hold back the next occurrence.
DueJobsOverlapping ==
  {j \in Job : /\ jobs[j].state = "live" /\ jobs[j].enabled
               /\ jobs[j].next # NoTime /\ jobs[j].next <= now}

\* Rows of the due query: enabled jobs whose next fire has come and which
\* have no running run once expired leases are recovered.
DueJobs == {j \in Job : /\ jobs[j].state = "live" /\ jobs[j].enabled
                        /\ jobs[j].next # NoTime /\ jobs[j].next <= now
                        /\ ~ Active(RecoveredRuns, j)}
Misfired(j) == now - jobs[j].next > Grace[j]
DueRun(j) == Occurrence(j, jobs[j].next)

\* The due rows are visited by next_run_at until limit of them are claimed.
\* A row whose run id is taken (IntegrityError) is left as it was.
Visited(claim, skip, limit) ==
  LET ready == {j \in DueJobs : ~ Misfired(j)
                                /\ runs[DueRun(j)].status = "absent"}
      late  == {j \in DueJobs : Misfired(j)}
  IN /\ claim \subseteq ready
     /\ skip \subseteq late
     /\ IF Cardinality(ready) < limit
        THEN claim = ready /\ skip = late
        ELSE /\ Cardinality(claim) = limit
             /\ \A c \in claim, j \in ready \ claim : jobs[c].next <= jobs[j].next
             /\ \A j \in skip : \E c \in claim : jobs[j].next <= jobs[c].next
             /\ \A j \in late \ skip : \A c \in claim : jobs[c].next <= jobs[j].next

ClaimDueBatch(w, limit) ==
  /\ LeaseFits
  /\ \E claim, skip \in SUBSET DueJobs :
       LET started == {DueRun(j) : j \in claim}
           missed  == {r \in {DueRun(j) : j \in skip} : runs[r].status = "absent"}
       IN /\ Visited(claim, skip, limit)
          /\ runs' = [r \in RunId |-> CASE r \in started -> Claimed(w)
                                        [] r \in missed  -> Skipped
                                        [] OTHER -> RecoveredRuns[r]]
          /\ born' = [r \in RunId |->
                        IF r \in started \cup missed THEN now ELSE born[r]]
          /\ jobs' = [j \in Job |->
                        CASE j \in claim -> Advanced(RecoveredJobs[j], j, "running")
                          [] j \in skip  -> Advanced(RecoveredJobs[j], j, "skipped")
                          [] OTHER -> RecoveredJobs[j]]
          /\ outbox' = Enqueued(outbox, ExpiredRuns \cup missed)
  /\ UNCHANGED <<now, calls>>

(***************************************************************************)
(* Calls that present the token of a run's lease                           *)
(***************************************************************************)
OwnsRun(w, r) == /\ runs[r].status = "running"
                 /\ runs[r].lease > now
                 /\ runs[r].token = w

RenewLease(w, r) ==
  /\ OwnsRun(w, r)
  /\ LeaseFits
  /\ runs' = [runs EXCEPT ![r].lease = now + Lease]
  /\ UNCHANGED <<now, jobs, born, outbox, calls>>

\* Variant: a cancellation accepted while the turn was finishing is ignored.
FinishRunUncancelled(w, r, status) ==
  /\ OwnsRun(w, r)
  /\ CloseRun(r, status)
  /\ UNCHANGED <<now, born, calls>>

FinishRun(w, r, status) ==
  /\ OwnsRun(w, r)
  /\ CloseRun(r, IF runs[r].cancel THEN "cancelled" ELSE status)
  /\ UNCHANGED <<now, born, calls>>

\* The lease may have expired: only the token is compared.
InterruptRun(w, r) ==
  /\ runs[r].status = "running"
  /\ runs[r].token = w
  /\ CloseRun(r, "interrupted")
  /\ UNCHANGED <<now, born, calls>>

(***************************************************************************)
(* The webhook outbox                                                      *)
(***************************************************************************)
\* Variant: a delivery whose fence is down is left to its worker.
ExpiredUnfenced == {r \in RunId : /\ outbox[r].status = "delivering"
                                  /\ outbox[r].lease <= now
                                  /\ outbox[r].safe}

ExpiredDeliveries == {r \in RunId : /\ outbox[r].status = "delivering"
                                    /\ outbox[r].lease <= now}

\* Variant: the dispatch fence is not looked at.
RequeuedDelivery(d) ==
  [d EXCEPT !.status = "pending", !.token = NoToken, !.lease = NoTime]

\* A lease that expired before the dispatch fence is requeued, one that
\* expired after it is ambiguous for good.
RecoveredDelivery(d) ==
  [d EXCEPT !.status = IF d.safe THEN "pending" ELSE "ambiguous",
            !.token = NoToken, !.lease = NoTime]

RecoveredOutbox ==
  [r \in RunId |-> IF r \in ExpiredDeliveries
                   THEN RecoveredDelivery(outbox[r]) ELSE outbox[r]]

Pending == {r \in RunId : RecoveredOutbox[r].status = "pending"}

Leased(d, w) ==
  [status |-> "delivering", token |-> w, attempt |-> d.attempt + 1,
   lease |-> now + Lease, safe |-> TRUE]

RecoverExpiredDeliveries ==
  /\ ExpiredDeliveries # {}
  /\ outbox' = RecoveredOutbox
  /\ UNCHANGED <<now, jobs, runs, born, calls>>

\* claim_pending_deliveries: the oldest pending rows, at most limit of them.
ClaimDeliveries(w, limit) ==
  /\ LeaseFits
  /\ \E claim \in SUBSET Pending :
       /\ Cardinality(claim) = IF Cardinality(Pending) < limit
                               THEN Cardinality(Pending) ELSE limit
       /\ \A c \in claim, r \in Pending \ claim :
            runs[c].finished <= runs[r].finished
       /\ outbox' = [r \in RunId |-> IF r \in claim
                                     THEN Leased(RecoveredOutbox[r], w)
                                     ELSE RecoveredOutbox[r]]
  /\ UNCHANGED <<now, jobs, runs, born, calls>>

ClaimDeliveryForRun(w, r) ==
  /\ LeaseFits
  /\ outbox' = [RecoveredOutbox EXCEPT
                  ![r] = IF r \in Pending THEN Leased(@, w) ELSE @]
  /\ UNCHANGED <<now, jobs, runs, born, calls>>

OwnsDelivery(w, r, attempt) ==
  /\ outbox[r].status = "delivering"
  /\ outbox[r].lease > now
  /\ outbox[r].token = w
  /\ outbox[r].attempt = attempt

\* mark_delivery_dispatch_started: the dispatch fence.
MarkDispatchStarted(w, r, attempt) ==
  /\ OwnsDelivery(w, r, attempt)
  /\ outbox' = [outbox EXCEPT ![r].safe = FALSE]
  /\ UNCHANGED <<now, jobs, runs, born, calls>>

FinishDelivery(w, r, attempt, status) ==
  /\ OwnsDelivery(w, r, attempt)
  /\ status \in {"delivered", "ambiguous"} => ~ outbox[r].safe
  /\ outbox' = [outbox EXCEPT ![r] =
       [@ EXCEPT !.status = status, !.token = NoToken, !.lease = NoTime]]
  /\ UNCHANGED <<now, jobs, runs, born, calls>>

(***************************************************************************)
(* Retention: terminal runs older than the retention go, with their        *)
(* delivery (ON DELETE CASCADE), unless the delivery is unsettled.         *)
(***************************************************************************)
\* Variant: the delivery is not looked at.
PrunableEarly == {r \in RunId : /\ runs[r].status \in Terminal
                                /\ runs[r].finished < now - Retention}

Prunable == {r \in RunId : /\ runs[r].status \in Terminal
                           /\ runs[r].finished < now - Retention
                           /\ outbox[r].status \notin Unsettled}

PruneRuns ==
  /\ Prunable # {}
  /\ runs' = [r \in RunId |-> IF r \in Prunable THEN NoRun ELSE runs[r]]
  /\ outbox' = [r \in RunId |-> IF r \in Prunable THEN NoDelivery ELSE outbox[r]]
  /\ UNCHANGED <<now, jobs, born, calls>>

Tick ==
  /\ now < Horizon
  /\ now' = now + 1
  /\ UNCHANGED <<jobs, runs, born, outbox, calls>>

(***************************************************************************)
(* The database as its clients may drive it, in any order                  *)
(***************************************************************************)
Administer ==
  \/ \E j \in Job, e \in BOOLEAN : CreateJob(j, e) \/ SetEnabled(j, e)
  \/ \E j \in Job : BeginCall(RemoveCall(j))
  \/ \E w \in Worker, j \in Job : BeginCall(ManualCall(w, j))
  \/ \E r \in RunId : runs[r].status = "running" /\ BeginCall(CancelCall(r))
  \/ \E c \in calls : FailCall(c)
  \/ \E j \in Job : RemoveJob(j)
  \/ \E r \in RunId : RequestCancel(r)
  \/ PruneRuns

UseRuns ==
  \/ RecoverExpired
  \/ \E w \in Worker, j \in Job : ClaimManual(w, j)
  \/ \E w \in Worker, limit \in 1..Cardinality(Job) : ClaimDueBatch(w, limit)
  \/ \E w \in Worker, r \in RunId :
       \/ RenewLease(w, r)
       \/ \E s \in {"succeeded", "failed", "cancelled"} : FinishRun(w, r, s)
       \/ InterruptRun(w, r)

UseOutbox ==
  \/ RecoverExpiredDeliveries
  \/ \E w \in Worker, limit \in 1..Cardinality(Job) : ClaimDeliveries(w, limit)
  \/ \E w \in Worker, r \in RunId :
       \/ ClaimDeliveryForRun(w, r)
       \/ MarkDispatchStarted(w, r, outbox[r].attempt)
       \/ \E s \in {"delivered", "failed", "ambiguous"} :
            FinishDelivery(w, r, outbox[r].attempt, s)

Next == Administer \/ UseRuns \/ UseOutbox \/ Tick

Spec == Init /\ [][Next]_vars

(***************************************************************************)
(* Safety                                                                  *)
(***************************************************************************)

\* DURABLE_AUTOMATION.md, "one job has at most one run record in the running
\* state at a time", whichever worker or user claims it and however a claim
\* races with the recovery of an expired lease.
OneActiveRun ==
  \A r, s \in RunId :
    /\ runs[r].status = "running"
    /\ runs[s].status = "running"
    /\ r.job = s.job
    => r = s

\* An enabled job is never stuck: it has a next occurrence, and that
\* occurrence comes after every run row ever inserted for the job's
\* schedule, so inserting its run cannot meet a taken id and return
\* without advancing the schedule (store.py, _claim_job_locked).
EnabledJobCanFire ==
  /\ \A j \in Job : jobs[j].enabled <=> jobs[j].next # NoTime
  /\ \A r \in RunId :
       /\ r.trigger = "scheduled"
       /\ born[r] # NoTime
       /\ jobs[r.job].enabled
       => r.key < jobs[r.job].next

\* However long no worker ran, the missed occurrences of a job give at most
\* one run: between the scheduled times of two runs of a job, the first had
\* already been claimed or skipped.
NoBackfill ==
  \A r, s \in RunId :
    /\ r.trigger = "scheduled" /\ s.trigger = "scheduled" /\ r.job = s.job
    /\ born[r] # NoTime /\ born[s] # NoTime
    /\ r.key < s.key
    => born[r] < s.key

\* The summary kept in the job's row agrees with the runs table:
\* last_run_status is "running" exactly while a scheduled run of it runs.
JobSummaryHonest ==
  \A j \in Job :
    jobs[j].last = "running"
      <=> \E r \in RunId : /\ r.job = j /\ r.trigger = "scheduled"
                           /\ runs[r].status = "running"

\* remove_job races with the claims of other processes: a removed job never
\* has a running run.
NoRunOfRemovedJob ==
  \A j \in Job : jobs[j].state # "live" => ~ Active(runs, j)

\* A cancellation that was accepted is never followed by a run recorded as
\* succeeded or failed.
CancelWins ==
  \A r \in RunId : runs[r].status \in {"succeeded", "failed"} => ~ runs[r].cancel

\* Every way a run can end queues its notification in the same transaction:
\* the terminal runs of the jobs with a webhook are those with a delivery.
OutboxComplete ==
  \A r \in RunId :
    outbox[r].status # "absent"
      <=> r.job \in Webhook /\ runs[r].status \in Terminal

\* A delivery that may have been posted (the dispatch fence is down) is
\* never pending again, and one that was delivered had its fence down.
FencedDelivery ==
  \A r \in RunId :
    /\ outbox[r].status = "pending" => outbox[r].safe
    /\ outbox[r].status \in {"delivered", "ambiguous"} => ~ outbox[r].safe

\* The facts the safety properties rest on.  A row was inserted at a known
\* time, not before its scheduled time; the next occurrence of an enabled job
\* is later than every insertion for its schedule; a job that was not
\* created has no runs.
RowsBorn ==
  \A r \in RunId :
    IF born[r] = NoTime
    THEN runs[r].status = "absent"
    ELSE /\ born[r] <= now
         /\ r.trigger = "scheduled" => r.key <= born[r]
         /\ jobs[r.job].state # "absent"

NextAhead ==
  /\ \A j \in Job : jobs[j].enabled <=> jobs[j].next # NoTime
  /\ \A j \in Job : jobs[j].state # "live" => ~ jobs[j].enabled
  /\ \A r \in RunId :
       /\ r.trigger = "scheduled"
       /\ born[r] # NoTime
       /\ jobs[r.job].enabled
       => born[r] < jobs[r.job].next

\* The inductive invariant.
StoreInvariant ==
  /\ TypeOK
  /\ OneActiveRun
  /\ NoRunOfRemovedJob
  /\ RowsBorn
  /\ NextAhead
  /\ NoBackfill
  /\ JobSummaryHonest
  /\ CancelWins
  /\ OutboxComplete
  /\ FencedDelivery

(***************************************************************************)
(* What the database promises about each run and its notification          *)
(***************************************************************************)
\* A scheduled run whose row is gone was pruned if it was ever inserted.
Phase == [r \in RunId |-> IF runs[r].status # "absent" THEN runs[r].status
                          ELSE IF born[r] = NoTime THEN "due" ELSE "forgotten"]

Notice == [r \in RunId |->
             CASE outbox[r].status = "absent"     -> "none"
               [] outbox[r].status = "pending"    -> "owed"
               [] outbox[r].status = "delivering" ->
                    IF outbox[r].safe THEN "held" ELSE "posting"
               [] OTHER -> "settled"]

Ledger == INSTANCE AutomationLedger WITH phase <- Phase, notice <- Notice

\* Every step of the database is a step of the ledger.
ImplementsLedger == Ledger!Spec
==============================================================================

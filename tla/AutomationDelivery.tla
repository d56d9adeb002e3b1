-------------------------- MODULE AutomationDelivery --------------------------
(***************************************************************************)
(* Delivery of the webhook outbox (src/src/ash/automation/worker.py,       *)
(* _deliver_pending_batch, _deliver_run_webhooks and _deliver_webhook;     *)
(* delivery.py), as a client of the database of AutomationStore.           *)
(*                                                                         *)
(* A worker claims a batch, then delivers its members concurrently; it     *)
(* claims no other batch before all are over.  One delivery prepares the   *)
(* request (names are resolved, the body is signed), puts the dispatch     *)
(* fence down in the database, posts, and records what came back.  Each    *)
(* step is an await, between which leases expire and other workers act.    *)
(*                                                                         *)
(* The receiver is external: it may accept or refuse a request, and either *)
(* answer may be lost.  A killed worker is restarted with no memory.       *)
(***************************************************************************)
EXTENDS AutomationStore, Sequences

VARIABLES
  sending,   \* sending[w][r]: the delivery task of w for the run r
  received   \* received[r]: what the receiver did with each request, in order

deliveryVars == <<now, jobs, runs, born, outbox, calls, sending, received>>

Stage == {"prepare", "post", "answered", "refused", "lost"}
Idle  == [at |-> "idle", attempt |-> 0]

\* Types, and the shape of a task: it has a lease, of attempt 1 or later,
\* exactly while it is at work.
DeliveryTypeOK ==
  /\ sending \in [Worker -> [RunId -> [at : {"idle"} \cup Stage, attempt : Nat]]]
  /\ received \in [RunId -> Seq({"accepted", "refused"})]
  /\ \A w \in Worker, r \in RunId :
       sending[w][r].attempt = 0 <=> sending[w][r].at = "idle"

DeliveryInit ==
  /\ Init
  /\ sending = [w \in Worker |-> [r \in RunId |-> Idle]]
  /\ received = [r \in RunId |-> <<>>]

Stands(w, r, stage) == sending[w][r].at = stage

Becomes(w, r, stage) ==
  sending' = [sending EXCEPT ![w][r] = [@ EXCEPT !.at = stage]]

Over(w, r) == sending' = [sending EXCEPT ![w][r] = Idle]

\* Variant: the attempt is read before the claim.
TakenStale(w) ==
  sending' = [sending EXCEPT ![w] = [r \in RunId |->
    IF outbox'[r].status = "delivering" /\ outbox'[r].attempt > outbox[r].attempt
    THEN [at |-> "prepare", attempt |-> outbox[r].attempt]
    ELSE @[r]]]

\* The tasks of the leases that a claim gave to w.
Taken(w) ==
  sending' = [sending EXCEPT ![w] = [r \in RunId |->
    IF outbox'[r].status = "delivering" /\ outbox'[r].attempt > outbox[r].attempt
    THEN [at |-> "prepare", attempt |-> outbox'[r].attempt]
    ELSE @[r]]]

\* _deliver_pending_batch, at every turn of the worker's loop.
DeliverPending(w, limit) ==
  /\ \A r \in RunId : Stands(w, r, "idle")
  /\ ClaimDeliveries(w, limit)
  /\ Taken(w)
  /\ UNCHANGED received

\* _deliver_run_webhooks, after a manual run or a single batch: the run's
\* delivery is claimed by name, before the first of them is prepared.
DeliverRun(w, r) ==
  /\ \A s \in RunId : Stands(w, s, "idle") \/ Stands(w, s, "prepare")
  /\ ClaimDeliveryForRun(w, r)
  /\ Taken(w)
  /\ UNCHANGED received

\* finish_delivery: refused when the lease is gone, and then ignored.
Conclude(w, r, status) ==
  /\ IF OwnsDelivery(w, r, sending[w][r].attempt)
     THEN FinishDelivery(w, r, sending[w][r].attempt, status)
     ELSE UNCHANGED vars
  /\ Over(w, r)
  /\ UNCHANGED received

PrepareFails(w, r) ==
  /\ Stands(w, r, "prepare")
  /\ Conclude(w, r, "failed")

\* Variant: the request is posted whatever the fence answered.
DispatchUnfenced(w, r) ==
  /\ Stands(w, r, "prepare")
  /\ IF OwnsDelivery(w, r, sending[w][r].attempt)
     THEN MarkDispatchStarted(w, r, sending[w][r].attempt)
     ELSE UNCHANGED vars
  /\ Becomes(w, r, "post")
  /\ UNCHANGED received

Dispatch(w, r) ==
  /\ Stands(w, r, "prepare")
  /\ IF OwnsDelivery(w, r, sending[w][r].attempt)
     THEN /\ MarkDispatchStarted(w, r, sending[w][r].attempt)
          /\ Becomes(w, r, "post")
     ELSE /\ UNCHANGED vars
          /\ Over(w, r)
  /\ UNCHANGED received

\* post_webhook: the request may not arrive, and its answer may be lost.
Post(w, r) ==
  /\ Stands(w, r, "post")
  /\ \/ \E answer \in {"accepted", "refused"} :
          /\ received' = [received EXCEPT ![r] = Append(@, answer)]
          /\ \/ Becomes(w, r, IF answer = "accepted" THEN "answered" ELSE "refused")
             \/ Becomes(w, r, "lost")
     \/ Becomes(w, r, "lost") /\ UNCHANGED received
  /\ UNCHANGED vars

\* Variant: a lost answer is recorded as a failure.
OutcomeOfLost(stage) == IF stage = "answered" THEN "delivered" ELSE "failed"

OutcomeOf(stage) == CASE stage = "answered" -> "delivered"
                      [] stage = "refused"  -> "failed"
                      [] stage = "lost"     -> "ambiguous"

RecordAnswer(w, r) ==
  /\ sending[w][r].at \in {"answered", "refused", "lost"}
  /\ Conclude(w, r, OutcomeOf(sending[w][r].at))

Restart(w) ==
  /\ \E r \in RunId : ~ Stands(w, r, "idle")
  /\ sending' = [sending EXCEPT ![w] = [r \in RunId |-> Idle]]
  /\ UNCHANGED <<vars, received>>

\* The runs whose notifications are delivered.
RunsHappen ==
  /\ \/ \E j \in Job : CreateJob(j, TRUE)
     \/ \E w \in Worker : ClaimDueBatch(w, Cardinality(Job))
     \/ \E w \in Worker, r \in RunId : FinishRun(w, r, "succeeded")
     \/ PruneRuns
  /\ UNCHANGED <<sending, received>>

\* The loop of a worker begins a batch by sweeping expired leases; beyond
\* the bound on the clock, the sweep is all that is left of it.
SweepDeliveries ==
  /\ RecoverExpiredDeliveries
  /\ UNCHANGED <<sending, received>>

TimePasses ==
  /\ Tick
  /\ UNCHANGED <<sending, received>>

DeliveryNext ==
  \/ \E w \in Worker, limit \in 1..Cardinality(Job) : DeliverPending(w, limit)
  \/ \E w \in Worker, r \in RunId :
       \/ DeliverRun(w, r) \/ PrepareFails(w, r) \/ Dispatch(w, r)
       \/ Post(w, r) \/ RecordAnswer(w, r)
  \/ \E w \in Worker : Restart(w)
  \/ RunsHappen \/ SweepDeliveries \/ TimePasses

\* Time passes, and some worker is running its loop.
DeliverySpec ==
  /\ DeliveryInit /\ [][DeliveryNext]_deliveryVars
  /\ WF_deliveryVars(TimePasses)
  /\ WF_deliveryVars(SweepDeliveries)

(***************************************************************************)
(* Properties                                                              *)
(***************************************************************************)

\* DURABLE_AUTOMATION.md: a delivery is "not automatically replayed".  The
\* receiver gets at most one request for a run, whichever workers die,
\* stall or race.
AtMostOnePost == \A r \in RunId : Len(received[r]) <= 1

\* The recorded outcome says no more than is known: delivered was accepted,
\* failed was refused or never sent, and a delivery that may be retried was
\* never sent.
OutcomeProvable ==
  \A r \in RunId :
    CASE outbox[r].status = "delivered" -> received[r] = <<"accepted">>
      [] outbox[r].status = "failed"    -> received[r] \in {<<>>, <<"refused">>}
      [] outbox[r].status = "pending"   -> received[r] = <<>>
      [] OTHER -> TRUE

\* A worker that died or stalled with a delivery in hand does not keep it:
\* the lease expires and the delivery is requeued or settled.
DeliveryReleased ==
  \A r \in RunId :
    outbox[r].status = "delivering" ~> outbox[r].status # "delivering"
==============================================================================

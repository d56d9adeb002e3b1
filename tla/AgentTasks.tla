------------------------------ MODULE AgentTasks ------------------------------
(***************************************************************************)
(* The ledger of agent tasks (src/src/ash/agents/tasks.py): AgentTaskStore *)
(* and its SQLite table, shared by every session and every worker process. *)
(* Each public method is one BEGIN IMMEDIATE transaction, and one action.  *)
(*                                                                         *)
(* Time is only what it does to a lease: a live lease expires, at any      *)
(* moment.  A call that reads the clock before it waits for the            *)
(* transaction (recover_expired, list_ready_tasks) may miss leases that    *)
(* expired meanwhile: it sweeps any subset of the expired ones.            *)
(*                                                                         *)
(* The token of a claim is fresh and the attempt grows with each claim, so *)
(* "the token of the row" is "the attempt of the row".  All tasks are of   *)
(* one workspace.                                                          *)
(***************************************************************************)
EXTENDS Integers, FiniteSets

CONSTANTS
  Task,         \* the task ids
  NoTask,       \* no parent
  Deps,         \* Deps[t]: dependencies of t
  ParentOf,     \* ParentOf[t]: parent_task_id
  GraphOf,      \* GraphOf[t]: metadata.graph_id
  MaxAttempts,  \* MaxAttempts[t]: max_attempts
  MaxActive,    \* max_active of every claim
  TokenBudget,  \* token_budget of a task
  GraphTokens,  \* graph_token_budget
  GraphCost,    \* graph_cost_budget_usd
  Reports       \* the usage one call may report

\* _reject_cycles: no batch has a dependency cycle, and a batch depends only
\* on itself and on tasks that exist; so it is with parents.
Acyclic(below) ==
  \A S \in SUBSET Task : S # {} => \E t \in S : below[t] \cap S = {}

ASSUME TasksAssumption ==
  /\ IsFiniteSet(Task) /\ NoTask \notin Task
  /\ Deps \in [Task -> SUBSET Task] /\ Acyclic(Deps)
  /\ ParentOf \in [Task -> Task \cup {NoTask}]
  /\ Acyclic([t \in Task |-> {ParentOf[t]}])
  /\ DOMAIN GraphOf = Task
  /\ MaxAttempts \in [Task -> Nat \ {0}]
  /\ MaxActive \in Nat \ {0}
  /\ TokenBudget \in Nat /\ GraphTokens \in Nat /\ GraphCost \in Nat
  /\ IsFiniteSet(Reports) /\ Reports \subseteq [tokens : Nat, cost : Nat]

VARIABLE rows  \* the rows of agent_tasks

Active   == {"leased", "running"}
Terminal == {"succeeded", "failed", "cancelled"}
State    == {"absent", "queued"} \cup Active \cup Terminal

Row == [state : State, attempt : Nat,
        lease : {"none", "live", "expired"},
        safe : BOOLEAN,                       \* recovery_safe
        tokens : Nat, cost : Nat]             \* used_tokens, used_cost_usd
NoRow == [state |-> "absent", attempt |-> 0, lease |-> "none", safe |-> FALSE,
          tokens |-> 0, cost |-> 0]
NewRow == [NoRow EXCEPT !.state = "queued"]

\* Types, and the shape of a row: active rows, and no others, hold a lease;
\* a row is tried no more often than it may be.
TasksTypeOK ==
  /\ rows \in [Task -> Row]
  /\ \A t \in Task :
       /\ rows[t].state \in Active <=> rows[t].lease # "none"
       /\ rows[t].state \in Active => rows[t].attempt >= 1
       /\ rows[t].attempt <= MaxAttempts[t]
       /\ rows[t].state = "absent" => rows[t] = NoRow

Existing == {t \in Task : rows[t].state # "absent"}
Expired  == {t \in Task : rows[t].lease = "expired"}

(***************************************************************************)
(* Sweeps: what a transaction does to the table R before its own work.     *)
(***************************************************************************)
\* Out of its lease, with the attempt it had.
Released(row, state) == [row EXCEPT !.state = state, !.lease = "none"]

\* Variant: an expired attempt is tried again whatever it may have done.
RequeuesAny(t, row) == row.attempt < MaxAttempts[t]

\* Only an attempt that cannot have had effects is tried again.
Requeues(t, row) == row.safe /\ row.attempt < MaxAttempts[t]

\* _recover_expired_locked, of the leases E.
Recovered(R, E) ==
  [t \in Task |-> IF t \in E
                  THEN Released(R[t], IF Requeues(t, R[t]) THEN "queued" ELSE "failed")
                  ELSE R[t]]

\* The queued tasks behind a lost one: the loop of
\* _fail_dependency_blocked_locked, which ends when it finds no more.
Blocked(R) ==
  LET Lost(S) == {t \in Task : /\ R[t].state = "queued"
                               /\ \E d \in Deps[t] : \/ R[d].state \in {"failed", "cancelled"}
                                                     \/ d \in S}
  IN  {t \in Task : \A S \in SUBSET Task : Lost(S) \subseteq S => t \in S}

FailBlocked(R) ==
  LET lost == Blocked(R)
  IN  [t \in Task |-> IF t \in lost THEN Released(R[t], "failed") ELSE R[t]]

Swept(E) == FailBlocked(Recovered(rows, E))

\* Variant: a task is ready as soon as nothing blocks it.
ReadyUnblocked(R) == {t \in Task : R[t].state = "queued"} \ Blocked(R)

Ready(R) ==
  {t \in Task : R[t].state = "queued" /\ \A d \in Deps[t] : R[d].state = "succeeded"}

\* Variant: a task is counted only until it starts.
HasRoomLeased(R) == Cardinality({t \in Task : R[t].state = "leased"}) < MaxActive

HasRoom(R) ==
  Cardinality({t \in Task : R[t].state \in Active /\ R[t].lease = "live"}) < MaxActive

(***************************************************************************)
(* Creating, claiming and working on a task.                               *)
(***************************************************************************)
\* create_tasks: whatever is referred to exists, in whatever state, or is
\* created with it.  (Ids are fresh; the limit of 128 tasks is not reached.)
CreateTasks(batch) ==
  /\ batch # {} /\ batch \cap Existing = {}
  /\ \A t \in batch : Deps[t] \cup ({ParentOf[t]} \ {NoTask}) \subseteq batch \cup Existing
  /\ rows' = [t \in Task |-> IF t \in batch THEN NewRow ELSE rows[t]]

\* A lease whose time is over: no call, the passing of time.
Expire(t) ==
  /\ rows[t].lease = "live"
  /\ rows' = [rows EXCEPT ![t].lease = "expired"]

\* claim_task reads the clock inside the transaction: it sweeps every expired
\* lease, and keeps the sweep when it refuses.
Claimable(t) == LET R == Swept(Expired) IN HasRoom(R) /\ t \in Ready(R)

Claimed(row) ==
  [row EXCEPT !.state = "leased", !.attempt = row.attempt + 1,
              !.lease = "live", !.safe = TRUE]

ClaimTask(t) ==
  /\ Claimable(t)
  /\ LET R == Swept(Expired) IN rows' = [R EXCEPT ![t] = Claimed(R[t])]

RefuseClaim(t) ==
  /\ t \in Existing /\ ~Claimable(t)
  /\ rows' = Swept(Expired)

\* _owned_row: the caller that claimed attempt a still owns the task.
Owned(t, a) ==
  rows[t].state \in Active /\ rows[t].attempt = a /\ rows[t].lease = "live"

StartTask(t, a) ==
  /\ Owned(t, a) /\ rows[t].state = "leased"
  /\ rows' = [rows EXCEPT ![t].state = "running"]

\* A renewed lease is as live as it was.
RenewLease(t, a) ==
  /\ Owned(t, a)
  /\ rows' = [rows EXCEPT ![t].lease = "live"]

MarkRecoveryUnsafe(t, a) ==
  /\ Owned(t, a) /\ rows[t].state = "running"
  /\ rows' = [rows EXCEPT ![t].safe = FALSE]

\* The sum of what each of some tasks has used: as many units.
Units(use) == UNION {{t} \X (1..use[t]) : t \in DOMAIN use}
Total(use) == Cardinality(Units(use))

\* What a graph has used, in a table R.
TasksIn(g)       == {t \in Task : GraphOf[t] = g}
UsedTokens(R, g) == Total([t \in TasksIn(g) |-> R[t].tokens])
UsedCost(R, g)   == Total([t \in TasksIn(g) |-> R[t].cost])

Billed(row, r) == [row EXCEPT !.tokens = row.tokens + r.tokens, !.cost = row.cost + r.cost]

\* Variant: a task over the budget of its graph goes on.
OverOwnBudget(R, t) == R[t].tokens > TokenBudget

OverBudget(R, t) ==
  \/ R[t].tokens > TokenBudget
  \/ UsedTokens(R, GraphOf[t]) > GraphTokens
  \/ UsedCost(R, GraphOf[t]) > GraphCost

\* record_usage: the usage is kept, and a task that breaks a budget fails.
RecordUsage(t, a, r) ==
  /\ Owned(t, a)
  /\ LET R == [rows EXCEPT ![t] = Billed(rows[t], r)]
     IN  rows' = IF OverBudget(R, t)
                 THEN [R EXCEPT ![t] = Released(R[t], "failed")] ELSE R

CompleteTask(t, a) ==
  /\ Owned(t, a)
  /\ rows' = [rows EXCEPT ![t] = Released(rows[t], "succeeded")]

\* Variant: a retryable failure is always tried again.
RetriesAlways(t, retryable) == retryable

\* fail_task.  The owner knows what its attempt did: recovery_safe is not read.
Retries(t, retryable) == retryable /\ rows[t].attempt < MaxAttempts[t]

FailTask(t, a, retryable) ==
  /\ Owned(t, a)
  /\ rows' = [rows EXCEPT ![t] =
       Released(rows[t], IF Retries(t, retryable) THEN "queued" ELSE "failed")]
-------------------------------------------------------------------------------
(***************************************************************************)
(* Cancelling, and the calls of dispatchers.                               *)
(***************************************************************************)
\* Variant: the tasks created by a cancelled task go on.
DependentsOf(t) == {u \in Existing : t \in Deps[u]}

Below(t) == {u \in Existing : t \in Deps[u] \/ ParentOf[u] = t}

\* The roots and everything below them (WITH RECURSIVE descendants).
Descendants(roots) ==
  LET Families == {S \in SUBSET Existing : /\ roots \subseteq S
                                           /\ \A t \in S : Below(t) \subseteq S}
  IN  {u \in Existing : \A S \in Families : u \in S}

\* _cancel_task_ids_locked: settled tasks stay as they are.
Cancelled(roots) ==
  [t \in Task |-> IF t \in Descendants(roots) /\ rows[t].state \notin Terminal
                  THEN Released(rows[t], "cancelled") ELSE rows[t]]

\* cancel_task: by anyone, whoever owns the task.
CancelTask(t) == t \in Existing /\ rows' = Cancelled({t})

CancelOwnedTask(t, a) == Owned(t, a) /\ rows' = Cancelled({t})

TasksOf(g) == {t \in Existing : GraphOf[t] = g}

CancelGraph(g) == TasksOf(g) # {} /\ rows' = Cancelled(TasksOf(g))

RecoverExpired(E) == rows' = Recovered(rows, E)

\* Variant: leases are left to the next claim.
ListUnrecovered(E) == rows' = FailBlocked(rows)

ListReadyTasks(E) == rows' = Swept(E)

Init == rows = [t \in Task |-> NoRow]

Next ==
  \/ \E batch \in SUBSET Task : CreateTasks(batch)
  \/ \E t \in Task :
       \/ Expire(t)
       \/ ClaimTask(t)
       \/ RefuseClaim(t)
       \/ CancelTask(t)
       \/ \E a \in 1..rows[t].attempt :
            \/ StartTask(t, a)
            \/ RenewLease(t, a)
            \/ MarkRecoveryUnsafe(t, a)
            \/ \E r \in Reports : RecordUsage(t, a, r)
            \/ CompleteTask(t, a)
            \/ \E retryable \in BOOLEAN : FailTask(t, a, retryable)
            \/ CancelOwnedTask(t, a)
  \/ \E g \in {GraphOf[t] : t \in Task} : CancelGraph(g)
  \/ \E E \in SUBSET Expired : RecoverExpired(E)
  \/ \E E \in SUBSET Expired : ListReadyTasks(E)

Spec == Init /\ [][Next]_rows
-------------------------------------------------------------------------------
\* A task is worked on, or has succeeded, only if everything it depends on
\* has: no sweep, retry or cancellation reaches back behind a claim.
DependenciesFirst ==
  \A t \in Task : rows[t].state \in Active \cup {"succeeded"} =>
    \A d \in Deps[t] : rows[d].state = "succeeded"

\* However many processes claim at once, no more than max_active attempts
\* hold a lease that has not expired (claim_task counts what it sweeps).
CapacityRespected ==
  Cardinality({t \in Task : rows[t].lease = "live"}) <= MaxActive

MaxOf(S) == CHOOSE n \in S \cup {0} : \A m \in S \cup {0} : m <= n

\* A graph outspends its budget only by the last report of each task that was
\* failed for it: no task goes on in a graph known to be over budget, even
\* over several attempts of several tasks (record_usage).
BudgetsBind ==
  \A g \in {GraphOf[t] : t \in Task} :
    LET failed == {t \in TasksIn(g) : rows[t].state = "failed"}
    IN  /\ UsedTokens(rows, g) <=
             GraphTokens + MaxOf({r.tokens : r \in Reports}) * Cardinality(failed)
        /\ UsedCost(rows, g) <=
             GraphCost + MaxOf({r.cost : r \in Reports}) * Cardinality(failed)

\* Whatever is cancelled takes with it, in the same step, every task that
\* depends on it and every task it created, down to the last of them.
CancellationReachesAll ==
  [][\A t, u \in Task :
       /\ rows[t].state # "cancelled" /\ rows'[t].state = "cancelled"
       /\ u \in Existing /\ (t \in Deps[u] \/ ParentOf[u] = t)
       => rows'[u].state \in Terminal]_rows

\* The ledger implements the promise of TaskGraph.
PhaseOf(t) ==
  CASE rows[t].state \in {"absent", "succeeded"} -> rows[t].state
    [] rows[t].state = "queued" -> "waiting"
    [] rows[t].state \in Active -> "active"
    [] OTHER -> "lost"

Graph == INSTANCE TaskGraph WITH
  phase <- [t \in Task |-> PhaseOf(t)],
  rounds <- [t \in Task |-> rows[t].attempt]

TaskGraphImplemented == Graph!Spec
==============================================================================

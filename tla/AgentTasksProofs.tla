--------------------------- MODULE AgentTasksProofs ---------------------------
(***************************************************************************)
(* Theorems about AgentTasks, for any graph of tasks, any limits and any   *)
(* order of calls: types, dependencies before attempts, the capacity,      *)
(* cancellation, and the ledger as an implementation of TaskGraph.         *)
(***************************************************************************)
EXTENDS AgentTasks, FiniteSetTheorems, WellFoundedInduction, TLAPS

\* A queued task has an attempt left.
TasksInvariant ==
  /\ TasksTypeOK
  /\ \A t \in Task : rows[t].state = "queued" => rows[t].attempt < MaxAttempts[t]

(***************************************************************************)
(* What a transaction does to one row, whichever it is.                    *)
(***************************************************************************)
CancelStep == \E roots \in SUBSET Task : rows' = Cancelled(roots)

Stays(t) ==
  /\ rows'[t].state = rows[t].state /\ rows'[t].attempt = rows[t].attempt
  /\ rows'[t].lease = "none" <=> rows[t].lease = "none"
  /\ rows'[t].lease = "live" => rows[t].lease = "live"
  /\ rows[t].state = "absent" => rows'[t] = NoRow

IsCreated(t) == rows[t].state = "absent" /\ rows'[t] = NewRow

Starts(t) ==
  /\ rows[t].state = "leased" /\ rows'[t].state = "running"
  /\ rows[t].lease = "live"
  /\ rows'[t].attempt = rows[t].attempt /\ rows'[t].lease # "none"

IsClaimed(t) ==
  /\ ClaimTask(t)
  /\ rows[t].state \in Active \cup {"queued"} /\ rows[t].attempt < MaxAttempts[t]
  /\ \A d \in Deps[t] : rows[d].state = "succeeded"
  /\ rows'[t].state = "leased" /\ rows'[t].lease # "none"
  /\ rows'[t].attempt = rows[t].attempt + 1

Ends(t) ==
  /\ rows'[t].attempt = rows[t].attempt /\ rows'[t].lease = "none"
  /\ \/ /\ rows[t].state \in Active /\ rows[t].attempt < MaxAttempts[t]
        /\ rows'[t].state = "queued"
     \/ rows[t].state \in Active /\ rows'[t].state = "succeeded"
     \/ rows[t].state \in Active \cup {"queued"} /\ rows'[t].state = "failed"
     \/ /\ rows[t].state \in Active \cup {"queued"} /\ rows'[t].state = "cancelled"
        /\ CancelStep

Effect(t) == Stays(t) \/ IsCreated(t) \/ Starts(t) \/ IsClaimed(t) \/ Ends(t)

\* What a sweep makes of one row, in the table R.
SweptRow(R, t) ==
  \/ R[t] = rows[t]
  \/ /\ rows[t].state \in Active /\ rows[t].attempt < MaxAttempts[t]
     /\ R[t] = Released(rows[t], "queued")
  \/ rows[t].state \in Active \cup {"queued"} /\ R[t] = Released(rows[t], "failed")

LEMMA ReleasedRow ==
  ASSUME NEW row \in Row, NEW state \in State
  PROVE  /\ Released(row, state) \in Row
         /\ Released(row, state).state = state /\ Released(row, state).lease = "none"
         /\ Released(row, state).attempt = row.attempt
BY DEF Released, Row

LEMMA ClaimedRow ==
  ASSUME NEW row \in Row
  PROVE  /\ Claimed(row) \in Row
         /\ Claimed(row).state = "leased" /\ Claimed(row).lease = "live"
         /\ Claimed(row).attempt = row.attempt + 1
<1>1. row.attempt + 1 \in Nat /\ "leased" \in State
  BY DEF Row, State, Active
<1> QED
  BY <1>1 DEF Claimed, Row

LEMMA BilledRow ==
  ASSUME NEW row \in Row, NEW r \in [tokens : Nat, cost : Nat]
  PROVE  /\ Billed(row, r) \in Row
         /\ Billed(row, r).state = row.state /\ Billed(row, r).lease = row.lease
         /\ Billed(row, r).attempt = row.attempt
<1>1. row.tokens + r.tokens \in Nat /\ row.cost + r.cost \in Nat
  BY DEF Row
<1> QED
  BY <1>1 DEF Billed, Row

LEMMA BlockedAreQueued ==
  ASSUME NEW R, NEW t \in Blocked(R)
  PROVE  t \in Task /\ R[t].state = "queued"
<1> DEFINE queued == {u \in Task : R[u].state = "queued"}
<1>1. t \in Task
  BY DEF Blocked
<1>2. t \in queued
  BY DEF Blocked
<1> QED
  BY <1>1, <1>2

\* A sweep of expired leases recovers or fails rows, and touches no other.
LEMMA SweepRows ==
  ASSUME TasksTypeOK, NEW E \in SUBSET Expired
  PROVE  /\ Recovered(rows, E) \in [Task -> Row] /\ Swept(E) \in [Task -> Row]
         /\ FailBlocked(rows) \in [Task -> Row]
         /\ \A t \in Task : SweptRow(Recovered(rows, E), t) /\ SweptRow(Swept(E), t)
<1> USE DEF Active, State, Terminal
<1>1. \A t \in Task : rows[t] \in Row
  BY DEF TasksTypeOK
<1>2. \A t \in E : t \in Task /\ rows[t].state \in Active
  BY DEF Expired, TasksTypeOK
<1> DEFINE R == Recovered(rows, E)
<1>3. R \in [Task -> Row]
  BY <1>1, ReleasedRow DEF Recovered
<1>4. \A t \in Task : \/ R[t] = rows[t]
                      \/ /\ rows[t].state \in Active /\ rows[t].attempt < MaxAttempts[t]
                         /\ R[t] = Released(rows[t], "queued")
                      \/ rows[t].state \in Active /\ R[t] = Released(rows[t], "failed")
  BY <1>2 DEF Recovered, Requeues
<1>5. ASSUME NEW T \in [Task -> Row]
      PROVE  FailBlocked(T) \in [Task -> Row]
  BY ReleasedRow, <1>5 DEF FailBlocked
<1>6. Swept(E) \in [Task -> Row]
  BY <1>3, <1>5 DEF Swept
<1>7. FailBlocked(rows) \in [Task -> Row]
  BY <1>5 DEF TasksTypeOK
<1>8. ASSUME NEW t \in Task PROVE SweptRow(Swept(E), t)
  <2>1. CASE t \in Blocked(R)
    <3>1. R[t].state = "queued" /\ Swept(E)[t] = Released(R[t], "failed")
      BY <2>1, BlockedAreQueued DEF Swept, FailBlocked
    <3>2. CASE R[t] = rows[t]
      BY <3>1, <3>2 DEF SweptRow
    <3>3. CASE rows[t].state \in Active /\ R[t] = Released(rows[t], "queued")
      <4>1. Released(R[t], "failed") = Released(rows[t], "failed")
        BY <3>3, <1>1 DEF Released, Row
      <4> QED
        BY <3>1, <3>3, <4>1 DEF SweptRow
    <3>4. R[t] # Released(rows[t], "failed")
      BY <3>1, <1>1, ReleasedRow
    <3> QED
      BY <1>4, <3>2, <3>3, <3>4
  <2>2. CASE t \notin Blocked(R)
    <3>1. Swept(E)[t] = R[t]
      BY <2>2 DEF Swept, FailBlocked
    <3> QED
      BY <1>4, <3>1 DEF SweptRow
  <2> QED
    BY <2>1, <2>2
<1> QED
  BY <1>3, <1>4, <1>6, <1>7, <1>8 DEF SweptRow

\* A row that a sweep leaves so has stayed or has ended.
LEMMA SweptEffect ==
  ASSUME TasksInvariant, NEW t \in Task, SweptRow(rows', t)
  PROVE  Effect(t)
<1> USE DEF Active, State, Terminal
<1>1. rows[t] \in Row
  BY DEF TasksInvariant, TasksTypeOK
<1>2. CASE rows'[t] = rows[t]
  BY <1>2 DEF Effect, Stays, TasksInvariant, TasksTypeOK
<1>3. CASE /\ rows[t].state \in Active /\ rows[t].attempt < MaxAttempts[t]
           /\ rows'[t] = Released(rows[t], "queued")
  BY <1>1, <1>3, ReleasedRow DEF Effect, Ends
<1>4. CASE rows[t].state \in Active \cup {"queued"} /\ rows'[t] = Released(rows[t], "failed")
  BY <1>1, <1>4, ReleasedRow DEF Effect, Ends
<1> QED
  BY <1>2, <1>3, <1>4 DEF SweptRow

\* So has a row that no part of the transaction names.
LEMMA SameEffect ==
  ASSUME TasksInvariant, NEW t \in Task, rows'[t] = rows[t]
  PROVE  Effect(t)
BY DEF Effect, Stays, TasksInvariant, TasksTypeOK

\* A claim, after its sweep of every expired lease.
LEMMA ClaimEffect ==
  ASSUME TasksInvariant, NEW t \in Task, ClaimTask(t)
  PROVE  rows' \in [Task -> Row] /\ IsClaimed(t) /\ \A u \in Task : Effect(u)
<1> USE DEF Active, State, Terminal
<1> DEFINE R == Swept(Expired)
<1>1. R \in [Task -> Row] /\ \A u \in Task : SweptRow(R, u)
  BY SweepRows DEF TasksInvariant
<1>2. rows' = [R EXCEPT ![t] = Claimed(R[t])] /\ t \in Ready(R)
  BY DEF ClaimTask, Claimable
<1>3. rows[t] \in Row /\ R[t] \in Row /\ R[t].state = "queued"
  BY <1>1, <1>2 DEF Ready, TasksInvariant, TasksTypeOK
<1>4. Claimed(R[t]) \in Row
  BY <1>3, ClaimedRow
<1>5. /\ Claimed(R[t]).state = "leased" /\ Claimed(R[t]).lease = "live"
      /\ Claimed(R[t]).attempt = R[t].attempt + 1
  BY <1>3, ClaimedRow
<1>6. rows' \in [Task -> Row] /\ rows'[t] = Claimed(R[t])
  BY <1>1, <1>2, <1>4
<1>7. /\ rows[t].state \in Active \cup {"queued"} /\ rows[t].attempt < MaxAttempts[t]
      /\ R[t].attempt = rows[t].attempt
  <2>1. CASE R[t] = rows[t]
    BY <1>3, <2>1 DEF TasksInvariant
  <2>2. CASE /\ rows[t].state \in Active /\ rows[t].attempt < MaxAttempts[t]
             /\ R[t] = Released(rows[t], "queued")
    BY <1>3, <2>2, ReleasedRow
  <2>3. R[t] # Released(rows[t], "failed")
    BY <1>3, ReleasedRow
  <2> QED
    BY <1>1, <2>1, <2>2, <2>3 DEF SweptRow
<1>8. ASSUME NEW d \in Deps[t] PROVE rows[d].state = "succeeded"
  <2>1. d \in Task /\ R[d].state = "succeeded" /\ rows[d] \in Row
    BY <1>2, TasksAssumption DEF Ready, TasksInvariant, TasksTypeOK
  <2>2. R[d] # Released(rows[d], "queued") /\ R[d] # Released(rows[d], "failed")
    BY <2>1, ReleasedRow
  <2> QED
    BY <1>1, <2>1, <2>2 DEF SweptRow
<1>9. IsClaimed(t)
  BY <1>5, <1>6, <1>7, <1>8 DEF IsClaimed
<1>10. ASSUME NEW u \in Task, u # t PROVE Effect(u)
  <2>1. rows'[u] = R[u]
    BY <1>1, <1>2, <1>10
  <2>2. SweptRow(rows', u)
    BY <1>1, <2>1 DEF SweptRow
  <2> QED
    BY <2>2, SweptEffect
<1> QED
  BY <1>6, <1>9, <1>10 DEF Effect

\* A call of the owner of one task.
LEMMA OwnerEffect ==
  ASSUME TasksInvariant, NEW t \in Task, NEW a \in 1..rows[t].attempt,
         \/ StartTask(t, a)
         \/ RenewLease(t, a)
         \/ MarkRecoveryUnsafe(t, a)
         \/ \E r \in Reports : RecordUsage(t, a, r)
         \/ CompleteTask(t, a)
         \/ \E retryable \in BOOLEAN : FailTask(t, a, retryable)
  PROVE  rows' \in [Task -> Row] /\ \A u \in Task : Effect(u)
<1> USE DEF Active, State, Terminal
<1>1. rows \in [Task -> Row] /\ rows[t] \in Row
  BY DEF TasksInvariant, TasksTypeOK
<1>2. SUFFICES \E row \in Row :
                 /\ rows' = [rows EXCEPT ![t] = row]
                 /\ rows'[t] = row => Effect(t)
  <2>1. ASSUME NEW u \in Task, u # t, NEW row \in Row, rows' = [rows EXCEPT ![t] = row]
        PROVE  Effect(u)
    BY <1>1, <2>1, SameEffect
  <2> QED
    BY <1>1, <1>2, <2>1
<1>3. rows[t].state # "absent"
  BY <1>1, SMT DEF TasksInvariant, TasksTypeOK, NoRow, Row
<1>4. CASE StartTask(t, a)
  <2> DEFINE row == [rows[t] EXCEPT !.state = "running"]
  <2>1. rows' = [rows EXCEPT ![t] = row] /\ rows[t].state = "leased" /\ rows[t].lease = "live"
    BY <1>4 DEF StartTask, Owned
  <2>2. /\ row \in Row /\ row.state = "running" /\ row.attempt = rows[t].attempt
        /\ row.lease = "live"
    BY <1>1, <2>1 DEF Row
  <2>3. rows'[t] = row => Effect(t)
    BY <2>1, <2>2 DEF Effect, Starts
  <2> QED
    BY <2>1, <2>2, <2>3
<1>5. CASE RenewLease(t, a)
  <2> DEFINE row == [rows[t] EXCEPT !.lease = "live"]
  <2>1. rows' = [rows EXCEPT ![t] = row] /\ rows[t].lease = "live"
    BY <1>5 DEF RenewLease, Owned
  <2>2. /\ row \in Row /\ row.state = rows[t].state /\ row.attempt = rows[t].attempt
        /\ row.lease = "live"
    BY <1>1, <2>1 DEF Row
  <2>3. rows'[t] = row => Effect(t)
    BY <1>3, <2>1, <2>2 DEF Effect, Stays
  <2> QED
    BY <2>1, <2>2, <2>3
<1>6. CASE MarkRecoveryUnsafe(t, a)
  <2> DEFINE row == [rows[t] EXCEPT !.safe = FALSE]
  <2>1. rows' = [rows EXCEPT ![t] = row]
    BY <1>6 DEF MarkRecoveryUnsafe
  <2>2. /\ row \in Row /\ row.state = rows[t].state /\ row.attempt = rows[t].attempt
        /\ row.lease = rows[t].lease
    BY <1>1 DEF Row
  <2>3. rows'[t] = row => Effect(t)
    BY <1>3, <2>2 DEF Effect, Stays
  <2> QED
    BY <2>1, <2>2, <2>3
<1>7. ASSUME NEW r \in Reports, RecordUsage(t, a, r)
      PROVE  \E row \in Row : /\ rows' = [rows EXCEPT ![t] = row]
                              /\ rows'[t] = row => Effect(t)
  <2> DEFINE row == Billed(rows[t], r)
             R == [rows EXCEPT ![t] = row]
  <2>1. r \in [tokens : Nat, cost : Nat]
    BY TasksAssumption
  <2>2. /\ row \in Row /\ row.state = rows[t].state /\ row.attempt = rows[t].attempt
        /\ row.lease = rows[t].lease
    BY <1>1, <2>1, BilledRow
  <2>3. R[t] = row /\ rows[t].state \in Active
    BY <1>1, <1>7 DEF RecordUsage, Owned
  <2>4. CASE OverBudget(R, t)
    <3>1. rows' = [R EXCEPT ![t] = Released(row, "failed")]
      BY <1>7, <2>3, <2>4 DEF RecordUsage
    <3>2. rows' = [rows EXCEPT ![t] = Released(row, "failed")]
      BY <1>1, <3>1
    <3>3. rows'[t] = Released(row, "failed") => Effect(t)
      BY <2>2, <2>3, ReleasedRow DEF Effect, Ends
    <3> QED
      BY <2>2, <3>2, <3>3, ReleasedRow
  <2>5. CASE ~OverBudget(R, t)
    <3>1. rows' = [rows EXCEPT ![t] = row]
      BY <1>7, <2>5 DEF RecordUsage
    <3>2. rows'[t] = row => Effect(t)
      BY <1>3, <2>2 DEF Effect, Stays
    <3> QED
      BY <2>2, <3>1, <3>2
  <2> QED
    BY <2>4, <2>5
<1>8. CASE CompleteTask(t, a)
  <2>1. /\ rows' = [rows EXCEPT ![t] = Released(rows[t], "succeeded")]
        /\ rows[t].state \in Active
    BY <1>8 DEF CompleteTask, Owned
  <2>2. rows'[t] = Released(rows[t], "succeeded") => Effect(t)
    BY <1>1, <2>1, ReleasedRow DEF Effect, Ends
  <2> QED
    BY <1>1, <2>1, <2>2, ReleasedRow
<1>9. ASSUME NEW retryable \in BOOLEAN, FailTask(t, a, retryable)
      PROVE  \E row \in Row : /\ rows' = [rows EXCEPT ![t] = row]
                              /\ rows'[t] = row => Effect(t)
  <2>1. rows[t].state \in Active
    BY <1>9 DEF FailTask, Owned
  <2>2. CASE Retries(t, retryable)
    <3>1. rows' = [rows EXCEPT ![t] = Released(rows[t], "queued")]
      BY <1>9, <2>2 DEF FailTask
    <3>2. rows'[t] = Released(rows[t], "queued") => Effect(t)
      BY <1>1, <2>1, <2>2, ReleasedRow DEF Effect, Ends, Retries
    <3> QED
      BY <1>1, <3>1, <3>2, ReleasedRow
  <2>3. CASE ~Retries(t, retryable)
    <3>1. rows' = [rows EXCEPT ![t] = Released(rows[t], "failed")]
      BY <1>9, <2>3 DEF FailTask
    <3>2. rows'[t] = Released(rows[t], "failed") => Effect(t)
      BY <1>1, <2>1, ReleasedRow DEF Effect, Ends
    <3> QED
      BY <1>1, <3>1, <3>2, ReleasedRow
  <2> QED
    BY <2>2, <2>3
<1> QED
  BY <1>4, <1>5, <1>6, <1>7, <1>8, <1>9

LEMMA CreateEffect ==
  ASSUME TasksInvariant, NEW batch \in SUBSET Task, CreateTasks(batch)
  PROVE  rows' \in [Task -> Row] /\ \A t \in Task : Effect(t)
<1> USE DEF Active, State, Terminal
<1>1. NewRow \in Row
  BY DEF NewRow, NoRow, Row
<1>2. rows' \in [Task -> Row]
  BY <1>1 DEF CreateTasks, TasksInvariant, TasksTypeOK
<1>3. ASSUME NEW t \in Task PROVE Effect(t)
  <2>1. CASE t \in batch
    <3>1. rows[t].state = "absent" /\ rows'[t] = NewRow
      BY <2>1 DEF CreateTasks, Existing
    <3> QED
      BY <3>1 DEF Effect, IsCreated
  <2>2. CASE t \notin batch
    BY <2>2, SameEffect DEF CreateTasks
  <2> QED
    BY <2>1, <2>2
<1> QED
  BY <1>2, <1>3

LEMMA ExpireEffect ==
  ASSUME TasksInvariant, NEW t \in Task, Expire(t)
  PROVE  rows' \in [Task -> Row] /\ \A u \in Task : Effect(u)
<1> USE DEF Active, State, Terminal
<1> DEFINE row == [rows[t] EXCEPT !.lease = "expired"]
<1>1. rows \in [Task -> Row] /\ rows[t] \in Row
  BY DEF TasksInvariant, TasksTypeOK
<1>2. rows' = [rows EXCEPT ![t] = row] /\ rows[t].lease = "live"
  BY DEF Expire
<1>3. /\ row \in Row /\ row.state = rows[t].state /\ row.attempt = rows[t].attempt
      /\ row.lease = "expired"
  BY <1>1 DEF Row
<1>4. rows[t].state # "absent"
  BY <1>1, <1>2 DEF TasksInvariant, TasksTypeOK
<1>5. rows' \in [Task -> Row] /\ rows'[t] = row
  BY <1>1, <1>2, <1>3
<1>6. Effect(t)
  BY <1>2, <1>3, <1>4, <1>5 DEF Effect, Stays
<1>7. ASSUME NEW u \in Task, u # t PROVE Effect(u)
  BY <1>1, <1>2, <1>7, SameEffect
<1> QED
  BY <1>5, <1>6, <1>7

LEMMA CancelEffect ==
  ASSUME TasksInvariant, CancelStep
  PROVE  rows' \in [Task -> Row] /\ \A t \in Task : Effect(t)
<1> USE DEF Active, State, Terminal
<1>1. PICK roots \in SUBSET Task : rows' = Cancelled(roots)
  BY DEF CancelStep
<1>2. \A t \in Task : rows[t] \in Row
  BY DEF TasksInvariant, TasksTypeOK
<1>3. rows' \in [Task -> Row]
  BY <1>1, <1>2, ReleasedRow DEF Cancelled
<1>4. ASSUME NEW t \in Task PROVE Effect(t)
  <2>1. CASE t \in Descendants(roots) /\ rows[t].state \notin Terminal
    <3>1. rows'[t] = Released(rows[t], "cancelled") /\ t \in Existing
      BY <1>1, <2>1 DEF Cancelled, Descendants
    <3>2. rows[t].state \in Active \cup {"queued"}
      BY <1>2, <2>1, <3>1 DEF Existing, Row
    <3> QED
      BY <1>2, <3>1, <3>2, ReleasedRow DEF Effect, Ends
  <2>2. CASE ~(t \in Descendants(roots) /\ rows[t].state \notin Terminal)
    BY <1>1, <2>2, SameEffect DEF Cancelled
  <2> QED
    BY <2>1, <2>2
<1> QED
  BY <1>3, <1>4

\* Every step of the ledger, row by row.
LEMMA StepEffect ==
  ASSUME TasksInvariant, [Next]_rows
  PROVE  rows' \in [Task -> Row] /\ \A t \in Task : Effect(t)
<1>1. ASSUME NEW E \in SUBSET Expired, rows' = Recovered(rows, E) \/ rows' = Swept(E)
      PROVE  rows' \in [Task -> Row] /\ \A t \in Task : Effect(t)
  <2>1. rows' \in [Task -> Row] /\ \A t \in Task : SweptRow(rows', t)
    BY <1>1, SweepRows DEF TasksInvariant
  <2> QED
    BY <2>1, SweptEffect
<1>2. CASE \E batch \in SUBSET Task : CreateTasks(batch)
  BY <1>2, CreateEffect
<1>3. ASSUME NEW t \in Task, Expire(t)
      PROVE  rows' \in [Task -> Row] /\ \A u \in Task : Effect(u)
  BY <1>3, ExpireEffect
<1>4. ASSUME NEW t \in Task, ClaimTask(t)
      PROVE  rows' \in [Task -> Row] /\ \A u \in Task : Effect(u)
  BY <1>4, ClaimEffect
<1>5. ASSUME NEW t \in Task, RefuseClaim(t)
      PROVE  rows' \in [Task -> Row] /\ \A u \in Task : Effect(u)
  BY <1>1, <1>5 DEF RefuseClaim
<1>6. ASSUME NEW t \in Task, CancelTask(t)
      PROVE  CancelStep
  BY <1>6 DEF CancelTask, CancelStep
<1>7. ASSUME NEW t \in Task, NEW a \in 1..rows[t].attempt, CancelOwnedTask(t, a)
      PROVE  CancelStep
  BY <1>7 DEF CancelOwnedTask, CancelStep
<1>8. ASSUME NEW g, CancelGraph(g)
      PROVE  CancelStep
  <2>1. TasksOf(g) \in SUBSET Task
    BY DEF TasksOf, Existing
  <2> QED
    BY <1>8, <2>1 DEF CancelGraph, CancelStep
<1>9. ASSUME NEW t \in Task, NEW a \in 1..rows[t].attempt,
             \/ StartTask(t, a)
             \/ RenewLease(t, a)
             \/ MarkRecoveryUnsafe(t, a)
             \/ \E r \in Reports : RecordUsage(t, a, r)
             \/ CompleteTask(t, a)
             \/ \E retryable \in BOOLEAN : FailTask(t, a, retryable)
      PROVE  rows' \in [Task -> Row] /\ \A u \in Task : Effect(u)
  BY <1>9, OwnerEffect
<1>10. CASE \E E \in SUBSET Expired : RecoverExpired(E)
  BY <1>1, <1>10 DEF RecoverExpired
<1>11. CASE \E E \in SUBSET Expired : ListReadyTasks(E)
  BY <1>1, <1>11 DEF ListReadyTasks
<1>12. CASE UNCHANGED rows
  BY <1>12, SameEffect DEF TasksInvariant, TasksTypeOK
<1>13. CASE CancelStep
  BY <1>13, CancelEffect
<1>14. CASE Next
  BY <1>2, <1>3, <1>4, <1>5, <1>6, <1>7, <1>8, <1>9, <1>10, <1>11, <1>13, <1>14 DEF Next
<1> QED
  BY <1>12, <1>14

LEMMA InvariantStep ==
  ASSUME TasksInvariant, [Next]_rows
  PROVE  TasksInvariant'
<1> USE DEF Active, State, Terminal
<1>1. rows' \in [Task -> Row] /\ \A t \in Task : Effect(t)
  BY StepEffect
<1> DEFINE Shape(t) ==
      /\ rows[t].state \in Active <=> rows[t].lease # "none"
      /\ rows[t].state \in Active => rows[t].attempt >= 1
      /\ rows[t].attempt <= MaxAttempts[t]
      /\ rows[t].state = "absent" => rows[t] = NoRow
      /\ rows[t].state = "queued" => rows[t].attempt < MaxAttempts[t]
<1>2. ASSUME NEW t \in Task PROVE Shape(t)'
  <2>1. /\ Shape(t) /\ rows[t] \in Row /\ rows'[t] \in Row
        /\ MaxAttempts[t] \in Nat \ {0}
    BY <1>1, TasksAssumption DEF TasksInvariant, TasksTypeOK
  <2>2. rows[t].attempt \in Nat /\ rows'[t].attempt \in Nat
    BY <2>1 DEF Row
  <2>3. CASE Stays(t)
    BY <2>1, <2>2, <2>3 DEF Stays
  <2>4. CASE IsCreated(t)
    BY <2>1, <2>4 DEF IsCreated, NewRow, NoRow
  <2>5. CASE Starts(t)
    BY <2>1, <2>2, <2>5 DEF Starts
  <2>6. CASE IsClaimed(t)
    BY <2>1, <2>2, <2>6 DEF IsClaimed
  <2>7. CASE Ends(t)
    BY <2>1, <2>2, <2>7 DEF Ends
  <2> QED
    BY <1>1, <2>3, <2>4, <2>5, <2>6, <2>7 DEF Effect
<1> QED
  BY <1>1, <1>2 DEF TasksInvariant, TasksTypeOK

LEMMA InvariantInit == Init => TasksInvariant
<1>1. NoRow \in Row
  BY DEF NoRow, Row, State
<1>2. NoRow.state = "absent" /\ NoRow.lease = "none" /\ NoRow.attempt = 0
  BY DEF NoRow
<1> QED
  BY <1>1, <1>2, TasksAssumption DEF Init, TasksInvariant, TasksTypeOK, Active

LEMMA Invariance == Spec => []TasksInvariant
<1>1. TasksInvariant /\ [Next]_rows => TasksInvariant'
  BY InvariantStep
<1> QED
  BY InvariantInit, <1>1, PTL DEF Spec

\* The rows of agent_tasks keep their types and their shape: whatever order
\* the calls, the sweeps and the clock come in, exactly the leased and running
\* rows hold a lease, and no task is tried more often than max_attempts
\* (claim_task, fail_task, _recover_expired_locked).
THEOREM TasksTypeCorrect == Spec => []TasksTypeOK
<1>1. TasksInvariant => TasksTypeOK
  BY DEF TasksInvariant
<1> QED
  BY Invariance, <1>1, PTL

\* No task is worked on, or has succeeded, before everything it depends on has
\* succeeded: nothing takes a success back (_ready, claim_task and the sweep).
THEOREM DependenciesComeFirst == Spec => []DependenciesFirst
<1> USE DEF Active, State, Terminal
<1>1. Init => DependenciesFirst
  BY DEF Init, DependenciesFirst, NoRow
<1>2. ASSUME TasksInvariant, DependenciesFirst, [Next]_rows
      PROVE  DependenciesFirst'
  <2>1. \A t \in Task : Effect(t)
    BY <1>2, StepEffect
  <2>2. ASSUME NEW d \in Task, rows[d].state = "succeeded"
        PROVE  rows'[d].state = "succeeded"
    BY <2>1, <2>2 DEF Effect, Stays, IsCreated, Starts, IsClaimed, Ends
  <2>3. ASSUME NEW t \in Task, rows'[t].state \in Active \cup {"succeeded"}
        PROVE  \A d \in Deps[t] : rows[d].state = "succeeded"
    <3>1. \/ rows[t].state \in Active \cup {"succeeded"}
          \/ IsClaimed(t)
      BY <2>1, <2>3 DEF Effect, Stays, IsCreated, Starts, Ends, NewRow, NoRow
    <3> QED
      BY <1>2, <3>1 DEF DependenciesFirst, IsClaimed
  <2>4. \A t \in Task : Deps[t] \subseteq Task
    BY TasksAssumption
  <2> QED
    BY <2>2, <2>3, <2>4 DEF DependenciesFirst
<1> QED
  BY Invariance, <1>1, <1>2, PTL DEF Spec

\* However claims, sweeps and expiries interleave, the leases that are alive
\* never outnumber max_active: claim_task counts after its sweep.
THEOREM CapacityKept == Spec => []CapacityRespected
<1> USE DEF Active, State, Terminal
<1> DEFINE live == {t \in Task : rows[t].lease = "live"}
<1>1. IsFiniteSet(live) /\ MaxActive \in Nat \ {0}
  BY TasksAssumption, FS_Subset
<1>2. Init => CapacityRespected
  <2>1. Init => live = {}
    BY DEF Init, NoRow
  <2> QED
    BY <1>1, <2>1, FS_EmptySet DEF CapacityRespected
<1>3. ASSUME TasksInvariant, CapacityRespected, [Next]_rows
      PROVE  CapacityRespected'
  <2>1. \A t \in Task : Effect(t)
    BY <1>3, StepEffect
  <2>2. CASE \E t \in Task : ClaimTask(t)
    <3>1. PICK t \in Task : ClaimTask(t)
      BY <2>2
    <3> DEFINE R == Swept(Expired)
               held == {u \in Task : R[u].state \in Active /\ R[u].lease = "live"}
    <3>2. /\ R \in [Task -> Row] /\ \A u \in Task : SweptRow(R, u)
          /\ rows' = [R EXCEPT ![t] = Claimed(R[t])]
          /\ Cardinality(held) < MaxActive
      BY <1>3, <3>1, SweepRows DEF TasksInvariant, ClaimTask, Claimable, HasRoom
    <3>3. ASSUME NEW u \in Task, u # t, rows'[u].lease = "live"
          PROVE  u \in held
      <4>1. R[u].lease = "live" /\ rows[u] \in Row
        BY <1>3, <3>2, <3>3 DEF TasksInvariant, TasksTypeOK
      <4>2. R[u] = rows[u]
        BY <3>2, <4>1, ReleasedRow DEF SweptRow
      <4>3. rows[u].state \in Active
        BY <1>3, <4>1, <4>2 DEF TasksInvariant, TasksTypeOK
      <4> QED
        BY <4>1, <4>2, <4>3
    <3>4. live' \subseteq held \cup {t}
      BY <3>3
    <3>5. IsFiniteSet(held) /\ IsFiniteSet(held \cup {t})
      BY TasksAssumption, FS_Subset, FS_AddElement
    <3>6. Cardinality(held \cup {t}) <= Cardinality(held) + 1
      <4>1. Cardinality(held \cup {t}) \in {Cardinality(held), Cardinality(held) + 1}
        BY <3>5, FS_AddElement
      <4>2. Cardinality(held) \in Nat
        BY <3>5, FS_CardinalityType
      <4> QED
        BY <4>1, <4>2
    <3>7. /\ Cardinality(live') <= Cardinality(held \cup {t})
          /\ Cardinality(live') \in Nat /\ Cardinality(held) \in Nat
          /\ Cardinality(held \cup {t}) \in Nat
      BY <3>4, <3>5, FS_Subset, FS_CardinalityType
    <3>8. Cardinality(live') <= MaxActive
      BY <1>1, <3>2, <3>6, <3>7
    <3> QED
      BY <3>8 DEF CapacityRespected
  <2>3. CASE ~\E t \in Task : ClaimTask(t)
    <3>1. live' \subseteq live
      BY <2>1, <2>3 DEF Effect, Stays, IsCreated, Starts, IsClaimed, Ends, NewRow, NoRow
    <3>2. Cardinality(live') <= Cardinality(live)
      BY <1>1, <3>1, FS_Subset
    <3>3. Cardinality(live') \in Nat /\ Cardinality(live) \in Nat
      BY <1>1, <3>1, FS_Subset, FS_CardinalityType
    <3>4. Cardinality(live') <= MaxActive
      BY <1>1, <1>3, <3>2, <3>3 DEF CapacityRespected
    <3> QED
      BY <3>4 DEF CapacityRespected
  <2> QED
    BY <2>2, <2>3
<1> QED
  BY Invariance, <1>2, <1>3, PTL DEF Spec

\* A cancellation takes everything below it along, in one transaction, however
\* deep: dependents and created tasks (_cancel_task_ids_locked).
THEOREM CancellationReaches == Spec => CancellationReachesAll
<1> USE DEF Active, State, Terminal
<1> DEFINE Reached(t, u) ==
      /\ rows[t].state # "cancelled" /\ rows'[t].state = "cancelled"
      /\ u \in Existing /\ (t \in Deps[u] \/ ParentOf[u] = t)
      => rows'[u].state \in Terminal
<1>1. ASSUME TasksInvariant, [Next]_rows, NEW t \in Task, NEW u \in Task,
             rows[t].state # "cancelled", rows'[t].state = "cancelled",
             u \in Existing, t \in Deps[u] \/ ParentOf[u] = t
      PROVE  rows'[u].state \in Terminal
  <2>1. Effect(t) /\ rows[u] \in Row
    BY <1>1, StepEffect DEF TasksInvariant, TasksTypeOK
  <2>2. CancelStep
    BY <1>1, <2>1 DEF Effect, Stays, IsCreated, Starts, IsClaimed, Ends, NewRow, NoRow
  <2>3. PICK roots \in SUBSET Task : rows' = Cancelled(roots)
    BY <2>2 DEF CancelStep
  <2>4. t \in Descendants(roots)
    BY <1>1, <2>3 DEF Cancelled
  <2>5. u \in Below(t)
    BY <1>1 DEF Below
  <2>6. u \in Descendants(roots)
    BY <1>1, <2>4, <2>5 DEF Descendants
  <2>7. CASE rows[u].state \in Terminal
    BY <2>3, <2>7 DEF Cancelled
  <2>8. CASE rows[u].state \notin Terminal
    <3>1. rows'[u] = Released(rows[u], "cancelled")
      BY <2>3, <2>6, <2>8 DEF Cancelled
    <3> QED
      BY <2>1, <3>1, ReleasedRow
  <2> QED
    BY <2>7, <2>8
<1>2. TasksInvariant /\ [Next]_rows => [\A t, u \in Task : Reached(t, u)]_rows
  BY <1>1
<1> QED
  BY Invariance, <1>2, PTL DEF Spec, CancellationReachesAll

\* The ledger, with its leases, sweeps, budgets and cancellations, moves each
\* task only as TaskGraph promises.
THEOREM LedgerImplementsGraph == Spec => TaskGraphImplemented
<1> USE DEF Active, State, Terminal
<1>1. Init => Graph!Init
  BY DEF Init, Graph!Init, PhaseOf, NoRow
<1>2. ASSUME TasksInvariant, [Next]_rows
      PROVE  Graph!Next
  <2>1. TasksInvariant' /\ \A t \in Task : Effect(t)
    BY <1>2, InvariantStep, StepEffect
  <2>2. ASSUME NEW t \in Task PROVE Graph!TaskStep(t)
    <3> DEFINE ph == [u \in Task |-> PhaseOf(u)]
               ro == [u \in Task |-> rows[u].attempt]
    <3>1. /\ ph[t] = PhaseOf(t) /\ ph'[t] = PhaseOf(t)'
          /\ ro[t] = rows[t].attempt /\ ro'[t] = rows'[t].attempt
      OBVIOUS
    <3>2. CASE Stays(t)
      <4>1. ph'[t] = ph[t] /\ ro'[t] = ro[t]
        BY <3>1, <3>2 DEF Stays, PhaseOf
      <4> QED
        BY <4>1 DEF Graph!TaskStep
    <3>3. CASE IsCreated(t)
      <4>1. ph[t] = "absent" /\ ph'[t] = "waiting" /\ ro'[t] = 0
        BY <3>1, <3>3 DEF IsCreated, PhaseOf, NewRow, NoRow
      <4> QED
        BY <4>1 DEF Graph!TaskStep
    <3>4. CASE Starts(t)
      <4>1. ph'[t] = ph[t] /\ ro'[t] = ro[t]
        BY <3>1, <3>4 DEF Starts, PhaseOf
      <4> QED
        BY <4>1 DEF Graph!TaskStep
    <3>5. CASE IsClaimed(t)
      <4>1. ph[t] \in {"waiting", "active"} /\ ph'[t] = "active" /\ ro'[t] = ro[t] + 1
        BY <3>1, <3>5 DEF IsClaimed, PhaseOf
      <4>2. ro'[t] <= MaxAttempts[t]
        BY <2>1, <3>1 DEF TasksInvariant, TasksTypeOK
      <4>3. \A d \in Deps[t] : d \in Task /\ rows[d].state = "succeeded"
        BY <3>5, TasksAssumption DEF IsClaimed
      <4>4. \A d \in Deps[t] : ph[d] = "succeeded"
        BY <4>3 DEF PhaseOf
      <4> QED
        BY <4>1, <4>2, <4>4 DEF Graph!TaskStep
    <3>6. CASE Ends(t)
      <4>1. ro'[t] = ro[t]
        BY <3>1, <3>6 DEF Ends
      <4>2. \/ ph[t] = "active" /\ ph'[t] = "waiting" /\ ro[t] < MaxAttempts[t]
            \/ ph[t] = "active" /\ ph'[t] = "succeeded"
            \/ ph[t] \in {"waiting", "active"} /\ ph'[t] = "lost"
        BY <3>1, <3>6 DEF Ends, PhaseOf
      <4> QED
        BY <4>1, <4>2 DEF Graph!TaskStep
    <3> QED
      BY <2>1, <3>2, <3>3, <3>4, <3>5, <3>6 DEF Effect
  <2> QED
    BY <2>2 DEF Graph!Next
<1> QED
  BY Invariance, <1>1, <1>2, PTL DEF Spec, TaskGraphImplemented, Graph!Spec
-----------------------------------------------------------------------------
(***************************************************************************)
(* Budgets.                                                                *)
(***************************************************************************)
\* The largest of some reports.  A finite set of numbers has a largest one: the
\* one above which the fewest lie.
LEMMA MostOf ==
  ASSUME NEW S, IsFiniteSet(S), S \subseteq Nat
  PROVE  MaxOf(S) \in Nat /\ \A n \in S : n <= MaxOf(S)
<1> DEFINE T == S \cup {0}
           Above(m) == {n \in T : n >= m}
           Aboves == {Above(m) : m \in T}
<1>1. IsFiniteSet(T) /\ T \subseteq Nat /\ 0 \in T
  BY FS_AddElement
<1> HIDE DEF T
<1>2. Aboves \subseteq FiniteSubsetsOf(T) /\ Aboves # {}
  <2>1. \A m \in T : Above(m) \in SUBSET T
    OBVIOUS
  <2>2. \A m \in T : IsFiniteSet(Above(m))
    <3> TAKE m \in T
    <3> HIDE DEF Above
    <3> QED BY <1>1, <2>1, FS_Subset
  <2> QED BY <1>1, <2>1, <2>2 DEF FiniteSubsetsOf
<1>3. PICK s \in Aboves : \A y \in Aboves : <<y, s>> \notin StrictSubsetOrdering(T)
  BY <1>2, FS_StrictSubsetOrderingWellFounded, WFMin
<1>4. PICK m \in T : s = Above(m)
  OBVIOUS
<1>5. ASSUME NEW n \in T, ~(n <= m)
      PROVE  FALSE
  <2>1. m < n /\ n \in Int /\ m \in Int
    BY <1>1, <1>5
  <2>2. Above(n) \subseteq Above(m) /\ m \in Above(m) /\ m \notin Above(n)
    <3>1. \A y \in T : y >= n => y >= m
      BY <1>1, <2>1
    <3>2. m >= m /\ ~(m >= n)
      BY <2>1
    <3> QED BY <3>1, <3>2
  <2>3. Above(n) \in Aboves /\ Above(n) \in SUBSET T /\ s \in SUBSET T
    BY <1>4
  <2> HIDE DEF Above, Aboves
  <2>4. <<Above(n), s>> \in StrictSubsetOrdering(T)
    BY <1>4, <2>2, <2>3 DEF StrictSubsetOrdering
  <2> QED BY <1>3, <2>3, <2>4
<1>6. MaxOf(S) \in T /\ \A n \in T : n <= MaxOf(S)
  BY <1>5 DEF MaxOf, T
<1> QED BY <1>1, <1>6 DEF T

LEMMA UnitsAreFinite ==
  ASSUME NEW S, IsFiniteSet(S), NEW use \in [S -> Nat]
  PROVE  IsFiniteSet(Units(use)) /\ Total(use) \in Nat
<1> DEFINE part == [u \in S |-> {u} \X (1..use[u])]
           parts == {{u} \X (1..use[u]) : u \in S}
<1>1. part \in Surjection(S, parts)
  BY DEF Surjection
<1>2. IsFiniteSet(parts)
  BY <1>1, FS_Surjection
<1>3. ASSUME NEW u \in S
      PROVE  IsFiniteSet({u} \X (1..use[u]))
  <2>1. 1 \in Int /\ use[u] \in Int
    OBVIOUS
  <2>2. IsFiniteSet({u}) /\ IsFiniteSet(1..use[u])
    BY <2>1, FS_Singleton, FS_Interval
  <2> QED BY <2>2, FS_Product
<1>4. \A p \in parts : IsFiniteSet(p)
  BY <1>3
<1>5. Units(use) = UNION parts
  BY DEF Units
<1>6. IsFiniteSet(Units(use))
  BY <1>2, <1>4, <1>5, FS_UNION
<1> QED BY <1>6, FS_CardinalityType DEF Total

\* The sum grows by what one task is billed.
LEMMA TotalGrows ==
  ASSUME NEW S, IsFiniteSet(S), NEW use \in [S -> Nat], NEW t \in S, NEW n \in Nat
  PROVE  Total([use EXCEPT ![t] = use[t] + n]) = Total(use) + n
<1> DEFINE more == [use EXCEPT ![t] = use[t] + n]
           added == {t} \X ((use[t] + 1)..(use[t] + n))
<1>1. IsFiniteSet(Units(use))
  BY UnitsAreFinite
<1>2. IsFiniteSet(added) /\ Cardinality(added) = n
  <2>1. IsFiniteSet({t}) /\ Cardinality({t}) = 1
    BY FS_Singleton
  <2> DEFINE low == use[t] + 1
             high == use[t] + n
             range == low..high
  <2>2. low \in Int /\ high \in Int /\ n = IF low > high THEN 0 ELSE high - low + 1
    OBVIOUS
  <2> HIDE DEF low, high
  <2>3. IsFiniteSet(range) /\ Cardinality(range) = n
    BY <2>2, FS_Interval
  <2> HIDE DEF range
  <2>4. IsFiniteSet({t} \X range) /\ Cardinality({t} \X range) = 1 * n
    BY <2>1, <2>3, FS_Product
  <2> QED BY <2>4 DEF range, low, high
<1>3. Units(more) = Units(use) \cup added
  <2>1. \A u \in S : more[u] = IF u = t THEN use[t] + n ELSE use[u]
    OBVIOUS
  <2>2. \A x : x \in Units(more) <=> \E u \in S : \E k \in 1..more[u] : x = <<u, k>>
    BY DEF Units
  <2>3. \A x : x \in Units(use) <=> \E u \in S : \E k \in 1..use[u] : x = <<u, k>>
    BY DEF Units
  <2>4. \A x : x \in added <=> \E k \in (use[t] + 1)..(use[t] + n) : x = <<t, k>>
    OBVIOUS
  <2>5. 1..(use[t] + n) = 1..use[t] \cup (use[t] + 1)..(use[t] + n)
    OBVIOUS
  <2>6. ASSUME NEW x, x \in Units(more) PROVE x \in Units(use) \cup added
    BY <2>1, <2>2, <2>3, <2>4, <2>5, <2>6
  <2>7. ASSUME NEW x, x \in Units(use) \cup added PROVE x \in Units(more)
    BY <2>1, <2>2, <2>3, <2>4, <2>5, <2>7
  <2> QED BY <2>6, <2>7
<1>4. Units(use) \cap added = {}
  <2>1. \A k \in (use[t] + 1)..(use[t] + n) : k \notin 1..use[t]
    OBVIOUS
  <2>2. \A k : <<t, k>> \in Units(use) => k \in 1..use[t]
    BY DEF Units
  <2> QED BY <2>1, <2>2
<1> HIDE DEF more, added
<1>5. Cardinality(Units(use)) \in Nat
  BY <1>1, FS_CardinalityType
<1>6. Cardinality(Units(use) \cup added) = Cardinality(Units(use)) + n
  BY <1>1, <1>2, <1>4, <1>5, FS_Union, FS_EmptySet
<1> QED BY <1>3, <1>5, <1>6 DEF Total, more

SameUse == \A t \in Task : rows'[t].tokens = rows[t].tokens /\ rows'[t].cost = rows[t].cost

LEMMA ReleasedUse ==
  ASSUME NEW row \in Row, NEW state
  PROVE  Released(row, state).tokens = row.tokens /\ Released(row, state).cost = row.cost
BY DEF Released, Row

LEMMA SweepKeepsUse ==
  ASSUME TasksTypeOK, NEW R, NEW t \in Task, SweptRow(R, t)
  PROVE  R[t].tokens = rows[t].tokens /\ R[t].cost = rows[t].cost
BY ReleasedUse DEF SweptRow, TasksTypeOK

\* Only a report changes what a task has used.
LEMMA OnlyReportsBill ==
  ASSUME TasksInvariant, [Next]_rows,
         ~\E t \in Task : \E a \in 1..rows[t].attempt : \E r \in Reports : RecordUsage(t, a, r)
  PROVE  SameUse
<1>1. rows \in [Task -> Row] /\ \A t \in Task : rows[t] \in Row
  BY DEF TasksInvariant, TasksTypeOK
<1>2. ASSUME NEW E \in SUBSET Expired, rows' \in {Recovered(rows, E), Swept(E)}
      PROVE  SameUse
  <2>1. \A t \in Task : SweptRow(rows', t)
    BY <1>2, SweepRows DEF TasksInvariant
  <2> QED BY <2>1, SweepKeepsUse DEF SameUse, TasksInvariant
<1>3. ASSUME NEW batch \in SUBSET Task, CreateTasks(batch)
      PROVE  SameUse
  <2>1. \A t \in batch : rows[t] = NoRow
    BY <1>3 DEF CreateTasks, Existing, TasksInvariant, TasksTypeOK
  <2>2. NewRow.tokens = NoRow.tokens /\ NewRow.cost = NoRow.cost
    BY DEF NewRow, NoRow
  <2>3. \A t \in Task : rows'[t] = IF t \in batch THEN NewRow ELSE rows[t]
    BY <1>3 DEF CreateTasks
  <2> QED BY <2>1, <2>2, <2>3 DEF SameUse
<1>4. ASSUME CancelStep PROVE SameUse
  <2>1. PICK roots \in SUBSET Task : rows' = Cancelled(roots)
    BY <1>4 DEF CancelStep
  <2>2. \A t \in Task : rows'[t] \in {rows[t], Released(rows[t], "cancelled")}
    BY <2>1 DEF Cancelled
  <2> QED BY <1>1, <2>2, ReleasedUse DEF SameUse
<1>5. ASSUME NEW t \in Task, ClaimTask(t) PROVE SameUse
  <2> DEFINE R == Swept(Expired)
  <2>1. R \in [Task -> Row] /\ \A u \in Task : SweptRow(R, u)
    BY SweepRows DEF TasksInvariant
  <2>2. \A u \in Task : R[u].tokens = rows[u].tokens /\ R[u].cost = rows[u].cost
    BY <2>1, SweepKeepsUse DEF TasksInvariant
  <2>3. rows' = [R EXCEPT ![t] = Claimed(R[t])]
    BY <1>5 DEF ClaimTask
  <2>4. Claimed(R[t]).tokens = R[t].tokens /\ Claimed(R[t]).cost = R[t].cost
    BY <2>1 DEF Claimed, Row
  <2> HIDE DEF R
  <2> QED BY <2>1, <2>2, <2>3, <2>4 DEF SameUse
<1>6. ASSUME NEW t \in Task, NEW row, rows' = [rows EXCEPT ![t] = row],
             row.tokens = rows[t].tokens, row.cost = rows[t].cost
      PROVE  SameUse
  BY <1>1, <1>6 DEF SameUse
<1>7. ASSUME NEW t \in Task, NEW a \in 1..rows[t].attempt,
             \/ StartTask(t, a)
             \/ RenewLease(t, a)
             \/ MarkRecoveryUnsafe(t, a)
             \/ CompleteTask(t, a)
             \/ \E retryable \in BOOLEAN : FailTask(t, a, retryable)
             \/ Expire(t)
      PROVE  SameUse
  <2>1. PICK row : /\ rows' = [rows EXCEPT ![t] = row]
                   /\ \/ row = [rows[t] EXCEPT !.state = "running"]
                      \/ row = [rows[t] EXCEPT !.lease = "live"]
                      \/ row = [rows[t] EXCEPT !.safe = FALSE]
                      \/ row = [rows[t] EXCEPT !.lease = "expired"]
                      \/ \E state : row = Released(rows[t], state)
    <3>1. CASE StartTask(t, a)
      BY <3>1 DEF StartTask
    <3>2. CASE RenewLease(t, a)
      BY <3>2 DEF RenewLease
    <3>3. CASE MarkRecoveryUnsafe(t, a)
      BY <3>3 DEF MarkRecoveryUnsafe
    <3>4. CASE CompleteTask(t, a)
      BY <3>4 DEF CompleteTask
    <3>5. ASSUME NEW retryable \in BOOLEAN, FailTask(t, a, retryable)
          PROVE  \E state : rows' = [rows EXCEPT ![t] = Released(rows[t], state)]
      BY <3>5 DEF FailTask
    <3>6. CASE Expire(t)
      BY <3>6 DEF Expire
    <3> QED BY <1>7, <3>1, <3>2, <3>3, <3>4, <3>5, <3>6
  <2>2. row.tokens = rows[t].tokens /\ row.cost = rows[t].cost
    BY <1>1, <2>1, ReleasedUse DEF Row
  <2> QED BY <1>6, <2>1, <2>2
<1>8. ASSUME NEW t \in Task, Expire(t) PROVE SameUse
  <2>1. rows' = [rows EXCEPT ![t] = [rows[t] EXCEPT !.lease = "expired"]]
    BY <1>8 DEF Expire
  <2>2. /\ [rows[t] EXCEPT !.lease = "expired"].tokens = rows[t].tokens
        /\ [rows[t] EXCEPT !.lease = "expired"].cost = rows[t].cost
    BY <1>1 DEF Row
  <2> QED BY <1>6, <2>1, <2>2
<1>9. ASSUME NEW t \in Task, CancelTask(t) PROVE CancelStep
  BY <1>9 DEF CancelTask, CancelStep
<1>10. ASSUME NEW t \in Task, NEW a, CancelOwnedTask(t, a) PROVE CancelStep
  BY <1>10 DEF CancelOwnedTask, CancelStep
<1>11. ASSUME NEW g, CancelGraph(g) PROVE CancelStep
  <2>1. TasksOf(g) \in SUBSET Task
    BY DEF TasksOf, Existing
  <2> QED BY <1>11, <2>1 DEF CancelGraph, CancelStep
<1>12. ASSUME NEW t \in Task, RefuseClaim(t) PROVE SameUse
  BY <1>2, <1>12 DEF RefuseClaim
<1>13. CASE \E E \in SUBSET Expired : RecoverExpired(E) \/ ListReadyTasks(E)
  BY <1>2, <1>13 DEF RecoverExpired, ListReadyTasks
<1>14. CASE UNCHANGED rows
  BY <1>14 DEF SameUse
<1> QED
  BY <1>3, <1>4, <1>5, <1>7, <1>8, <1>9, <1>10, <1>11, <1>12, <1>13, <1>14 DEF Next

Failed(g) == {t \in TasksIn(g) : rows[t].state = "failed"}

\* A total within its budget and one report for each failed task stays so, if it
\* stays as it was, is found within the budget, or grows by a report for which a
\* task fails.
LEMMA OneBudget ==
  ASSUME NEW used \in Nat, NEW used1 \in Nat, NEW limit \in Nat, NEW most \in Nat,
         NEW failed \in Nat, NEW failed1 \in Nat, failed <= failed1,
         used <= limit + most * failed,
         \/ used1 = used
         \/ used1 <= limit
         \/ used1 <= used + most /\ failed1 = failed + 1
  PROVE  used1 <= limit + most * failed1
<1>1. PICK d \in Nat : failed1 = failed + d
  <2>1. failed1 - failed \in Nat /\ failed1 = failed + (failed1 - failed)
    OBVIOUS
  <2> QED BY <2>1
<1>2. most * failed \in Nat /\ most * d \in Nat
  OBVIOUS
<1>3. most * failed1 = most * failed + most * d
  BY <1>1
<1>4. failed1 = failed + 1 => most * failed1 = most * failed + most
  OBVIOUS
<1> QED BY <1>2, <1>3, <1>4

\* No failed task is ever tried again.
LEMMA FailuresStay ==
  ASSUME TasksInvariant, [Next]_rows, NEW g
  PROVE  /\ Failed(g) \subseteq Failed(g)'
         /\ IsFiniteSet(Failed(g)) /\ IsFiniteSet(Failed(g)')
         /\ Cardinality(Failed(g)) \in Nat /\ Cardinality(Failed(g)') \in Nat
         /\ Cardinality(Failed(g)) <= Cardinality(Failed(g)')
<1>1. \A t \in Task : Effect(t)
  BY StepEffect
<1>2. Failed(g) \subseteq Failed(g)' /\ Failed(g)' \subseteq Task
  BY <1>1 DEF Failed, TasksIn, Effect, Stays, IsCreated, Starts, IsClaimed, Ends, Active
<1>3. IsFiniteSet(Failed(g)')
  BY <1>2, TasksAssumption, FS_Subset
<1> QED BY <1>2, <1>3, FS_Subset, FS_CardinalityType

LEMMA ReportsBounded ==
  /\ MaxOf({r.tokens : r \in Reports}) \in Nat
  /\ \A q \in Reports : q.tokens <= MaxOf({r.tokens : r \in Reports})
  /\ MaxOf({r.cost : r \in Reports}) \in Nat
  /\ \A q \in Reports : q.cost <= MaxOf({r.cost : r \in Reports})
<1> DEFINE T == {r.tokens : r \in Reports}
           C == {r.cost : r \in Reports}
           f == [r \in Reports |-> r.tokens]
           h == [r \in Reports |-> r.cost]
<1>1. f \in Surjection(Reports, T) /\ h \in Surjection(Reports, C)
  BY DEF Surjection
<1>2. IsFiniteSet(T) /\ IsFiniteSet(C)
  BY <1>1, TasksAssumption, FS_Surjection
<1>3. T \subseteq Nat /\ C \subseteq Nat
  BY TasksAssumption
<1>4. \A r \in Reports : r.tokens \in T /\ r.cost \in C
  OBVIOUS
<1> HIDE DEF T, C
<1>5. /\ MaxOf(T) \in Nat /\ \A n \in T : n <= MaxOf(T)
      /\ MaxOf(C) \in Nat /\ \A n \in C : n <= MaxOf(C)
  BY <1>2, <1>3, MostOf
<1> QED BY <1>4, <1>5 DEF T, C

\* No step takes a graph further beyond its budgets than its failed tasks allow.
LEMMA BudgetStep ==
  ASSUME TasksInvariant, BudgetsBind, [Next]_rows
  PROVE  BudgetsBind'
<1> DEFINE mostTokens == MaxOf({r.tokens : r \in Reports})
           mostCost == MaxOf({r.cost : r \in Reports})
           tokens(g) == [t \in TasksIn(g) |-> rows[t].tokens]
           cost(g) == [t \in TasksIn(g) |-> rows[t].cost]
<1>1. /\ mostTokens \in Nat /\ \A r \in Reports : r.tokens <= mostTokens
      /\ mostCost \in Nat /\ \A r \in Reports : r.cost <= mostCost
  BY ReportsBounded
<1> HIDE DEF mostTokens, mostCost
<1>2. rows \in [Task -> Row] /\ rows' \in [Task -> Row] /\ TasksInvariant'
  BY InvariantStep DEF TasksInvariant, TasksTypeOK
<1>3. ASSUME NEW g
      PROVE  /\ IsFiniteSet(TasksIn(g)) /\ TasksIn(g) \subseteq Task
             /\ tokens(g) \in [TasksIn(g) -> Nat] /\ tokens(g)' \in [TasksIn(g) -> Nat]
             /\ cost(g) \in [TasksIn(g) -> Nat] /\ cost(g)' \in [TasksIn(g) -> Nat]
  <2>1. TasksIn(g) \subseteq Task
    BY DEF TasksIn
  <2>2. \A t \in Task : /\ rows[t].tokens \in Nat /\ rows[t].cost \in Nat
                        /\ rows'[t].tokens \in Nat /\ rows'[t].cost \in Nat
    BY <1>2 DEF Row
  <2> QED BY <2>1, <2>2, TasksAssumption, FS_Subset
<1>4. ASSUME NEW g, tokens(g)' = tokens(g), cost(g)' = cost(g)
      PROVE  /\ UsedTokens(rows, g)' = UsedTokens(rows, g)
             /\ UsedCost(rows, g)' = UsedCost(rows, g)
  <2>1. /\ UsedTokens(rows, g) = Total(tokens(g)) /\ UsedTokens(rows, g)' = Total(tokens(g)')
        /\ UsedCost(rows, g) = Total(cost(g)) /\ UsedCost(rows, g)' = Total(cost(g)')
    BY DEF UsedTokens, UsedCost
  <2> QED BY <1>4, <2>1
<1> DEFINE Bound(g) ==
      /\ \/ UsedTokens(rows, g)' = UsedTokens(rows, g)
         \/ UsedTokens(rows, g)' <= GraphTokens
         \/ /\ UsedTokens(rows, g)' <= UsedTokens(rows, g) + mostTokens
            /\ Cardinality(Failed(g)') = Cardinality(Failed(g)) + 1
      /\ \/ UsedCost(rows, g)' = UsedCost(rows, g)
         \/ UsedCost(rows, g)' <= GraphCost
         \/ /\ UsedCost(rows, g)' <= UsedCost(rows, g) + mostCost
            /\ Cardinality(Failed(g)') = Cardinality(Failed(g)) + 1
<1>5. ASSUME SameUse, NEW g PROVE Bound(g)
  <2>1. tokens(g)' = tokens(g) /\ cost(g)' = cost(g)
    BY <1>5 DEF SameUse, TasksIn
  <2> QED BY <1>4, <2>1
<1>6. ASSUME NEW t \in Task, NEW a \in 1..rows[t].attempt, NEW r \in Reports,
             RecordUsage(t, a, r), NEW g
      PROVE  Bound(g)
  <2> DEFINE R == [rows EXCEPT ![t] = Billed(rows[t], r)]
  <2>1. /\ rows[t] \in Row /\ rows[t].state \in Active
        /\ r \in [tokens : Nat, cost : Nat]
    BY <1>2, <1>6, TasksAssumption DEF RecordUsage, Owned
  <2>2. /\ R[t] = Billed(rows[t], r) /\ \A u \in Task \ {t} : R[u] = rows[u]
        /\ R \in [Task -> Row]
        /\ R[t].tokens = rows[t].tokens + r.tokens /\ R[t].cost = rows[t].cost + r.cost
    <3>1. Billed(rows[t], r) \in Row
      BY <2>1, BilledRow
    <3>2. /\ Billed(rows[t], r).tokens = rows[t].tokens + r.tokens
          /\ Billed(rows[t], r).cost = rows[t].cost + r.cost
      BY <2>1 DEF Billed, Row
    <3> QED BY <1>2, <3>1, <3>2
  <2>3. rows' = IF OverBudget(R, t) THEN [R EXCEPT ![t] = Released(R[t], "failed")] ELSE R
    BY <1>6 DEF RecordUsage
  <2> HIDE DEF R
  <2>4. \A u \in Task : rows'[u].tokens = R[u].tokens /\ rows'[u].cost = R[u].cost
    BY <2>2, <2>3, ReleasedUse
  <2>5. CASE t \notin TasksIn(g)
    <3>1. tokens(g)' = tokens(g) /\ cost(g)' = cost(g)
      BY <1>3, <2>2, <2>4, <2>5
    <3> QED BY <1>4, <3>1
  <2>6. CASE t \in TasksIn(g)
    <3>1. /\ tokens(g)' = [tokens(g) EXCEPT ![t] = tokens(g)[t] + r.tokens]
          /\ cost(g)' = [cost(g) EXCEPT ![t] = cost(g)[t] + r.cost]
      BY <1>3, <2>2, <2>4, <2>6
    <3>2. /\ UsedTokens(rows, g)' = UsedTokens(rows, g) + r.tokens
          /\ UsedCost(rows, g)' = UsedCost(rows, g) + r.cost
      <4>1. IsFiniteSet(TasksIn(g))
        BY <1>3
      <4>2. tokens(g) \in [TasksIn(g) -> Nat] /\ cost(g) \in [TasksIn(g) -> Nat]
        BY <1>3
      <4>3. r.tokens \in Nat /\ r.cost \in Nat
        BY <2>1
      <4>4. /\ UsedTokens(rows, g) = Total(tokens(g)) /\ UsedTokens(rows, g)' = Total(tokens(g)')
            /\ UsedCost(rows, g) = Total(cost(g)) /\ UsedCost(rows, g)' = Total(cost(g)')
        BY DEF UsedTokens, UsedCost
      <4>5. \A use \in [TasksIn(g) -> Nat], n \in Nat :
              Total([use EXCEPT ![t] = use[t] + n]) = Total(use) + n
        BY <2>6, <4>1, TotalGrows
      <4>6. /\ Total([tokens(g) EXCEPT ![t] = tokens(g)[t] + r.tokens]) = Total(tokens(g)) + r.tokens
            /\ Total([cost(g) EXCEPT ![t] = cost(g)[t] + r.cost]) = Total(cost(g)) + r.cost
        BY <4>2, <4>3, <4>5
      <4> QED BY <3>1, <4>4, <4>6
    <3>3. CASE OverBudget(R, t)
      <4>1. rows'[t].state = "failed"
        BY <2>2, <2>3, <3>3, ReleasedRow DEF State, Terminal
      <4>2. Failed(g)' = Failed(g) \cup {t} /\ t \notin Failed(g)
        <5>1. \A u \in Task \ {t} : rows'[u] = rows[u]
          BY <2>2, <2>3
        <5> QED BY <2>1, <2>6, <4>1, <5>1 DEF Failed, TasksIn, Active
      <4>3. Cardinality(Failed(g)') = Cardinality(Failed(g)) + 1
        BY <4>2, FailuresStay, FS_AddElement
      <4>4. UsedTokens(rows, g) \in Nat /\ UsedCost(rows, g) \in Nat
        BY <1>3, UnitsAreFinite DEF UsedTokens, UsedCost
      <4>5. r.tokens <= mostTokens /\ r.cost <= mostCost /\ r.tokens \in Nat /\ r.cost \in Nat
        BY <1>1, <2>1
      <4> QED BY <1>1, <3>2, <4>3, <4>4, <4>5
    <3>4. CASE ~OverBudget(R, t)
      <4>1. rows' = R /\ GraphOf[t] = g
        BY <2>3, <2>6, <3>4 DEF TasksIn
      <4>2. ~(UsedTokens(R, g) > GraphTokens) /\ ~(UsedCost(R, g) > GraphCost)
        BY <3>4, <4>1 DEF OverBudget
      <4>3. UsedTokens(R, g) = UsedTokens(rows, g)' /\ UsedCost(R, g) = UsedCost(rows, g)'
        BY <4>1 DEF UsedTokens, UsedCost
      <4>4. UsedTokens(rows, g)' \in Nat /\ UsedCost(rows, g)' \in Nat
        BY <1>3, UnitsAreFinite DEF UsedTokens, UsedCost
      <4> QED BY <4>2, <4>3, <4>4, TasksAssumption
    <3> QED BY <3>3, <3>4
  <2> QED BY <2>5, <2>6
<1>7. ASSUME NEW g PROVE Bound(g)
  BY <1>5, <1>6, OnlyReportsBill
<1>8. ASSUME NEW g, UsedTokens(rows, g) <= GraphTokens + mostTokens * Cardinality(Failed(g)),
             UsedCost(rows, g) <= GraphCost + mostCost * Cardinality(Failed(g))
      PROVE  /\ UsedTokens(rows, g)' <= GraphTokens + mostTokens * Cardinality(Failed(g)')
             /\ UsedCost(rows, g)' <= GraphCost + mostCost * Cardinality(Failed(g)')
  <2>1. /\ UsedTokens(rows, g) \in Nat /\ UsedCost(rows, g) \in Nat
        /\ UsedTokens(rows, g)' \in Nat /\ UsedCost(rows, g)' \in Nat
    BY <1>3, UnitsAreFinite DEF UsedTokens, UsedCost
  <2>2. Bound(g)
    BY <1>7
  <2>3. GraphTokens \in Nat /\ GraphCost \in Nat
    BY TasksAssumption
  <2>4. /\ Cardinality(Failed(g)) \in Nat /\ Cardinality(Failed(g)') \in Nat
        /\ Cardinality(Failed(g)) <= Cardinality(Failed(g)')
    BY FailuresStay
  <2>5. UsedTokens(rows, g)' <= GraphTokens + mostTokens * Cardinality(Failed(g)')
    BY <1>1, <1>8, <2>1, <2>2, <2>3, <2>4, OneBudget
  <2>6. UsedCost(rows, g)' <= GraphCost + mostCost * Cardinality(Failed(g)')
    BY <1>1, <1>8, <2>1, <2>2, <2>3, <2>4, OneBudget
  <2> QED BY <2>5, <2>6
<1> QED BY <1>8 DEF BudgetsBind, Failed, mostTokens, mostCost

LEMMA BudgetInit == Init => BudgetsBind
<1> SUFFICES ASSUME Init, NEW g
             PROVE  /\ UsedTokens(rows, g) <=
                         GraphTokens + MaxOf({r.tokens : r \in Reports}) * Cardinality(Failed(g))
                    /\ UsedCost(rows, g) <=
                         GraphCost + MaxOf({r.cost : r \in Reports}) * Cardinality(Failed(g))
  BY DEF BudgetsBind, Failed
<1>1. /\ Failed(g) = {} /\ Cardinality(Failed(g)) = 0
      /\ GraphTokens \in Nat /\ GraphCost \in Nat
  BY TasksAssumption, FS_EmptySet DEF Init, Failed, TasksIn, NoRow
<1>2. /\ MaxOf({r.tokens : r \in Reports}) \in Nat
      /\ MaxOf({r.cost : r \in Reports}) \in Nat
  BY ReportsBounded
<1>3. UsedTokens(rows, g) = 0 /\ UsedCost(rows, g) = 0
  <2>1. /\ Units([t \in TasksIn(g) |-> rows[t].tokens]) = {}
        /\ Units([t \in TasksIn(g) |-> rows[t].cost]) = {}
    <3>1. \A t \in TasksIn(g) : rows[t].tokens = 0 /\ rows[t].cost = 0
      BY DEF Init, TasksIn, NoRow
    <3>2. 1..0 = {}
      OBVIOUS
    <3> QED BY <3>1, <3>2 DEF Units
  <2> QED BY <2>1, FS_EmptySet DEF UsedTokens, UsedCost, Total
<1> QED BY <1>1, <1>2, <1>3

\* A graph outspends its budgets by no more than the last report of each task
\* that failed, over any attempts of any tasks: record_usage keeps the usage and
\* fails the task in the transaction that finds the sum over the budget.
THEOREM BudgetsHold == Spec => []BudgetsBind
<1>1. TasksInvariant /\ BudgetsBind /\ [Next]_rows => BudgetsBind'
  BY BudgetStep
<1> QED BY Invariance, BudgetInit, <1>1, PTL DEF Spec
==============================================================================

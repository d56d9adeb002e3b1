-------------------------- MODULE AgentDispatchProofs --------------------------
(***************************************************************************)
(* Theorems about AgentDispatch, for any graph of tasks, any sessions, any *)
(* interleaving of dispatchers, workers and monitors, and any number of    *)
(* crashes: the composition keeps the ledger's specification, and with it  *)
(* every theorem about the ledger; its types; one turn at a time; and no   *)
(* effect done twice.                                                      *)
(***************************************************************************)
EXTENDS AgentDispatch, AgentTasksProofs

(***************************************************************************)
(* The inductive invariant.  What makes an attempt the last of its task is *)
(* the fence: a row that is unsafe and no longer queued is never queued    *)
(* again by a sweep, so only the worker that holds its token could do it.  *)
(***************************************************************************)
\* No two workers hold the same token.
Tokens ==
  \A t \in Task : \A r, s \in Session :
    workers[r][t].attempt >= 1 /\ workers[r][t].attempt = workers[s][t].attempt => r = s

Fenced(t) == rows[t].state \in Active \cup Terminal /\ ~rows[t].safe

\* A turn is a turn of the latest attempt, behind the fence.
TurnsFenced ==
  \A s \in Session, t \in Task : workers[s][t].at \in InTurn =>
    workers[s][t].attempt = rows[t].attempt /\ Fenced(t)

\* So are effects, and the worker that had them knows (and will not retry).
EffectsFenced ==
  \A t \in Task : \A n \in dirtied[t] :
    /\ n = rows[t].attempt /\ n >= 1 /\ Fenced(t)
    /\ \A s \in Session : workers[s][t].attempt = n =>
         workers[s][t].dirty /\ workers[s][t].at \in InTurn

\* No token, and no effects: not launched, only just launched, or ended.
Gone(w) == w.at \notin Working \ {"launched"} /\ w.attempt = 0 /\ ~w.dirty

\* What DispatchTypeOK says of one worker and its monitor; and only a worker
\* that has claimed has a token.
Fits(s, t) ==
  /\ workers[s][t].at = "exited" => monitors[s][t].at = "watching"
  /\ workers[s][t].at = "exited" <=> workers[s][t].fate # "none"
  /\ monitors[s][t].at # "none" => s \in Supervised
  /\ workers[s][t].attempt <= rows[t].attempt
  /\ workers[s][t].at \in Working \ {"launched"} => workers[s][t].attempt >= 1
  /\ workers[s][t].dirty => workers[s][t].attempt \in dirtied[t]
  /\ workers[s][t].at \notin Working \ {"launched"} => Gone(workers[s][t])

Typed ==
  /\ TasksInvariant /\ DispatchTypeOK
  /\ \A s \in Session, t \in Task : Fits(s, t)

DispatchInvariant == Typed /\ Tokens /\ TurnsFenced /\ EffectsFenced

(***************************************************************************)
(* A step of the composition takes at most one step of the ledger.         *)
(***************************************************************************)
\* The token of a worker at work is one the ledger has given out.
LEMMA TokenGiven ==
  ASSUME Typed, NEW s \in Session, NEW t \in Task,
         workers[s][t].at \in Working \ {"launched"}
  PROVE  workers[s][t].attempt \in 1..rows[t].attempt
<1>1. workers[s][t] \in Worker /\ rows[t] \in Row
  BY DEF Typed, TasksInvariant, TasksTypeOK, DispatchTypeOK
<1>2. workers[s][t].attempt \in Nat /\ rows[t].attempt \in Nat
  BY <1>1 DEF Worker, Row
<1>3. workers[s][t].attempt >= 1 /\ workers[s][t].attempt <= rows[t].attempt
  BY DEF Typed, DispatchTypeOK
<1> QED
  BY <1>2, <1>3

\* What a session does for one task.
ActorStep(s, t) ==
  \/ Dispatch(s, t) \/ WorkerStep(s, t) \/ Act(s, t) \/ Delegate(s, t)
  \/ SetUpFails(s, t) \/ Stop(s, t) \/ MonitorStep(s, t) \/ StopChild(s, t) \/ Die(s, t)

LEMMA ActorCalls ==
  ASSUME Typed, NEW s \in Session, NEW t \in Task, ActorStep(s, t)
  PROVE  [Next]_rows
<1> DEFINE a == workers[s][t].attempt
<1> USE DEF Working, InTurn
<1>1. ASSUME NEW E \in SUBSET Expired, ListReadyTasks(E) PROVE Next
  BY <1>1 DEF Next
<1>2. ASSUME workers[s][t].at \in Working \ {"launched"},
             \/ StartTask(t, a) \/ MarkRecoveryUnsafe(t, a)
             \/ \E r \in Reports : RecordUsage(t, a, r)
             \/ CompleteTask(t, a) \/ CancelOwnedTask(t, a)
             \/ \E retryable \in BOOLEAN : FailTask(t, a, retryable)
      PROVE  Next
  <2>1. a \in 1..rows[t].attempt
    BY <1>2, TokenGiven
  <2> QED
    BY <1>2, <2>1 DEF Next
<1>3. ASSUME NEW u \in Task, CancelGraph(GraphOf[u]) PROVE Next
  BY <1>3 DEF Next
<1>4. Delegated(t) \in SUBSET Task
  BY DEF Delegated
<1>5. ASSUME Dispatch(s, t) PROVE Next
  BY <1>1, <1>5 DEF Dispatch
<1>6. ASSUME Claim(s, t) PROVE Next
  BY <1>6 DEF Claim, Next
<1>7. ASSUME Refused(s, t) PROVE [Next]_rows
  BY <1>7 DEF Refused, Next
<1>8. ASSUME Start(s, t) PROVE Next
  BY <1>2, <1>8 DEF Start
<1>9. ASSUME BeginTurn(s, t) PROVE Next
  BY <1>2, <1>9 DEF BeginTurn
<1>10. ASSUME AbandonWait(s, t) PROVE Next
  <2>1. \E u \in Task : CancelGraph(GraphOf[u])
    BY <1>10 DEF AbandonWait, Delegated
  <2> QED
    BY <1>3, <2>1
<1>11. ASSUME Report(s, t) PROVE Next
  BY <1>2, <1>11 DEF Report
<1>12. ASSUME Complete(s, t) PROVE Next
  BY <1>2, <1>12 DEF Complete
<1>13. ASSUME FailTurn(s, t) PROVE Next
  <2>1. Retryable(s, t) \subseteq BOOLEAN
    BY DEF Retryable
  <2> QED
    BY <1>2, <1>13, <2>1 DEF FailTurn
<1>14. ASSUME Delegate(s, t) PROVE Next
  BY <1>4, <1>14 DEF Delegate, Next
<1>15. ASSUME SetUpFails(s, t) PROVE Next
  BY <1>2, <1>15 DEF SetUpFails
<1>16. ASSUME Stop(s, t) PROVE Next
  BY <1>2, <1>16 DEF Stop
<1>17. ASSUME Condemn(s, t) PROVE [Next]_rows
  BY <1>17 DEF Condemn, Next
<1>18. ASSUME WaitEnds(s, t) \/ Lapse(s, t) \/ Act(s, t) \/ Judge(s, t)
              \/ StopChild(s, t) \/ Die(s, t)
       PROVE  UNCHANGED rows
  BY <1>18 DEF WaitEnds, Lapse, Act, Judge, StopChild, Die
<1> QED
  BY <1>5, <1>6, <1>7, <1>8, <1>9, <1>10, <1>11, <1>12, <1>13, <1>14, <1>15, <1>16, <1>17,
     <1>18 DEF ActorStep, WorkerStep, MonitorStep

LEMMA LedgerStep ==
  ASSUME Typed, [DispatchNext]_dispatchVars
  PROVE  [Next]_rows
<1>1. CASE \E batch \in SUBSET Task : Submit(batch)
  BY <1>1 DEF Submit, Next
<1>2. CASE Poll
  BY <1>2 DEF Poll, Next
<1>3. CASE \E s \in Session, t \in Task : ActorStep(s, t)
  BY <1>3, ActorCalls
<1>4. CASE \E t \in Task : LeaseExpires(t)
  BY <1>4 DEF LeaseExpires, Next
<1>5. CASE UserCancels
  BY <1>5 DEF UserCancels, Next
<1>6. CASE \E s \in Session : Crash(s)
  BY <1>6 DEF Crash
<1>7. CASE UNCHANGED dispatchVars
  BY <1>7 DEF dispatchVars
<1> QED
  BY <1>1, <1>2, <1>3, <1>4, <1>5, <1>6, <1>7 DEF DispatchNext, ActorStep
-------------------------------------------------------------------------------
(***************************************************************************)
(* Types.  Each step changes the worker and the monitor of one task in one *)
(* session, except a crash; tokens and effects only grow.                  *)
(***************************************************************************)
\* A step that touches the worker and the monitor of s for t and no others.
Only(s, t) ==
  /\ workers' \in [Session -> [Task -> Worker]]
  /\ monitors' \in [Session -> [Task -> Monitor]]
  /\ \A r \in Session, u \in Task : r # s \/ u # t =>
       workers'[r][u] = workers[r][u] /\ monitors'[r][u] = monitors[r][u]

\* One entry of a table of tables changes.
LEMMA PutEntry ==
  ASSUME NEW S, NEW T, NEW V, NEW f \in [S -> [T -> V]], NEW s \in S, NEW t \in T,
         NEW v \in V
  PROVE  /\ [f EXCEPT ![s][t] = v] \in [S -> [T -> V]]
         /\ [f EXCEPT ![s][t] = v][s][t] = v
         /\ \A r \in S, u \in T : r # s \/ u # t => [f EXCEPT ![s][t] = v][r][u] = f[r][u]
OBVIOUS

LEMMA OnlyWorker ==
  ASSUME DispatchTypeOK, NEW s \in Session, NEW t \in Task, NEW w \in Worker,
         Put(s, t, w), UNCHANGED monitors
  PROVE  Only(s, t) /\ workers'[s][t] = w /\ monitors'[s][t] = monitors[s][t]
BY PutEntry DEF DispatchTypeOK, Put, Only

LEMMA OnlyMonitor ==
  ASSUME DispatchTypeOK, NEW s \in Session, NEW t \in Task, NEW m \in Monitor,
         PutMonitor(s, t, m), UNCHANGED workers
  PROVE  Only(s, t) /\ workers'[s][t] = workers[s][t] /\ monitors'[s][t] = m
BY PutEntry DEF DispatchTypeOK, PutMonitor, Only

LEMMA OnlyBoth ==
  ASSUME DispatchTypeOK, NEW s \in Session, NEW t \in Task,
         NEW w \in Worker, Put(s, t, w), NEW m \in Monitor, PutMonitor(s, t, m)
  PROVE  Only(s, t) /\ workers'[s][t] = w /\ monitors'[s][t] = m
<1>1. /\ workers' \in [Session -> [Task -> Worker]] /\ workers'[s][t] = w
      /\ \A r \in Session, u \in Task : r # s \/ u # t => workers'[r][u] = workers[r][u]
  BY PutEntry DEF DispatchTypeOK, Put
<1>2. /\ monitors' \in [Session -> [Task -> Monitor]] /\ monitors'[s][t] = m
      /\ \A r \in Session, u \in Task : r # s \/ u # t => monitors'[r][u] = monitors[r][u]
  BY PutEntry DEF DispatchTypeOK, PutMonitor
<1> QED
  BY <1>1, <1>2 DEF Only

LEMMA NoWorkerGone ==
  NoWorker \in Worker /\ Gone(NoWorker) /\ NoWorker.at = "none" /\ NoWorker.fate = "none"
BY DEF NoWorker, Worker, Gone, Working, InTurn, Fate

LEMMA NoMonitorTyped == NoMonitor \in Monitor /\ NoMonitor.at = "none"
BY DEF NoMonitor, Monitor, Fate

LEMMA EndedGone ==
  ASSUME DispatchTypeOK, NEW s \in Session, NEW t \in Task,
         NEW fate \in Fate \ {"none"}, Ended(s, t, fate), UNCHANGED monitors
  PROVE  /\ Only(s, t) /\ monitors'[s][t] = monitors[s][t]
         /\ Gone(workers'[s][t])
         /\ workers'[s][t].at = "exited" => monitors[s][t].at = "watching"
         /\ workers'[s][t].at = "exited" <=> workers'[s][t].fate # "none"
<1> DEFINE w == IF monitors[s][t].at = "watching"
                THEN [NoWorker EXCEPT !.at = "exited", !.fate = fate] ELSE NoWorker
<1>1. /\ w \in Worker /\ Gone(w)
      /\ w.at = "exited" => monitors[s][t].at = "watching"
      /\ w.at = "exited" <=> w.fate # "none"
  BY DEF NoWorker, Worker, Gone, Working, InTurn, Fate
<1>2. Put(s, t, w)
  BY DEF Ended
<1> HIDE DEF w
<1>3. Only(s, t) /\ workers'[s][t] = w /\ monitors'[s][t] = monitors[s][t]
  BY <1>1, <1>2, OnlyWorker
<1> QED
  BY <1>1, <1>3

\* The worker goes on with its token, from one place to another.
LEMMA MovedOn ==
  ASSUME DispatchTypeOK, NEW s \in Session, NEW t \in Task, NEW at \in Working,
         Moved(s, t, at), UNCHANGED monitors
  PROVE  /\ Only(s, t) /\ monitors'[s][t] = monitors[s][t]
         /\ workers'[s][t].at = at /\ workers'[s][t].attempt = workers[s][t].attempt
         /\ workers'[s][t].dirty = workers[s][t].dirty
         /\ workers'[s][t].fate = workers[s][t].fate
<1> DEFINE w == [workers[s][t] EXCEPT !.at = at]
<1>1. workers[s][t] \in Worker
  BY DEF DispatchTypeOK
<1>2. /\ w \in Worker /\ w.at = at /\ w.attempt = workers[s][t].attempt
      /\ w.dirty = workers[s][t].dirty /\ w.fate = workers[s][t].fate
  BY <1>1 DEF Worker
<1>3. Put(s, t, w)
  BY DEF Moved
<1> HIDE DEF w
<1>4. Only(s, t) /\ workers'[s][t] = w /\ monitors'[s][t] = monitors[s][t]
  BY <1>2, <1>3, OnlyWorker
<1> QED
  BY <1>2, <1>4 DEF w

\* The worker goes on, and knows that its attempt has had effects.
LEMMA DirtiedOn ==
  ASSUME DispatchTypeOK, NEW s \in Session, NEW t \in Task, NEW at \in Working,
         Put(s, t, [workers[s][t] EXCEPT !.at = at, !.dirty = TRUE]), UNCHANGED monitors
  PROVE  /\ Only(s, t) /\ monitors'[s][t] = monitors[s][t]
         /\ workers'[s][t].at = at /\ workers'[s][t].attempt = workers[s][t].attempt
         /\ workers'[s][t].dirty /\ workers'[s][t].fate = workers[s][t].fate
<1> DEFINE w == [workers[s][t] EXCEPT !.at = at, !.dirty = TRUE]
<1>1. workers[s][t] \in Worker
  BY DEF DispatchTypeOK
<1>2. /\ w \in Worker /\ w.at = at /\ w.attempt = workers[s][t].attempt
      /\ w.dirty /\ w.fate = workers[s][t].fate
  BY <1>1 DEF Worker
<1> HIDE DEF w
<1>3. Put(s, t, w)
  BY DEF w
<1>4. Only(s, t) /\ workers'[s][t] = w /\ monitors'[s][t] = monitors[s][t]
  BY <1>2, <1>3, OnlyWorker
<1> QED
  BY <1>2, <1>4

\* No token is taken back.
LEMMA AttemptsGrow ==
  ASSUME TasksInvariant, [Next]_rows, NEW t \in Task
  PROVE  rows'[t].attempt \in Nat /\ rows[t].attempt \in Nat
         /\ rows[t].attempt <= rows'[t].attempt
<1>1. rows[t] \in Row /\ rows'[t] \in Row /\ Effect(t)
  BY StepEffect DEF TasksInvariant, TasksTypeOK
<1>2. rows[t].attempt \in Nat /\ rows'[t].attempt \in Nat
  BY <1>1 DEF Row
<1>3. rows[t].state = "absent" => rows[t].attempt = 0
  BY DEF TasksInvariant, TasksTypeOK, NoRow
<1> QED
  BY <1>1, <1>2, <1>3 DEF Effect, Stays, IsCreated, Starts, IsClaimed, Ends

\* The worker ends; or it keeps its token and what it knows, in its turn or
\* out of it as before; or it claims; or it begins its turn; or it has effects.
Carries(s, t) ==
  /\ workers'[s][t].attempt = workers[s][t].attempt
  /\ workers'[s][t].dirty = workers[s][t].dirty
  /\ workers'[s][t].at \in InTurn <=> workers[s][t].at \in InTurn

HasEffects(s, t) ==
  /\ workers[s][t].at = "turn" /\ workers'[s][t].at \in InTurn
  /\ workers'[s][t].attempt = workers[s][t].attempt /\ workers'[s][t].dirty
  /\ dirtied' = [dirtied EXCEPT ![t] = @ \cup {workers[s][t].attempt}]

Moves(s, t) ==
  \/ UNCHANGED dirtied /\ (Gone(workers'[s][t]) \/ Carries(s, t))
  \/ Claim(s, t) /\ workers'[s][t].attempt = rows'[t].attempt
                 /\ workers'[s][t].at \notin InTurn
  \/ BeginTurn(s, t) /\ workers'[s][t].attempt = workers[s][t].attempt
  \/ HasEffects(s, t)

\* A step after which a worker that has gone fits.
LEMMA GoneFits ==
  ASSUME Typed, [Next]_rows, NEW s \in Session, NEW t \in Task,
         Gone(workers'[s][t]),
         workers'[s][t].at = "exited" => monitors'[s][t].at = "watching",
         workers'[s][t].at = "exited" <=> workers'[s][t].fate # "none",
         monitors'[s][t].at # "none" => s \in Supervised
  PROVE  Fits(s, t)'
BY AttemptsGrow DEF Typed, Fits, Gone, Working, InTurn

LEMMA ActorMoves ==
  ASSUME Typed, NEW s \in Session, NEW t \in Task, ActorStep(s, t)
  PROVE  /\ Only(s, t) /\ Fits(s, t)' /\ Moves(s, t)
         /\ \/ UNCHANGED dirtied
            \/ HasEffects(s, t)
         /\ UNCHANGED crashes
<1> USE DEF Working, InTurn
<1> DEFINE w == workers[s][t]
<1>1. [Next]_rows
  BY ActorCalls
<1>2. /\ rows[t].attempt \in Nat /\ rows'[t].attempt \in Nat
      /\ rows[t].attempt <= rows'[t].attempt
  BY <1>1, AttemptsGrow DEF Typed
<1>3. DispatchTypeOK /\ Fits(s, t) /\ w \in Worker /\ monitors[s][t] \in Monitor
      /\ w.attempt \in Nat
  BY DEF Typed, DispatchTypeOK, Fits, Worker
<1>4. ASSUME NEW fate \in Fate \ {"none"}, Ended(s, t, fate), UNCHANGED Others
      PROVE  /\ Only(s, t) /\ Fits(s, t)' /\ Moves(s, t)
             /\ UNCHANGED dirtied /\ UNCHANGED crashes
  <2>1. /\ Only(s, t) /\ monitors'[s][t] = monitors[s][t]
        /\ Gone(workers'[s][t])
        /\ workers'[s][t].at = "exited" => monitors[s][t].at = "watching"
        /\ workers'[s][t].at = "exited" <=> workers'[s][t].fate # "none"
    BY <1>3, <1>4, EndedGone DEF Others
  <2>2. Fits(s, t)'
    BY <1>1, <1>3, <2>1, GoneFits DEF Fits
  <2> QED
    BY <1>4, <2>1, <2>2 DEF Moves, Others
<1>5. ASSUME NEW at \in Working \ {"launched"}, Moved(s, t, at), UNCHANGED Others,
             w.at \in Working \ {"launched"}, at \in InTurn <=> w.at \in InTurn
      PROVE  /\ Only(s, t) /\ Fits(s, t)' /\ Moves(s, t)
             /\ UNCHANGED dirtied /\ UNCHANGED crashes
  <2>1. /\ Only(s, t) /\ monitors'[s][t] = monitors[s][t]
        /\ workers'[s][t].at = at /\ workers'[s][t].attempt = w.attempt
        /\ workers'[s][t].dirty = w.dirty /\ workers'[s][t].fate = w.fate
    <3>1. at \in Working /\ Moved(s, t, at) /\ UNCHANGED monitors
      BY <1>5 DEF Others
    <3> HIDE DEF Working, InTurn
    <3> QED
      BY <1>3, <3>1, MovedOn
  <2>2. Fits(s, t)'
    BY <1>2, <1>3, <1>5, <2>1 DEF Fits, Others
  <2>3. Carries(s, t)
    BY <1>5, <2>1 DEF Carries
  <2> QED
    BY <1>5, <2>1, <2>2, <2>3 DEF Moves, Others
<1>6. CASE Dispatch(s, t)
  <2> DEFINE v == [NoWorker EXCEPT !.at = "launched"]
  <2>1. /\ v \in Worker /\ Gone(v) /\ v.at = "launched" /\ v.fate = "none"
    BY DEF NoWorker, Worker, Gone, Fate
  <2> HIDE DEF v
  <2>2. Put(s, t, v)
    BY <1>6 DEF Dispatch, v
  <2>3. /\ Only(s, t) /\ workers'[s][t] = v
        /\ monitors'[s][t].at # "none" => s \in Supervised
    <3>1. CASE s \in Supervised
      <4> DEFINE m == [at |-> "watching", seen |-> rows'[t].attempt, fate |-> "none"]
      <4>1. m \in Monitor
        BY <1>2 DEF Monitor, Fate
      <4> HIDE DEF m
      <4>2. PutMonitor(s, t, m)
        BY <1>6, <3>1 DEF Dispatch, m
      <4> QED
        BY <1>3, <2>1, <2>2, <3>1, <4>1, <4>2, OnlyBoth
    <3>2. CASE s \notin Supervised
      <4>1. UNCHANGED monitors
        BY <1>6, <3>2 DEF Dispatch
      <4> QED
        BY <1>3, <2>1, <2>2, <4>1, OnlyWorker DEF Fits
    <3> QED
      BY <3>1, <3>2
  <2>4. Fits(s, t)'
    BY <1>1, <2>1, <2>3, GoneFits
  <2> QED
    BY <1>6, <2>1, <2>3, <2>4 DEF Dispatch, Moves
<1>7. CASE Claim(s, t)
  <2> DEFINE v == [w EXCEPT !.at = "claimed", !.attempt = rows'[t].attempt]
  <2>1. /\ v \in Worker /\ v.at = "claimed" /\ v.attempt = rows'[t].attempt
        /\ v.dirty = w.dirty /\ v.fate = w.fate
    BY <1>2, <1>3 DEF Worker
  <2> HIDE DEF v
  <2>2. Put(s, t, v) /\ UNCHANGED Others /\ ClaimTask(t) /\ w.at = "launched"
    BY <1>7 DEF Claim, v
  <2>3. Only(s, t) /\ workers'[s][t] = v /\ monitors'[s][t] = monitors[s][t]
    BY <1>3, <2>1, <2>2, OnlyWorker DEF Others
  <2>4. rows'[t].attempt >= 1 /\ ~w.dirty
    <3>1. rows'[t].attempt = rows[t].attempt + 1
      BY <2>2, ClaimEffect DEF Typed, IsClaimed
    <3> QED
      BY <1>2, <1>3, <2>2, <3>1 DEF Fits, Gone
  <2>5. Fits(s, t)'
    BY <1>2, <1>3, <2>1, <2>2, <2>3, <2>4 DEF Fits, Others
  <2> QED
    BY <1>7, <2>1, <2>2, <2>3, <2>5 DEF Moves, Others
<1>8. CASE Refused(s, t)
  BY <1>4, <1>8 DEF Refused, Fate
<1>9. CASE Start(s, t)
  BY <1>5, <1>9 DEF Start
<1>10. CASE BeginTurn(s, t)
  <2>1. /\ Only(s, t) /\ monitors'[s][t] = monitors[s][t]
        /\ workers'[s][t].at = "turn" /\ workers'[s][t].attempt = w.attempt
        /\ workers'[s][t].dirty = w.dirty /\ workers'[s][t].fate = w.fate
    <3>1. "turn" \in Working /\ Moved(s, t, "turn") /\ UNCHANGED monitors
      BY <1>10 DEF BeginTurn, Others
    <3> HIDE DEF Working, InTurn
    <3> QED
      BY <1>3, <3>1, MovedOn
  <2>2. w.at = "started" /\ UNCHANGED Others
    BY <1>10 DEF BeginTurn
  <2>3. Fits(s, t)'
    BY <1>2, <1>3, <2>1, <2>2 DEF Fits, Others
  <2> QED
    BY <1>10, <2>1, <2>2, <2>3 DEF Moves, Others
<1>11. CASE WaitEnds(s, t)
  BY <1>5, <1>11 DEF WaitEnds
<1>12. CASE AbandonWait(s, t)
  BY <1>5, <1>12 DEF AbandonWait
<1>13. CASE Report(s, t)
  BY <1>4, <1>5, <1>13 DEF Report, Fate
<1>14. CASE Complete(s, t)
  BY <1>4, <1>14 DEF Complete, Fate
<1>15. CASE FailTurn(s, t)
  BY <1>4, <1>15 DEF FailTurn, Fate
<1>16. CASE Lapse(s, t)
  BY <1>4, <1>16 DEF Lapse, Fate
<1>17. CASE SetUpFails(s, t)
  BY <1>4, <1>17 DEF SetUpFails, Fate
<1>18. CASE Stop(s, t)
  BY <1>4, <1>18 DEF Stop, Fate
<1>19. CASE Die(s, t)
  BY <1>4, <1>19 DEF Die, Fate
<1>20. ASSUME NEW at \in InTurn, w.at = "turn",
              Put(s, t, [w EXCEPT !.at = at, !.dirty = TRUE]),
              dirtied' = [dirtied EXCEPT ![t] = @ \cup {w.attempt}],
              UNCHANGED <<monitors, crashes>>
       PROVE  /\ Only(s, t) /\ Fits(s, t)' /\ Moves(s, t) /\ HasEffects(s, t)
              /\ UNCHANGED crashes
  <2>1. /\ Only(s, t) /\ monitors'[s][t] = monitors[s][t]
        /\ workers'[s][t].at = at /\ workers'[s][t].attempt = w.attempt
        /\ workers'[s][t].dirty /\ workers'[s][t].fate = w.fate
    BY <1>3, <1>20, DirtiedOn
  <2>2. HasEffects(s, t)
    BY <1>20, <2>1 DEF HasEffects
  <2>3. w.attempt \in dirtied'[t]
    BY <1>3, <1>20 DEF DispatchTypeOK
  <2>4. Fits(s, t)'
    BY <1>2, <1>3, <1>20, <2>1, <2>3 DEF Fits
  <2> QED
    BY <1>20, <2>1, <2>2, <2>4 DEF Moves
<1>21. CASE Act(s, t)
  <2>1. [w EXCEPT !.dirty = TRUE] = [w EXCEPT !.at = "turn", !.dirty = TRUE]
    BY <1>3, <1>21 DEF Act, Worker
  <2> QED
    BY <1>20, <1>21, <2>1 DEF Act
<1>22. CASE Delegate(s, t)
  BY <1>20, <1>22 DEF Delegate
<1>23. CASE Judge(s, t)
  <2> DEFINE m == IF Condemns(t, monitors[s][t].seen, w.fate)
                  THEN [NoMonitor EXCEPT !.at = "condemning", !.fate = w.fate]
                  ELSE NoMonitor
  <2>1. m \in Monitor /\ (m.at # "none" => s \in Supervised)
    <3>1. w.fate \in Fate /\ s \in Supervised
      BY <1>3, <1>23 DEF Judge, Worker, Fits
    <3> QED
      BY <3>1 DEF NoMonitor, Monitor, Fate
  <2>2. PutMonitor(s, t, m)
    BY <1>23 DEF Judge
  <2> HIDE DEF m
  <2>3. Put(s, t, NoWorker) /\ UNCHANGED <<dirtied, crashes>>
    BY <1>23 DEF Judge
  <2>4. Only(s, t) /\ workers'[s][t] = NoWorker /\ monitors'[s][t] = m
    BY <1>3, <2>1, <2>2, <2>3, NoWorkerGone, OnlyBoth
  <2>5. Fits(s, t)'
    BY <1>1, <2>1, <2>4, NoWorkerGone, GoneFits
  <2> QED
    BY <2>3, <2>4, <2>5, NoWorkerGone DEF Moves
<1>24. CASE StopChild(s, t)
  <2> DEFINE m == [NoMonitor EXCEPT !.at = "condemning", !.fate = "failed"]
  <2>1. m \in Monitor /\ s \in Supervised
    BY <1>3, <1>24 DEF NoMonitor, Monitor, Fate, StopChild, Fits
  <2>2. PutMonitor(s, t, m) /\ Put(s, t, NoWorker) /\ UNCHANGED <<dirtied, crashes>>
    BY <1>24 DEF StopChild
  <2> HIDE DEF m
  <2>3. Only(s, t) /\ workers'[s][t] = NoWorker /\ monitors'[s][t] = m
    BY <1>3, <2>1, <2>2, NoWorkerGone, OnlyBoth
  <2>4. Fits(s, t)'
    BY <1>1, <2>1, <2>3, NoWorkerGone, GoneFits
  <2> QED
    BY <2>2, <2>3, <2>4, NoWorkerGone DEF Moves
<1>25. CASE Condemn(s, t)
  <2>1. /\ PutMonitor(s, t, NoMonitor) /\ UNCHANGED <<workers, dirtied, crashes>>
        /\ monitors[s][t].at = "condemning"
    BY <1>25 DEF Condemn
  <2>2. Only(s, t) /\ workers'[s][t] = w /\ monitors'[s][t] = NoMonitor
    BY <1>3, <2>1, NoMonitorTyped, OnlyMonitor
  <2>3. Fits(s, t)'
    BY <1>2, <1>3, <2>1, <2>2, NoMonitorTyped DEF Fits
  <2>4. Carries(s, t)
    BY <2>2 DEF Carries
  <2> QED
    BY <2>1, <2>2, <2>3, <2>4 DEF Moves
<1> QED
  BY <1>6, <1>7, <1>8, <1>9, <1>10, <1>11, <1>12, <1>13, <1>14, <1>15, <1>16, <1>17, <1>18,
     <1>19, <1>21, <1>22, <1>23, <1>24, <1>25 DEF ActorStep, WorkerStep, MonitorStep

\* Outside the actors: workers and monitors stay, or their session crashes.
LEMMA CrashMoves ==
  ASSUME Typed, NEW s \in Session, Crash(s)
  PROVE  /\ workers' \in [Session -> [Task -> Worker]]
         /\ monitors' \in [Session -> [Task -> Monitor]]
         /\ \A r \in Session, t \in Task :
              /\ Fits(r, t)'
              /\ workers'[r][t] = workers[r][t] \/ workers'[r][t] = NoWorker
<1> USE DEF Working, InTurn
<1> DEFINE left == [t \in Task |-> IF s \in Supervised /\ workers[s][t].at \in Working
                                   THEN workers[s][t] ELSE NoWorker]
           none == [t \in Task |-> NoMonitor]
<1>1. /\ workers \in [Session -> [Task -> Worker]] /\ monitors \in [Session -> [Task -> Monitor]]
      /\ \A r \in Session, t \in Task : Fits(r, t)
  BY DEF Typed, DispatchTypeOK
<1>2. left \in [Task -> Worker] /\ none \in [Task -> Monitor]
  BY <1>1, NoWorkerGone, NoMonitorTyped
<1>3. workers' = [workers EXCEPT ![s] = left] /\ monitors' = [monitors EXCEPT ![s] = none]
  BY DEF Crash
<1>4. UNCHANGED <<rows, dirtied>>
  BY DEF Crash
<1>5. /\ \A t \in Task : \/ left[t] = workers[s][t] /\ workers[s][t].at \in Working
                         \/ left[t] = NoWorker
      /\ \A t \in Task : none[t] = NoMonitor
  OBVIOUS
<1> HIDE DEF left, none
<1>6. /\ workers' \in [Session -> [Task -> Worker]] /\ monitors' \in [Session -> [Task -> Monitor]]
      /\ workers'[s] = left /\ monitors'[s] = none
      /\ \A r \in Session : r # s => workers'[r] = workers[r] /\ monitors'[r] = monitors[r]
  BY <1>1, <1>2, <1>3
<1>7. ASSUME NEW r \in Session, NEW t \in Task
      PROVE  Fits(r, t)' /\ (workers'[r][t] = workers[r][t] \/ workers'[r][t] = NoWorker)
  <2>1. CASE r # s
    BY <1>1, <1>4, <1>6, <2>1 DEF Fits
  <2>2. CASE r = s
    <3>1. rows[t].attempt \in Nat
      BY DEF Typed, TasksInvariant, TasksTypeOK, Row
    <3>2. CASE workers'[s][t] = workers[s][t] /\ workers[s][t].at \in Working
      BY <1>1, <1>4, <1>5, <1>6, <2>2, <3>2, NoMonitorTyped DEF Fits
    <3>3. CASE workers'[s][t] = NoWorker
      BY <1>4, <1>5, <1>6, <2>2, <3>1, <3>3, NoWorkerGone, NoMonitorTyped DEF Fits, Gone
    <3> QED
      BY <1>5, <1>6, <2>2, <3>2, <3>3
  <2> QED
    BY <2>1, <2>2
<1> QED
  BY <1>6, <1>7

LEMMA TypedInit == DispatchInit => Typed
<1>1. DispatchInit => TasksInvariant
  BY InvariantInit DEF DispatchInit
<1>2. ASSUME DispatchInit
      PROVE  /\ workers \in [Session -> [Task -> Worker]]
             /\ monitors \in [Session -> [Task -> Monitor]]
             /\ dirtied \in [Task -> SUBSET Nat] /\ crashes \in 0..MaxCrashes
             /\ \A s \in Session, t \in Task : Fits(s, t)
  <2>1. \A s \in Session, t \in Task :
          workers[s][t] = NoWorker /\ monitors[s][t] = NoMonitor /\ rows[t].attempt = 0
    BY <1>2 DEF DispatchInit, Init, NoRow
  <2>2. \A s \in Session, t \in Task : Fits(s, t)
    BY <2>1, NoWorkerGone, NoMonitorTyped DEF Fits, Gone
  <2>3. 0 \in 0..MaxCrashes
    BY DispatchAssumption
  <2> QED
    BY <1>2, <2>2, <2>3, NoWorkerGone, NoMonitorTyped DEF DispatchInit
<1> QED
  BY <1>1, <1>2, TasksAssumption DEF Typed, DispatchTypeOK, Fits

LEMMA TypedStep ==
  ASSUME Typed, [DispatchNext]_dispatchVars
  PROVE  Typed'
<1>1. TasksInvariant' /\ \A t \in Task : /\ rows[t].attempt <= rows'[t].attempt
                                         /\ rows[t].attempt \in Nat /\ rows'[t].attempt \in Nat
  BY LedgerStep, InvariantStep, AttemptsGrow DEF Typed
<1>2. /\ workers \in [Session -> [Task -> Worker]] /\ monitors \in [Session -> [Task -> Monitor]]
      /\ dirtied \in [Task -> SUBSET Nat] /\ crashes \in 0..MaxCrashes
      /\ \A s \in Session, t \in Task : Fits(s, t)
  BY DEF Typed, DispatchTypeOK
<1> DEFINE Fit == /\ workers' \in [Session -> [Task -> Worker]]
                  /\ monitors' \in [Session -> [Task -> Monitor]]
                  /\ dirtied' \in [Task -> SUBSET Nat] /\ crashes' \in 0..MaxCrashes
                  /\ \A s \in Session, t \in Task : Fits(s, t)'
<1>3. SUFFICES Fit
  BY <1>1, <1>3 DEF Typed, DispatchTypeOK, Fits
<1>4. \A s \in Session, t \in Task : workers[s][t].attempt \in Nat
  BY <1>2 DEF Worker
<1>5. ASSUME NEW s \in Session, NEW t \in Task, ActorStep(s, t) PROVE Fit
  <2>1. Only(s, t) /\ Fits(s, t)' /\ (UNCHANGED dirtied \/ HasEffects(s, t)) /\ UNCHANGED crashes
    BY <1>5, ActorMoves
  <2>2. /\ dirtied' \in [Task -> SUBSET Nat]
        /\ \A u \in Task : dirtied[u] \subseteq dirtied'[u]
    <3>1. CASE UNCHANGED dirtied
      BY <1>2, <3>1
    <3>2. CASE HasEffects(s, t)
      <4> DEFINE n == workers[s][t].attempt
      <4>1. dirtied' = [dirtied EXCEPT ![t] = dirtied[t] \cup {n}] /\ n \in Nat
        BY <1>4, <3>2 DEF HasEffects
      <4>2. dirtied[t] \cup {n} \in SUBSET Nat
        BY <1>2, <4>1
      <4> HIDE DEF n
      <4> QED
        BY <1>2, <4>1, <4>2
    <3> QED
      BY <2>1, <3>1, <3>2
  <2>3. ASSUME NEW r \in Session, NEW u \in Task, r # s \/ u # t PROVE Fits(r, u)'
    <3>1. workers'[r][u] = workers[r][u] /\ monitors'[r][u] = monitors[r][u]
      BY <2>1, <2>3 DEF Only
    <3> QED
      BY <1>1, <1>2, <1>4, <2>2, <3>1 DEF Fits
  <2> QED
    BY <1>2, <2>1, <2>2, <2>3 DEF Only
<1>6. ASSUME UNCHANGED <<workers, Others>> PROVE Fit
  <2>1. UNCHANGED <<workers, monitors, dirtied, crashes>>
    BY <1>6 DEF Others
  <2>2. ASSUME NEW r \in Session, NEW u \in Task PROVE Fits(r, u)'
    BY <1>1, <1>2, <1>4, <2>1 DEF Fits
  <2> QED
    BY <1>2, <2>1, <2>2
<1>7. ASSUME NEW s \in Session, Crash(s) PROVE Fit
  <2>1. UNCHANGED dirtied /\ crashes' \in 0..MaxCrashes
    BY <1>2, <1>7, DispatchAssumption DEF Crash
  <2> QED
    BY <1>2, <1>7, <2>1, CrashMoves
<1>8. CASE UNCHANGED dispatchVars
  BY <1>6, <1>8 DEF dispatchVars, Others
<1>9. CASE Poll \/ UserCancels \/ \E batch \in SUBSET Task : Submit(batch)
  BY <1>6, <1>9 DEF Poll, UserCancels, Submit
<1>10. CASE \E t \in Task : LeaseExpires(t)
  BY <1>6, <1>10 DEF LeaseExpires
<1> QED
  BY <1>5, <1>7, <1>8, <1>9, <1>10 DEF DispatchNext, ActorStep

LEMMA TypedAlways == DispatchSpec => []Typed
<1>1. Typed /\ [DispatchNext]_dispatchVars => Typed'
  BY TypedStep
<1> QED
  BY TypedInit, <1>1, PTL DEF DispatchSpec

\* Whatever sessions, workers and monitors do, and wherever they crash, the
\* table moves as its own specification says: what is proved of the calls of
\* tasks.py holds of them as the dispatcher of agent.py makes them.
THEOREM DispatchKeepsLedger == DispatchSpec => Spec
<1>1. DispatchInit => Init
  BY DEF DispatchInit
<1>2. Typed /\ [DispatchNext]_dispatchVars => [Next]_rows
  BY LedgerStep
<1> QED
  BY TypedAlways, <1>1, <1>2, PTL DEF DispatchSpec, Spec

\* Workers and monitors keep their types and their shape: only a child that is
\* watched is kept once it exited, and no worker has a token that the ledger
\* has not given out (_run_args_owned, _execute_subprocess_task).
THEOREM DispatchTypeCorrect == DispatchSpec => []DispatchTypeOK
<1>1. Typed => DispatchTypeOK
  BY DEF Typed
<1> QED
  BY TypedAlways, <1>1, PTL
-------------------------------------------------------------------------------
(***************************************************************************)
(* Fences.  No call takes one down, except a retry by the owner itself.    *)
(***************************************************************************)
Kept(t) == Fenced(t) => rows'[t].attempt = rows[t].attempt /\ Fenced(t)'

\* The retry: its worker had no effects, and ends.
Closed(s, t) ==
  /\ workers[s][t].attempt = rows[t].attempt /\ Gone(workers'[s][t])
  /\ dirtied[t] = {}

LEMMA KeptRow ==
  ASSUME TasksInvariant, NEW t \in Task,
         \/ rows'[t] = rows[t]
         \/ \E state \in Terminal : rows'[t] = Released(rows[t], state)
  PROVE  Kept(t)
BY DEF TasksInvariant, TasksTypeOK, Row, Released, Kept, Fenced, Active, Terminal

\* A sweep requeues no fenced row.
LEMMA SweepKeeps ==
  ASSUME TasksInvariant, NEW E \in SUBSET Expired, NEW t \in Task, Fenced(t)
  PROVE  Swept(E)[t] \in {rows[t], Released(rows[t], "failed")}
<1> USE DEF Active, Terminal
<1> DEFINE R == Recovered(rows, E)
<1>1. rows[t] \in Row /\ ~rows[t].safe /\ rows[t].state # "queued"
  BY DEF TasksInvariant, TasksTypeOK, Fenced
<1>2. R[t] \in {rows[t], Released(rows[t], "failed")}
  BY <1>1 DEF Recovered, Requeues
<1>3. R[t].state # "queued"
  BY <1>1, <1>2 DEF Released, Row
<1>4. t \notin Blocked(R)
  BY <1>3, BlockedAreQueued
<1>5. Swept(E)[t] = R[t]
  BY <1>4 DEF Swept, FailBlocked
<1> QED
  BY <1>2, <1>5

LEMMA SweptKept ==
  ASSUME TasksInvariant, NEW E \in SUBSET Expired, rows' = Swept(E)
  PROVE  \A t \in Task : Kept(t)
<1>1. ASSUME NEW t \in Task, Fenced(t) PROVE Kept(t)
  <2>1. rows'[t] \in {rows[t], Released(rows[t], "failed")}
    BY <1>1, SweepKeeps
  <2> QED
    BY <1>1, <2>1, KeptRow DEF Terminal
<1> QED
  BY <1>1 DEF Kept

\* A claim finds its task queued, so it was behind no fence.
LEMMA ClaimKept ==
  ASSUME TasksInvariant, NEW t \in Task, ClaimTask(t)
  PROVE  ~Fenced(t) /\ \A u \in Task : Kept(u)
<1> DEFINE R == Swept(Expired)
<1>1. /\ R \in [Task -> Row] /\ rows' = [R EXCEPT ![t] = Claimed(R[t])]
      /\ R[t].state = "queued" /\ rows[t] \in Row
  BY SweepRows DEF TasksInvariant, TasksTypeOK, ClaimTask, Claimable, Ready
<1>2. ~Fenced(t)
  <2>1. SUFFICES ASSUME Fenced(t) PROVE FALSE
    OBVIOUS
  <2>2. R[t] \in {rows[t], Released(rows[t], "failed")}
    BY <2>1, SweepKeeps
  <2> QED
    BY <1>1, <2>1, <2>2 DEF Fenced, Released, Row, Active, Terminal
<1>3. ASSUME NEW u \in Task, Fenced(u) PROVE Kept(u)
  <2>1. u # t /\ rows'[u] = R[u] /\ R[u] \in {rows[u], Released(rows[u], "failed")}
    BY <1>1, <1>2, <1>3, SweepKeeps
  <2> QED
    BY <2>1, KeptRow DEF Terminal
<1> QED
  BY <1>2, <1>3 DEF Kept

\* So is what the owner does with its own row, but for a retry.
LEMMA OwnKept ==
  ASSUME TasksInvariant, NEW t \in Task, NEW a,
         \/ StartTask(t, a)
         \/ MarkRecoveryUnsafe(t, a)
         \/ \E r \in Reports : RecordUsage(t, a, r)
         \/ CompleteTask(t, a)
         \/ Expire(t)
  PROVE  \A u \in Task : Kept(u)
<1> USE DEF Active, Terminal
<1>1. rows \in [Task -> Row] /\ rows[t] \in Row
  BY DEF TasksInvariant, TasksTypeOK
<1>2. SUFFICES \E row :
                 /\ rows' = [rows EXCEPT ![t] = row]
                 /\ row.attempt = rows[t].attempt
                 /\ ~rows[t].safe => ~row.safe
                 /\ row.state \in Active \cup Terminal \/ row.state = rows[t].state
  BY <1>1, <1>2 DEF Kept, Fenced
<1>3. CASE StartTask(t, a)
  <2> DEFINE row == [rows[t] EXCEPT !.state = "running"]
  <2>1. /\ row.attempt = rows[t].attempt /\ (~rows[t].safe => ~row.safe)
        /\ row.state \in Active \cup Terminal \/ row.state = rows[t].state
    BY <1>1, <1>3 DEF Released, Row
  <2>2. rows' = [rows EXCEPT ![t] = row]
    BY <1>3 DEF StartTask
  <2> QED
    BY <2>1, <2>2
<1>4. CASE MarkRecoveryUnsafe(t, a)
  <2> DEFINE row == [rows[t] EXCEPT !.safe = FALSE]
  <2>1. /\ row.attempt = rows[t].attempt /\ (~rows[t].safe => ~row.safe)
        /\ row.state \in Active \cup Terminal \/ row.state = rows[t].state
    BY <1>1, <1>4 DEF Released, Row
  <2>2. rows' = [rows EXCEPT ![t] = row]
    BY <1>4 DEF MarkRecoveryUnsafe
  <2> QED
    BY <2>1, <2>2
<1>5. ASSUME NEW r \in Reports, RecordUsage(t, a, r)
      PROVE  \E row : /\ rows' = [rows EXCEPT ![t] = row]
                      /\ row.attempt = rows[t].attempt
                      /\ ~rows[t].safe => ~row.safe
                      /\ row.state \in Active \cup Terminal \/ row.state = rows[t].state
  <2> DEFINE row == Billed(rows[t], r)
             R == [rows EXCEPT ![t] = row]
  <2>1. /\ row.attempt = rows[t].attempt /\ row.safe = rows[t].safe
        /\ row.state = rows[t].state /\ row \in Row
    BY <1>1, TasksAssumption, BilledRow DEF Billed, Row
  <2> HIDE DEF row
  <2>2. R[t] = row
    BY <1>1
  <2>3. CASE OverBudget(R, t)
    <3>1. rows' = [rows EXCEPT ![t] = Released(row, "failed")]
      BY <1>1, <1>5, <2>2, <2>3 DEF RecordUsage, row
    <3>2. /\ Released(row, "failed").attempt = row.attempt
          /\ Released(row, "failed").safe = row.safe
          /\ Released(row, "failed").state = "failed"
      BY <2>1 DEF Released, Row
    <3> QED
      BY <2>1, <3>1, <3>2
  <2>4. CASE ~OverBudget(R, t)
    BY <1>5, <2>1, <2>4 DEF RecordUsage, row
  <2> QED
    BY <2>3, <2>4
<1>6. CASE CompleteTask(t, a)
  <2> DEFINE row == Released(rows[t], "succeeded")
  <2>1. /\ row.attempt = rows[t].attempt /\ (~rows[t].safe => ~row.safe)
        /\ row.state \in Active \cup Terminal \/ row.state = rows[t].state
    BY <1>1, <1>6 DEF Released, Row
  <2>2. rows' = [rows EXCEPT ![t] = row]
    BY <1>6 DEF CompleteTask
  <2> QED
    BY <2>1, <2>2
<1>7. CASE Expire(t)
  <2> DEFINE row == [rows[t] EXCEPT !.lease = "expired"]
  <2>1. /\ row.attempt = rows[t].attempt /\ (~rows[t].safe => ~row.safe)
        /\ row.state \in Active \cup Terminal \/ row.state = rows[t].state
    BY <1>1, <1>7 DEF Released, Row
  <2>2. rows' = [rows EXCEPT ![t] = row]
    BY <1>7 DEF Expire
  <2> QED
    BY <2>1, <2>2
<1> QED
  BY <1>3, <1>4, <1>5, <1>6, <1>7

LEMMA CreateKept ==
  ASSUME TasksInvariant, NEW batch, CreateTasks(batch)
  PROVE  \A t \in Task : Kept(t)
<1>1. ASSUME NEW t \in Task, Fenced(t) PROVE rows'[t] = rows[t]
  <2>1. t \notin batch
    BY <1>1 DEF CreateTasks, Existing, Fenced, Active, Terminal
  <2> QED
    BY <2>1 DEF CreateTasks
<1> QED
  BY <1>1, KeptRow DEF Kept

LEMMA CancelKept ==
  ASSUME TasksInvariant, NEW roots, rows' = Cancelled(roots)
  PROVE  \A t \in Task : Kept(t)
<1>1. ASSUME NEW t \in Task
      PROVE  rows'[t] = rows[t] \/ rows'[t] = Released(rows[t], "cancelled")
  BY DEF Cancelled
<1> QED
  BY <1>1, KeptRow DEF Terminal

\* The owner fails its task: the other tasks stay as they are.
LEMMA FailKept ==
  ASSUME TasksInvariant, NEW t \in Task, NEW a, NEW retryable \in BOOLEAN,
         FailTask(t, a, retryable)
  PROVE  /\ \A u \in Task : u # t => Kept(u)
         /\ ~retryable => Kept(t)
         /\ a = rows[t].attempt
<1>1. rows \in [Task -> Row]
  BY DEF TasksInvariant, TasksTypeOK
<1>2. a = rows[t].attempt /\ \A u \in Task : u # t => rows'[u] = rows[u]
  BY <1>1 DEF FailTask, Owned
<1>3. ~retryable => rows'[t] = Released(rows[t], "failed")
  BY <1>1 DEF FailTask, Retries
<1> QED
  BY <1>2, <1>3, KeptRow DEF Terminal

LEMMA ActorKeeps ==
  ASSUME DispatchInvariant, NEW s \in Session, NEW t \in Task, ActorStep(s, t)
  PROVE  \A u \in Task : Kept(u) \/ (u = t /\ Closed(s, t) /\ UNCHANGED dirtied)
<1> DEFINE a == workers[s][t].attempt
<1>1. TasksInvariant /\ DispatchTypeOK
  BY DEF DispatchInvariant, Typed
<1>2. ASSUME NEW E \in SUBSET Expired, ListReadyTasks(E) PROVE \A u \in Task : Kept(u)
  BY <1>1, <1>2, SweptKept DEF ListReadyTasks
<1>3. ASSUME \/ StartTask(t, a) \/ MarkRecoveryUnsafe(t, a)
             \/ \E r \in Reports : RecordUsage(t, a, r)
             \/ CompleteTask(t, a)
      PROVE  \A u \in Task : Kept(u)
  BY <1>1, <1>3, OwnKept
<1>4. ASSUME \/ CancelTask(t) \/ CancelOwnedTask(t, a) \/ \E g : CancelGraph(g)
      PROVE  \A u \in Task : Kept(u)
  BY <1>1, <1>4, CancelKept DEF CancelTask, CancelOwnedTask, CancelGraph
<1>5. ASSUME UNCHANGED rows PROVE \A u \in Task : Kept(u)
  BY <1>1, <1>5, KeptRow
<1>6. ASSUME NEW retryable \in BOOLEAN, FailTask(t, a, retryable),
             Ended(s, t, "failed"), UNCHANGED Others,
             retryable => dirtied[t] = {}
      PROVE  \A u \in Task : Kept(u) \/ (u = t /\ Closed(s, t) /\ UNCHANGED dirtied)
  <2>1. UNCHANGED monitors /\ UNCHANGED dirtied /\ "failed" \in Fate \ {"none"}
    BY <1>6 DEF Others, Fate
  <2>2. Gone(workers'[s][t])
    BY <1>1, <1>6, <2>1, EndedGone
  <2>3. /\ \A u \in Task : u # t => Kept(u)
        /\ ~retryable => Kept(t)
        /\ a = rows[t].attempt
    BY <1>1, <1>6, FailKept
  <2> QED
    BY <1>6, <2>1, <2>2, <2>3 DEF Closed
<1>7. ASSUME NEW n \in dirtied[t], a = rows[t].attempt
      PROVE  workers[s][t].dirty /\ workers[s][t].at \in InTurn
  BY <1>7 DEF DispatchInvariant, EffectsFenced
<1>8. CASE Dispatch(s, t)
  BY <1>2, <1>8 DEF Dispatch
<1>9. CASE Claim(s, t)
  BY <1>1, <1>9, ClaimKept DEF Claim
<1>10. CASE Refused(s, t)
  <2>1. ASSUME RefuseClaim(t) PROVE \A u \in Task : Kept(u)
    BY <1>1, <2>1, SweptKept DEF RefuseClaim
  <2> QED
    BY <1>5, <1>10, <2>1 DEF Refused
<1>11. CASE Start(s, t) \/ BeginTurn(s, t) \/ Report(s, t) \/ Complete(s, t)
  BY <1>3, <1>11 DEF Start, BeginTurn, Report, Complete
<1>12. CASE WaitEnds(s, t) \/ Lapse(s, t) \/ Act(s, t) \/ Judge(s, t)
              \/ StopChild(s, t) \/ Die(s, t)
  BY <1>5, <1>12 DEF WaitEnds, Lapse, Act, Judge, StopChild, Die
<1>13. CASE AbandonWait(s, t) \/ Stop(s, t)
  BY <1>4, <1>13 DEF AbandonWait, Stop
<1>14. CASE Condemn(s, t)
  BY <1>4, <1>5, <1>14 DEF Condemn
<1>15. CASE FailTurn(s, t)
  <2>1. PICK retryable \in Retryable(s, t) : FailTask(t, a, retryable)
    BY <1>15 DEF FailTurn
  <2>2. workers[s][t].dirty \in BOOLEAN
    BY <1>1 DEF DispatchTypeOK, Worker
  <2>3. retryable \in BOOLEAN /\ (retryable => ~workers[s][t].dirty)
    BY <2>1, <2>2 DEF Retryable
  <2>4. a = rows[t].attempt
    BY <2>1 DEF FailTask, Owned
  <2>5. retryable => dirtied[t] = {}
    BY <1>7, <2>3, <2>4
  <2> QED
    BY <1>6, <1>15, <2>1, <2>3, <2>5 DEF FailTurn
<1>16. CASE SetUpFails(s, t)
  <2>1. PICK retryable \in BOOLEAN : FailTask(t, a, retryable)
    BY <1>16 DEF SetUpFails
  <2>2. a = rows[t].attempt /\ workers[s][t].at \notin InTurn
    BY <1>16, <2>1 DEF FailTask, Owned, SetUpFails, InTurn
  <2>3. dirtied[t] = {}
    BY <1>7, <2>2
  <2> QED
    BY <1>6, <1>16, <2>1, <2>3 DEF SetUpFails
<1>17. CASE Delegate(s, t)
  BY <1>1, <1>17, CreateKept DEF Delegate
<1> QED
  BY <1>8, <1>9, <1>10, <1>11, <1>12, <1>13, <1>14, <1>15, <1>16, <1>17
  DEF ActorStep, WorkerStep, MonitorStep

Guarded == Tokens /\ TurnsFenced /\ EffectsFenced

\* Workers that end, or carry on, break no fence.
LEMMA FollowersGuarded ==
  ASSUME DispatchInvariant, Typed', UNCHANGED dirtied,
         \A r \in Session, u \in Task : Gone(workers'[r][u]) \/ Carries(r, u),
         \A u \in Task : Kept(u) \/ \E s \in Session : Closed(s, u)
  PROVE  Guarded'
<1> USE DEF Working, InTurn
<1>1. \A r \in Session, u \in Task :
        workers'[r][u].attempt >= 1 => workers'[r][u].attempt = workers[r][u].attempt
  BY DEF Gone, Carries
<1>2. Tokens'
  BY <1>1 DEF DispatchInvariant, Tokens
<1>3. ASSUME NEW r \in Session, NEW u \in Task, workers'[r][u].at \in InTurn
      PROVE  workers'[r][u].attempt = rows'[u].attempt /\ Fenced(u)'
  <2>1. Carries(r, u) /\ ~Gone(workers'[r][u])
    BY <1>3 DEF Gone
  <2>2. workers[r][u].attempt = rows[u].attempt /\ Fenced(u) /\ workers[r][u].attempt >= 1
    BY <1>3, <2>1 DEF Carries, DispatchInvariant, TurnsFenced, Typed, Fits
  <2>3. ASSUME NEW s \in Session, Closed(s, u) PROVE FALSE
    <3>1. r = s
      BY <2>2, <2>3 DEF Closed, DispatchInvariant, Tokens
    <3> QED
      BY <2>1, <2>3, <3>1 DEF Closed
  <2> QED
    BY <2>1, <2>2, <2>3 DEF Kept, Carries
<1>4. ASSUME NEW u \in Task, NEW n \in dirtied[u]
      PROVE  /\ n = rows'[u].attempt /\ n >= 1 /\ Fenced(u)'
             /\ \A r \in Session : workers'[r][u].attempt = n =>
                  workers'[r][u].dirty /\ workers'[r][u].at \in InTurn
  <2>1. /\ n = rows[u].attempt /\ n >= 1 /\ Fenced(u)
        /\ \A r \in Session : workers[r][u].attempt = n =>
             workers[r][u].dirty /\ workers[r][u].at \in InTurn
    BY <1>4 DEF DispatchInvariant, EffectsFenced
  <2>2. Kept(u)
    BY <1>4 DEF Closed
  <2>3. ASSUME NEW r \in Session, workers'[r][u].attempt = n
        PROVE  workers'[r][u].dirty /\ workers'[r][u].at \in InTurn
    <3>1. Carries(r, u)
      BY <2>1, <2>3 DEF Gone
    <3> QED
      BY <2>1, <2>3, <3>1 DEF Carries
  <2> QED
    BY <2>1, <2>2, <2>3 DEF Kept
<1> QED
  BY <1>2, <1>3, <1>4 DEF Guarded, TurnsFenced, EffectsFenced

\* A new token is larger than those given out, and its task was unfenced.
LEMMA ClaimGuarded ==
  ASSUME DispatchInvariant, NEW s \in Session, NEW t \in Task, Only(s, t), Claim(s, t),
         workers'[s][t].attempt = rows'[t].attempt, workers'[s][t].at \notin InTurn
  PROVE  Guarded'
<1>1. UNCHANGED dirtied /\ ClaimTask(t)
  BY DEF Claim, Others
<1>2. ~Fenced(t) /\ \A u \in Task : Kept(u)
  BY <1>1, ClaimKept DEF DispatchInvariant, Typed
<1>3. rows'[t].attempt = rows[t].attempt + 1 /\ rows[t].attempt \in Nat
  BY <1>1, ClaimEffect DEF IsClaimed, DispatchInvariant, Typed, TasksInvariant, TasksTypeOK, Row
<1>4. \A r \in Session : workers[r][t].attempt <= rows[t].attempt /\ workers[r][t].attempt \in Nat
  BY DEF DispatchInvariant, Typed, DispatchTypeOK, Worker
<1>5. \A r \in Session, u \in Task : r # s \/ u # t => workers'[r][u] = workers[r][u]
  BY DEF Only
<1>6. Tokens'
  BY <1>3, <1>4, <1>5 DEF DispatchInvariant, Tokens
<1>7. TurnsFenced'
  BY <1>2, <1>5 DEF DispatchInvariant, TurnsFenced, Kept
<1>8. ASSUME NEW u \in Task, NEW n \in dirtied[u]
      PROVE  /\ n = rows'[u].attempt /\ n >= 1 /\ Fenced(u)'
             /\ \A r \in Session : workers'[r][u].attempt = n =>
                  workers'[r][u].dirty /\ workers'[r][u].at \in InTurn
  <2>1. u # t
    BY <1>2, <1>8 DEF DispatchInvariant, EffectsFenced
  <2> QED
    BY <1>2, <1>5, <1>8, <2>1 DEF DispatchInvariant, EffectsFenced, Kept
<1> QED
  BY <1>1, <1>6, <1>7, <1>8 DEF Guarded, EffectsFenced

\* The fence goes up before the turn begins, and before any effect.
LEMMA BeginGuarded ==
  ASSUME DispatchInvariant, NEW s \in Session, NEW t \in Task, Only(s, t),
         BeginTurn(s, t), workers'[s][t].attempt = workers[s][t].attempt
  PROVE  Guarded'
<1> DEFINE a == workers[s][t].attempt
<1>1. /\ UNCHANGED dirtied /\ MarkRecoveryUnsafe(t, a)
      /\ workers[s][t].at \notin InTurn
  BY DEF BeginTurn, Others, InTurn
<1>2. \A u \in Task : Kept(u)
  BY <1>1, OwnKept DEF DispatchInvariant, Typed
<1>3. rows[t] \in Row /\ rows \in [Task -> Row]
  BY DEF DispatchInvariant, Typed, TasksInvariant, TasksTypeOK
<1>4. a = rows[t].attempt /\ rows'[t].attempt = a /\ Fenced(t)'
  BY <1>1, <1>3 DEF MarkRecoveryUnsafe, Owned, Fenced, Row
<1>5. dirtied[t] = {}
  BY <1>1, <1>4 DEF DispatchInvariant, EffectsFenced
<1>6. \A r \in Session, u \in Task : r # s \/ u # t => workers'[r][u] = workers[r][u]
  BY DEF Only
<1>7. Tokens'
  BY <1>6 DEF DispatchInvariant, Tokens
<1>8. TurnsFenced'
  BY <1>2, <1>4, <1>6 DEF DispatchInvariant, TurnsFenced, Kept
<1>9. ASSUME NEW u \in Task, NEW n \in dirtied[u]
      PROVE  /\ n = rows'[u].attempt /\ n >= 1 /\ Fenced(u)'
             /\ \A r \in Session : workers'[r][u].attempt = n =>
                  workers'[r][u].dirty /\ workers'[r][u].at \in InTurn
  BY <1>2, <1>5, <1>6, <1>9 DEF DispatchInvariant, EffectsFenced, Kept
<1> QED
  BY <1>1, <1>7, <1>8, <1>9 DEF Guarded, EffectsFenced

\* An effect is one of the latest attempt, behind its fence.
LEMMA EffectGuarded ==
  ASSUME DispatchInvariant, NEW s \in Session, NEW t \in Task, Only(s, t),
         HasEffects(s, t), \A u \in Task : Kept(u)
  PROVE  Guarded'
<1> DEFINE a == workers[s][t].attempt
<1>1. /\ workers[s][t].at \in InTurn /\ workers'[s][t].at \in InTurn
      /\ workers'[s][t].attempt = a /\ workers'[s][t].dirty
      /\ dirtied' = [dirtied EXCEPT ![t] = dirtied[t] \cup {a}]
  BY DEF HasEffects, InTurn
<1>2. a = rows[t].attempt /\ Fenced(t) /\ a >= 1
  BY <1>1 DEF DispatchInvariant, TurnsFenced, Typed, Fits, Working, InTurn
<1>3. \A r \in Session, u \in Task : r # s \/ u # t => workers'[r][u] = workers[r][u]
  BY DEF Only
<1>4. Tokens'
  BY <1>1, <1>3 DEF DispatchInvariant, Tokens
<1>5. TurnsFenced'
  BY <1>1, <1>2, <1>3 DEF DispatchInvariant, TurnsFenced, Kept
<1>6. dirtied \in [Task -> SUBSET Nat]
  BY DEF DispatchInvariant, Typed, DispatchTypeOK
<1> DEFINE Safe(u, n) == /\ n = rows'[u].attempt /\ n >= 1 /\ Fenced(u)'
                         /\ \A r \in Session : workers'[r][u].attempt = n =>
                              workers'[r][u].dirty /\ workers'[r][u].at \in InTurn
<1>7. ASSUME NEW u \in Task, u # t, NEW n \in dirtied'[u] PROVE Safe(u, n)
  <2>1. n \in dirtied[u]
    BY <1>1, <1>6, <1>7
  <2> QED
    BY <1>3, <1>7, <2>1 DEF DispatchInvariant, EffectsFenced, Kept
<1>8. ASSUME NEW n \in dirtied'[t] PROVE Safe(t, n)
  <2>1. n = a
    <3>1. n \in dirtied[t] \cup {a}
      BY <1>1, <1>6, <1>8
    <3> QED
      BY <1>2, <3>1 DEF DispatchInvariant, EffectsFenced
  <2>2. ASSUME NEW r \in Session, workers'[r][t].attempt = a PROVE r = s
    BY <1>1, <1>2, <1>3, <2>2 DEF DispatchInvariant, Tokens
  <2> QED
    BY <1>1, <1>2, <2>1, <2>2 DEF Kept
<1>9. EffectsFenced'
  BY <1>7, <1>8 DEF EffectsFenced
<1> QED
  BY <1>4, <1>5, <1>9 DEF Guarded

LEMMA GuardedStep ==
  ASSUME DispatchInvariant, [DispatchNext]_dispatchVars
  PROVE  Guarded'
<1>1. Typed' /\ Typed
  BY TypedStep DEF DispatchInvariant
<1>2. \A r \in Session, u \in Task : workers'[r][u] = workers[r][u] => Carries(r, u)
  BY DEF Carries
<1>3. ASSUME NEW s \in Session, NEW t \in Task, ActorStep(s, t) PROVE Guarded'
  <2>1. Only(s, t) /\ Moves(s, t)
    BY <1>1, <1>3, ActorMoves
  <2>2. \A u \in Task : Kept(u) \/ (u = t /\ Closed(s, t) /\ UNCHANGED dirtied)
    BY <1>3, ActorKeeps
  <2>3. CASE UNCHANGED dirtied /\ (Gone(workers'[s][t]) \/ Carries(s, t))
    <3>1. \A r \in Session, u \in Task : Gone(workers'[r][u]) \/ Carries(r, u)
      BY <1>2, <2>1, <2>3 DEF Only
    <3> QED
      BY <1>1, <2>2, <2>3, <3>1, FollowersGuarded
  <2>4. CASE Claim(s, t) /\ workers'[s][t].attempt = rows'[t].attempt
                         /\ workers'[s][t].at \notin InTurn
    BY <2>1, <2>4, ClaimGuarded
  <2>5. CASE BeginTurn(s, t) /\ workers'[s][t].attempt = workers[s][t].attempt
    BY <2>1, <2>5, BeginGuarded
  <2>6. CASE HasEffects(s, t)
    <3>1. ~Gone(workers'[s][t])
      BY <2>6 DEF HasEffects, Gone
    <3>2. \A u \in Task : Kept(u)
      BY <2>2, <3>1 DEF Closed
    <3> QED
      BY <2>1, <2>6, <3>2, EffectGuarded
  <2> QED
    BY <2>1, <2>3, <2>4, <2>5, <2>6 DEF Moves
<1>4. ASSUME UNCHANGED <<workers, Others>>, \A u \in Task : Kept(u) PROVE Guarded'
  <2>1. UNCHANGED workers /\ UNCHANGED dirtied
    BY <1>4 DEF Others
  <2> QED
    BY <1>1, <1>2, <1>4, <2>1, FollowersGuarded
<1>5. ASSUME UNCHANGED rows PROVE \A u \in Task : Kept(u)
  BY <1>1, <1>5, KeptRow DEF Typed
<1>6. CASE \E batch \in SUBSET Task : Submit(batch)
  BY <1>1, <1>4, <1>6, CreateKept DEF Submit, Typed
<1>7. CASE Poll
  BY <1>1, <1>4, <1>7, SweptKept DEF Poll, ListReadyTasks, Typed
<1>8. CASE UserCancels
  BY <1>1, <1>4, <1>8, CancelKept DEF UserCancels, CancelTask, CancelGraph, Typed
<1>9. CASE \E t \in Task : LeaseExpires(t)
  BY <1>1, <1>4, <1>9, OwnKept DEF LeaseExpires, Typed
<1>10. CASE \E s \in Session : Crash(s)
  <2>1. UNCHANGED rows /\ UNCHANGED dirtied
    BY <1>10 DEF Crash
  <2>2. \A r \in Session, u \in Task : Gone(workers'[r][u]) \/ Carries(r, u)
    BY <1>1, <1>2, <1>10, CrashMoves, NoWorkerGone
  <2> QED
    BY <1>1, <1>5, <2>1, <2>2, FollowersGuarded
<1>11. CASE UNCHANGED dispatchVars
  BY <1>4, <1>5, <1>11 DEF dispatchVars, Others
<1> QED
  BY <1>3, <1>6, <1>7, <1>8, <1>9, <1>10, <1>11 DEF DispatchNext, ActorStep

LEMMA GuardedAlways == DispatchSpec => []DispatchInvariant
<1>1. ASSUME DispatchInit PROVE DispatchInvariant
  <2>1. \A s \in Session, t \in Task :
          workers[s][t].at \notin InTurn /\ workers[s][t].attempt = 0 /\ dirtied[t] = {}
    BY <1>1 DEF DispatchInit, NoWorker, InTurn
  <2>2. Tokens /\ TurnsFenced
    BY <2>1 DEF Tokens, TurnsFenced
  <2>3. EffectsFenced
    BY <1>1 DEF DispatchInit, EffectsFenced
  <2> QED
    BY <1>1, <2>2, <2>3, TypedInit DEF DispatchInvariant
<1>2. DispatchInvariant /\ [DispatchNext]_dispatchVars => DispatchInvariant'
  BY TypedStep, GuardedStep DEF DispatchInvariant, Guarded
<1> QED
  BY <1>1, <1>2, PTL DEF DispatchSpec

\* No two workers are ever in a turn of the same task, whichever sessions they
\* belong to and however long one goes on after its lease has expired: the fence
\* (mark_recovery_unsafe) is up before the turn, so the task is not given away.
THEOREM TurnsExclude == DispatchSpec => []OneTurnAtATime
<1>1. ASSUME DispatchInvariant PROVE OneTurnAtATime
  <2>1. ASSUME NEW t \in Task, NEW r \in Session, NEW s \in Session,
               workers[r][t].at \in InTurn, workers[s][t].at \in InTurn
        PROVE  r = s
    <3>1. /\ workers[r][t].attempt = workers[s][t].attempt
          /\ workers[r][t].attempt >= 1
      BY <1>1, <2>1 DEF DispatchInvariant, TurnsFenced, Typed, Fits, Working, InTurn
    <3> QED
      BY <1>1, <3>1 DEF DispatchInvariant, Tokens
  <2> QED
    BY <2>1 DEF OneTurnAtATime
<1> QED
  BY GuardedAlways, <1>1, PTL

\* An attempt that may have had effects is the last of its task, whether it
\* fails, is stopped, loses its lease or dies with its session: no sweep and no
\* retry queues the task again (side_effect_dispatched, _recover_expired_locked).
THEOREM EffectsAreLast == DispatchSpec => []EffectsNotRepeated
<1>1. DispatchInvariant => EffectsNotRepeated
  BY DEF DispatchInvariant, EffectsFenced, EffectsNotRepeated
<1> QED
  BY GuardedAlways, <1>1, PTL
==============================================================================

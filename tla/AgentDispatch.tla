---------------------------- MODULE AgentDispatch -----------------------------
(***************************************************************************)
(* The dispatchers of agent tasks and their workers                        *)
(* (SpawnAgentTool of src/src/ash/tools/agent.py, and the child process of *)
(* src/src/ash/agents/_agent_driver.py), as clients of the ledger of       *)
(* AgentTasks.                                                             *)
(*                                                                         *)
(* A session is one Ash process with a dispatcher.  In subprocess mode it  *)
(* launches a child process for each ready task and a monitor that reads   *)
(* the ledger once the child has exited; otherwise (and in the process of  *)
(* an orchestrator, whose own delegated tasks it dispatches) the worker is *)
(* a coroutine of the session.  A worker claims its task, starts it, marks *)
(* it unsafe to recover, runs a model turn that may have effects and may   *)
(* delegate tasks and wait for them, and settles it.                       *)
(*                                                                         *)
(* The heartbeat is the lease itself: while it renews, the lease is live;  *)
(* once a lease has expired no owned call is accepted, so a worker whose   *)
(* heartbeat failed is one that no longer owns its task.                   *)
(***************************************************************************)
EXTENDS AgentTasks

CONSTANTS
  Session,     \* the processes that dispatch
  Supervised,  \* those in subprocess mode
  MaxCrashes   \* bound: how many sessions crash

ASSUME DispatchAssumption ==
  /\ Supervised \subseteq Session
  /\ MaxCrashes \in Nat

VARIABLES
  workers,   \* the worker of each session for each task
  monitors,  \* the monitor of each session for each task
  dirtied,   \* the attempts of each task that dispatched a side effect
  crashes    \* how many sessions have crashed

dispatchVars == <<rows, workers, monitors, dirtied, crashes>>

\* Where a worker is: launched, claimed, started, in its turn, waiting for
\* the tasks it delegated, giving up, reported, or (a child) exited.
InTurn == {"turn", "waiting", "failing", "reported"}
Working == {"launched", "claimed", "started"} \cup InTurn
\* How a child exited: refused, with an error or killed, or with success.
Fate == {"none", "refused", "failed", "succeeded"}

Worker == [at : {"none", "exited"} \cup Working,
           attempt : Nat,                \* the token it holds
           dirty : BOOLEAN,              \* side_effect_dispatched
           fate : Fate]
NoWorker == [at |-> "none", attempt |-> 0, dirty |-> FALSE, fate |-> "none"]

\* seen: the attempt of the row the monitor was started for.
Monitor == [at : {"none", "watching", "condemning"}, seen : Nat, fate : Fate]
NoMonitor == [at |-> "none", seen |-> 0, fate |-> "none"]

\* Types, and the shape of a row: only a watched child is kept once exited,
\* and no worker holds a token the ledger has not given out.
DispatchTypeOK ==
  /\ workers \in [Session -> [Task -> Worker]]
  /\ monitors \in [Session -> [Task -> Monitor]]
  /\ dirtied \in [Task -> SUBSET Nat]
  /\ crashes \in 0..MaxCrashes
  /\ \A s \in Session, t \in Task :
       /\ workers[s][t].at = "exited" => monitors[s][t].at = "watching"
       /\ workers[s][t].at = "exited" <=> workers[s][t].fate # "none"
       /\ monitors[s][t].at # "none" => s \in Supervised
       /\ workers[s][t].attempt <= rows[t].attempt
       /\ workers[s][t].at \in Working \ {"launched"} => workers[s][t].attempt >= 1
       /\ workers[s][t].dirty => workers[s][t].attempt \in dirtied[t]

DispatchInit ==
  /\ Init
  /\ workers = [s \in Session |-> [t \in Task |-> NoWorker]]
  /\ monitors = [s \in Session |-> [t \in Task |-> NoMonitor]]
  /\ dirtied = [t \in Task |-> {}]
  /\ crashes = 0

Put(s, t, worker) == workers' = [workers EXCEPT ![s][t] = worker]
Moved(s, t, at) == Put(s, t, [workers[s][t] EXCEPT !.at = at])
PutMonitor(s, t, monitor) == monitors' = [monitors EXCEPT ![s][t] = monitor]

\* Variant: a worker that ends is kept although nobody waits for it.
EndedUnreaped(s, t, fate) == Put(s, t, [NoWorker EXCEPT !.at = "exited", !.fate = fate])

\* The worker ends; its exit is kept for the monitor that waits for it.
Ended(s, t, fate) ==
  Put(s, t, IF monitors[s][t].at = "watching"
            THEN [NoWorker EXCEPT !.at = "exited", !.fate = fate]
            ELSE NoWorker)

Holds(s, t) == Owned(t, workers[s][t].attempt)

Others == <<monitors, dirtied, crashes>>

(***************************************************************************)
(* The dispatcher.                                                         *)
(***************************************************************************)
Delegated(t) == {u \in Task : ParentOf[u] = t}

\* delegate_agents in a session: tasks that no task delegates.
Submit(batch) ==
  /\ batch \subseteq Delegated(NoTask)
  /\ CreateTasks(batch)
  /\ UNCHANGED <<workers, Others>>

\* Not in _subprocess_task_ids, and no worker of this session has it.
Idle(s, t) == workers[s][t].at = "none" /\ monitors[s][t].at = "none"

\* One pass of _dispatch_ready_tasks that finds nothing to launch.
Poll == (\E E \in SUBSET Expired : ListReadyTasks(E)) /\ UNCHANGED <<workers, Others>>

\* And one pass, for one of the tasks it finds ready.
Dispatch(s, t) ==
  /\ Idle(s, t)
  /\ \E E \in SUBSET Expired : ListReadyTasks(E)
  /\ t \in Ready(rows')
  /\ Put(s, t, [NoWorker EXCEPT !.at = "launched"])
  /\ IF s \in Supervised
     THEN PutMonitor(s, t, [at |-> "watching", seen |-> rows'[t].attempt, fate |-> "none"])
     ELSE UNCHANGED monitors
  /\ UNCHANGED <<dirtied, crashes>>

(***************************************************************************)
(* The worker (_run_args_owned).                                           *)
(***************************************************************************)
Claim(s, t) ==
  /\ workers[s][t].at = "launched"
  /\ ClaimTask(t)
  /\ Put(s, t, [workers[s][t] EXCEPT !.at = "claimed", !.attempt = rows'[t].attempt])
  /\ UNCHANGED Others

\* The task is no longer queued, not ready, or the capacity is used up.
Refused(s, t) ==
  /\ workers[s][t].at = "launched"
  /\ \/ rows[t].state # "queued" /\ UNCHANGED rows
     \/ RefuseClaim(t)
  /\ Ended(s, t, "refused")
  /\ UNCHANGED Others

Start(s, t) ==
  /\ workers[s][t].at = "claimed"
  /\ StartTask(t, workers[s][t].attempt)
  /\ Moved(s, t, "started")
  /\ UNCHANGED Others

\* The set-up fails (release_claim), or so does preparing the worktree.
SetUpFails(s, t) ==
  /\ workers[s][t].at \in {"claimed", "started"} /\ Holds(s, t)
  /\ \/ FailTask(t, workers[s][t].attempt, TRUE)
     \/ workers[s][t].at = "started" /\ FailTask(t, workers[s][t].attempt, FALSE)
  /\ Ended(s, t, "failed")
  /\ UNCHANGED Others

\* Variant: the turn begins unfenced.
BeginTurnUnfenced(s, t) ==
  /\ workers[s][t].at = "started" /\ Holds(s, t)
  /\ Moved(s, t, "turn")
  /\ UNCHANGED <<rows, Others>>

BeginTurn(s, t) ==
  /\ workers[s][t].at = "started"
  /\ MarkRecoveryUnsafe(t, workers[s][t].attempt)
  /\ Moved(s, t, "turn")
  /\ UNCHANGED Others

\* A tool that is not read-only runs, whatever became of the lease.
Act(s, t) ==
  /\ workers[s][t].at = "turn"
  /\ Put(s, t, [workers[s][t] EXCEPT !.dirty = TRUE])
  /\ dirtied' = [dirtied EXCEPT ![t] = @ \cup {workers[s][t].attempt}]
  /\ UNCHANGED <<rows, monitors, crashes>>

\* The turn delegates its tasks and waits for them (DelegateAgentsTool.run).
Delegate(s, t) ==
  /\ workers[s][t].at = "turn"
  /\ CreateTasks(Delegated(t))
  /\ Put(s, t, [workers[s][t] EXCEPT !.at = "waiting", !.dirty = TRUE])
  /\ dirtied' = [dirtied EXCEPT ![t] = @ \cup {workers[s][t].attempt}]
  /\ UNCHANGED <<monitors, crashes>>

WaitEnds(s, t) ==
  /\ workers[s][t].at = "waiting"
  /\ \A u \in Delegated(t) : rows[u].state \in Terminal
  /\ Moved(s, t, "turn")
  /\ UNCHANGED <<rows, Others>>

\* The time budget ends, or the turn is cancelled, while it waits: the
\* delegated graph is cancelled with its owning turn.
AbandonWait(s, t) ==
  /\ workers[s][t].at = "waiting"
  /\ \E u \in Delegated(t) : CancelGraph(GraphOf[u])
  /\ Moved(s, t, "failing")
  /\ UNCHANGED Others

\* The turn is over: its usage is recorded, and may break a budget.
Report(s, t) ==
  /\ workers[s][t].at = "turn"
  /\ \E r \in Reports : RecordUsage(t, workers[s][t].attempt, r)
  /\ IF rows'[t].state = "failed" THEN Ended(s, t, "failed") ELSE Moved(s, t, "reported")
  /\ UNCHANGED Others

Complete(s, t) ==
  /\ workers[s][t].at = "reported"
  /\ CompleteTask(t, workers[s][t].attempt)
  /\ Ended(s, t, "succeeded")
  /\ UNCHANGED Others

\* With a git outcome that is unknown, an attempt is not tried again either.
Retryable(s, t) == {~workers[s][t].dirty, FALSE}

\* The model, the time budget or the commit failed.
FailTurn(s, t) ==
  /\ workers[s][t].at \in {"turn", "failing", "reported"}
  /\ \E retryable \in Retryable(s, t) : FailTask(t, workers[s][t].attempt, retryable)
  /\ Ended(s, t, "failed")
  /\ UNCHANGED Others

\* A stop message or stop(): the worker cancels the task it owns.
Stop(s, t) ==
  /\ workers[s][t].at \in {"started", "turn", "waiting"}
  /\ CancelOwnedTask(t, workers[s][t].attempt)
  /\ Ended(s, t, "failed")
  /\ UNCHANGED Others

\* The heartbeat, the poll of the ledger or an owned call tells the worker
\* that the task is no longer its own; nothing it writes is accepted.
Lapse(s, t) ==
  /\ workers[s][t].at \in Working \ {"launched", "waiting"}
  /\ ~Holds(s, t)
  /\ Ended(s, t, "failed")
  /\ UNCHANGED <<rows, Others>>
-------------------------------------------------------------------------------
(***************************************************************************)
(* The monitor of a child process (_execute_subprocess_task), and faults.  *)
(***************************************************************************)
\* The child exited with an error, and its task is still queued as it was,
\* or active (child_died_before_claim, child_died_while_owned).
Condemns(t, seen, fate) ==
  /\ fate # "succeeded"
  /\ \/ rows[t].state = "queued" /\ rows[t].attempt = seen
     \/ rows[t].state \in Active

Judge(s, t) ==
  /\ monitors[s][t].at = "watching" /\ workers[s][t].at = "exited"
  /\ LET fate == workers[s][t].fate
     IN  PutMonitor(s, t, IF Condemns(t, monitors[s][t].seen, fate)
                          THEN [NoMonitor EXCEPT !.at = "condemning", !.fate = fate]
                          ELSE NoMonitor)
  /\ Put(s, t, NoWorker)
  /\ UNCHANGED <<rows, dirtied, crashes>>

\* _cancel_active_subprocess_task: whatever has become of the task meanwhile.
Condemn(s, t) ==
  /\ monitors[s][t].at = "condemning"
  /\ IF rows[t].state \in Terminal THEN UNCHANGED rows ELSE CancelTask(t)
  /\ PutMonitor(s, t, NoMonitor)
  /\ UNCHANGED <<workers, dirtied, crashes>>

\* stop() or the session closes: the child is killed and its task cancelled.
StopChild(s, t) ==
  /\ monitors[s][t].at = "watching"
  /\ Put(s, t, NoWorker)
  /\ PutMonitor(s, t, [NoMonitor EXCEPT !.at = "condemning", !.fate = "failed"])
  /\ UNCHANGED <<rows, dirtied, crashes>>

\* A child process dies, or is killed.
Die(s, t) ==
  /\ s \in Supervised /\ workers[s][t].at \in Working
  /\ Ended(s, t, "failed")
  /\ UNCHANGED <<rows, Others>>

\* A session crashes and another is started: its coroutines are gone, its
\* child processes go on without a monitor.
Crash(s) ==
  /\ crashes < MaxCrashes /\ crashes' = crashes + 1
  /\ monitors' = [monitors EXCEPT ![s] = [t \in Task |-> NoMonitor]]
  /\ workers' = [workers EXCEPT ![s] =
       [t \in Task |-> IF s \in Supervised /\ workers[s][t].at \in Working
                       THEN workers[s][t] ELSE NoWorker]]
  /\ UNCHANGED <<rows, dirtied>>

\* ash agents cancel, cancel_agent_graph
UserCancels ==
  /\ \/ \E t \in Task : CancelTask(t)
     \/ \E g \in {GraphOf[t] : t \in Task} : CancelGraph(g)
  /\ UNCHANGED <<workers, Others>>

LeaseExpires(t) == Expire(t) /\ UNCHANGED <<workers, Others>>

WorkerStep(s, t) ==
  \/ Claim(s, t) \/ Refused(s, t) \/ Start(s, t) \/ BeginTurn(s, t)
  \/ WaitEnds(s, t) \/ AbandonWait(s, t)
  \/ Report(s, t) \/ Complete(s, t) \/ FailTurn(s, t) \/ Lapse(s, t)

MonitorStep(s, t) == Judge(s, t) \/ Condemn(s, t)

DispatchNext ==
  \/ \E batch \in SUBSET Task : Submit(batch)
  \/ Poll
  \/ \E s \in Session, t \in Task :
       \/ Dispatch(s, t)
       \/ WorkerStep(s, t)
       \/ Act(s, t) \/ Delegate(s, t)
       \/ SetUpFails(s, t)
       \/ Stop(s, t)
       \/ MonitorStep(s, t)
       \/ StopChild(s, t)
       \/ Die(s, t)
  \/ \E t \in Task : LeaseExpires(t)
  \/ UserCancels
  \/ \E s \in Session : Crash(s)

DispatchSpec == DispatchInit /\ [][DispatchNext]_dispatchVars

\* No worker is left that renews the lease of a task.
Abandoned(t) ==
  \A s \in Session :
    ~(workers[s][t].at \in Working \ {"launched"} /\ Holds(s, t))

\* The dispatchers run as long as a task is pending; a worker goes on, or its
\* time budget ends its turn; a monitor answers; a lease that nobody renews
\* expires.  (One that its worker renews may expire, or not.)
DispatchFairness ==
  /\ WF_dispatchVars(Poll)
  /\ \A s \in Session, t \in Task :
       /\ WF_dispatchVars(Dispatch(s, t))
       /\ WF_dispatchVars(WorkerStep(s, t))
       /\ WF_dispatchVars(MonitorStep(s, t))
  /\ \A t \in Task : WF_dispatchVars(Abandoned(t) /\ LeaseExpires(t))

FairDispatchSpec == DispatchSpec /\ DispatchFairness
-------------------------------------------------------------------------------
\* No two workers are ever in a turn of the same task, in whatever sessions,
\* although a worker whose lease has expired may go on for a while: a turn
\* begins only once its attempt can no longer be recovered.
OneTurnAtATime ==
  \A t \in Task : \A r, s \in Session :
    workers[r][t].at \in InTurn /\ workers[s][t].at \in InTurn => r = s

\* An attempt that may have had effects is the last of its task, whether it
\* fails, is stopped, loses its lease or dies: nothing is done twice.
EffectsNotRepeated ==
  \A t \in Task : \A n \in dirtied[t] : rows[t].attempt = n

\* Every task that is created settles, whatever fails, expires or crashes and
\* although a task that waits for others holds a place they may need.
EverySettles ==
  \A t \in Task : rows[t].state # "absent" ~> rows[t].state \in Terminal
==============================================================================

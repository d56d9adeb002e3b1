------------------------------ MODULE TaskGraph -------------------------------
(***************************************************************************)
(* What the ledger of agent tasks promises, whatever its workers do: the   *)
(* life of each task, without leases, tokens, budgets, graphs or sweeps.   *)
(*                                                                         *)
(* A task is tried at most MaxAttempts times, only once everything it      *)
(* depends on has succeeded; how it settles is final.  A step moves any    *)
(* number of tasks: one transaction recovers, fails and claims many rows.  *)
(***************************************************************************)
EXTENDS Integers

CONSTANTS
  Task,        \* the tasks
  Deps,        \* the tasks each task depends on
  MaxAttempts  \* how often each task may be tried

VARIABLES phase, rounds

Settled == {"succeeded", "lost"}

TaskStep(t) ==
  \/ phase'[t] = phase[t] /\ rounds'[t] = rounds[t]
  \/ phase[t] = "absent" /\ phase'[t] = "waiting" /\ rounds'[t] = 0
  \* tried, once its dependencies have succeeded; an attempt that is lost
  \* may be followed by the next in the same step
  \/ /\ phase[t] \in {"waiting", "active"} /\ phase'[t] = "active"
     /\ rounds'[t] = rounds[t] + 1 /\ rounds'[t] <= MaxAttempts[t]
     /\ \A d \in Deps[t] : phase[d] = "succeeded"
  \* put back for another attempt
  \/ /\ phase[t] = "active" /\ phase'[t] = "waiting"
     /\ rounds'[t] = rounds[t] /\ rounds[t] < MaxAttempts[t]
  \/ phase[t] = "active" /\ phase'[t] = "succeeded" /\ rounds'[t] = rounds[t]
  \/ /\ phase[t] \in {"waiting", "active"} /\ phase'[t] = "lost"
     /\ rounds'[t] = rounds[t]

Init ==
  /\ phase = [t \in Task |-> "absent"]
  /\ rounds = [t \in Task |-> 0]

Next ==
  /\ DOMAIN phase' = Task /\ DOMAIN rounds' = Task
  /\ \A t \in Task : TaskStep(t)

Spec == Init /\ [][Next]_<<phase, rounds>>
==============================================================================

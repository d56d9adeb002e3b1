----------------------------- MODULE MCAgentTasks -----------------------------
(***************************************************************************)
(* Instances of AgentTasks.  An orchestrator (p) delegates a chain of two  *)
(* tasks (a, then b); the first may be tried twice, and asks for approval  *)
(* of two tool calls at once.                                              *)
(***************************************************************************)
EXTENDS AgentApprovals, TLC

CONSTANTS p, a, b, none, g1, g2

MCTask == {p, a, b}
MCDeps == [t \in MCTask |-> IF t = b THEN {a} ELSE {}]
MCParentOf == [t \in MCTask |-> IF t = p THEN none ELSE p]
MCGraphOf == [t \in MCTask |-> IF t = p THEN g1 ELSE g2]
MCMaxAttempts == [t \in MCTask |-> IF t = a THEN 2 ELSE 1]
MCBackground == {a}
SlotSymmetry == Permutations(Slot)
MCReports == {[tokens |-> 2, cost |-> 0], [tokens |-> 1, cost |-> 2]}

\* Approvals read of the ledger only whether an attempt holds its task.  They
\* are explored where no usage is reported, nothing depends on the task that
\* asks and its parent has not begun (but may be cancelled, and the task with
\* it): none of them changes how an attempt can end.
Apart ==
  (\E q \in Asker : asks[q] # NoAsk) =>
    /\ rows[b] = NoRow /\ rows[p].attempt = 0
    /\ \A t \in Task : rows[t].tokens = 0 /\ rows[t].cost = 0
==============================================================================

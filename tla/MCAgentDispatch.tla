---------------------------- MODULE MCAgentDispatch ---------------------------
(***************************************************************************)
(* An instance of AgentDispatch: an orchestrator (p) that delegates a task *)
(* (a), which may be tried twice; a session in subprocess mode (lead) and  *)
(* one that runs its workers itself (peer).                                *)
(***************************************************************************)
EXTENDS AgentDispatch

CONSTANTS p, a, none, g1, g2, lead, peer

Family == {p, a}
FamilyParentOf == [t \in Family |-> IF t = p THEN none ELSE p]
FamilyGraphOf == [t \in Family |-> IF t = p THEN g1 ELSE g2]
FamilyMaxAttempts == [t \in Family |-> IF t = a THEN 2 ELSE 1]

Independent == [t \in Task |-> {}]

FreeReports == {[tokens |-> 0, cost |-> 0]}
==============================================================================

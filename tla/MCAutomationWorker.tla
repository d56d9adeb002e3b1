-------------------------- MODULE MCAutomationWorker --------------------------
(* Small instances of AutomationWorker: one-shot jobs due at once. *)
EXTENDS AutomationWorker, TLC

MCSchedule == [j \in Job |-> [kind |-> "at", at |-> 0]]
MCGrace == [j \in Job |-> Horizon]

JobSymmetry == Permutations(Job)
==============================================================================

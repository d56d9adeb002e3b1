------------------------- MODULE MCAutomationDelivery -------------------------
(* Small instances of AutomationDelivery: one-shot jobs due at once. *)
EXTENDS AutomationDelivery

MCSchedule == [j \in Job |-> [kind |-> "at", at |-> 0]]
MCGrace == [j \in Job |-> Horizon]
==============================================================================

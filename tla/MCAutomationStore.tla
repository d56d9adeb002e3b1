-------------------------- MODULE MCAutomationStore --------------------------
(***************************************************************************)
(* Small instances of AutomationStore: an interval and a one-shot job, or  *)
(* a single cron job, with two workers.                                    *)
(***************************************************************************)
EXTENDS AutomationStore, TLC

CONSTANTS repeating, once, nightly

MCSchedule ==
  [j \in Job |->
     CASE j = repeating -> [kind |-> "every", anchor |-> 0, seconds |-> 2]
       [] j = once      -> [kind |-> "at", at |-> 1]
       [] j = nightly   -> [kind |-> "cron", fires |-> {2, 3, 6}]]

MCGrace == [j \in Job |-> IF j = once THEN 0 ELSE 1]

WorkerSymmetry == Permutations(Worker)
==============================================================================

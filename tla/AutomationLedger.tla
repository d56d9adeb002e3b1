-------------------------- MODULE AutomationLedger ---------------------------
(***************************************************************************)
(* What the automation database promises, whatever its workers do: the     *)
(* life of each run and of its notification, without clock, leases,        *)
(* tokens, schedules or sweeps.                                            *)
(*                                                                         *)
(* An occurrence is claimed or skipped once, and never again even after    *)
(* its row is pruned; a run ends once and its outcome is final; a job has  *)
(* one running run at a time; a notification is owed from the step in      *)
(* which the run ends, is given to be posted at most once, and keeps its   *)
(* run until it is settled.                                                *)
(*                                                                         *)
(* A step moves any number of runs: one transaction recovers, skips and    *)
(* claims many rows.                                                       *)
(***************************************************************************)
CONSTANTS
  RunId,    \* the runs, scheduled and manual; r.job is the job of r
  Webhook   \* the jobs that have a webhook

VARIABLES phase, notice

Outcome == {"succeeded", "failed", "cancelled", "interrupted", "skipped"}

\* How a run may move in one step.
PhaseStep(old, new) ==
  \/ old = new
  \/ old = "due" /\ new \in {"running", "skipped"}
  \/ old = "running" /\ new \in Outcome \ {"skipped"}
  \/ old \in Outcome /\ new = "forgotten"

\* How a notification may move in one step.  It is held by a worker until
\* that worker starts to post, and put back if the worker is lost before.
NoticeStep(old, new) ==
  \/ old = new
  \/ old = "none" /\ new = "owed"
  \/ old = "owed" /\ new = "held"
  \/ old = "held" /\ new \in {"owed", "posting", "settled"}
  \/ old = "posting" /\ new = "settled"
  \/ old = "settled" /\ new = "none"

\* The runs that still owe, or are making, their notification.
Owing(p, n) ==
  {r \in RunId : p[r] \in Outcome /\ r.job \in Webhook /\ n[r] # "settled"}

OneRunningPerJob(p) ==
  \A r, s \in RunId :
    p[r] = "running" /\ p[s] = "running" /\ r.job = s.job => r = s

Init ==
  /\ phase = [r \in RunId |-> "due"]
  /\ notice = [r \in RunId |-> "none"]

Next ==
  /\ DOMAIN phase' = RunId /\ DOMAIN notice' = RunId
  /\ \A r \in RunId : /\ PhaseStep(phase[r], phase'[r])
                      /\ NoticeStep(notice[r], notice'[r])
  /\ OneRunningPerJob(phase')
  \* a run that ends owes its notification in the same step
  /\ \A r \in RunId :
       (notice'[r] # "none") <=> (phase'[r] \in Outcome /\ r.job \in Webhook)
  \* and is not forgotten while it does
  /\ \A r \in Owing(phase, notice) : phase'[r] = phase[r]

Spec == Init /\ [][Next]_<<phase, notice>>
==============================================================================

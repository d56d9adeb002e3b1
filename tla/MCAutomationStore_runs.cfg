\* One cron job, two workers, a user: claims, leases, recovery,
\* cancellation, pause, removal and manual runs, two calls in flight.
SPECIFICATION Spec
CONSTANTS
  repeating = repeating
  once = once
  nightly = nightly
  Job = {nightly}
  Worker = {w1, w2}
  Schedule <- MCSchedule
  Grace <- MCGrace
  Webhook = {}
  Lease = 1
  Retention = 0
  Horizon = 4
  MaxManual = 1
  MaxCalls = 2
  NoToken = NoToken
SYMMETRY WorkerSymmetry
INVARIANTS
  OneActiveRun
  EnabledJobCanFire
  NoBackfill
  JobSummaryHonest
  NoRunOfRemovedJob
  CancelWins
CHECK_DEADLOCK FALSE

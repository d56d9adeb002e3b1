\* One job, one worker, a user who cancels its run: every task ends, though
\* its operation may ignore the cancellation for ever.
SPECIFICATION FairWorkerSpec
CONSTANTS
  Job = {j1}
  Worker = {w1}
  Schedule <- MCSchedule
  Grace <- MCGrace
  Webhook = {}
  Lease = 1
  Retention = 0
  Horizon = 2
  MaxManual = 0
  MaxCalls = 1
  NoToken = NoToken
  MaxRuns = 1
PROPERTIES
  TurnEnds
CHECK_DEADLOCK FALSE

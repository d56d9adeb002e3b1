\* Two one-shot jobs and one worker that may run one of them at a time:
\* pauses, stops, crashes, timeouts, lost leases, unsettled operations.
SPECIFICATION WorkerSpec
CONSTANTS
  Job = {j1, j2}
  Worker = {w1}
  Schedule <- MCSchedule
  Grace <- MCGrace
  Webhook = {}
  Lease = 1
  Retention = 0
  Horizon = 1
  MaxManual = 0
  MaxCalls = 0
  NoToken = NoToken
  MaxRuns = 1
SYMMETRY JobSymmetry
INVARIANTS
  WorkerTypeOK
  HeldRunIsTracked
  StopAsksEveryTurn
  OwnedConcurrency
  SuccessIsReal
PROPERTIES
  WorkerImplementsStore
CHECK_DEADLOCK FALSE

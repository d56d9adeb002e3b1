\* A worker starts an operation while an earlier one, whose cleanup nobody
\* owns, is still running.
SPECIFICATION WorkerSpec
CONSTANTS
  Job = {j1, j2}
  Worker = {w1}
  Schedule <- MCSchedule
  Grace <- MCGrace
  Webhook = {}
  Lease = 1
  Retention = 0
  Horizon = 1
  MaxManual = 0
  MaxCalls = 0
  NoToken = NoToken
  MaxRuns = 1
SYMMETRY JobSymmetry
INVARIANTS
  ConcurrencyBound
CHECK_DEADLOCK FALSE

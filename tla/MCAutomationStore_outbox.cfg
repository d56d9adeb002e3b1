\* An interval job and a one-shot job with a webhook, two workers: batches,
\* misfires, the outbox, retention, and the ledger the database implements.
SPECIFICATION Spec
CONSTANTS
  repeating = repeating
  once = once
  nightly = nightly
  Job = {repeating, once}
  Worker = {w1, w2}
  Schedule <- MCSchedule
  Grace <- MCGrace
  Webhook = {once}
  Lease = 1
  Retention = 0
  Horizon = 4
  MaxManual = 0
  MaxCalls = 0
  NoToken = NoToken
SYMMETRY WorkerSymmetry
INVARIANTS
  TypeOK
  OutboxComplete
  FencedDelivery
PROPERTIES
  ImplementsLedger
CHECK_DEADLOCK FALSE

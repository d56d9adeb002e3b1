\* Two runs to notify and two workers that stall, restart and race for the
\* deliveries, long enough for two leases.
SPECIFICATION DeliverySpec
CONSTANTS
  Job = {j1, j2}
  Worker = {w1, w2}
  Schedule <- MCSchedule
  Grace <- MCGrace
  Webhook = {j1, j2}
  Lease = 1
  Retention = 0
  Horizon = 2
  MaxManual = 0
  MaxCalls = 0
  NoToken = NoToken
INVARIANTS
  DeliveryTypeOK
  AtMostOnePost
  OutcomeProvable
PROPERTIES
  DeliveryReleased
CHECK_DEADLOCK FALSE

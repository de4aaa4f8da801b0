SPECIFICATION Spec
CONSTANTS
  d1 = d1  d2 = d2
  Rows = {d1, d2}
  Workers = {w1, w2}
  ChannelCount = 2
  Configured = {1, 2}
  Reachable <- MCReachable
  Unresolvable = {}
  Faulty = {d2}
  Limit = 2
  MAX_OUTBOX_ATTEMPTS = 2
  MaxSends = 2
  MaxCrashes = 1
SYMMETRY Replicas
CHECK_DEADLOCK FALSE
INVARIANTS RecordsAgree SendsAccounted AttemptCap
PROPERTIES DeliveryPromise

SPECIFICATION FairSpec
CONSTANTS
  d1 = d1  d2 = d2
  Rows = {d1, d2}
  Workers = {w1}
  ChannelCount = 2
  Configured = {1, 2}
  Reachable <- MCReachable
  Unresolvable = {}
  Faulty = {}
  Limit = 1
  MAX_OUTBOX_ATTEMPTS = 2
  MaxSends = 1
  MaxCrashes = 1
PROPERTIES Settles
CHECK_DEADLOCK FALSE

SPECIFICATION Spec
CONSTANTS
  Links = {l1, l2}
  Sessions = {s1, s2}
  Challenges = {c1, c2}
  Requests = {r1, r2}
  Codes = {k1, k2}
  LinkTtl = 1
  IdleTtl = 1
  AbsoluteTtl = 2
  ChallengeTtl = 1
  Freshness = 1
  MaxAttempts = 1
  ChallengeLimit = 2
  MaxTime = 1
SYMMETRY Same
CHECK_DEADLOCK FALSE
INVARIANTS OneSessionPerLink FactorBehindAal2 RecoveryOnce AttemptsBounded
PROPERTIES RevokedIsFinal

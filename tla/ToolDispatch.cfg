SPECIFICATION Spec
CONSTANTS
  u1 = u1  k1 = k1  c1 = c1  c2 = c2  c3 = c3  c4 = c4
  Users = {u1}
  Kits = {k1}
  Calls = {c1, c2, c3}
  CIRCUIT_BREAKER_THRESHOLD = 2
  CIRCUIT_BREAKER_COOLDOWN = 1
  DAILY_INVOCATION_CAP = 2
  RATE_LIMIT_MAX_REQUESTS = 1
  DAY = 2
  MaxTime = 3
  NoKit = NoKit
SYMMETRY Symmetry
INVARIANTS
  TypeOK
  CapEarned
  BreakerEarned
  AuditedAsAnswered
CHECK_DEADLOCK FALSE

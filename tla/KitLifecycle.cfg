SPECIFICATION Spec
CONSTANTS
  k1 = k1  k2 = k2  r1 = r1  r2 = r2
  starter = starter  NoPlan = NoPlan
  Kits = {k1, k2}
  Requests = {r1, r2}
  Plans = {starter}
  PLAN_LIMITS <- OneEach
  MAX_RETRIES = 2
  MaxRequests = 4
  NoKit = NoKit
INVARIANTS
  TypeOK
  Overshoot
  OffMeansOff
  ActiveHasDatabase
CHECK_DEADLOCK FALSE
PROPERTY RequestsEnd

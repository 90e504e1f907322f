SPECIFICATION FairSpec
CONSTANTS
  s1 = s1
  s2 = s2
  p1 = p1
  p2 = p2
  w1 = w1
  o1 = o1
  None = None
  Session = {s1, s2}
  Proc = {p1, p2}
  Worker = {w1}
  Org = {o1}
  WorkerOf <- MCSharedWorker
  PollOrg <- MCPollOrg
  OrgOf <- MCOrgOf
  Skew <- MCSkew
  LeaseMs = 1
  Times = {0, 1}
  MaxTime = 1
  MaxCrashes = 1
INVARIANTS RingsAtMostOnce SoleHolder
PROPERTIES DueIsClaimed StuckIsSurfaced NeverEarly NeverRetried PlacesOneCall

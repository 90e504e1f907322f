SPECIFICATION CallSpec
CONSTANTS
  job = job
  manual = manual
  h1 = h1
  None = None
  Start = {job, manual}
  Scheduled = {job}
  Facts = {}
  LeaseEnds = FALSE
  Overtakes = FALSE
  Task <- MCTask
  Host = {h1}
  HostOf <- MCHostOf
  Field = {}
  MaxObj = 2
  MaxFault = 0
INVARIANTS RestIsNotCalling
CHECK_DEADLOCK FALSE

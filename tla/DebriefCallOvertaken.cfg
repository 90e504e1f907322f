SPECIFICATION FairCallSpec
CONSTANTS
  job = job
  manual = manual
  h1 = h1
  None = None
  Start = {job}
  Scheduled = {job}
  Facts = {"address"}
  LeaseEnds = FALSE
  Overtakes = TRUE
  Task <- MCTask
  Host = {h1}
  HostOf <- MCHostOf
  Field = {}
  MaxObj = 2
  MaxFault = 0
PROPERTY CallingIsLeft
CHECK_DEADLOCK FALSE

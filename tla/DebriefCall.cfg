SPECIFICATION FairCallSpec
CONSTANTS
  job = job
  manual = manual
  h1 = h1
  None = None
  Start = {job}
  Scheduled = {job}
  Facts = {"address"}
  LeaseEnds = TRUE
  Overtakes = FALSE
  Task <- MCTask
  Host = {h1}
  HostOf <- MCHostOf
  Field = {}
  MaxObj = 2
  MaxFault = 0
PROPERTIES CallingIsLeft DialsOnceDurable
CHECK_DEADLOCK FALSE

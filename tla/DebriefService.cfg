SPECIFICATION Spec
CONSTANTS
  t1 = t1
  t2 = t2
  h1 = h1
  None = None
  Task = {t1, t2}
  Host = {h1}
  HostOf <- MCHostOf
  Field = {}
  MaxObj = 2
  MaxFault = 1
SYMMETRY Requests
INVARIANTS ConfirmedOnce ConfirmedAddressRecorded DraftConfirmedAfterEvent ConfirmedHasEvent

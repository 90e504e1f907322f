SPECIFICATION Spec
CONSTANTS
  h1 = h1
  h2 = h2
  u1 = u1
  u2 = u2
  v1 = v1
  v2 = v2
  None = None
  Handlers = {h1, h2}
  Users = {u1, u2}
  Clients = {"client"}
  Uris = {"app"}
  Challenges = {v1, v2}
  ScanLimit = 2
  MaxIds = 4
  MaxFaults = 1
SYMMETRY Symmetric
INVARIANTS TypeOK Provenance SpentIsGone ForksNeedOverlap
CHECK_DEADLOCK FALSE

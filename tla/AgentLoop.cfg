SPECIFICATION Spec
CONSTANT maxTurns = 4
INVARIANTS
  AbortStops
  EventsBracketed
  StatusHonest
PROPERTY RunEnds
CHECK_DEADLOCK FALSE

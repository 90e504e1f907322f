SPECIFICATION SyncSpec
CONSTANTS
  s1 = s1
  s2 = s2
  s3 = s3
  Sync = {s1, s2, s3}
  MaxSyncFault = 2
INVARIANTS SyncedIsWritten DuplicatesHaveCause LossesNeedOverlap
CHECK_DEADLOCK FALSE

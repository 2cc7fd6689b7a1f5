SPECIFICATION FairSpec
CONSTANTS
  k1 = k1
  k2 = k2
  Keys = {k1, k2}
  QueueSize = 1
  BatchSize = 2
  DedupWindow = 1
  DedupLimit = 1
  MaxEvents = 3
  MaxTime = 2
  MaxBoots = 2
INVARIANTS
  TypeOK
  Conservation
  StoredAtMostOnce
  AckedWasStored
  DedupWindowRespected
  SuppressionHasCause
  FlushedOnStop
PROPERTIES
  EventsLeave
  ImplementsUpload
CHECK_DEADLOCK FALSE

SPECIFICATION Spec
CONSTANTS
  k1 = k1
  Key = {k1}
  MaxSequence = 2
  MaxRecords = 3
  MaxCrashes = 2
  Durabilities = {"SyncData", "Buffered"}
  Torn = Torn
  Nil = Nil
INVARIANT
  JournalReplays
CHECK_DEADLOCK FALSE

\* One command at a time, crashes at any point, appends that fail with
\* nothing written or with everything.
SPECIFICATION DSpec
CONSTANTS
  k1 = k1
  k2 = k2
  alice = alice
  Torn = Torn
  Instrument = {1}
  Account = {alice}
  ClientOrderId = {k1, k2}
  Price = {1}
  Quantity = {1, 2}
  QueueCapacity = 1
  MaxInFlight = 1
  MaxSequence = 4
  Kinds = {"New", "Cancel", "Replace"}
  KeyReuse = FALSE
  MaxOrders = 4
  U32Size = 100
  FailedAppends = {"Nothing", "All"}
  MaxLeft = 1
  MaxCrashes = 2
SYMMETRY Symmetry
CHECK_DEADLOCK FALSE
INVARIANTS
  JournalIsAdmitted
  RecoversUnlessTorn
PROPERTIES
  RecoveredAsBefore

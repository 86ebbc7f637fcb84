\* Two commands in flight.
SPECIFICATION DSpec
CONSTANTS
  k1 = k1
  k2 = k2
  alice = alice
  Torn = Torn
  Instrument = {1}
  Account = {alice}
  ClientOrderId = {k1, k2}
  Price = {1}
  Quantity = {1}
  QueueCapacity = 1
  MaxInFlight = 2
  MaxSequence = 5
  Kinds = {"New", "Cancel", "Replace"}
  KeyReuse = FALSE
  MaxOrders = 4
  U32Size = 100
  FailedAppends = {}
  MaxLeft = 1
  MaxCrashes = 2
SYMMETRY Symmetry
CHECK_DEADLOCK FALSE
INVARIANTS
  RecoversUnlessTorn

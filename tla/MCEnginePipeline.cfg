\* Two commands in flight, every kind; two
\* instruments share pool and queue; names are not reused in flight.
SPECIFICATION Spec
CONSTANTS
  k1 = k1
  k2 = k2
  alice = alice
  i1 = i1
  i2 = i2
  Instrument = {i1, i2}
  Account = {alice}
  ClientOrderId = {k1, k2}
  Price = {1}
  Quantity = {1, 2}
  QueueCapacity = 1
  MaxInFlight = 2
  MaxSequence = 5
  Kinds = {"New", "Cancel", "Replace"}
  KeyReuse = FALSE
  MaxOrders = 5
  U32Size = 100
SYMMETRY Symmetry
CHECK_DEADLOCK FALSE
INVARIANTS
  OrderMapExact
PROPERTIES
  KeepsPriceTimePriority
  SilentOnlyWhenTargetGone

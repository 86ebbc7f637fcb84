\* Up to four resting orders and one that trades with them, one command in flight.
SPECIFICATION Spec
CONSTANTS
  k1 = k1
  k2 = k2
  k3 = k3
  k4 = k4
  alice = alice
  i1 = i1
  Instrument = {i1}
  Account = {alice}
  ClientOrderId = {k1, k2, k3, k4}
  Price = {1, 2}
  Quantity = {0, 1, 2}
  QueueCapacity = 1
  MaxInFlight = 1
  MaxSequence = 6
  Kinds = {"New", "Cancel"}
  KeyReuse = FALSE
  MaxOrders = 6
  U32Size = 100
SYMMETRY Symmetry
CHECK_DEADLOCK FALSE
PROPERTIES
  KeepsPriceTimePriority

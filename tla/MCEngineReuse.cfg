\* Two commands in flight, every kind; names may be reused in flight.
SPECIFICATION Spec
CONSTANTS
  k1 = k1
  k2 = k2
  alice = alice
  i1 = i1
  Instrument = {i1}
  Account = {alice}
  ClientOrderId = {k1, k2}
  Price = {1, 2}
  Quantity = {1, 2}
  QueueCapacity = 1
  MaxInFlight = 2
  MaxSequence = 5
  Kinds = {"New", "Cancel", "Replace"}
  KeyReuse = TRUE
  MaxOrders = 4
  U32Size = 100
SYMMETRY Symmetry
CHECK_DEADLOCK FALSE
INVARIANTS
  NoSlotLeaked
  BookWellFormed

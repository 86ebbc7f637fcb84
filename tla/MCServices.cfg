\* The standby: four commands to each of two primaries.  The quorum: two indexes
\* of three replicas that may hold entries of an older leader.  The session: three
\* frames.  The feed: five events through a queue of two, two instruments,
\* published snapshots with a number of their own.  Settlement: two trades among
\* three accounts, with balances that overflow in the end.  Risk: two accounts,
\* two order names each, limits and freezes.  The formats: every message, every
\* file of at most two records.  The counters: two threads, three calls.
SPECIFICATION SpecServices
CONSTANTS
  k1 = k1
  k2 = k2
  ClientOrderId = {k1, k2}
  Capacity = 2
  MaxCommands = 4
  ClusterSize = 3
  Leader = 2
  Old = {1}
  MaxIndex = 2
  ApiKey = {1}
  RolesUsed = {"Trader", "Risk", "ReadOnly"}
  MaxFrames = 3
  MaxOutbound = 2
  Nobody = Nobody
  Symbol = {1, 2}
  QueueSize = 2
  MaxPublished = 5
  SnapshotAhead = {1}
  NoRecord = NoRecord
  Cash = Cash
  Security = Security
  Account = {1, 2, 3}
  TradeId = {k1, k2}
  TradePrice = {1}
  TradeQuantity = {1, 3}
  FeeSchedule <- Fees
  SeedAmount = {4}
  MaxAmount = 9
  MaxSeed = 4
  Nil = Nil
  AccountId = {k1, k2}
  Instrument = {1}
  ClientOrder = {k1, k2}
  Price = {1, 2}
  Quantity = {1, 2}
  Limits <- AllLimits
  Unlimited <- NoLimit
  Amount = {4}
  Inactive = {"Frozen"}
  U32Max = 1
  MaxFunds = 4
  MaxPayload = 100
  MaxRecord = 60
  FileLength = 2
  Recorder = {1, 2}
  Latency = {0, 1, 2, 3}
  U64Max = 3
  MaxRecorded = 3
  MaxSovereigns = 2
  U16Max = 3
  Definition = {1, 2}
  Session = {1}
  Vacant = Vacant
SYMMETRY Symmetry
CONSTRAINT UntilTorn
CHECK_DEADLOCK FALSE
INVARIANTS
  AgreementIsComplete
  ReplicatedSurvives
  CommittedHeld
  HandedOnExactly
  NumberedOnce
  CopyExact
  NothingSkipped
  EntriesExplainBalances
  SettledWhole
  HoldsMatchOrders
  ConservedUnlessTorn
  FrameExactOrRefused
  JournalYieldsWhatIsThere
  ExtremesExact
  PairsWhole
PROPERTIES
  StandbyFenced
  SettlementFinal
  NeverReopened

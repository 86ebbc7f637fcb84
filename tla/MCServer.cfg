SPECIFICATION SpecLive
CONSTANTS
  WarmUpOrders = 2
  RingSize = 2
  MaxFills = 2
  MaxCommands = 5
  BatchThreshold = 3
  TradeBytes = 2
  ChunkSize = 5
  ApiKey = {1}
  RolesUsed = {"Risk"}
  MaxFrames = 3
  MaxOutbound = 1
  Nobody = Nobody
CHECK_DEADLOCK FALSE
INVARIANTS
  TradesOnTheirWay
  ArchiveAccounted
PROPERTIES
  EverythingArrives
  ReceivedUpToLogon

CONSTANTS
  Nothing = Nothing
  Calls <- MCCalls
  Names <- MCNames
  Peer <- MCPeer
  Configs <- MCConfigs
  Worlds <- MCWorlds
  HttpTimeout = 1
  Limit = 4
  DiskTime = 1
  MaxSecond = 1
SPECIFICATION Spec
INVARIANTS
  TypeOK
  BestEffort
  SavedBeforeTold
  LimitNeverBites
PROPERTIES
  HandlerReturns

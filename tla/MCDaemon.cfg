CONSTANTS
  MaxBackoff = 6
  MaxLost = 2
  MaxMoves = 1
  Boots <- MCBoots
  Zones <- MCZones
SPECIFICATION FairSpec
INVARIANTS
  TypeOK
  ReadyOnce
  RegistersOnLan
  KeyVerdict
  SilentAfterSignal
PROPERTIES
  BackoffLaw
  SignalEnds
  Recovers

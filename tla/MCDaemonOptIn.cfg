CONSTANTS
  MaxBackoff = 6
  MaxLost = 2
  MaxMoves = 1
  Boots <- MCBoots
  Zones <- MCZones
SPECIFICATION Spec
INVARIANTS
  OptInHonoured

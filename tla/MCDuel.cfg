CONSTANTS
  Floor <- MCFloor
  CoinCells <- MCCoinCells
  StartCells <- MCStartCells
  Prefixes <- MCPrefixes
  Noise <- MCNoise
  MaxGames = 2
  MaxLosses = 1
SPECIFICATION FairSpec
INVARIANTS
  TypeOK
  ReplicaNearTrail
PROPERTIES
  EndHasACause
  EndReachesPeer
\* Both boards rest in the menu until a user presses a button.
CHECK_DEADLOCK FALSE

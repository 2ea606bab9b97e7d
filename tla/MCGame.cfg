CONSTANTS
  Floor <- MCFloor
  CoinCells <- MCCoinCells
  StartCells <- MCStartCells
  BufferValues <- MCBufferValues
  MaxGames = 2
SPECIFICATION FairSpec
INVARIANTS
  TypeOK
  PlayersOnFloor
  PositionSurvivesTheLink
  CoinLedger
PROPERTIES
  KeepsToTheRoads
  EndAnnouncedHonestly
  EndSignalHonoured
  LastCoinEndsGame

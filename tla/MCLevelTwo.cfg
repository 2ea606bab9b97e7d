CONSTANTS
  Floor <- MCFloor
  CoinCells <- MCCoinCells
  StartCells <- MCStartCells
  BufferValues <- MCBufferValues
  MaxGames = 2
SPECIFICATION FairSpec
PROPERTY LevelTwoStarts

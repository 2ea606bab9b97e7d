CONSTANTS
  Floor <- FloorCells
  CoinCells <- coins
  StartCells <- startCells
  BufferValues <- MCBufferValues
  MaxGames = 1
SPECIFICATION Spec
INVARIANT
  CoinsStayReachable

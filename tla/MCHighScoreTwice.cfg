CONSTANTS
  ROWS = 4
  PLAYERNAME <- MCPLAYERNAME
  Scores <- MCScores
  Contents <- MCContents
  MaxAdds = 2
  MaxCrashes = 1
SPECIFICATION Spec
PROPERTY LowestMakesRoom

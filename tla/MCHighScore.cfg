CONSTANTS
  ROWS = 4
  PLAYERNAME <- MCPLAYERNAME
  Scores <- MCScores
  Contents <- MCContents
  MaxAdds = 3
  MaxCrashes = 2
SPECIFICATION FairSpec
INVARIANTS
  TypeOK
  RowsPermuted
  MemoryMatchesEEPROM
  SortedUntilAdded
  OneRowAtRisk
  NothingInflated
PROPERTY CallsReturn

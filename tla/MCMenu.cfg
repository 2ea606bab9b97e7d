CONSTANT TouchPoints <- MCTouchPoints
SPECIFICATION FairSpec
INVARIANTS
  TypeOK
  ShowsWhatItDoes
  SecondTouchActs
PROPERTIES
  KeepsToTheRoads
  GetsDrawn

CONSTANTS
  Ids <- MCIds
  Readings <- MCReadings
SPECIFICATION Spec
INVARIANTS
  TypeOK
  SeesWholeReadings
  GameFollowsReadings

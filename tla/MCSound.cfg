CONSTANTS
  length = 4
  durations <- MCdurations
SPECIFICATION FairSpec
INVARIANT TypeOK
PROPERTIES
  PlaysTheList
  ReachesLastNote

CONSTANTS
  Commands <- MCPositions
  Follows <- OneStep
  MaxLosses = 2
SPECIFICATION FairSpec
INVARIANTS
  TypeOK
  PrefixReceived
  EndMeansWhole
PROPERTIES
  NoPhantomEnd
  FrameArrives

CONSTANTS
  Commands <- MCCommands
  MaxLag = 2
  MaxIdle = 5632
  Shrink = 1
  Stretch = 9
  Clocks <- MCClocks
SPECIFICATION Spec
INVARIANTS
  TypeOK
  CarrierGuarded
PROPERTIES
  SendsFrames
  CommandCompletes

SPECIFICATION Spec
CONSTANTS
  Sources <- TwoSources
  Costs = {4, 12}
  MaxCost = 16
  Opcodes <- AllOpcodes
  IeWrites <- Anything
  IfWrites <- Anything
INVARIANTS
  TypeOK
PROPERTIES
  EiShadow
  CriticalSections
  NoRequestLost
  HaltWakes
  VBlankServed
CHECK_DEADLOCK FALSE

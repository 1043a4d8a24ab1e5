SPECIFICATION Spec
CONSTANTS
  Sources <- TwoSources
  Costs = {4, 12}
  MaxCost = 16
  Opcodes <- AllOpcodes
  IeWrites <- Anything
  IfWrites = {}
PROPERTIES
  EiDelayIsOneInstruction
CHECK_DEADLOCK FALSE

SPECIFICATION DataSpec
CONSTANTS
  Operands <- SomeBytes
  Words <- SomeWords
  Displacements <- SomeSteps
  MaxSteps = 2
  Entries = 3
  Limit = 2
  Columns = 3
  Rows = {0, 8}
  Shapes <- SomeShapes
  Number <- Checked
INVARIANTS
  WideArithmetic
  DecimalArithmetic
  OwnOperand
  FirstTenByX
  ReadsOwnTiles
PROPERTIES
  ShowsTopmost

SPECIFICATION Spec
CONSTANTS
  Addresses <- MCAddresses
  Byte <- MCByte
  Pages <- MCPages
  RomBanks = {0, 1}
  RamBanks = {0}
  Image <- MCImage
  Boot <- MCBoot
  Saved <- MCSaved
  Counts = {0, 255}
  Stores <- MCStores
  Words <- MCWords
  Vectors = {64}
  Sites <- MCSites
  Stacks <- MCStacks
INVARIANTS WordsStay
PROPERTIES CallTarget ImplementsAddressSpace
CHECK_DEADLOCK FALSE

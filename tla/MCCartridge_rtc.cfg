SPECIFICATION Spec
CONSTANTS
  Roms <- SomeRoms
  BankBytes = 2
  Data <- SomeData
  Bytes <- Bits
  Clocks <- TwoClocks
  RtcStores = TRUE
PROPERTIES
  RtcOnlyLatched

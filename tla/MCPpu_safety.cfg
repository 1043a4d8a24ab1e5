SPECIFICATION Spec
CONSTANTS
  Width = 2
  Height = 2
  Lines = 3
  LineTicks = 7
  OamTicks = 3
  BugTicks = 2
  CounterMod = 4
  StatWrites <- NoStat
  LycWrites = {}
  WyWrites = {0, 1}
  WxWrites = {7, 9}
  WinWrites = {TRUE, FALSE}
  Sources <- PpuSources
INVARIANTS
  TypeOK
  BeamInv
  SpritesForThisLine
  PresentedIsDefined
  WindowBehindBeam
PROPERTIES
  PresentsWholeFrames

SPECIFICATION SSpec
CONSTANTS
  Width = 2
  Height = 2
  Lines = 4
  LineTicks = 7
  OamTicks = 3
  BugTicks = 2
  CounterMod = 4
  StatWrites <- AllStat
  LycWrites = {0, 1, 3}
  WyWrites = {}
  WxWrites = {}
  WinWrites = {}
  Sources <- PpuSources
PROPERTIES
  StatAtRisingEdges
  ImplementsBeam
  PresentsForever
  LycComesRound

SPECIFICATION Spec
CONSTANTS
  Width = 2
  Height = 2
  Lines = 3
  LineTicks = 7
  OamTicks = 3
  BugTicks = 2
  CounterMod = 4
  StatWrites <- NoStat
  LycWrites = {}
  WyWrites = {}
  WxWrites = {}
  WinWrites = {}
  Sources <- PpuSources
PROPERTIES
  Mode3SameLength

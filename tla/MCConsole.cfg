SPECIFICATION ConsoleSpec
CONSTANTS
  Width = 1
  Height = 1
  Lines = 2
  LineTicks = 6
  OamTicks = 2
  BugTicks = 2
  CounterMod = 2
  StatWrites <- HblankOnly
  LycWrites = {}
  WyWrites = {}
  WxWrites = {}
  WinWrites = {}
  Sources <- FourSources
  FrameCycles = 12
  CycleMod = 16
  Periods <- OneBatch
  TimaMod = 1
  TimaWrites = {}
  TacWrites <- TimerOn
  Costs = {4}
  MaxCost = 16
  Opcodes = {"plain", "ei", "halt", "unimplemented"}
  IeWrites <- SomeIe
  IfWrites = {}
INVARIANTS
  OnePicturePerFrame
PROPERTIES
  TimerInConsole
  CpuInConsole
  PpuInConsole
CHECK_DEADLOCK FALSE

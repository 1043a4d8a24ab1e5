SPECIFICATION HSpec
CONSTANTS
  CycleMod = 2048
  Periods <- TimaPeriods
  TimaMod = 3
  TimaWrites = {0, 2}
  TacWrites <- AllTac
  Sources <- TimerSources
PROPERTIES
  BatchingIsInvisible
  ExactInterval
  TimerKeepsFiring

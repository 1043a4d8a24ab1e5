SPECIFICATION Spec
CONSTANTS
  Keys <- SomeKeys
  MaxEvents = 5
INVARIANTS
  KeysFollowKeyboard
  OneRequestPerPress
  P1ShowsHeldKeys
PROPERTIES
  WindowCloses
CHECK_DEADLOCK FALSE

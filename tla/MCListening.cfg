SPECIFICATION ListeningSpec
CONSTANTS
  Keyboard = {k1, k2}
  MaxHolds = 2
  MaxPlugs = 1
  MaxToggles = 1
  MaxWakes = 1
INVARIANTS KeyHeldIsOneHold
PROPERTIES RecordingEnds WatcherCatchesUp
CHECK_DEADLOCK FALSE

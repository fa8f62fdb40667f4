SPECIFICATION ServicesSpec
CONSTANTS
  Turn = {t1}
  MaxSignals = 2
  State = {"Idle", "Listening"}
  Capacity = 1
  MaxHolds = 1
  MaxChanges = 2
  MaxWire = 2
  MaxInbox = 1
  MaxClicks = 1
  Process = {p1, p2, p3}
  NoSocket = NoSocket
  Keeps = 2
  MaxCommands = 2
  MaxEvents = 2
  MaxOthers = 1
INVARIANTS NoEarlyUnlock GateNotAhead FacesFollow OneDaemonAnswers
PROPERTIES SessionIsFollowed HoldsSettle
CHECK_DEADLOCK FALSE

SPECIFICATION PnSpec
CONSTANTS
  Paths = {"tcp","vpcd"}
  Tags = {"auto","plain"}
  Faults = {"silent","refusing"}
  PresenceRearmPolls = 1
  ParkedRearmPolls = 2
  ParkedRearmWakes = 1
  AbsentRearmsToClear = 2
  RearmRspPolls = 2
  RearmNtfPolls = 1
  CollectRounds = 0
  DataRounds = 1
  MuteThreshold = 2
  MaxOps = 2
  MaxMoves = 1
  MaxFaults = 1
  FaultyPaths = {"tcp"}
PROPERTY TagIsFound RemovalIsNoticed MuteIsHealed
INVARIANT LateAnswerIsDropped

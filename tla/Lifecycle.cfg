CONSTANTS
  N = 2
  Conns = {k1, k2}
  Self = Self
  None = None
  Blank = Blank
SPECIFICATION FairSpec
INVARIANTS
  TypeOK
  NoClientLeftBehind
  OneLateAtMost
  PortsReleased
  OthersKeepServing
PROPERTIES
  IsServerProcess
  StoppedServerDrains
  SignalEndsProcess
  NothingListensEnds

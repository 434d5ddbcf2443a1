CONSTANTS
  Senders = {s1, s2}
  Cap = 1
  DropKick = 2
  MaxSends = 4
  MaxBuffered = 1
SPECIFICATION FairSpec
INVARIANTS
  TypeOK
  GracefulCloseDelivers
  HopelessIsKicked
  NothingStranded
  WriterDeathCancels
PROPERTIES
  DeliversInOrder
  EventuallyDelivered
  GracefulCloseCloses
  CancelledEnds

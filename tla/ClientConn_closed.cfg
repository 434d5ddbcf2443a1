CONSTANTS
  Senders = {s1}
  Cap = 2
  DropKick = 2
  MaxSends = 3
  MaxBuffered = 1
SPECIFICATION Spec
INVARIANT GracefulCloseIsSafe

CONSTANTS
  Clients = {c1, c2}
  Names = {n1}
  Generations = {1, 2}
  None = None
SPECIFICATION Spec
INVARIANTS
  TypeOK
  NoWaitCycle
  MapsWaitOnlyForCloses

CONSTANTS
  Pids = {p1, p2}
  None = None
  Blank = Blank
  Operators = {o1, o2}
SYMMETRY Symmetry
SPECIFICATION Spec
INVARIANTS
  TypeOK
  ServerIsNamed
  SuccessorCanBind
  OneAtATime
  StrangersAreSafe

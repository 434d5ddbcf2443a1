CONSTANTS
  Pids = {p1, p2}
  None = None
  Blank = Blank
  Operators = {o1}
SPECIFICATION Spec
INVARIANT InstanceIsTracked

SPECIFICATION Spec
CONSTANTS
  Name = {n1}
  Addr = {a1, a2}
  Call = {c1}
  None = None
PROPERTY NoStaleAnswer
CHECK_DEADLOCK FALSE

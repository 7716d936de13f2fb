SPECIFICATION Spec
CONSTANTS
  None = None
  Req = {q1, q2}
  IdemKey = {k1}
  Token = {t1, t2, t3}
  Hour = 2
  Day = 3
  HandlerMax = 1
  HourMax = 2
  DayMax = 2
  MaxTime = 0
  Fault = {}
SYMMETRY Symmetry
INVARIANT AtMostOncePerKey
CHECK_DEADLOCK FALSE

SPECIFICATION PartsSpec
CONSTANTS
  None = None
  User = {u1}
  Key = {k1}
  Req = {}
  Run = {r1, r2}
  Fault = {"store", "sql", "crash", "receipt"}
  Concurrency = 1
  Budget = 2
  MaxOps = 2
  Simulation = FALSE
  m1 = m1
  y1 = y1
  usdc = usdc
  cron = cron
  claim = claim
  exit = exit
  LockId = {i1, i2, i3, i4}
  c1 = c1
  c2 = c2
INVARIANTS CronInv SuccessRowsReal
PROPERTIES ImplementsMutex RunEnds LockComesFree OwnerOnlyRelease KeyComesFree Settles SpinnersEnd
CHECK_DEADLOCK FALSE

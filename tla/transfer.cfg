SPECIFICATION SuiteSpec
CONSTANTS
  a1 = a1
  a2 = a2
  u1 = u1
  u2 = u2
  s1 = s1
  s2 = s2
  s3 = s3
  k1 = k1
  k2 = k2
  w1 = w1
  w2 = w2
  p1 = p1
  b1 = b1
  h1 = h1
  h2 = h2
  Name = {n1}
  Addr = {a1, a2}
  Call = {c1, c2}
  Migrated = {u1}
  Secret = {s1, s2, s3}
  Key = {k1, k2}
  AppKey = k1
  Tables <- MCTables
  User = {u1, u2}
  Wallet = {w1, w2, p1, b1}
  Kind <- MCKind
  Switches = 3
  Owned = {w1, w2}
  Smart <- MCSmart
  Linked0 <- MCLinked
  Rows0 <- MCRows
  Slot = {h1, h2}
  Serves <- MCServes
  UserTtl = 1
  CacheMax = 1
  AddrTtl = 2
  RequestMax = 1
  Relinks = 1
  None = None
  Req = {q1, q2}
  IdemKey = {k1}
  Token = {t1, t2, t3}
  Hour = 2
  Day = 3
  HandlerMax = 1
  HourMax = 2
  DayMax = 1
  MaxTime = 3
  Fault = {"store", "sql", "crash", "receipt", "forget"}
SYMMETRY Symmetry
INVARIANTS TransferInv HourlyLimit DailyOvershootBounded CachedSuccessSent SuccessNamesPayee MigrationSound SelectionSettles GrantsRecent
PROPERTIES OneHandlerPerKey
CHECK_DEADLOCK FALSE

SPECIFICATION SuiteSpec
CONSTANTS
  cron = cron
  claim = claim
  exit = exit
  a1 = a1
  m1 = m1
  y1 = y1
  usdc = usdc
  weth = weth
  SendKey = SendKey
  Gateway = Gateway
  Merkl = Merkl
  Paymaster = Paymaster
  None = None
  Nil = Nil
  User = {u1, u2}
  Worker = {cron, claim, exit}
  LockId = {i1, i2, i3, i4}
  Ttl <- MCTtl
  MaxHold = 1
  Store = "memory"
  Key = {k1, k2, k3}
  Req = {q1, q2}
  Fault = {"store", "sql"}
  Account = {a1}
  Op = {x1, x2}
  SessionKey = {s1}
  Morpho = {m1}
  Yo = {y1}
  Token = {usdc, weth}
  Usdc = usdc
  TokenOf <- MCTokenOf
  MaxPerCall <- MCMaxPerCall
  Job <- MCJobs
  Stored <- MCStored
  MaxNonce = 1
  Failure = {"lost", "rpc", "sponsor"}
SYMMETRY Symmetry
INVARIANTS RegInv RegistrationConsistent KernelInv SubmittedOnce EnableNeverBlocks PolicyCoversBatches PayerKept
PROPERTY ImplementsMutex
CHECK_DEADLOCK FALSE

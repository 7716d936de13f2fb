SPECIFICATION KernelSpec
CONSTANTS
  m1 = m1
  y1 = y1
  usdc = usdc
  weth = weth
  Nil = Nil
  Account = {a1}
  Op = {x1, x2}
  SessionKey = {k1}
  SendKey = SendKey
  Morpho = {m1}
  Yo = {y1}
  Token = {usdc, weth}
  Usdc = usdc
  TokenOf <- MCTokenOf
  Gateway = Gateway
  Merkl = Merkl
  Paymaster = Paymaster
  MaxPerCall <- MCMaxPerCall
  Job <- MCJobs
  Stored <- MCStored
  MaxNonce = 2
  Failure = {}
PROPERTY UndelegatedMeansOff
CHECK_DEADLOCK FALSE

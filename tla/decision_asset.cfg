SPECIFICATION Spec
CONSTANTS
  m1 = m1
  y1 = y1
  y2 = y2
  usdc = usdc
  weth = weth
  User = {u1}
  Morpho = {m1}
  Yo = {y1, y2}
  Asset = {usdc, weth}
  Usdc = usdc
  Underlying <- MCUnderlying
  Markets <- MCMarkets
  Deep = {m1, y1, y2}
  Feeds <- MCFeeds
  Units = 1
  PosTtl = 1
  PauseTtl = 1
  ListTtl = 2
  MaxCall = 1
  MaxChanges = 1
  MaxFaults = 1
INVARIANT SameAssetOnly
CHECK_DEADLOCK FALSE

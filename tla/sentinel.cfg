SPECIFICATION FairSpec
CONSTANTS
  None = None
  Cron = Cron
  Poll = {p1, p2}
  User = {u1}
  Signal = {"VAULT_FLOW", "SHARE_PRICE"}
  MaxRestart = 1
  Fault = {"sql", "receipt", "revert"}
INVARIANTS SentinelInv ExitRowsMined
PROPERTIES ExitsExclude BreachAnswered

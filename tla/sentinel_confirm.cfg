SPECIFICATION FairSpec
CONSTANTS
  None = None
  Cron = Cron
  Poll = {p1, p2}
  User = {u1}
  Signal = {"VAULT_FLOW"}
  MaxRestart = 0
  Fault = {}
PROPERTY ConfirmedInARow

SPECIFICATION LoopFairSpec
CONSTANTS
  l1 = l1
  l2 = l2
  Clients = {l1}
  Logins = {l1}
  Issues = {1}
  Bugs = {}
  Blocked = {}
  Login <- OwnLogins
PROPERTY FailedRunNeedsHuman

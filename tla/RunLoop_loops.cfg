SPECIFICATION LoopFairSpec
CONSTANTS
  l1 = l1
  l2 = l2
  Clients = {l1, l2}
  Logins = {l1, l2}
  Issues = {1, 2}
  Bugs = {}
  Blocked = {2}
  Login <- OwnLogins
INVARIANTS
  LoopTypeOK
  ExtraMergesAreSurvivors
  StoppedLoopHoldsNothing
PROPERTY StopIsHonoured

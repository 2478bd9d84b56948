SPECIFICATION CbmSpec
CONSTANTS
  c1 = c1 c2 = c2
  Clients = {c1, c2}
  Boot = Boot
  None = None
  Capacity = 1
INVARIANTS CbmTypeOK RepliesReachTheirClient
PROPERTIES ClientsAnswered
CHECK_DEADLOCK FALSE

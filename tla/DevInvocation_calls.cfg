SPECIFICATION DevSpec
CONSTANTS
  h1 = h1
  h2 = h2
  r1 = r1
  r2 = r2
  bad = bad
  base = base
  good = good
  wrong = wrong
  Handlers = {h1, h2}
  Requests = {r1, bad}
  Valid = {r1}
  Trees = {base, good, wrong}
  Base = base
  Green = {good}
SYMMETRY HandlerSymmetry
INVARIANTS
  DevTypeOK
  OneTerminal
  AcceptedIsNotRejected
  PendingIsServed
  CommittedIsGreen
CHECK_DEADLOCK FALSE

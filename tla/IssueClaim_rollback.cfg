SPECIFICATION ClaimSpec
CONSTANTS
  c1 = c1
  c2 = c2
  c3 = c3
  c4 = c4
  Clients = {c1, c2}
  Logins = {c1, c2}
  Issues = {1}
  Login <- OwnLogins
INVARIANT RollbackKeepsWinner

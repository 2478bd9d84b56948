SPECIFICATION ClaimSpec
CONSTANTS
  c1 = c1
  c2 = c2
  c3 = c3
  c4 = c4
  Clients = {c1, c2, c3, c4}
  Logins = {c1, c3, c4}
  Issues = {1}
  Login <- SharedLogin
SYMMETRY OwnLoginSymmetry
INVARIANTS
  ClaimTypeOK
  MutualExclusion
  NoLostIssue

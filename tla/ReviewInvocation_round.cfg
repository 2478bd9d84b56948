SPECIFICATION ReviewSpec
CONSTANTS
  h1 = h1 h2 = h2
  approve = approve reject = reject bad = bad
  new = new old = old
  clean = clean stale = stale
  Handlers = {h1, h2}
  Requests = {approve, reject, bad}
  Valid = {approve, reject}
  Approvals = {approve}
  Comments = {new, old}
  Leftover = {old}
  MaxReviews = 3
  Trees = {clean, stale}
  Green = {clean}
  MaxReviewerAttempts = 2
SYMMETRY HandlerSymmetry
INVARIANTS ReviewTypeOK CommentsKept ApprovedIsGreen AnswerStands SlotServed
CHECK_DEADLOCK FALSE

SPECIFICATION Spec
CONSTANTS
  Caller = {c1, c2}
  Nobody = Nobody
  TTL = 3
  Timeout = 1
  Budget = 1
  Starts <- MCStarts
  MaxTime = 4
  MaxAsks = 2
  MaxChanges = 2
SYMMETRY Symm
INVARIANT AnswersAreRecent
INVARIANT OneQuestion
INVARIANT HostAgrees
CHECK_DEADLOCK FALSE

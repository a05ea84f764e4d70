\* Two processes that ask; or two updates of one host, one after the other.
SPECIFICATION MCSpec
CONSTANTS
  Process = {p1, p2}
  Nothing = Nothing
  Blank = Blank
  Groups <- MCGroups
  Releases <- MCReleases
  Invalid = Invalid
  Huge = Huge
  Order <- MCOrder
  Starts <- MCStarts
  CacheTTL = 2
  HTTPTimeout = 1
  MaxTime = 3
  MaxSet = 1
  Jumps <- MCJumps
  Updater = {u, v}
  Original = old
  Junk = junk
  Chunks = 2
  Overlap = FALSE
SYMMETRY Symm
INVARIANTS OffersAreRight AnswersAreFresh InstTypeOK NeverHalfWritten NothingLeft
PROPERTY TrailAccounts
CHECK_DEADLOCK FALSE

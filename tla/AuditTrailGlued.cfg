\* Two processes, no rotation, one short write.
SPECIFICATION TrailSpec
CONSTANTS
  Proc = {"p", "q"}
  Call = {"a", "b"}
  ProcOf <- WhereApart
  Nobody = Nobody
  MaxRotations = 0
  MaxFaults = 1
INVARIANT AttemptIsOnRecord
CHECK_DEADLOCK FALSE

SPECIFICATION TrailFairSpec
CONSTANTS
  Proc = {"p"}
  Call = {"a", "b"}
  ProcOf <- WhereTwo
  Nobody = Nobody
  MaxRotations = 1
  MaxFaults = 1
INVARIANTS OneAtATime SeqOrder IntentFirst ResultIsTrue
PROPERTIES CallsEnd StaysWithinFile
CHECK_DEADLOCK FALSE

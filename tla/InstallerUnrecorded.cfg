\* A trail whose append fails.
SPECIFICATION InstSpec
CONSTANTS
  Updater = {u, v}
  Original = old
  Junk = junk
  Chunks = 2
  Overlap = FALSE
INVARIANT SwapIsRecorded
CHECK_DEADLOCK FALSE

\* Two updates of one host at the same time.
SPECIFICATION InstSpec
CONSTANTS
  Updater = {u, v}
  Original = old
  Junk = junk
  Chunks = 2
  Overlap = TRUE
INVARIANT NeverHalfWritten
CHECK_DEADLOCK FALSE

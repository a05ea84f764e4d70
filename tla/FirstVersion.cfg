\* Three buttons, a set of two targets, the five rungs of the ladder; or two
\* squeezes of one log with a writer, a rotation and two faults.
SPECIFICATION MCFairSpec
CONSTANTS
  Targets = 2
  Rungs = 5
  MaxAsks = 3
  NoFile = NoFile
  MaxLines = 3
  MaxSqueezes = 2
  MaxRotations = 1
  MaxFaults = 2
INVARIANT InputSurvives
PROPERTY ShowsTheLatest
CHECK_DEADLOCK FALSE

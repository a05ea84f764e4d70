\* The viewer over three lines, any of them torn, and a rotation.
SPECIFICATION TailFairSpec
CONSTANTS
  Line = {a, b, c}
  MaxRotations = 1
  Limit = 0
INVARIANTS ShownOnce NothingSkipped
PROPERTY EventuallyShown
CHECK_DEADLOCK FALSE

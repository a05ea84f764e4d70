\* The whole command: selection, run, report and exit code.
SPECIFICATION CmdFairSpec
CONSTANTS
  Check = {1, 2}
  Tier2 = {2}
  NeedsParam = {}
  NeedsBin = {1}
  Concurrency = 0
  Outcome <- Answers
  MaxEvents = 0
  Domain <- Domains
  InDefault = {1}
  Selector <- Selectors
INVARIANTS GreenMeansGreen CritIsHeard DocumentAgrees OnlyWhatWasAsked
PROPERTY CommandEnds

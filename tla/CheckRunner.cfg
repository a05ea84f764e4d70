\* Safety of Runner.Run: three checks, two slots.
SPECIFICATION FairSpec
CONSTANTS
  Check = {1, 2, 3}
  Tier2 = {1, 2}
  NeedsParam = {2}
  NeedsBin = {1, 2, 3}
  Concurrency = 2
  Outcome <- TwoAnswers
  MaxEvents = 1
INVARIANTS TypeOK SlotBound NoLateVerdict GatesHold StepsShown OwnAnswer Complete
PROPERTY KeepsPromise

CONSTANTS
  w1 = w1  w2 = w2  r1 = r1
  Writers <- TwoWriters
  Readers <- OneReader
  LoadKeys <- OneLoadKey
  Main = Main
  NoKey = NoKey
  Rounds <- SomeRounds
  Checks = 1
  MaxFailures = 1
SPECIFICATION FairSpec
INVARIANTS ResultsAddUp OwnKeysDoNotConflict CounterCountsWrites SomebodySucceeds
PROPERTY DemoEnds

SPECIFICATION VersionsSpec
CONSTANTS
  Model = {A, B}
  NoModel = NoModel
  Class = {c1}
  Replica = {r1}
  Search = {s1}
  MaxChanges = 1
  MaxTroubles = 0
  SlowReads = TRUE
INVARIANT AnswersAreWhole

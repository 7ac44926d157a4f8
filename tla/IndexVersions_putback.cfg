SPECIFICATION VersionsSpec
CONSTANTS
  Model = {A, B}
  NoModel = NoModel
  Class = {c1}
  Replica = {r1}
  Search = {s1}
  MaxChanges = 2
  MaxTroubles = 0
  SlowReads = FALSE
PROPERTY PuttingBackKeepsIndex

SPECIFICATION Spec
CONSTANTS
  Class = {c1}
  IdsOf <- MCIdsOf
  Texts <- MCTwoTexts
  FirstText <- MCFirstText
  MaxChunks = 2
  Model = {m1}
  NoModel = NoModel
  Replica = {a}
  NoOne = NoOne
  PageSize = 1
  Interval = 1
  ReconcileEvery = 1
  MaxTime = 4
  MaxEvents = 2
  SlowPasses = TRUE
  Drifting = FALSE
INVARIANTS
  NothingForgotten
CHECK_DEADLOCK FALSE

SPECIFICATION Spec
CONSTANTS
  NoRun = NoRun
  Run = {r1, r2}
  Slot = {s1}
  Scopes <- MCDefaultScope
  MaxQuestions = 3
  MaxClassifyQuestions = 2
  MaxIterations = 9
  OutlivesTtl = TRUE
PROPERTY NeverAsksTwiceInARow

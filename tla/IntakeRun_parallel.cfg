SPECIFICATION Spec
CONSTANTS
  NoRun = NoRun
  Run = {r1}
  Slot = {s1, s2}
  Scopes <- MCDefaultScope
  MaxQuestions = 3
  MaxClassifyQuestions = 2
  MaxIterations = 9
  OutlivesTtl = FALSE
INVARIANT OneClosingAction

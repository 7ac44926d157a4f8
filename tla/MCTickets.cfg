SPECIFICATION TicketsSpec
CONSTANTS
  NoRun = NoRun
  Run = {r1, r2}
  Slot = {s1}
  Scopes <- MCScopes
  MaxQuestions = 1
  MaxClassifyQuestions = 1
  MaxIterations = 2
  OutlivesTtl = FALSE
  Trigger = {x1, x2}
  Host = {a}
  Object = {o}
  NoOne = NoOne
  MaxListed = 1
  MaxOthers = 1
  MaxFaults = 1
  Model = {A, B}
  NoModel = NoModel
  Class = {c1, c2}
  Replica = {p1, p2}
  Search = {q1}
  MaxChanges = 2
  MaxTroubles = 1
  MaxEvents = 2
  SlowReads = FALSE
INVARIANTS
  TicketsTypeOK
  OneRunAtATime
  QuestionCeiling
  OneClosingAction
  AtMostOneLateWrite
  DoneRunsLeaveNothingOpen
  OneNotePerTicket
  NothingIgnored
  JournalTellsTruth
  ListingWorks
  RecentListed
  CountsAgree
  RowsHaveCollections
  AnswersAreWhole
PROPERTIES
  NeverAsksTwiceInARow
  RefinesDialogue
  EveryRunEnds
  LockIsFreed
  RefinesServedIndex
  VersionsComplete
CHECK_DEADLOCK FALSE

SPECIFICATION BackgroundSpec
CONSTANTS
  Class = {c1}
  IdsOf <- MCIdsOf
  Texts <- MCTwoTexts
  FirstText <- MCFirstText
  MaxChunks = 2
  Model = {m1, m2}
  NoModel = NoModel
  Replica = {a, b}
  NoOne = NoOne
  PageSize = 1
  Interval = 1
  ReconcileEvery = 1
  MaxTime = 4
  MaxEvents = 2
  SlowPasses = FALSE
  Drifting = FALSE
  Process = {a, b}
  Cadence = 1
  MaxMinute = 2
  MaxAsks = 2
  Contender = {a, b}
  Ttl = 3
  MaxTroubles = 3
  Sender = {a, b}
  Published = TRUE
  MaxMoment = 3
  MaxIncidents = 3
  FieldsOf <- MCFieldsOf
  Gates = {"itop", "llm"}
  Required <- MCRequired
  Wholesale = {"intake"}
  Nested = {"mappings"}
  Value = {0, 1}
  Default = 0
  Request = {a, b}
  MaxRequests = 3
  MaxBlips = 1
  Name = {"ask", "note"}
  Text = {"old", "new"}
  Builds <- MCBuilds
  MaxEdits = 4
  Caller = {a, b}
  Account = {"x", "y"}
  NoUrl = "none"
  MaxClients = 3
  MaxUpsets = 2
  Setup = {a, b}
  TicketClass = {"UserRequest", "Incident"}
  InDatamodel = {"UserRequest", "Incident"}
  MaxSetups = 3
  MaxMishaps = 1
  FieldOrder <- MCFieldOrder
  TextsOf <- MCTextsOf
  EntryLengths = {1, 5}
  Budget = 8
  PerWindow = 2
  MaxEntries = 4
INVARIANTS
  NothingForgotten
  BackfillHonoured
  OneSweep
  OrphansGo
  BackgroundTypeOK
  WakesAreServed
  RenewalKeepsLock
  OneTickSendsADay
  OneSetupDocument
  EditsStand
  WizardNoted
  NoClientLeaks
  TextsNeverStopTheBoot
  SuccessMeansWired
  TextsAreKept
PROPERTIES
  StaysFindable
  PassesArePaced
  ReleaseHurtsNobody
CHECK_DEADLOCK FALSE
SYMMETRY MCSymmetry

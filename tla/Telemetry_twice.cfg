SPECIFICATION TelemetrySpec
CONSTANTS
  Sender = {a, b}
  Published = TRUE
  MaxMoment = 3
  MaxIncidents = 2
INVARIANT OneDocumentPerDay
CHECK_DEADLOCK FALSE

SPECIFICATION SettingsSpec
CONSTANTS
  FieldsOf <- MCItop
  Gates = {"itop"}
  Required <- MCNeeds
  Wholesale = {}
  Nested = {}
  Value = {0, 1}
  Default = 0
  Request = {a, b}
  MaxRequests = 2
  MaxBlips = 0
INVARIANT AbsentFieldsKept
CHECK_DEADLOCK FALSE

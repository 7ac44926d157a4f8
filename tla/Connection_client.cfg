SPECIFICATION ConnectionSpec
CONSTANTS
  Caller = {a, b}
  Account = {"x"}
  NoUrl = "none"
  MaxClients = 2
  MaxUpsets = 1
PROPERTY HandsOutOpenClients
CHECK_DEADLOCK FALSE

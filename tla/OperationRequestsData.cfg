CONSTANTS
  Images = {a, b}
  Asking = {a}
  HookRequests = 1
  Limit = 1
  Attempts = 1
  None = None

SPECIFICATION Spec

INVARIANTS
  DataBelongsToRequest

CHECK_DEADLOCK FALSE

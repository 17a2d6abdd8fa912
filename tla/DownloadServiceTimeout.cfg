CONSTANTS
  Tasks = {t1, t2}
  Callers = {t1}
  Images = 4
  Limit = 2
  Workers = 1
  PersistCookies = TRUE
  Fallible = {"cookies", "gateway", "logger"}
  None = None
  Broken = Broken

SPECIFICATION Spec

INVARIANT CancelledExits130

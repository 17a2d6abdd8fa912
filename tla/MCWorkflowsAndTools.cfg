CONSTANTS
  Runs = {w1, w2}
  x = x
  y = y
  a = a
  b = b
  Ids = {x, y}
  Urls = {a, b}
  Revs = {1, 2}
  Snapshots <- MCSnapshots
  Retries = 2
  None = None
  e1 = e1
  e2 = e2
  Extenders = {e1, e2}
  Additions = {{"updates", "api-key"}, {"json"}}
  Originals = {{"html", "bearer"}}
  Kind = "site_plugin"
  EditedHooks = {"auth_flow"}
  EditedSettings = {"setting", "remark", "api_token"}
  MaxEdits = 1
  Overlap = FALSE
  Kinds = {"call", "session"}
  Systems = {"posix", "windows"}
  MaxRequests = 2

SPECIFICATION AllSpec

INVARIANTS
  CompletedWasEarned
  SharedUrlAgrees
  NothingSkipped
  EditsSurvive
  RerunCompletes
  AnswersAreTrue

PROPERTIES
  RetriesKeepCompletions
  CommandsEnd

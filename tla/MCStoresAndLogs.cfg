CONSTANTS
  Procs = {p1, p2}
  Sources <- MCSources
  f1 = f1
  f2 = f2
  e1 = e1
  e2 = e2
  Files = {f1, f2}
  VaultEntries = {e1, e2}
  Keys = {k1, k2, k3, k4}
  VaultBackup <- MCBackup
  VaultCommands = {"init", "edit", "rotate", "resume", "restore"}
  Services = {v1, v2}
  Names = {sid}
  Values = {old, new}
  Session = Session
  Horizon = 1
  Runs = {1, 2, 3}
  RunSizes = {1, 2, 3}
  MaxSize = 2
  MaxAge = 1
  Until = 2
  a1 = a1
  u1 = u1
  u2 = u2
  s1 = s1
  s2 = s2
  Checkers = {c1, c2}
  Feeds = {s1, s2}
  FeedPlugins <- MCFeedPlugins
  Pages <- MCPages
  Legacies <- MCLegacies
  Manifests <- MCManifests
  Plugins = {"p", "q"}
  Attempts = 3
  MaxFiles = 1
  Images = 3
  Limit = 2
  Indexes <- MCIndexes
  FailureKinds = {"image_fetch", "image_save"}
  Sessions = {g1, g2}
  Loaders = {"first", "second"}
  Rewriting = {"first"}
  Layers <- MCLayers
  Documents <- MCDocuments
  Defaults <- MCDefaults
  Obsolete = {"retries"}
  Invalid = {9}
  MaxEdits = 1
  None = None

SPECIFICATION StoresSpec

SYMMETRY MCSymmetry

INVARIANTS
  InstalledIsKept
  ChangesAddUp
  RenderedInOrder
  PassedMeansDone
  OriginsAreTrue

PROPERTIES
  AllOrNothing
  SameVersionSameContent
  SecretsStayReadable
  JarIsMerged
  RunsMakeRoomInOrder
  AttemptsAddUp

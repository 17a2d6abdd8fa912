CONSTANTS
  Loaders = {"first"}
  Rewriting = {"first"}
  Layers <- MCLayers
  Documents <- MCDocuments
  Defaults <- MCDefaults
  Obsolete = {"retries"}
  Invalid = {9}
  MaxEdits = 1

SPECIFICATION ConfigSpec

INVARIANT OriginsExplain

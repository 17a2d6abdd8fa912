CONSTANTS
  N = 3
  Limit = 2
  Indexes <- MCIndexes
  Kinds = {"image_fetch", "image_save"}
SPECIFICATION ReportSpec
INVARIANT EveryOutcomeIsRendered

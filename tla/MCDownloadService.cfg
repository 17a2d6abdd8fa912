CONSTANTS
  t1 = t1
  t2 = t2
  Tasks = {t1, t2}
  Callers = {t1}
  Images = 4
  Limit = 2
  Workers = 1
  PersistCookies = TRUE
  Fallible = {"cookies", "gateway", "logger"}
  None = None
  Broken = Broken
  Processors = 2
  Urls = 2
  Retries = 1
  p1 = p1
  p2 = p2
  Missing = Missing
  Plugins = {p1, p2}
  Packages <- MCPackages
  Known <- MCEntries
  Modes = {"strict", "warn", "bypass-all", "bypass-catalog", "bypass-signature"}
  Enabled = {p1}
  Chain = {p2}
  MaxChanges = 1
  ImageProcessors = 1
  Bytes = {"j1", "p1", "junk"}
  FormatOf <- MCFormatOf
  Encoded <- MCEncoded
  Types = {"jpeg", "text", "unspecified"}
  Wanted = {"ORIGINAL", "jpeg"}
  Validations = {"content_type", "decode", "both"}
  Mismatches = {"accept", "error"}
  NoExtension = NoExtension
  MaxFiles = 2
  MaxChapters = 2
  NoteUrls = {"u", "v"}
  PageImages = {"i"}
  Attempts = 2
  MaxCommands = 2
  Methods = {"email", "desktop"}

SPECIFICATION AllSpec

INVARIANTS
  ResourcesOutliveUse
  PrimaryIsRaised
  RecordsAgree
  LoadedAsAccepted
  SavedIsChecked
  FilesAreSettled
  ToldOnce

PROPERTIES
  BatchIsOrderly
  OneOwner
  EveryCallEnds

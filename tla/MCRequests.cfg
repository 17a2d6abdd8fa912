CONSTANTS
  Images = {a, b}
  Asking = {a}
  HookRequests = 1
  Limit = 1
  Attempts = 1
  r1 = r1
  r2 = r2
  r3 = r3
  Sent = {r1, r2, r3}
  Specs <- MCSpecs
  Origins <- MCOrigins
  Secure <- MCSecure
  SiteOf <- MCSiteOf
  GlobalLimit = 2
  HostLimit = 1
  SiteLimit = 1
  Interval = 1
  MaxAttempts = 2
  MaxRedirects = 1
  None = None

SPECIFICATION AllSpec

INVARIANTS
  SlotsAreInUse
  CallerDataStaysHome

PROPERTIES
  NeverSentWithRefused
  SendsAreSpaced
  AllRequestsEnd

\* All images are fetched, all requests have ended.
CHECK_DEADLOCK FALSE

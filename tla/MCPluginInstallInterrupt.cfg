CONSTANTS
  Procs = {p1, p2}
  Sources <- MCSources
  None = None

SPECIFICATION Spec

PROPERTIES
  RestoresOnFailure

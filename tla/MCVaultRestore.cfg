CONSTANTS
  Procs = {p1, p2}
  f1 = f1
  f2 = f2
  e1 = e1
  e2 = e2
  Files = {f1, f2}
  Entries = {e1, e2}
  Keys = {k1, k2, k3}
  BackedUp <- MCBackup
  Commands = {"restore"}
  None = None

SPECIFICATION Spec

PROPERTIES
  RestoreCanBeRepeated

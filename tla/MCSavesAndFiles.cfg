CONSTANTS
  t1 = t1
  t2 = t2
  u1 = u1
  proc1 = proc1
  proc2 = proc2
  Tasks <- MCTasks
  Procs <- MCProcs
  ProcOf <- MCProcOf
  Base <- MCBase
  Names <- MCNames
  Keys <- MCKeys
  KeyOf <- MCKeyOf
  MaxSuffix <- MCMaxSuffix
  Renamed <- MCRenamed
  First <- MCFirst
  None = None
  Old = Old
  MaybeOld = {"A"}
  w1 = w1
  w2 = w2
  l1 = l1
  l2 = l2
  r1 = r1
  i1 = i1
  i2 = i2
  i3 = i3
  i4 = i4
  Writers = {w1, w2}
  Appenders = {l1, l2}
  Readers = {r1}
  Casts <- MCCasts
  Numbers = {i1, i2, i3, i4}
  Pieces = 2
  MaxDeletes = 1

SPECIFICATION AllSpec

INVARIANTS
  OutcomeMatchesDisk
  FilesAreWhole

PROPERTIES
  NeverReplacesOwn
  NewNamesAreFree

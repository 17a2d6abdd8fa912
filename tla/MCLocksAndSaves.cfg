CONSTANTS
  Clients = {c1, c2, c3}
  None = None
  Timeout = 1
  t1 = t1
  u1 = u1
  proc1 = proc1
  proc2 = proc2
  Tasks <- MCTasks
  Procs <- MCProcs
  ProcOf <- MCProcOf
  Base <- MCBase
  Names <- MCNames
  Keys <- MCKeys
  KeyOf <- MCKeyOf
  MaxSuffix = 1
  Renamed <- MCRenamed
  First <- MCFirst
  Old = Old
  MaybeOld = {"a", "a_1"}

SPECIFICATION AllSpec

PROPERTIES
  EveryWaitEnds
  ImplementsMutex

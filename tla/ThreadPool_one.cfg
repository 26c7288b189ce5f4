SPECIFICATION FairSpec
CONSTANTS
  ThreadCount = 2
  Dispatchers = {d1}
  Jobs = {j1, j2, j3, j4}
  NoJob = NoJob
  WorkerMayFail = {j2}
  SlaveMayFail = {j1}
INVARIANTS
  TypeOK
  BusySlotIsOwned
  FreeMeansIdle
  NoUndefinedJoin
PROPERTIES
  SlotsComeBack
  ImplementsBoundedPool

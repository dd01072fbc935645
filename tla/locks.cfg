CONSTANTS
  LockDuration = 12
  Interval = 6
  CallTimeout = 4
  SafetyMargin = 2
  MaxLate = 2
  MaxOverlap = 30
  a = a
  b = b
  c = c
  d = d
  i = i
  j = j
  k = k
  l = l
  None = None
  Dead = Dead
  PgProc <- ThreeProcesses
  PgWorlds <- PgliteWorlds
  PaTask <- FourTasks
  PaHome <- TwoHomes
  PaWorlds <- PageWorlds
  RaCaller <- ThreeProcesses
  RaId <- FourIds
  RaCap = 2
  DbProc <- FourTasks
  PidOf <- OnePidReused
  HostOf <- TwoHosts
  DbTTL = 3
  Grace = 2
  DbWorlds <- RowWorlds
  SuSup <- TwoSupervisors
  FileOf <- OneFile
  SuTTL = 5
  MaxFailures = 3
  MaxCrashes = 1
  Faults <- SomeFail
SPECIFICATION LocksSpec
INVARIANT FreshWorkerHasLock
INVARIANT OverlapBounded
INVARIANT OneWriter
INVARIANT OneEditor
INVARIANT CapHolds
INVARIANT DbOneHolder
INVARIANT OneSupervisor
PROPERTY GivenUpIsReclaimed
PROPERTY BeatingHolderKeepsLock
PROPERTY LocksImplementLease
PROPERTY LocksOpen
CHECK_DEADLOCK FALSE

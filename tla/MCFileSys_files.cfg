\* Two processes.
CONSTANTS
  Procs = {p1, p2}
  First = p1
  Nobody = Nobody
  NINODES = 4
  NINODE = 3
  NFILE = 1
  NOFILE = 2
  Names = {"a", "b"}
  Requests <- AllRequests
  Starts <- AllStarts
  Second = p2
  MAXCALLS = 2
  MAXCRASH = 1
SPECIFICATION Spec
CHECK_DEADLOCK FALSE
INVARIANTS RefsExact DiskSound UsedStay NoLockCycle PanicsOnlyWhenFull

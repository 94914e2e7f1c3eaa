\* kill() of a process on its way to sleep. Two processes, a ring of two bytes, counters that wrap at four.
CONSTANTS
  Procs = {p1, p2}
  NoProc = NoProc
  Junk = Junk
  First = p1
  PIPESIZE = 2
  WRAP = 4
  Writes <- Strings
  MAXIO = 2
SPECIFICATION Spec
INVARIANT KilledAwake
CHECK_DEADLOCK FALSE

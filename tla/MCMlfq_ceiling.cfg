\* Level 0 does not expire; the process in slot 2 calls boostproc().
CONSTANTS
  CPUS = {c1}
  NoCpu = NoCpu
  NPROC = 3
  TOP = 2
  TimeSlice <- MCTimeSlice
  Slices <- MCSlices
  AgeFactor = 2
  Garbage = {1}
  Boosters = {2}
  Level0Expires = FALSE
  WAITCAP = 5
  MAXPRIO = 4
SPECIFICATION Spec
INVARIANT PriorityInRange
CONSTRAINT Bounded

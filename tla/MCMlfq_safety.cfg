\* Two CPUs; one process may call boostproc(); level 0 expires.
CONSTANTS
  CPUS = {c1, c2}
  NoCpu = NoCpu
  NPROC = 3
  TOP = 2
  TimeSlice <- MCTimeSlice
  Slices <- MCSlices
  AgeFactor = 1
  Garbage = {1}
  Boosters = {2}
  Level0Expires = TRUE
  WAITCAP = 3
  MAXPRIO = 9
SPECIFICATION Spec
SYMMETRY Symmetry
INVARIANTS OneCpuEach WaitBelowThreshold
CONSTRAINT Bounded

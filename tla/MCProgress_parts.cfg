\* Xfsck, MapReduce, Mlfq and Sh, one at a time.
CONSTANTS
  Scripts <- TypedScripts
  Found = {"echo", "cat"}
  Filters = {"cat"}
  Existing = {"cat"}
  NPROC = 6
  NOFILE = 5
  MAXARGS = 3
SPECIFICATION PartsSpec
CHECK_DEADLOCK FALSE
INVARIANTS VerdictRight WordsCounted ProgramsStart TurnsBounded
PROPERTIES PartsEnd NoStarvation

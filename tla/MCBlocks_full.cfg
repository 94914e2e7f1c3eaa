\* A disk of two data blocks, and three bits for them.
CONSTANTS
  Procs = {1, 2}
  Inums = {1, 2}
  Files = {1, 2}
  NBLOCKS = 2
  NBITS = 3
  BSIZE = 2
  NDIRECT = 1
  NINDIRECT = 2
  Sizes = {1, 3}
  Written <- Mark
  MAXCALLS = 5
  MAXCRASH = 0
SPECIFICATION Spec
CHECK_DEADLOCK FALSE
INVARIANT OnDisk

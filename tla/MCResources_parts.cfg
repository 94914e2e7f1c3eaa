\* Blocks, Memory, Umalloc, Console, Clock and Spinlock, one at a time.  Of
\* Blocks: four data blocks; a file has one itself and two in its table.
CONSTANTS
  p1 = p1
  p2 = p2
  p3 = p3
  Procs = {p2, p3}
  Inums = {1, 2}
  Files = {1, 2}
  NBLOCKS = 4
  NBITS = 4
  BSIZE = 2
  NDIRECT = 1
  NINDIRECT = 2
  Sizes = {1, 3}
  Written <- Own
  MAXCALLS = 5
  MAXCRASH = 1
SPECIFICATION SpecPart
SYMMETRY Symmetry
CHECK_DEADLOCK FALSE
INVARIANTS BlocksSound Durable NoLeak FramesExact PagesMatchSize
  FreeListExact NobodyOversleeps LocksSound
PROPERTIES ImplementsStore ImplementsSpaces ImplementsTerminal

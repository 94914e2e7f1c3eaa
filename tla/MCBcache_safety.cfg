\* Two processes that may hold two buffers each, two buffers, three sectors.
CONSTANTS
  Procs = {p1, p2}
  Nobody = Nobody
  NBUF = 2
  NSECTOR = 3
  Data <- Versions
  Zero = "old"
SPECIFICATION FairSpec
INVARIANTS OneBufferPerSector Coherent QueueExact NoLostBuffer
PROPERTIES ImplementsStore RequestsDone
CHECK_DEADLOCK FALSE

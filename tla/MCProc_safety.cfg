\* Two CPUs; three slots: init, a child and its child; pids up to 5.
CONSTANTS
  CPUS = {c1, c2}
  NPROC = 3
  MAXPID = 5
  NoCpu = NoCpu
SPECIFICATION Spec
SYMMETRY Symmetry
INVARIANTS OwnStack NoLostWakeup ParentAlive
PROPERTIES ZombieStaysDead ImplementsTree

\* One CPU, two slots.
CONSTANTS
  CPUS = {c1}
  NPROC = 2
  MAXPID = 3
  NoCpu = NoCpu
SPECIFICATION Spec
PROPERTY BornUnharmed

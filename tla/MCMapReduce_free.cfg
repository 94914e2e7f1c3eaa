\* Two mappers and one reducer.
CONSTANTS
  Files <- MCShortFiles
  Keys <- MCKeys
  NMAPPER = 2
  NREDUCER = 1
  Partition <- OneReducer
SPECIFICATION Spec
INVARIANT NodesFreed
CHECK_DEADLOCK FALSE

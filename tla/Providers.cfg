\* Two operations at a time, two versions of the configuration, four instances and
\* two starts: an operation can overlap with one that is itself overlapped.
SPECIFICATION ProvidersSpec
CONSTANTS
  Operation = {o1, o2}
  Version = {v1, v2}
  MaxInstances = 4
  MaxRestarts = 2
  None = None
INVARIANTS
  OwnedOnce
  InStep
CHECK_DEADLOCK FALSE

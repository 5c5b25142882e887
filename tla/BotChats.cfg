\* Three messages and one erasing command at a time over two conversation names, one crash.
SPECIFICATION ChatsSpec
CONSTANTS
  Name = {default, work}
  Default = default
  None = None
  Chat = {m1, m2, m3}
  Eraser = {x1}
  MaxCrashes = 1
SYMMETRY Symmetry
INVARIANTS
  OneAnswersToEachName
  Isolated
  LossNeedsOverlap
  ErasedStaysErased
  FreshStartsEmpty
CHECK_DEADLOCK FALSE

\* Two declared loops compete with the task for two slots, one of which may be
\* the definition's: a claimed task waits, but not as long as its lease lasts.
SPECIFICATION FairSpec
CONSTANTS
  Worker = {w1, w2}
  Task = {t1}
  MaxAttempts = 2
  Slots = 2
  TaskSlots = 1
  Loops = {own, other}
  OwnLoops = {own}
  Busy = {w2}
  Cancellers = {w1}
  MaxStops = 2
  HeartbeatsOnTime = TRUE
  ClaimsRaiseAlone = TRUE
  WaitsAreShort = TRUE
  StableOwner = FALSE
  NoOwner = NoOwner
  Departed = Departed
  NotListed = NotListed
INVARIANTS
  OneExecutor
  LeasedIffRunning
PROPERTIES
  KeepsPromise
  EventuallySettled
CHECK_DEADLOCK FALSE

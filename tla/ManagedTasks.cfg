\* One reload, one cancellation and one retry anywhere in the life of the scheduler.
SPECIFICATION FairSpec
CONSTANTS
  Task = {t1}
  Coro = {c1, c2, c3, c4}
  MaxReloads = 1
  MaxRetries = 1
  None = None

  
PROPERTY Quiesces
CHECK_DEADLOCK FALSE

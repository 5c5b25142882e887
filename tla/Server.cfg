\* Three events in responses of up to two, an update by websocket or webhook, and
\* up to three faults, of which a shutdown takes two.
SPECIFICATION ServerFairSpec
CONSTANTS
  MaxEvent = 3
  Limit = 2
  MaxFaults = 3
  Update = {u1}
INVARIANTS
  InTurn
  DuplicatesNeedFaults
  ShutdownIsOrderly
PROPERTIES
  EventuallyAttempted
